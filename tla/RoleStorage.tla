----------------------------- MODULE RoleStorage -----------------------------
(***************************************************************************)
(* Where a role is kept: the MySQL table `role`, the copy on Redis while   *)
(* it is loaded, and the handler and timer fibers of the monitors that     *)
(* move it between the two (monitor/static/role_service.cpp).  The logic   *)
(* server is seen from outside: it reads the copy on Redis at login and    *)
(* writes it back as long as the role is online.  A query is launched,     *)
(* executed by the database, and its result is used, at three different    *)
(* moments; other fibers and processes act in between.                     *)
(***************************************************************************)
EXTENDS Naturals

CONSTANTS
  Monitors,    \* monitor processes on one MySQL database
  HomeOf,      \* their home: host name and database URI
  Fibers,      \* handler fibers, over all monitors (a bound)
  Roles,       \* role IDs
  Users,       \* user names
  TTL,         \* redis_role_ttl in rounds of the save timer (220 s): 900 s are 4
  MaxVersion,  \* how often a role is saved to Redis (a bound)
  Ops,         \* what monitors are doing in this instance
  InOrder,     \* fibers of a process resume in the order their results came in
  Faults,      \* what goes wrong in this instance
  None         \* nil, no row, nothing

Homes == {HomeOf[m] : m \in Monitors}
Workers == Fibers \cup Monitors  \* the save timer of a monitor is its own fiber

\* A version stands for everything a role has become; every save is a new one.
Versions == 0..MaxVersion
Records == [ver : Versions, user : Users, home : Homes]
Rows == [ver : Versions, user : Users]

ASSUME StorageAssumption ==
  /\ MaxVersion \in Nat /\ TTL \in Nat /\ InOrder \in BOOLEAN
  /\ Fibers \cap Monitors = {}
  /\ None \notin Rows \cup Records
  /\ Ops \subseteq {"create", "load", "unload", "flush", "save"}
  /\ Faults \subseteq {"monitor_crash", "query_error", "result_lost"}

VARIABLES
  mysql,         \* roles: the row, or None
  redis,         \* roles: the record on Redis, or None
  role_records,  \* monitors: the roles each keeps track of
  db_ready,      \* monitors: the table has been checked
  save_buckets,  \* monitors: roles arranged for writing, and not visited yet
  proc,          \* workers: the query a fiber waits for
  ahead,         \* workers: the fibers that are to resume before this one
  online,        \* roles: the record the logic server works on, or None
  saved,         \* history, roles: the version that was saved last
  age,           \* roles: save cycles begun since Redis was told to keep the record
  late           \* fibers that were running when the current save cycle began

vars == <<mysql, redis, role_records, db_ready, save_buckets, proc, ahead,
          online, saved, age, late>>
tracking == <<role_records, db_ready, save_buckets>>
world == <<online, saved, age>>

Queries == {"insert", "select", "setnx", "get", "update", "delete"}

\* `record` is what the fiber holds or asks with, `result` is what comes back.
Idle == [op |-> "idle", monitor |-> None, role |-> None, query |-> "none",
         executed |-> FALSE, record |-> None, result |-> None]
Calls == [op : {"create", "load", "unload", "flush", "save"}, monitor : Monitors,
          role : Roles, query : Queries, executed : BOOLEAN,
          record : Records \cup {None}, result : Records \cup {None}]

Init ==
  /\ mysql = [r \in Roles |-> None]
  /\ redis = [r \in Roles |-> None]
  /\ role_records = [m \in Monitors |-> {}]
  /\ db_ready = [m \in Monitors |-> FALSE]
  /\ save_buckets = [m \in Monitors |-> {}]
  /\ proc = [w \in Workers |-> Idle]
  /\ ahead = [w \in Workers |-> {}]
  /\ online = [r \in Roles |-> None]
  /\ saved = [r \in Roles |-> 0]
  /\ age = [r \in Roles |-> 0]
  /\ late = {}

Busy(w) == proc[w].op # "idle"
Waits(w, query) == Busy(w) /\ proc[w].query = query /\ ~proc[w].executed
Returned(w, queries) == Busy(w) /\ proc[w].query \in queries /\ proc[w].executed /\ ahead[w] = {}
-----------------------------------------------------------------------------
\* Requests.  Every handler checks db_ready first.
Begin(w, m, r, op, query, record) ==
  /\ op \in Ops
  /\ ~Busy(w)
  /\ db_ready[m]
  /\ proc' = [proc EXCEPT ![w] = [op |-> op, monitor |-> m, role |-> r, query |-> query,
                                  executed |-> FALSE, record |-> record, result |-> None]]
  /\ UNCHANGED <<mysql, redis, role_records, db_ready, ahead, world, late>>

RoleCreate(w, m, r, u) ==
  /\ Begin(w, m, r, "create", "insert", [ver |-> 0, user |-> u, home |-> HomeOf[m]])
  /\ UNCHANGED save_buckets
RoleLoad(w, m, r) == Begin(w, m, r, "load", "select", None) /\ UNCHANGED save_buckets
RoleUnload(w, m, r) == Begin(w, m, r, "unload", "get", None) /\ UNCHANGED save_buckets
RoleFlush(w, m, r) == Begin(w, m, r, "flush", "get", None) /\ UNCHANGED save_buckets

\* The save timer.  The first tick checks the table.
CheckTable(m) ==
  /\ ~db_ready[m]
  /\ db_ready' = [db_ready EXCEPT ![m] = TRUE]
  /\ UNCHANGED <<mysql, redis, role_records, save_buckets, proc, ahead, world, late>>

\* Fault: the roles are arranged, then dropped.
ArrangeNothing(m) ==
  /\ "save" \in Ops /\ db_ready[m] /\ ~Busy(m) /\ save_buckets[m] = {} /\ late = {}
  /\ age' = [r \in Roles |-> IF age[r] < TTL THEN age[r] + 1 ELSE TTL]
  /\ late' = {w \in Fibers : Busy(w)}
  /\ UNCHANGED <<mysql, redis, tracking, proc, ahead, online, saved>>

\* All roles on the list are arranged for writing when the last round is over.
\* No request is outstanding for a whole round, which takes 220 seconds.
Arrange(m) ==
  /\ "save" \in Ops /\ db_ready[m] /\ ~Busy(m) /\ save_buckets[m] = {} /\ late = {}
  /\ save_buckets' = [save_buckets EXCEPT ![m] = role_records[m]]
  /\ age' = [r \in Roles |-> IF age[r] < TTL THEN age[r] + 1 ELSE TTL]
  /\ late' = {w \in Fibers : Busy(w)}
  /\ UNCHANGED <<mysql, redis, role_records, db_ready, proc, ahead, online, saved>>

SaveNext(m, r) ==
  /\ r \in save_buckets[m]
  /\ Begin(m, m, r, "save", "get", None)
  /\ save_buckets' = [save_buckets EXCEPT ![m] = @ \ {r}]
-----------------------------------------------------------------------------
\* The databases execute queries.
Earlier(v, w) == Busy(v) /\ proc[v].executed /\ proc[v].monitor = proc[w].monitor

Return(w, result) ==
  /\ proc' = [proc EXCEPT ![w] = [@ EXCEPT !.executed = TRUE, !.result = result]]
  /\ ahead' = [ahead EXCEPT ![w] = IF InOrder THEN {v \in Workers : Earlier(v, w)} ELSE {}]
  /\ UNCHANGED <<tracking, online, saved, late>>
Executed(w, result) == Return(w, result) /\ UNCHANGED age

InsertIgnore(w) ==
  LET r == proc[w].role  new == proc[w].record
  IN  /\ Waits(w, "insert")
      /\ mysql' = [mysql EXCEPT ![r] = IF @ = None THEN [ver |-> new.ver, user |-> new.user] ELSE @]
      /\ Executed(w, IF mysql[r] = None THEN new ELSE None)
      /\ UNCHANGED redis

\* Fault: the home is not filled in.
SelectHomeless(w) ==
  LET row == mysql[proc[w].role]
      user == IF proc[w].op = "create" THEN proc[w].record.user ELSE row.user
      found == row # None /\ row.user = user
  IN  /\ Waits(w, "select")
      /\ Executed(w, IF found THEN [ver |-> row.ver, user |-> user] ELSE None)
      /\ UNCHANGED <<mysql, redis>>

\* Fault: a creation takes over a row of any user.
SelectAnyUser(w) ==
  LET row == mysql[proc[w].role]
      user == IF proc[w].op = "create" THEN proc[w].record.user ELSE row.user
  IN  /\ Waits(w, "select")
      /\ Executed(w, IF row # None THEN [ver |-> row.ver, user |-> user,
                                         home |-> HomeOf[proc[w].monitor]] ELSE None)
      /\ UNCHANGED <<mysql, redis>>

\* A creation selects by user name, too.  The monitor's own home is filled in.
Select(w) ==
  LET row == mysql[proc[w].role]
      user == IF proc[w].op = "create" THEN proc[w].record.user ELSE row.user
      found == row # None /\ row.user = user
  IN  /\ Waits(w, "select")
      /\ Executed(w, IF found THEN [ver |-> row.ver, user |-> user,
                                    home |-> HomeOf[proc[w].monitor]] ELSE None)
      /\ UNCHANGED <<mysql, redis>>

\* Fault: SET without NX.
SetAlways(w) ==
  LET r == proc[w].role
  IN  /\ Waits(w, "setnx")
      /\ redis' = [redis EXCEPT ![r] = proc[w].record]
      /\ Return(w, proc[w].record)
      /\ age' = [age EXCEPT ![r] = 0]
      /\ UNCHANGED mysql

\* SET NX GET: a record that is there already is kept, and returned.
SetIfAbsent(w) ==
  LET r == proc[w].role  kept == IF redis[r] = None THEN proc[w].record ELSE redis[r]
  IN  /\ Waits(w, "setnx")
      /\ redis' = [redis EXCEPT ![r] = kept]
      /\ Return(w, kept)
      /\ age' = [age EXCEPT ![r] = IF redis[r] = None THEN 0 ELSE @]
      /\ UNCHANGED mysql

Get(w) ==
  /\ Waits(w, "get")
  /\ Executed(w, redis[proc[w].role])
  /\ UNCHANGED <<mysql, redis>>

Update(w) ==
  LET r == proc[w].role  new == proc[w].record
  IN  /\ Waits(w, "update")
      /\ mysql' = [mysql EXCEPT ![r] = IF @ = None THEN None ELSE [ver |-> new.ver, user |-> new.user]]
      /\ Executed(w, None)
      /\ UNCHANGED redis

DeleteIfUnchanged(w) ==
  LET r == proc[w].role  left == IF redis[r] = proc[w].record THEN None ELSE redis[r]
  IN  /\ Waits(w, "delete")
      /\ redis' = [redis EXCEPT ![r] = left]
      /\ Executed(w, left)
      /\ UNCHANGED mysql
-----------------------------------------------------------------------------
\* Fibers resume.
Go(w) == ahead' = [v \in Workers |-> ahead[v] \ {w}]
Ask(w, query, record) ==
  /\ proc' = [proc EXCEPT ![w] = [@ EXCEPT !.query = query, !.executed = FALSE,
                                           !.record = record, !.result = None]]
  /\ Go(w)
  /\ UNCHANGED late
Finish(w) ==
  /\ proc' = [proc EXCEPT ![w] = Idle]
  /\ Go(w)
  /\ late' = late \ {w}
Track(w) == role_records' = [role_records EXCEPT ![proc[w].monitor] = @ \cup {proc[w].role}]
Forget(w) == role_records' = [role_records EXCEPT ![proc[w].monitor] = @ \ {proc[w].role}]

\* do_star_role_create: a row that is there already may still be this user's own.
Inserted(w) ==
  /\ Returned(w, {"insert"})
  /\ IF proc[w].result = None THEN Ask(w, "select", proc[w].record)
                              ELSE Ask(w, "setnx", proc[w].result)
  /\ UNCHANGED <<mysql, redis, tracking, world>>

\* do_star_role_create, do_star_role_load: gs_roid_conflict or gs_roid_not_found,
\* or the row goes to Redis.
Selected(w) ==
  /\ Returned(w, {"select"})
  /\ IF proc[w].result = None THEN Finish(w) ELSE Ask(w, "setnx", proc[w].result)
  /\ UNCHANGED <<mysql, redis, tracking, world>>

\* Fault: the role is not put on the list.
LoadedUntracked(w) ==
  /\ Returned(w, {"setnx"})
  /\ Finish(w)
  /\ UNCHANGED <<mysql, redis, tracking, world>>

Loaded(w) ==
  /\ Returned(w, {"setnx"})
  /\ Track(w)
  /\ Finish(w)
  /\ UNCHANGED <<mysql, redis, db_ready, save_buckets, world>>

\* do_star_role_unload, do_star_role_flush and the save timer, with the value on
\* Redis.  Nil ends it; so does, in a handler, a record of another home.
Fetched(w) ==
  LET got == proc[w].result
      foreign == proc[w].op # "save" /\ got.home # HomeOf[proc[w].monitor]
  IN  /\ Returned(w, {"get", "delete"})
      /\ IF got = None THEN Forget(w) /\ Finish(w)
         ELSE IF foreign THEN UNCHANGED role_records /\ Finish(w)
         ELSE /\ Ask(w, "update", got)
              /\ IF proc[w].op = "unload" THEN UNCHANGED role_records ELSE Track(w)
      /\ UNCHANGED <<mysql, redis, db_ready, save_buckets, world>>

\* Unloading goes on until the record that was written is the one deleted.
Updated(w) ==
  /\ Returned(w, {"update"})
  /\ IF proc[w].op = "unload" THEN Ask(w, "delete", proc[w].record) ELSE Finish(w)
  /\ UNCHANGED <<mysql, redis, tracking, world>>
-----------------------------------------------------------------------------
\* The logic server: a role is hydrated from Redis (GETEX) ...
Login(r) ==
  /\ online[r] = None /\ redis[r] # None
  /\ online' = [online EXCEPT ![r] = redis[r]]
  /\ age' = [age EXCEPT ![r] = 0]
  /\ UNCHANGED <<mysql, redis, tracking, proc, ahead, saved, late>>

\* ... changes and is written back (SET), by the save timer or at logout ...
Save(r) ==
  /\ online[r] # None /\ saved[r] < MaxVersion
  /\ saved' = [saved EXCEPT ![r] = @ + 1]
  /\ online' = [online EXCEPT ![r] = [@ EXCEPT !.ver = saved[r] + 1]]
  /\ redis' = [redis EXCEPT ![r] = online'[r]]
  /\ age' = [age EXCEPT ![r] = 0]
  /\ UNCHANGED <<mysql, tracking, proc, ahead, late>>

\* ... until it logs out, or its server is gone.
Leave(r) ==
  /\ online[r] # None
  /\ online' = [online EXCEPT ![r] = None]
  /\ UNCHANGED <<mysql, redis, tracking, proc, ahead, saved, age, late>>

\* An online role is saved every 60 seconds.  A record that nobody renews lives
\* on until TTL rounds of the save timer have begun.
Expire(r) ==
  /\ redis[r] # None /\ online[r] = None /\ age[r] = TTL
  /\ redis' = [redis EXCEPT ![r] = None]
  /\ UNCHANGED <<mysql, tracking, proc, ahead, world, late>>
-----------------------------------------------------------------------------
\* An error of a query is thrown when its result is looked at, which of an UPDATE is
\* never done.  In the save timer the rest of the bucket goes with the fiber, to be
\* arranged again in the next round.
Throws(w) ==
  /\ Finish(w)
  /\ \E rest \in SUBSET save_buckets[proc[w].monitor] :
       save_buckets' = [save_buckets EXCEPT ![proc[w].monitor] =
                          IF proc[w].op = "save" THEN rest ELSE @]
  /\ UNCHANGED <<mysql, redis, role_records, db_ready, world>>

\* The database refuses a query, or never gets it.
QueryFails(w) ==
  /\ "query_error" \in Faults
  /\ Busy(w) /\ ~proc[w].executed /\ proc[w].query # "update"
  /\ Throws(w)

\* The database has executed a query, and the connection is lost before its result is
\* there: nothing that was to follow is done.
ResultLost(w) ==
  /\ "result_lost" \in Faults
  /\ Busy(w) /\ proc[w].executed /\ proc[w].query # "update"
  /\ Throws(w)

\* An UPDATE that fails looks like one that was done, and unloading goes on.
UpdateFails(w) ==
  /\ "query_error" \in Faults
  /\ Waits(w, "update")
  /\ Executed(w, None)
  /\ UNCHANGED <<mysql, redis>>

\* A monitor dies and is started again: what it knew is gone.
MonitorCrash(m) ==
  /\ "monitor_crash" \in Faults
  /\ role_records' = [role_records EXCEPT ![m] = {}]
  /\ db_ready' = [db_ready EXCEPT ![m] = FALSE]
  /\ save_buckets' = [save_buckets EXCEPT ![m] = {}]
  /\ proc' = [w \in Workers |-> IF proc[w].monitor = m THEN Idle ELSE proc[w]]
  /\ ahead' = [w \in Workers |-> IF proc[w].monitor = m THEN {} ELSE ahead[w]]
  /\ late' = {w \in late : proc[w].monitor # m}
  /\ UNCHANGED <<mysql, redis, world>>
-----------------------------------------------------------------------------
Request ==
  \E w \in Fibers, m \in Monitors, r \in Roles :
    \/ \E u \in Users : RoleCreate(w, m, r, u)
    \/ RoleLoad(w, m, r) \/ RoleUnload(w, m, r) \/ RoleFlush(w, m, r)
Timer == \E m \in Monitors : CheckTable(m) \/ Arrange(m) \/ \E r \in Roles : SaveNext(m, r)
Execute(w) == \/ InsertIgnore(w) \/ Select(w) \/ SetIfAbsent(w)
              \/ Get(w) \/ Update(w) \/ DeleteIfUnchanged(w)
Resume(w) == Inserted(w) \/ Selected(w) \/ Loaded(w) \/ Fetched(w) \/ Updated(w)
Logic == \E r \in Roles : Login(r) \/ Save(r) \/ Leave(r) \/ Expire(r)
Fault == \/ \E w \in Workers : QueryFails(w) \/ ResultLost(w) \/ UpdateFails(w)
         \/ \E m \in Monitors : MonitorCrash(m)

Next == Request \/ Timer \/ (\E w \in Workers : Execute(w) \/ Resume(w)) \/ Logic \/ Fault

Spec == Init /\ [][Next]_vars

\* The save timer goes on, and queries return.
Fairness ==
  /\ \A m \in Monitors : /\ WF_vars(CheckTable(m)) /\ WF_vars(Arrange(m))
                         /\ \A r \in Roles : WF_vars(SaveNext(m, r))
  /\ \A w \in Workers : WF_vars(Execute(w)) /\ WF_vars(Resume(w))

FairSpec == Spec /\ Fairness
-----------------------------------------------------------------------------
\* Types; a fiber that asks with a record has one, and so on.
TypeOK ==
  /\ mysql \in [Roles -> Rows \cup {None}]
  /\ redis \in [Roles -> Records \cup {None}]
  /\ role_records \in [Monitors -> SUBSET Roles]
  /\ db_ready \in [Monitors -> BOOLEAN]
  /\ save_buckets \in [Monitors -> SUBSET Roles]
  /\ proc \in [Workers -> Calls \cup {Idle}]
  /\ ahead \in [Workers -> SUBSET Workers]
  /\ online \in [Roles -> Records \cup {None}]
  /\ saved \in [Roles -> Versions]
  /\ age \in [Roles -> 0..TTL]
  /\ late \subseteq Fibers

\* A copy x of role r is the copy of a row of the same user.
CopyOf(r, x) == x # None => mysql[r] # None /\ mysql[r].user = x.user

\* A role never changes hands: whoever creates it, whichever copies of it are
\* written back and however late, Redis, the logic server and MySQL name the user
\* whose creation inserted the row.
OwnersAgree == \A r \in Roles : CopyOf(r, redis[r]) /\ CopyOf(r, online[r])

\* A fiber asks to write only what it has, ...
AsksWithRecord ==
  \A w \in Workers : Busy(w) /\ proc[w].query \in {"insert", "setnx", "update", "delete"} =>
    proc[w].record # None

\* ... and what it has got, or is about to write, is a copy of the row, too.
FibersAgree ==
  \A w \in Workers :
    /\ CopyOf(proc[w].role, proc[w].result)
    /\ proc[w].query \in {"setnx", "update", "delete"} => CopyOf(proc[w].role, proc[w].record)

\* The inductive invariant behind the owner of a role.
Inv == TypeOK /\ AsksWithRecord /\ OwnersAgree /\ FibersAgree

\* Nothing deletes a row or changes its owner.
OwnerStays ==
  [][\A r \in Roles : mysql[r] # None => mysql'[r] # None /\ mysql'[r].user = mysql[r].user]_vars

\* What the next login would find: the record on Redis, or else the row.
Current(r) == IF redis[r] # None THEN redis[r].ver ELSE IF mysql[r] # None THEN mysql[r].ver ELSE 0

\* No save is lost: whatever creations, loads, flushes and snapshots are going on,
\* late ones included, and whenever the record on Redis expires, the next login
\* finds what was saved last.
NothingLost == \A r \in Roles : Current(r) = saved[r]

\* Unloading deletes a record from Redis only if MySQL holds that same version.
DeletedSafely ==
  [][\A w \in Workers, r \in Roles :
       DeleteIfUnchanged(w) /\ redis[r] # None /\ redis'[r] = None =>
         mysql[r].ver = redis[r].ver]_vars

\* A role that is loaded is on the list of a monitor, which therefore saves it.
Tracked ==
  \A r \in Roles : redis[r] # None =>
    \/ \E m \in Monitors : r \in role_records[m]
    \/ \E w \in Workers : Busy(w) /\ proc[w].role = r

\* A saved version of a role that a monitor keeps track of gets into MySQL, or is
\* followed by a newer one, unless the monitor stops keeping track of it.
SavesReachMySQL ==
  \A r \in Roles, m \in Monitors, v \in Versions :
    saved[r] = v /\ r \in role_records[m] ~>
      r \notin role_records[m] \/ (mysql[r] # None /\ mysql[r].ver >= v)
-----------------------------------------------------------------------------
\* What Tracked rests on.  A fiber that has found nothing on Redis is going to forget
\* the role.  A monitor is sure of a role if it has it on its list and has no such
\* fiber, or if a fiber in `who` that is going to put it there resumes after them.
\* The logic server renews the record of a role that is online.
FoundNothing(w, m, r) ==
  /\ Busy(w) /\ proc[w].monitor = m /\ proc[w].role = r
  /\ proc[w].query = "get" /\ proc[w].executed /\ proc[w].result = None
WillTrack(w, m, r) ==
  /\ Busy(w) /\ proc[w].monitor = m /\ proc[w].role = r
  /\ proc[w].query = "setnx" /\ proc[w].executed
SureOf(m, r, who) ==
  \/ r \in role_records[m] /\ \A w \in Workers : ~FoundNothing(w, m, r)
  \/ \E v \in who : WillTrack(v, m, r) /\ \A w \in Workers : FoundNothing(w, m, r) => w \in ahead[v]
OnlineOnRedis == \A r \in Roles : online[r] # None => redis[r] # None
SomeoneIsSure == \A r \in Roles : redis[r] # None => \E m \in Monitors : SureOf(m, r, Workers)
NoUnloading == \A w \in Workers : Busy(w) => proc[w].op # "unload" /\ proc[w].query # "delete"

TrackInv == Inv /\ OnlineOnRedis /\ NoUnloading /\ SomeoneIsSure

\* What NothingLost rests on.  The copies that were made before the last save are the
\* snapshots on their way to MySQL and the rows on their way to Redis.
OldSnapshot(w, r) ==
  /\ Busy(w) /\ proc[w].role = r
  /\ \/ proc[w].query = "get" /\ proc[w].executed /\ proc[w].result # None /\ proc[w].result.ver # saved[r]
     \/ proc[w].query = "update" /\ ~proc[w].executed /\ proc[w].record.ver # saved[r]
OldRow(w, r) ==
  /\ Busy(w) /\ proc[w].role = r
  /\ \/ proc[w].query \in {"insert", "select"} /\ proc[w].executed /\ proc[w].result # None /\ proc[w].result.ver # saved[r]
     \/ proc[w].query = "setnx" /\ ~proc[w].executed /\ proc[w].record.ver # saved[r]
InMySQL(r) == mysql[r] # None /\ mysql[r].ver = saved[r]

\* Redis and the logic server have what was saved last; without a record on Redis
\* MySQL has it, and there is no old copy.
LatestKept(r) ==
  /\ redis[r] # None => redis[r].ver = saved[r]
  /\ online[r] # None => online[r].ver = saved[r]
  /\ mysql[r] = None => saved[r] = 0
  /\ redis[r] = None => /\ mysql[r] = None \/ InMySQL(r)
                        /\ \A w \in Workers : ~OldSnapshot(w, r) /\ ~OldRow(w, r)

\* The save timer has still to write the role, or to read it.
SaverGoes(m, r) ==
  \/ r \in save_buckets[m]
  \/ /\ Busy(m) /\ proc[m].role = r
     /\ proc[m].query = "get" \/ (proc[m].query = "update" /\ ~proc[m].executed)
SaversSave ==
  \A m \in Monitors : Busy(m) =>
    proc[m].monitor = m /\ proc[m].op = "save" /\ proc[m].query \in {"get", "update"}
CreationsAreNew ==
  \A w \in Workers : Busy(w) /\ proc[w].query = "insert" => proc[w].record.ver = 0

\* A record that nobody has renewed since a cycle of the save timer began, or two,
\* three, four of them: the fibers of that time are over, the timer writes the role,
\* it has written it, nobody is going to put an older row on Redis.
AfterCycle1(r) ==
  /\ \E m \in Monitors : SureOf(m, r, late)
  /\ \A w \in Workers : OldSnapshot(w, r) => w \in late
AfterCycle2(r) ==
  /\ \E m \in Monitors : SureOf(m, r, {}) /\ (SaverGoes(m, r) \/ InMySQL(r))
  /\ \A w \in Workers : ~OldSnapshot(w, r)
AfterCycle3(r) == InMySQL(r) /\ \A w \in Workers : OldRow(w, r) => w \in late
AfterCycle4(r) == \A w \in Workers : ~OldRow(w, r)

Lasting(r) ==
  /\ LatestKept(r)
  /\ redis[r] # None => /\ age[r] >= 1 => AfterCycle1(r)
                        /\ age[r] >= 2 => AfterCycle2(r)
                        /\ age[r] >= 3 => AfterCycle3(r)
                        /\ age[r] >= 4 => AfterCycle4(r)

LastInv == TrackInv /\ SaversSave /\ CreationsAreNew /\ \A r \in Roles : Lasting(r)
=============================================================================
