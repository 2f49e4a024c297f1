# k32, specified

k32 is a server framework for online games: *agent* processes hold the
connections of clients, *logic* processes run the roles that are online, and
*monitor* processes move roles between MySQL and Redis. They find each other on
Redis and talk through a mesh of WebSocket requests. These TLA+ modules model
that code, TLC checks them on small instances, and TLAPS proves theorems about
them for every instance.

## The system

Every process is single-threaded as far as its own data are concerned: handlers,
timer callbacks and session events run in cooperative fibers, and a fiber gives
way only at `fiber.yield(future)`. What a fiber does between two yields is one
atomic action of a model; every yield is a place where other fibers, other
processes and the databases act. A query has three moments, which the models
keep apart: it is launched, the database executes it, its fiber resumes.

| Component | Source | State | Operations | Talks to |
|---|---|---|---|---|
| Service mesh | `common/static/service.cpp`, `common/fiber/service_future.*` | `remote_services` (copy of the records on Redis), `remote_connections` (a weak session and a list of weak futures per peer), the responses of each future | `launch`, request and response tasks, local and remote request fibers, session callbacks, publish and subscribe timers, `reload` | every component, Redis |
| Role storage | `monitor/static/role_service.cpp` | MySQL table `role`, records `app/role/<roid>` on Redis with a TTL, `role_records`, `save_buckets`, `db_ready` | `*role/list`, `create`, `load`, `unload`, `flush`, the save timer | agents and logic servers by requests, logic servers through Redis |
| Online roles | `logic/static/role_service.cpp`, `logic/hydrated/*` | `hyd_roles` (a Role object per role ID), agent and monitor of each, `save_buckets` | `*role/login`, `logout`, `reconnect`, `disconnect`, `on_client_request`, the save timer, the every-second timer | Redis, agents (`*user/check_role`), monitors (`*role/flush`) |
| User sessions | `agent/static/user_service.cpp` | `connections`, `users`, `app/user/<name>` on Redis, table `user` | session events, `+role/login`, `+role/logout`, `*user/...`, ping and check timers | clients, Redis, MySQL, monitors, logic servers, other agents |
| Nicknames | `agent/static/user_service.cpp`, `monitor/static/role_service.cpp` | table `nickname` of the user database, table `role` of the default one, the roles listed in `connections` | `+role/create`, `*nickname/acquire`, `*nickname/release`, `*role/create` | clients, two databases, monitors |
| HTTP requestor | `common/static/http_requestor.cpp`, `common/fiber/http_future.*` | `connections_by_host`: a weak session for http and one for https, and `request_queue` | request, response, close event; a caller that drops its future | the outside |
| Virtual clock | `common/static/clock.cpp` | an offset | set, read | logic |

What is hard in it:

* *Interleaving at yields.* State is read before a yield and used after it: a
  copy of a map entry, a record from Redis, the list a future waits on.
* *Late events.* The close event of an old session, an answer, a stale snapshot
  on its way to MySQL come after what they are about has been replaced.
* *Two stores.* A role is in MySQL, on Redis and in memory; each copy may be
  older than another, and records on Redis expire.
* *Failure.* Sessions are lost, peers crash or are removed from Redis, queries
  throw, monitors and agents die; a step of several is done, its answer is lost, and
  the whole is tried again.
* *Order as the only link.* An HTTP answer does not name its request.
* *No timeouts.* A fiber that waits for a future waits until all responses are
  set; each path must set them.

What makes each component correct:

* mesh: no launched future is forgotten, it is completed exactly when all of its
  responses are in, an answer is put in the place of its own request, and what
  has been received is not taken back;
* storage: a role never changes its owner, the next login finds what was saved
  last, a record leaves Redis only when MySQL has it, a loaded role is on some
  monitor's list and gets saved;
* online roles: one object of a role at a time, found until it is logged out and
  never again; nothing that happened to it is lost; a role whose client is gone
  leaves;
* users: one session per user over all agents, one role per session, on one
  logic server, and none for a user who has left;
* nicknames: a role has the ID, the user and the nickname that were acquired
  together, a nickname has one role, nobody has more roles than allowed, and trying
  again after a failure ends in the role;
* HTTP: an answer goes to the request it answers, and everybody who waits is woken.

The full list of hazards, each at its line and with the properties that would
catch it, is in `PROJECT.json`.

## Modules

| Module | What it is |
|---|---|
| `ServiceRpc` | the mesh as one process sees it: records, sessions, futures and each request on its way |
| `RpcFuture` | what `launch` promises, without sessions, tasks and timers; `ServiceRpc` implements it |
| `RoleStorage` | monitors, MySQL and Redis; the logic server seen from outside |
| `LogicRoles` | one logic server; Redis and the agents seen from outside |
| `OnlineRoles` | what a logic server promises to agents, without objects, fibers and queries; `LogicRoles` implements it |
| `UserSessions` | the agents of a zone and the user records on Redis; of logic servers, which roles are online there |
| `Nicknames` | an agent's `+role/create`, the tables `nickname` and `role`, a monitor's `*role/create`; sessions as far as they list roles |
| `HttpRequestor` | the HTTP connections of one process, and servers that answer in order |
| `ServiceRpc_proofs`, `RoleStorage_proofs`, `LogicRoles_proofs`, `UserSessions_proofs`, `Nicknames_proofs`, `HttpRequestor_proofs` | theorems about these modules |
| `RpcFuture_proofs`, `OnlineRoles_proofs` | that `ServiceRpc` implements `RpcFuture`, and `LogicRoles` implements `OnlineRoles` |
| `MCServiceRpc`, `MCRoleStorage`, `MCLogicRoles`, `MCUserSessions`, `MCNicknames`, `MCHttpRequestor` | instances for TLC |

An operator whose comment begins with *Fault* is a plausible bug of the operation
after it. It is used by no specification; putting it in that operation's place
shows that the properties notice.

### ServiceRpc

`conn[p]` is an entry of `remote_connections`, `sess[s]` a WebSocket client
session, `resp[f][t]` an element of `mf_responses`, `done[f]` the completion of
the future. A request UUID is random and fresh, so the pair of future and target
stands for it. `req[r]` is where the request is: in its send task, on the wire, in
the peer's fiber, in the response task, on the wire back. `ServerDown` and
`ConnectionLost` are the two ends of a session going away; they are separate
because the client learns of it later, and `CloseEvent` is separate because the
event is queued behind others. `RefreshServices` is the subscribe timer: it may
install any result of a scan at any time, since records come and go on Redis and
the scan itself is a wait before which the callback reads nothing. A handler is
one step: its own waits do not touch the mesh. Futures and sessions are numbered and
taken in that order: nothing in the code tells fresh ones apart, and TLC need not
consider their permutations.

### RoleStorage

A fiber of a monitor is an element of `proc`: the query it waits for, whether the
database has executed it, and what it has in hand. The actions in the section
"Requests" launch a first query, those in "The databases execute queries" execute
one, those in "Fibers resume" are the code between two yields. `Fetched` serves
unload, flush and the save timer, which do the same with a record from Redis up
to the check of its home, which the save timer does not make. A record is a
version number, an owner and a home; a version stands for everything a role has
become. Queries fail in three ways. `QueryFails` is one that the database refuses, and
`ResultLost` one that it has executed and whose result is an error: both throw where
the fiber looks at the result, so that an executed SET NX may leave a record which
nobody lists. `UpdateFails` is an UPDATE, at whose outcome
`do_store_role_record_into_mysql` never looks: the fiber goes on as if it were done,
and an unload goes on to the deletion. `ahead` orders the fibers of a process when
`InOrder` holds: a fiber resumes after those whose results came earlier. `age` counts the save cycles that
have begun since the TTL of a record was renewed, and `late` keeps a request from
being outstanding for a whole cycle of 220 seconds (twenty buckets, one per
11 s tick).

### LogicRoles

`hyd_roles` maps a role to an object of `obj`; an object lives as long as the map
or a fiber points to it (`Free`). `phase` is where it is in its life: `on_login`
makes it "in", `on_logout` "out". Fibers of `Logins` and `Logouts` run handlers
that wait; `Saver` is the save timer. `idle` says that a role has been disconnected
for `disconnect_to_logout_duration`. `Change` is what user-defined code does to
roles: to one by a client request (`OnClientRequest`), to any of them every second
(`EverySecond`). Logins, reconnects and disconnects come at any time. `MayTake` keeps
two fibers from writing one role at once, unless "overlap" is in `Acts`.
A query that fails (`QueryFails`) throws in a login; a SET that fails is not noticed,
and a logout erases the role all the same. After that the fiber waits for
`*role/flush` (`AskToFlush`, `Flushed`), and the save timer visits no role meanwhile.
`left` is what the last logout of a role has written. The save timer starts the time
of a disconnect at its tick's `now`, before it asks the agent: `Elapse` stands for any
amount of time and may come right after the negative answer, so it covers the time
that has passed while the agent was asked.

`OnlineRoles` has no objects: a role is out, in, or being logged out, because
somebody asked for it or because it has been silent for too long; it has an agent or
none. The refinement mapping reads the phase off the object on the map and the fiber
that is going to erase it. It says that a role which an agent holds is never logged
out by the timer, that a login in the middle of a logout brings nothing back, and
that the time of a disconnected role starts anew with each disconnect.

### UserSessions

`conn[a]` is `connections` of an agent, `users[a]` is `users`, `redis[u]` the agent
in the record of a user. A session has one fiber, which handles its events in
order; `fiber[s]` is what it waits for and has in hand, and `fiber[a]` is the check
timer of an agent, which publishes one user after another by the same
`do_publish_user_on_redis`. After each wait a fiber looks its user up again by name,
so what it then reads and writes (`Me`) may be the entry of a later session, or
missing, which throws. A lost request is one that was not handled (`RequestLost`) or
one whose answer does not come back (`AnswerLost`): then the role is created, online
or has a new agent, and the fiber throws or does not know. `SelectFails` is a login
that finds no logic server, with nothing selected, or no monitor, with the entry
already locked for the role. Where a fiber that has an answer only launches the next
request, both are one action. Of a logic server the module has what the agents
see: `hyd[l]`, the roles online there, and `by[l]`, the agent of each; its handlers
are single steps here, and `LogicRoles` takes them apart. `Select` takes any logic
server: the loop that looks for the lowest load factor never updates `load_factor`,
and takes the last one whose load is finite. `Acts` says what else may happen in an
instance: clients that fall silent, lost requests, a `*role/disconnect` overtaken by
a later `*role/reconnect`, answers to `*user/check_role`, agents that crash.
`BanSet` is `*user/ban/set` on the agent that gets the request; `Refuse` is an open
event that throws, for a user who is banned or for any other reason: `banned_until`
is not kept. `AgentCrash(a)` ends an agent with its sessions and fibers
(`fiber[a].at` is "dead" from then on), while the requests it has sent may still be
served and its records stay on Redis; agents do not come back under the same UUID.

### Nicknames

`nickname[n]` and `role[i]` are the rows by their unique columns, `next_serial` is
the AUTO_INCREMENT column. `fiber[s]` is the fiber of a session: after the INSERT
IGNORE it has a serial or has to SELECT, and with a serial it sends `*role/create`.
`request[s]` is that request; it is apart from the fiber because it may be executed
after the agent has stopped waiting. `FiberFails`, `RequestFails` and `AnswerLost`
are an exception at any of these points, before or after the database did its part.
`acquired`, `released` and `disturbed` are history: what a serial was given out for,
nicknames that were released, users who had two sessions at once or a request
without an answer.

### HttpRequestor

`conn[h]` is an entry of `connections_by_host`, `wire[s]` what the server has still
to answer, `inbox[s]` the responses that have come and are not handled. `Drop` is a
caller that lets go of its future, which the queue holds weakly. A session is
`closing` from the end of the connection to its close event, and requests that are
enqueued in between go nowhere. `SchemesOf` gives the schemes with which a host is
asked.

## Runs

| Run | Checks | Instance |
|---|---|---|
| `rpc_mesh` | `TypeOK`, `NoLostFuture`, `AnswerIsForRequest`, `LossHasCause`, `WokenWhenAllIn`, `AnswersStay`, refinement `KeepsPromise`, `EveryFutureSettles` | 1 peer and the process itself, 2 futures, 2 sessions, fairness |
| `role_durable` | `TypeOK`, `NothingLost`, `Tracked`, `SavesReachMySQL` | 1 monitor, 2 handler fibers and the save timer, TTL of 4 cycles, fairness |
| `role_owners` | `OwnersAgree`, `OwnerStays` | 2 monitors with different homes, 2 users, refused queries, lost results, UPDATEs that fail unnoticed, and crashes |
| `role_unload_save` | `DeletedSafely`, *violated* | an unload and the save timer |
| `logic_online` | `TypeOK`, `InIsOnline`, `OutIsLeaving`, `HydratesLatest`, refinement `ImplementsOnlineRoles`, `ChangesReachRedis`, `OrphansLeave` | 2 logins, 1 logout and the save timer, 1 agent that may stop, 2 objects, 1 change, failing queries, fairness |
| `logic_put_back` | `ComesOnlineOnce`, *violated* | save timer and a logout |
| `user_sessions` | `TypeOK`, `AdmittedIsConnected`, `OwnRolesOnly` | 2 users, 2 sessions, 2 agents, 2 logic servers; timeouts, bans, lost requests and answers, overtaken requests, check answers, agents that crash |
| `user_settles` | `ConflictEnds`, `RolesSettle` | 1 user, 2 sessions, 2 agents, 2 logic servers; bans, check answers, agents that crash; fairness |
| `user_moved` | `OnlyIdleLeave`, *violated* | a user moves from one agent to another |
| `user_conflict` | `ContendsIfConnected`, *violated* | the same |
| `nickname_create` | `TypeOK`, `RolesAsAcquired`, `NoRoidConflict`, `OneRolePerNickname`, `LimitKept`, `RetriesSucceed` | 2 users, 2 nicknames, 2 sessions, 3 serials, 1 role per user, 1 failure or release, fairness |
| `http_queue` | `TypeOK`, `QueueAligned`, `AnswerIsForRequest`, `ZeroIfClosed`, `AnswersStay`, `EveryRequestEnds` | 2 hosts, 3 futures, 3 sessions, fairness |

Bounds, and why they are enough. Two sessions to one peer give an old session
whose close event is late and the current one; what happens to the old one does not
depend on whether there is a third. Two futures give a dead one and a live one on
the same list, and two waiters on one session; a multicast to the peer and to the
process itself has an early and a late answer, and a target that fails at once. One role is enough in `RoleStorage` and `LogicRoles`, whose code
never relates two roles except by the order in which the save timer visits them;
two handler fibers and the timer give every pair of operations. `role_durable` has
one save: the first version and the saved one are a stale and a current one, and a
shorter TTL breaks `NothingLost` with them already. `logic_online` has one
agent, which reconnects the role or stops: whether it is the same one matters to
`logic_put_back` no more than to it. Two objects of a role are an old one in a fiber's
hands and a new one. Two users are needed for `OwnRolesOnly` only; the other
properties of `UserSessions` are about one user, whose sessions share nothing with
those of another. Two sessions are an old one and a new one, on one agent or on
two; with a logic server each, a role may be online twice. `user_settles` has no
requests of clients: the role is logged in by `do_welcome_client`. `nickname_create`
has two users who race for two nicknames, or two sessions of one user; three serials
let one nickname be released and acquired again, and one failure at any point makes
a retry meet whatever the first attempt has left behind. `http_queue` has three
requests: one answered, one dropped or lost and one behind it, over up to three
connections. Deadlock is not
checked where the bound on saves, changes, sessions or live agents lets an instance
come to rest; `ServiceRpc` can always refresh, so there it is.

Assumptions of the passing runs, each of which is in the .cfg:

* `InOrder = TRUE` in `role_durable` and `logic_online`: fibers resume in the
  order in which their results came. Without it a fiber that saw no record may
  untrack a role that was loaded after it looked.
* `TTL = 4`: `redis_role_ttl` is 900 s by default, four cycles of the save timer.
  With `TTL = 2`, the 600 s that the configuration accepts as a minimum, TLC finds
  `NothingLost` violated: a stale snapshot is written over a newer one, and the
  record expires before the next cycle writes it again.
* `role_durable` has no unload: a load that has read its row before an unload wrote
  and deleted a newer record puts the old row on Redis.
* `logic_online` has no "overlap": one fiber at a time has a role in hand to check,
  write or log it out. With it, two logouts may erase a newer object, and two SETs in
  flight may be executed in either order.
* `http_queue` asks a host with one scheme: see the observations below.
* `nickname_create` has `LimitKept` for users who have had one session at a time and
  an answer to each request.
* `user_settles` loses no request: nothing is sent again, except by timers.

That a user is *never* connected to two agents is not a property of this code: a
kick may arrive before the other agent has put the session into `connections`. It
ends when either agent's check timer publishes the user again, which is what
`ConflictEnds` says.

## Fairness

`ServiceRpc`: tasks and fibers run, the network delivers on a session that stays
up, a client whose server end is down notices, a closed session gets its close
event. Nothing is assumed of its timers, of discovery or of callers. In `RoleStorage`, `LogicRoles` and `UserSessions` queries and requests are answered,
fibers that have their result resume, sessions that have been shut down get their
close event, the save and check timers go on, time passes. In `Nicknames` queries
return and requests are answered, by the monitor or by a failure; `RetriesSucceed` has
as a hypothesis that the client keeps trying. In `HttpRequestor` events are handled,
and a server answers or the connection is closed in the end. All of it is weak
fairness of single actions or of what one fiber does next, which is what the task
and fiber schedulers of poseidon give. Nothing is assumed of clients, nor that they
leave. `OrphansLeave` has as a hypothesis that a role is not told to disconnect for
ever, because each `*role/disconnect` starts its time anew. `ChangesReachRedis` has as
a hypothesis that queries do not fail for ever, and excepts a logout whose own SET
fails: what it was to write is lost.

## What is proved

Every safety property and every action property of the passing runs, and both
refinements, are theorems for any sets of peers, futures, sessions, monitors, agents,
logic servers, fibers, hosts, roles, nicknames and users, and for any bounds on
versions and serials. They assume of the constants what the modules say in
`MeshAssumption`, `NumberAssumption`, `StorageAssumption`, `LogicAssumption`,
`UsersAssumption`, `EntryAssumption`, `NicknamesAssumption` and `HttpAssumption`:
that the sets are apart, that nil is in none of them, that futures and sessions are
numbers. Where a theorem has a hypothesis beyond these it says so, and the list below
says what goes wrong without it: with any one of them dropped, TLC finds the property
violated on an instance of the size of the run's.

* `ServiceRpc_proofs`: `TypeCorrect`, `NoFutureIsLost`, `WokenExactly`,
  `AnswersMatch`, from one inductive invariant `Inv`. `NoLostFuture` is not
  inductive by itself: that a response is due from a session needs
  `RecordsFollowSessions` (the session a record holds is one to that peer whose
  close event has not been handled) and `SessionsHavePeers`; the answer property
  needs `AnswersWereServed` for those under way. The proof has one lemma per
  action, and lemmas about the waiting list (`AddWaiter` keeps every live waiter),
  about failing the futures of lost peers and about filling a slot. `AnswersAreKept`
  says what no step of `Inv` takes back; `LossIsReal` needs `ListsHaveSessions`, for
  a future that is failed as lost was on the list of a record, and that record must
  have had a session.
* `RpcFuture_proofs`: `PromiseKept`. A step of the mesh is a step of the promise,
  named after what it does to the outcomes, or none. That an answer comes once needs
  `ServedOnce` (a request that has been served is in no stage before that, so that no
  second handler runs) and `RequestsHaveFutures`.
* `RoleStorage_proofs`: `TypeCorrect`, `OneOwner`, `RolesStayTheirs`, from `Inv`:
  that Redis agrees with MySQL on the owner needs the same of what fibers hold
  (`FibersAgree`), since a fiber writes it later, and that a fiber which writes has
  something to write (`AsksWithRecord`).

  `RolesAreTracked`, under `Tracking`: no unloading, no crash of a monitor, no query
  whose result is lost, and fibers resume in the order of their results. Queries that
  the database refuses, and UPDATEs that fail, are allowed. A SET NX that is executed and
  whose result is lost is not: the record is on Redis, the handler throws, and the role
  is on no list. `Tracked` itself is not inductive: a
  role may be on the list now, and a fiber that has found nothing on Redis is about to
  take it off. `SomeoneIsSure` says of a role on Redis that some monitor has it on its
  list and no such fiber, or that a fiber which is going to put it there resumes after
  them (`ahead`, and here the order matters). A load that puts a record on Redis makes
  its monitor sure, every other step keeps one sure that was. That no online role is
  off Redis (`OnlineOnRedis`) rules out that a save makes a record appear which nobody
  knows. A monitor that dies forgets its list, and an unload takes the role off it
  whoever has just loaded it: the property fails then, and rightly.

  `SavesAreKept`, under `Durable`: as above, one monitor, no failing query, and
  `TTL >= 4`. The invariant `LastInv` follows a record that nobody renews through four
  cycles of the save timer. When one has begun, the monitor is sure of the role and all
  old snapshots (copies of an earlier version on their way to MySQL, `OldSnapshot`)
  are in fibers of that time; when a second has begun these fibers are over, no old
  snapshot is left, and the timer is going to write the role or has done so; after a
  third, MySQL has the latest version and all old rows (on their way to Redis,
  `OldRow`) are in fibers of that time; after a fourth there is none. So when the record
  expires, MySQL has it, and nothing can bring an older one back. One lemma,
  `EffectKeeps`, says what a step of fibers and databases may do about a role without
  breaking any of this (`Effect`); each of their actions is shown to do no more. Only
  the beginning of a cycle (`ArrangeLasting`) and the logic server's steps
  (`LogicLasting`) move a role from one cycle to another or back to none. With a TTL
  of three cycles the property fails, with an unload too, and a query that fails takes
  the role out of a cycle; with several monitors the cycles of one say nothing about
  another's. TLC checked `TrackInv` and `LastInv` on the instance of `role_durable`.
* `LogicRoles_proofs`: `TypeCorrect`, with `ObjectsFit` (an object in a fiber's hands
  or on the map is one of that role). `StaysOnline` and `LeavesTheMap`, under
  `NoOverlap`: one fiber at a time has a role in hand, and then its object is
  the one on the map (`OneTaker`, `HoldsOnline`). Nothing in the code keeps the save
  timer and a logout apart: `logic_put_back` shows what comes of it, and nothing is
  proved about `ComesOnlineOnce`. `LoginsGetLatest` also needs fibers in order:
  what is written is at least what the last logout wrote (`WritesLatest`), and
  what a login has read is, too, or the login resumes before the role is erased
  (`ReadsLatest`) and then finds it on the map. Queries may fail throughout; what a
  failed SET of a logout did not write is not counted.
* `OnlineRoles_proofs`: `OnlineRolesKept`, under `NoOverlap`. `StepKinds` sorts the steps
  of the logic server by what they do to map, phases and agents; each kind is a
  step of `OnlineRoles`, or none.
* `UserSessions_proofs`: `TypeCorrect`, `OneSessionPerAgent`, `RolesAreTheirOwn`, from
  `Inv`. That the selected role is the user's own needs the same of every role a
  fiber has in hand (`FibersHaveOwn`) or the entry lists (`EntriesHaveOwn`), for a
  fiber writes it into whatever entry the user has later; types need that a fiber
  knows what it has asked for (`FibersAreSensible`) and that a session has a user
  from its open event on (`SessionsHaveUsers`). The lemmas of the first part say
  what a step preserves in which one fiber goes on (`SessionMoves`,
  `PublisherMoves`, `TimerMoves`, `NoFiberMoves`); each action is shown to be one.
  Only `Connect`, `Install`, `Close` and `PingTimeout`, which change whose the entry
  is, and `AgentCrash`, which ends many fibers at once, have proofs of their own;
  `BanSet` moves no fiber and is one of the others.
* `Nicknames_proofs`: `TypeCorrect`, `RolesMatch`, `NoConflict`, `OneRole`, from `Inv`:
  the serial, user and nickname in a row, in a fiber and in a request, late ones
  included, are those of one acquisition (`RowsAsAcquired`), serials are not given out
  twice (`SerialsInOrder`), and a nickname that has not been released still has its row
  (`SerialsInRows`). `WithinLimit` needs on top of it, for a user who is not
  `disturbed`, that there is one session and one request (`OneAtATime`), that the
  connection lists all roles but the one that is being made (`RolesListed`), and that
  there is room for that one from the check on (`RoomLeft`), although the fiber yields
  several times in between.
* `HttpRequestor_proofs`: `QueuesAlign`, `AnswersMatch`, `FailuresHaveCause`, for a
  process that asks each host with one scheme (`SingleScheme`): with two, the
  answers of two connections meet one queue and all three fail. Then the session of a
  host is the only one alive (`EntriesHoldSessions`), nothing is under way on others
  (`NothingOnDeadSessions`), what is queued waits for an answer from it
  (`QueuedAreWaiting`), and a new request comes after all earlier ones
  (`UnusedAreLast`). `TypeCorrect` and `AnswersAreFinal` hold with any schemes: of the
  invariant `OrderInv` remains, by which a future is in one queue, once.

Only model-checked are the liveness properties, which need fairness:
`EveryFutureSettles`, `SavesReachMySQL`, `ChangesReachRedis`, `OrphansLeave`,
`ConflictEnds`, `RolesSettle`, `RetriesSucceed`, `EveryRequestEnds`. TLAPS cannot
reason about ENABLED, hence not about fairness.

## Findings

* `role_unload_save`: unloading a role compares Redis with what it wrote to MySQL,
  but a snapshot of the save timer, read earlier, may be written in between; the
  record is deleted while MySQL has an older version.
* `logic_put_back`: the save timer puts a copy of a map entry back if there is
  *some* entry; after a logout and a login in between the old object replaces the
  new one.
* `user_moved`: when a user moves to another agent, which reconnects the role, the
  old agent handles the close event of its session later, and its
  `*role/disconnect` marks the role as disconnected although a client plays it; the
  logic server logs it out in the end.
* `user_conflict`: a user whose connection has closed stays in `users`. The check
  timer keeps publishing them, finds the agent they are on now, and has them kicked.

Observations without a run:

* The outcome of a logout's SET is not looked at: if it fails, the role is erased and
  logged as saved, and what happened since the last SET is lost.
* Nor is the outcome of an UPDATE: if it fails, `*role/unload` deletes from Redis a record
  that MySQL has not got.
* If Redis has executed the SET NX of `*role/load` or `*role/create` and its result is an
  error, the handler throws before it lists the role, and no save timer knows of it until
  it is loaded or flushed again.
* A `*role/login` that arrives while the same role waits in `*role/logout` for Redis
  is answered `gs_ok` on the object that is being logged out, and the role is erased
  after it.
* `max_number_of_roles_per_user` is checked against the roles that the connection
  lists: a second session that has read the list before, or a creation whose answer
  was lost, leads to one role more. With `disturbed` left out of `LimitKept`, TLC
  shows it.
* A nickname stays acquired when the creation of its role fails; only its user can go
  on with it. One that is released while a creation is on its way, or while its role
  exists, has two roles in the end.
* `sc_role_creation_failure` (`doc/clients.md:92`) is never
  returned: a failing `*role/create` throws, and the session is closed.
* A ban is set after a session that is opening has read `banned_until`, and that
  session is admitted. Nobody is kicked if the request reaches an agent the user is
  not on, whereas `doc/servers.md:160` says "If the user is online, they are kicked".
* A close event that comes late erases the record of a newer session to the same peer;
  that session stays open and no record holds it.
* An http and an https connection to one host and port share one queue: with both
  schemes in `SchemesOf`, `QueueAligned` and `AnswerIsForRequest` fail.
* `set_ws_authenticator` keeps the first of two authenticators (`try_emplace`), while
  `user_service.hpp:62-64` says that the new one replaces it.
* `Clock::get_system_time_fields` does not add the offset that the other functions of
  the clock add.

## Not modelled

Of the mesh: publishing the own record (it is written every six seconds with a TTL of
ten; what follows from that for a reader, any result of a scan at any time, is in
`RefreshServices`), configuration reload, registration of handlers, and exceptions of
poseidon and of the allocator in the middle of a multicast. Of the agent: pushed and
relayed messages, user-defined authenticators, HTTP handlers and the table checks
(they send bytes, call other code, or run once), and the rows of bans. `*role/list`
reads only. The virtual clock is a sum of two numbers, the data records are
serialisation, the globals call `reload` once. What user-defined handlers do is "the
role changes". poseidon, MySQL and Redis are outside the repository: they are
modelled by what the code relies on.

## Plan

Done: every component that keeps state the others rely on has its module; the mesh
and the logic server have abstract specifications which they are proved to
implement; the safety of all passing runs is proved. To come, in this order:

1. Invariants that hold of the logic server and the agents together: `UserSessions`
   over `OnlineRoles` in place of its own picture of a logic server.
2. `DeletedSafely` and `OnlyIdleLeave` as theorems under the weakest hypotheses that
   exclude the steps which break them.
3. Discovery: the publish and subscribe timers, and records that expire before they
   are written again.
4. Save buckets as lists: each role is visited once per cycle, whatever is loaded,
   unloaded or logged out meanwhile.

The runs stay few: a new component takes the place of instances that can be merged.
