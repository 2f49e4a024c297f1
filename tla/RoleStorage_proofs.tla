-------------------------- MODULE RoleStorage_proofs --------------------------
(***************************************************************************)
(* Proofs about the storage of roles.  For any number of monitors, fibers, *)
(* roles and users, with all operations and faults, whatever the order in  *)
(* which fibers resume: a role keeps its owner.  Without unloading,        *)
(* crashes and lost results, a role on Redis is tracked; and with one      *)
(* monitor and no failing query, a save is never lost.                     *)
(***************************************************************************)
EXTENDS RoleStorage, TLAPS

Stored == Records \cup {None}

\* A fiber's state after its query was executed, and after it asked again.
LEMMA CallTypes ==
  ASSUME NEW x \in Calls, NEW q \in Queries, NEW rec \in Stored, NEW res \in Stored
  PROVE  /\ [x EXCEPT !.executed = TRUE, !.result = res] \in Calls
         /\ [x EXCEPT !.query = q, !.executed = FALSE, !.record = rec, !.result = None] \in Calls
BY DEF Calls, Stored

LEMMA BusyIsCall ==
  ASSUME TypeOK, NEW w \in Workers, Busy(w)
  PROVE  /\ proc[w] \in Calls
         /\ proc[w].role \in Roles /\ proc[w].monitor \in Monitors
         /\ proc[w].record \in Stored /\ proc[w].result \in Stored
         /\ HomeOf[proc[w].monitor] \in Homes
<1>1. proc[w] \in Calls
  BY DEF TypeOK, Busy, Idle
<1> QED
  BY <1>1 DEF Calls, Stored, Homes

\* The three ways a fiber's state changes after it has begun.
LEMMA ReturnType ==
  ASSUME TypeOK, NEW w \in Workers, Busy(w), NEW res \in Stored, Return(w, res)
  PROVE  /\ proc' \in [Workers -> Calls \cup {Idle}]
         /\ ahead' \in [Workers -> SUBSET Workers]
         /\ \A v \in Workers : v # w => proc'[v] = proc[v]
         /\ proc'[w] = [proc[w] EXCEPT !.executed = TRUE, !.result = res]
<1>1. proc[w] \in Calls
  BY BusyIsCall
<1>2. [proc[w] EXCEPT !.executed = TRUE, !.result = res] \in Calls
  BY <1>1, CallTypes DEF Queries
<1>3. (IF InOrder THEN {v \in Workers : Earlier(v, w)} ELSE {}) \in SUBSET Workers
  OBVIOUS
<1> QED
  BY <1>2, <1>3 DEF Return, TypeOK

LEMMA AskType ==
  ASSUME TypeOK, NEW w \in Workers, Busy(w), NEW q \in Queries, NEW rec \in Stored, Ask(w, q, rec)
  PROVE  /\ proc' \in [Workers -> Calls \cup {Idle}]
         /\ ahead' \in [Workers -> SUBSET Workers]
         /\ late' \subseteq Fibers
         /\ \A v \in Workers : v # w => proc'[v] = proc[v]
         /\ proc'[w] = [proc[w] EXCEPT !.query = q, !.executed = FALSE,
                                       !.record = rec, !.result = None]
<1>1. proc[w] \in Calls
  BY BusyIsCall
<1>2. [proc[w] EXCEPT !.query = q, !.executed = FALSE, !.record = rec, !.result = None] \in Calls
  BY <1>1, CallTypes DEF Stored
<1> QED
  BY <1>2 DEF Ask, Go, TypeOK

LEMMA FinishType ==
  ASSUME TypeOK, NEW w \in Workers, Finish(w)
  PROVE  /\ proc' \in [Workers -> Calls \cup {Idle}]
         /\ ahead' \in [Workers -> SUBSET Workers]
         /\ late' \subseteq Fibers
         /\ \A v \in Workers : v # w => proc'[v] = proc[v]
         /\ proc'[w] = Idle
BY DEF Finish, Go, TypeOK

\* A handler or a visit of the save timer begins.
LEMMA BeginType ==
  ASSUME TypeOK, NEW w \in Workers, NEW m \in Monitors, NEW r \in Roles,
         NEW op \in {"create", "load", "unload", "flush", "save"},
         NEW q \in Queries, NEW rec \in Stored, Begin(w, m, r, op, q, rec)
  PROVE  /\ proc' \in [Workers -> Calls \cup {Idle}]
         /\ \A v \in Workers : v # w => proc'[v] = proc[v]
         /\ proc'[w] = [op |-> op, monitor |-> m, role |-> r, query |-> q,
                        executed |-> FALSE, record |-> rec, result |-> None]
<1>1. [op |-> op, monitor |-> m, role |-> r, query |-> q,
       executed |-> FALSE, record |-> rec, result |-> None] \in Calls
  BY DEF Calls, Stored
<1> QED
  BY <1>1 DEF Begin, TypeOK

\* Every step keeps the types.
LEMMA TypeStep ==
  ASSUME TypeOK, AsksWithRecord, [Next]_vars
  PROVE  TypeOK'
<1>1. ASSUME NEW w \in Fibers, NEW m \in Monitors, NEW r \in Roles, NEW u \in Users,
             RoleCreate(w, m, r, u)
      PROVE  TypeOK'
  <2>1. [ver |-> 0, user |-> u, home |-> HomeOf[m]] \in Stored
    BY StorageAssumption DEF Stored, Records, Versions, Homes
  <2> QED
    BY <1>1, <2>1, BeginType DEF RoleCreate, Begin, TypeOK, world, Workers, Queries
<1>2. ASSUME NEW w \in Fibers, NEW m \in Monitors, NEW r \in Roles,
             RoleLoad(w, m, r) \/ RoleUnload(w, m, r) \/ RoleFlush(w, m, r)
      PROVE  TypeOK'
  BY <1>2, BeginType DEF RoleLoad, RoleUnload, RoleFlush, Begin, TypeOK, world, Workers,
                         Queries, Stored
<1>3. ASSUME NEW m \in Monitors, CheckTable(m) PROVE TypeOK'
  BY <1>3 DEF CheckTable, TypeOK, world
<1>4. ASSUME NEW m \in Monitors, Arrange(m) PROVE TypeOK'
  BY <1>4, StorageAssumption DEF Arrange, TypeOK
<1>5. ASSUME NEW m \in Monitors, NEW r \in Roles, SaveNext(m, r) PROVE TypeOK'
  <2>1. m \in Workers /\ Begin(m, m, r, "save", "get", None)
    BY <1>5 DEF SaveNext, Workers
  <2>2. proc' \in [Workers -> Calls \cup {Idle}]
    BY <2>1, BeginType DEF Queries, Stored
  <2>3. save_buckets' \in [Monitors -> SUBSET Roles]
    BY <1>5 DEF SaveNext, TypeOK
  <2> QED
    BY <2>1, <2>2, <2>3 DEF Begin, TypeOK, world
<1>6. ASSUME NEW w \in Workers, Execute(w) PROVE TypeOK'
  <2> DEFINE r == proc[w].role
  <2>1. CASE InsertIgnore(w)
    <3>1. Busy(w) /\ proc[w].record \in Records
      BY <2>1, BusyIsCall DEF InsertIgnore, Waits, AsksWithRecord, Stored
    <3>2. Return(w, IF mysql[r] = None THEN proc[w].record ELSE None)
      BY <2>1 DEF InsertIgnore, Executed
    <3>3. proc' \in [Workers -> Calls \cup {Idle}] /\ ahead' \in [Workers -> SUBSET Workers]
      BY <3>1, <3>2, ReturnType DEF Stored
    <3>4. mysql' \in [Roles -> Rows \cup {None}]
      BY <2>1, <3>1, BusyIsCall DEF InsertIgnore, TypeOK, Rows, Records
    <3> QED
      BY <2>1, <3>2, <3>3, <3>4 DEF InsertIgnore, Executed, Return, TypeOK, tracking
  <2>2. CASE Select(w)
    <3> DEFINE row == mysql[r]
               user == IF proc[w].op = "create" THEN proc[w].record.user ELSE row.user
               result == IF row # None /\ row.user = user
                           THEN [ver |-> row.ver, user |-> user, home |-> HomeOf[proc[w].monitor]]
                           ELSE None
    <3>1. Busy(w) /\ r \in Roles /\ HomeOf[proc[w].monitor] \in Homes
      BY <2>2, BusyIsCall DEF Select, Waits
    <3>2. Return(w, result)
      BY <2>2 DEF Select, Executed
    <3>3. row \in Rows \cup {None}
      BY <3>1 DEF TypeOK
    <3>4. result \in Stored
      BY <3>1, <3>3 DEF Stored, Records, Rows
    <3>5. proc' \in [Workers -> Calls \cup {Idle}] /\ ahead' \in [Workers -> SUBSET Workers]
      BY <3>1, <3>2, <3>4, ReturnType
    <3> QED
      BY <2>2, <3>2, <3>5 DEF Select, Executed, Return, TypeOK, tracking
  <2>3. CASE SetIfAbsent(w)
    <3> DEFINE kept == IF redis[r] = None THEN proc[w].record ELSE redis[r]
    <3>1. Busy(w) /\ r \in Roles /\ kept \in Stored
      BY <2>3, BusyIsCall DEF SetIfAbsent, Waits, TypeOK, Stored
    <3>2. Return(w, kept) /\ redis' = [redis EXCEPT ![r] = kept]
      BY <2>3 DEF SetIfAbsent
    <3>3. proc' \in [Workers -> Calls \cup {Idle}] /\ ahead' \in [Workers -> SUBSET Workers]
      BY <3>1, <3>2, ReturnType
    <3>4. redis' \in [Roles -> Records \cup {None}]
      BY <3>1, <3>2 DEF TypeOK, Stored
    <3>5. age' \in [Roles -> 0..TTL]
      BY <2>3, <3>1, StorageAssumption DEF SetIfAbsent, TypeOK
    <3> QED
      BY <2>3, <3>2, <3>3, <3>4, <3>5 DEF SetIfAbsent, Return, TypeOK, tracking
  <2>4. CASE Get(w)
    <3>1. Busy(w) /\ redis[r] \in Stored /\ Return(w, redis[r])
      BY <2>4, BusyIsCall DEF Get, Waits, Executed, TypeOK, Stored
    <3>2. proc' \in [Workers -> Calls \cup {Idle}] /\ ahead' \in [Workers -> SUBSET Workers]
      BY <3>1, ReturnType
    <3> QED
      BY <2>4, <3>1, <3>2 DEF Get, Executed, Return, TypeOK, tracking
  <2>5. CASE Update(w)
    <3>1. Busy(w) /\ r \in Roles /\ proc[w].record \in Records /\ Return(w, None)
      BY <2>5, BusyIsCall DEF Update, Waits, Executed, AsksWithRecord, Stored
    <3>2. proc' \in [Workers -> Calls \cup {Idle}] /\ ahead' \in [Workers -> SUBSET Workers]
      BY <3>1, ReturnType DEF Stored
    <3>3. mysql' \in [Roles -> Rows \cup {None}]
      BY <2>5, <3>1 DEF Update, TypeOK, Rows, Records
    <3> QED
      BY <2>5, <3>1, <3>2, <3>3 DEF Update, Executed, Return, TypeOK, tracking
  <2>6. CASE DeleteIfUnchanged(w)
    <3> DEFINE left == IF redis[r] = proc[w].record THEN None ELSE redis[r]
    <3>1. Busy(w) /\ r \in Roles /\ left \in Stored
      BY <2>6, BusyIsCall DEF DeleteIfUnchanged, Waits, TypeOK, Stored
    <3>2. Return(w, left) /\ redis' = [redis EXCEPT ![r] = left]
      BY <2>6 DEF DeleteIfUnchanged, Executed
    <3>3. proc' \in [Workers -> Calls \cup {Idle}] /\ ahead' \in [Workers -> SUBSET Workers]
      BY <3>1, <3>2, ReturnType
    <3>4. redis' \in [Roles -> Records \cup {None}]
      BY <3>1, <3>2 DEF TypeOK, Stored
    <3> QED
      BY <2>6, <3>2, <3>3, <3>4 DEF DeleteIfUnchanged, Executed, Return, TypeOK, tracking
  <2> QED
    BY <1>6, <2>1, <2>2, <2>3, <2>4, <2>5, <2>6 DEF Execute
<1>7. ASSUME NEW w \in Workers, Resume(w) PROVE TypeOK'
  <2>1. Busy(w)
    BY <1>7 DEF Resume, Inserted, Selected, Loaded, Fetched, Updated, Returned
  <2>2. /\ proc[w].role \in Roles /\ proc[w].monitor \in Monitors
        /\ proc[w].record \in Stored /\ proc[w].result \in Stored
    BY <2>1, BusyIsCall
  <2>3. \/ \E q \in Queries, rec \in Stored : Ask(w, q, rec)
        \/ Finish(w)
    BY <1>7, <2>2 DEF Resume, Inserted, Selected, Loaded, Fetched, Updated, Queries
  <2>4. /\ proc' \in [Workers -> Calls \cup {Idle}] /\ ahead' \in [Workers -> SUBSET Workers]
        /\ late' \subseteq Fibers
    BY <2>1, <2>3, AskType, FinishType
  <2>5. UNCHANGED role_records \/ Track(w) \/ Forget(w)
    BY <1>7 DEF Resume, Inserted, Selected, Loaded, Fetched, Updated, tracking
  <2>6. role_records' \in [Monitors -> SUBSET Roles]
    BY <2>2, <2>5 DEF Track, Forget, TypeOK
  <2>7. UNCHANGED <<mysql, redis, db_ready, save_buckets, online, saved, age>>
    BY <1>7 DEF Resume, Inserted, Selected, Loaded, Fetched, Updated, tracking, world
  <2> QED
    BY <2>4, <2>6, <2>7 DEF TypeOK
<1>8. ASSUME NEW r \in Roles, Login(r) \/ Save(r) \/ Leave(r) \/ Expire(r) PROVE TypeOK'
  <2>1. CASE Login(r)
    BY <2>1, StorageAssumption DEF Login, TypeOK, tracking
  <2>2. CASE Save(r)
    <3>1. saved[r] + 1 \in Versions /\ online[r] \in Records
      BY <2>2, StorageAssumption DEF Save, TypeOK, Versions
    <3>2. [online[r] EXCEPT !.ver = saved[r] + 1] \in Records
      BY <3>1 DEF Records
    <3>3. online' = [online EXCEPT ![r] = [online[r] EXCEPT !.ver = saved[r] + 1]]
      BY <2>2 DEF Save
    <3>4. online' \in [Roles -> Records \cup {None}] /\ online'[r] \in Records
      BY <3>2, <3>3 DEF TypeOK
    <3> QED
      BY <2>2, <3>1, <3>4, StorageAssumption DEF Save, TypeOK, tracking
  <2>3. CASE Leave(r)
    BY <2>3 DEF Leave, TypeOK, tracking
  <2>4. CASE Expire(r)
    BY <2>4 DEF Expire, TypeOK, tracking, world
  <2> QED
    BY <1>8, <2>1, <2>2, <2>3, <2>4
<1>9. ASSUME NEW w \in Workers, QueryFails(w) \/ ResultLost(w) PROVE TypeOK'
  <2>0. Busy(w) /\ Throws(w)
    BY <1>9 DEF QueryFails, ResultLost
  <2>1. /\ proc' \in [Workers -> Calls \cup {Idle}] /\ ahead' \in [Workers -> SUBSET Workers]
        /\ late' \subseteq Fibers
    BY <2>0, FinishType DEF Throws
  <2>2. proc[w].monitor \in Monitors
    BY <2>0, BusyIsCall
  <2>3. save_buckets' \in [Monitors -> SUBSET Roles]
    BY <2>0, <2>2 DEF Throws, TypeOK
  <2> QED
    BY <2>0, <2>1, <2>3 DEF Throws, TypeOK, world
<1>12. ASSUME NEW w \in Workers, UpdateFails(w) PROVE TypeOK'
  <2>1. Busy(w) /\ Return(w, None) /\ None \in Stored /\ UNCHANGED <<mysql, redis, age>>
    BY <1>12 DEF UpdateFails, Waits, Executed, Stored
  <2>2. proc' \in [Workers -> Calls \cup {Idle}] /\ ahead' \in [Workers -> SUBSET Workers]
    BY <2>1, ReturnType
  <2> QED
    BY <2>1, <2>2 DEF Return, TypeOK, tracking
<1>10. ASSUME NEW m \in Monitors, MonitorCrash(m) PROVE TypeOK'
  BY <1>10 DEF MonitorCrash, TypeOK, world
<1>11. CASE UNCHANGED vars
  BY <1>11 DEF vars, TypeOK
<1> QED
  BY <1>1, <1>2, <1>3, <1>4, <1>5, <1>6, <1>7, <1>8, <1>9, <1>10, <1>11, <1>12
     DEF Next, Request, Timer, Logic, Fault

\* What the initial states satisfy.
LEMMA Start ==
  ASSUME Init
  PROVE  Inv
<1>1. TypeOK
  BY StorageAssumption DEF Init, TypeOK, Versions
<1>2. AsksWithRecord /\ OwnersAgree /\ FibersAgree
  BY DEF Init, AsksWithRecord, OwnersAgree, FibersAgree, CopyOf, Busy, Idle
<1> QED
  BY <1>1, <1>2 DEF Inv

\* A row stays, and keeps its user.
OwnerKept ==
  \A r \in Roles : mysql[r] # None => mysql'[r] # None /\ mysql'[r].user = mysql[r].user

\* A creation inserts only where there is no row, and what is written over a row is
\* a copy of it.
LEMMA OwnerKeptStep ==
  ASSUME Inv, [Next]_vars
  PROVE  OwnerKept
<1> USE DEF Inv
<1>1. ASSUME NEW w \in Workers, InsertIgnore(w) PROVE OwnerKept
  <2>1. proc[w].role \in Roles
    BY <1>1, BusyIsCall DEF InsertIgnore, Waits
  <2> QED
    BY <1>1, <2>1 DEF InsertIgnore, OwnerKept, TypeOK
<1>2. ASSUME NEW w \in Workers, Update(w) PROVE OwnerKept
  <2> DEFINE r == proc[w].role
             row == [ver |-> proc[w].record.ver, user |-> proc[w].record.user]
  <2>1. Busy(w) /\ proc[w].query = "update"
    BY <1>2 DEF Update, Waits
  <2>2. r \in Roles /\ proc[w].record \in Records
    BY <2>1, BusyIsCall DEF AsksWithRecord, Stored
  <2>3. proc[w].record # None /\ CopyOf(r, proc[w].record)
    BY <2>1 DEF FibersAgree, AsksWithRecord
  <2>4. row \in Rows /\ row.user = mysql[r].user /\ mysql[r] # None
    BY <2>2, <2>3 DEF CopyOf, Records, Rows
  <2>5. mysql' = [mysql EXCEPT ![r] = row]
    BY <1>2, <2>4 DEF Update
  <2>6. row # None
    BY <2>4, StorageAssumption
  <2> QED
    BY <2>2, <2>4, <2>5, <2>6 DEF OwnerKept, TypeOK
<1>3. ASSUME UNCHANGED mysql PROVE OwnerKept
  BY <1>3 DEF OwnerKept
<1> QED
  BY <1>1, <1>2, <1>3
     DEF Next, Request, Timer, Logic, Fault, Execute, Resume, RoleCreate, RoleLoad, RoleUnload,
         RoleFlush, Begin, CheckTable, Arrange, SaveNext, Select, SetIfAbsent, Get,
         DeleteIfUnchanged, Inserted, Selected, Loaded, Fetched, Updated, Login, Save, Leave,
         Expire, QueryFails, ResultLost, Throws, UpdateFails, MonitorCrash, vars

\* An idle fiber holds nothing.
LEMMA IdleHolds ==
  ASSUME TypeOK, NEW w \in Workers, ~Busy(w)
  PROVE  proc[w] = Idle /\ proc[w].result = None /\ proc[w].query = "none"
<1>1. proc[w] \in Calls \cup {Idle}
  BY DEF TypeOK
<1>2. proc[w] \in Calls => proc[w].op # "idle"
  BY DEF Calls
<1>3. proc[w] = Idle
  BY <1>1, <1>2 DEF Busy
<1> QED
  BY <1>3 DEF Idle

\* If rows stay, a copy of a row stays one.
LEMMA CopyStays ==
  ASSUME OwnerKept, NEW r \in Roles, NEW x, CopyOf(r, x)
  PROVE  x # None => mysql'[r] # None /\ mysql'[r].user = x.user
BY DEF OwnerKept, CopyOf

\* A step of the fibers in `moved` leaves the other fibers' copies alone.
LEMMA FibersStep ==
  ASSUME Inv, OwnerKept, NEW moved,
         \A v \in Workers \ moved : proc'[v] = proc[v],
         \A w \in Workers \cap moved :
           /\ (CopyOf(proc[w].role, proc[w].result))'
           /\ (proc[w].query \in {"setnx", "update", "delete"} =>
                  CopyOf(proc[w].role, proc[w].record))'
           /\ (Busy(w) /\ proc[w].query \in {"insert", "setnx", "update", "delete"} =>
                  proc[w].record # None)'
  PROVE  AsksWithRecord' /\ FibersAgree'
<1> USE DEF Inv
<1>1. ASSUME NEW v \in Workers \ moved
      PROVE  /\ (CopyOf(proc[v].role, proc[v].result))'
             /\ (proc[v].query \in {"setnx", "update", "delete"} =>
                    CopyOf(proc[v].role, proc[v].record))'
             /\ (Busy(v) /\ proc[v].query \in {"insert", "setnx", "update", "delete"} =>
                    proc[v].record # None)'
  <2>1. proc'[v] = proc[v]
    OBVIOUS
  <2>2. CASE Busy(v)
    <3>1. proc[v].role \in Roles
      BY <2>2, BusyIsCall
    <3>2. /\ CopyOf(proc[v].role, proc[v].result)
          /\ proc[v].query \in {"setnx", "update", "delete"} =>
               CopyOf(proc[v].role, proc[v].record)
      BY DEF FibersAgree
    <3> QED
      BY <2>1, <2>2, <3>1, <3>2, CopyStays DEF CopyOf, AsksWithRecord
  <2>3. CASE ~Busy(v)
    BY <2>1, <2>3, IdleHolds DEF CopyOf, Busy
  <2> QED
    BY <2>2, <2>3
<1>2. ASSUME NEW v \in Workers
      PROVE  /\ (CopyOf(proc[v].role, proc[v].result))'
             /\ (proc[v].query \in {"setnx", "update", "delete"} =>
                    CopyOf(proc[v].role, proc[v].record))'
             /\ (Busy(v) /\ proc[v].query \in {"insert", "setnx", "update", "delete"} =>
                    proc[v].record # None)'
  BY <1>1
<1>3. AsksWithRecord'
  BY <1>2 DEF AsksWithRecord
<1>4. FibersAgree'
  BY <1>2 DEF FibersAgree
<1> QED
  BY <1>3, <1>4

\* A result is a copy of the row if it was one when the database returned it.
LEMMA ReturnAgree ==
  ASSUME Inv, OwnerKept, NEW w \in Workers, Busy(w), NEW res \in Stored, Return(w, res),
         res # None => mysql'[proc[w].role] # None /\ mysql'[proc[w].role].user = res.user
  PROVE  AsksWithRecord' /\ FibersAgree'
<1> USE DEF Inv
<1>1. /\ \A v \in Workers : v # w => proc'[v] = proc[v]
      /\ proc'[w] = [proc[w] EXCEPT !.executed = TRUE, !.result = res]
  BY ReturnType
<1>2. proc[w] \in Calls /\ proc[w].role \in Roles
  BY BusyIsCall
<1>3. /\ proc'[w].role = proc[w].role /\ proc'[w].query = proc[w].query
      /\ proc'[w].record = proc[w].record /\ proc'[w].result = res
  BY <1>1, <1>2 DEF Calls
<1>4. (CopyOf(proc[w].role, proc[w].result))'
  BY <1>3 DEF CopyOf
<1>5. (proc[w].query \in {"setnx", "update", "delete"} => CopyOf(proc[w].role, proc[w].record))'
  <2>1. proc[w].query \in {"setnx", "update", "delete"} => CopyOf(proc[w].role, proc[w].record)
    BY DEF FibersAgree
  <2> QED
    BY <2>1, <1>2, <1>3, CopyStays DEF CopyOf
<1>6. (Busy(w) /\ proc[w].query \in {"insert", "setnx", "update", "delete"} =>
         proc[w].record # None)'
  BY <1>3 DEF AsksWithRecord
<1>7. \A v \in Workers \ {w} : proc'[v] = proc[v]
  BY <1>1
<1>8. \A x \in Workers \cap {w} :
           /\ (CopyOf(proc[x].role, proc[x].result))'
           /\ (proc[x].query \in {"setnx", "update", "delete"} =>
                  CopyOf(proc[x].role, proc[x].record))'
           /\ (Busy(x) /\ proc[x].query \in {"insert", "setnx", "update", "delete"} =>
                  proc[x].record # None)'
  BY <1>4, <1>5, <1>6
<1> QED
  BY <1>7, <1>8, FibersStep

\* A fiber may ask with a copy.
LEMMA AskAgree ==
  ASSUME Inv, UNCHANGED mysql, NEW w \in Workers, Busy(w), NEW q \in Queries, NEW rec \in Stored,
         Ask(w, q, rec),
         q # "select" => rec # None /\ CopyOf(proc[w].role, rec)
  PROVE  AsksWithRecord' /\ FibersAgree'
<1> USE DEF Inv
<1>0. OwnerKept
  BY DEF OwnerKept
<1>1. /\ \A v \in Workers : v # w => proc'[v] = proc[v]
      /\ proc'[w] = [proc[w] EXCEPT !.query = q, !.executed = FALSE,
                                    !.record = rec, !.result = None]
  BY DEF Ask, TypeOK
<1>2. proc[w] \in Calls /\ proc[w].role \in Roles
  BY BusyIsCall
<1>3. /\ proc'[w].role = proc[w].role /\ proc'[w].query = q
      /\ proc'[w].record = rec /\ proc'[w].result = None
  BY <1>1, <1>2 DEF Calls
<1>4. (CopyOf(proc[w].role, proc[w].result))'
  BY <1>3 DEF CopyOf
<1>5. (proc[w].query \in {"setnx", "update", "delete"} => CopyOf(proc[w].role, proc[w].record))'
  BY <1>3 DEF CopyOf
<1>6. (Busy(w) /\ proc[w].query \in {"insert", "setnx", "update", "delete"} =>
         proc[w].record # None)'
  BY <1>3
<1>7. \A v \in Workers \ {w} : proc'[v] = proc[v]
  BY <1>1
<1>8. \A x \in Workers \cap {w} :
           /\ (CopyOf(proc[x].role, proc[x].result))'
           /\ (proc[x].query \in {"setnx", "update", "delete"} =>
                  CopyOf(proc[x].role, proc[x].record))'
           /\ (Busy(x) /\ proc[x].query \in {"insert", "setnx", "update", "delete"} =>
                  proc[x].record # None)'
  BY <1>4, <1>5, <1>6
<1> QED
  BY <1>0, <1>7, <1>8, FibersStep

LEMMA FinishAgree ==
  ASSUME Inv, UNCHANGED mysql, NEW w \in Workers, Finish(w)
  PROVE  AsksWithRecord' /\ FibersAgree'
<1> USE DEF Inv
<1>0. OwnerKept
  BY DEF OwnerKept
<1>1. (\A v \in Workers : v # w => proc'[v] = proc[v]) /\ proc'[w] = Idle
  BY FinishType
<1>2. /\ (CopyOf(proc[w].role, proc[w].result))'
      /\ (proc[w].query \in {"setnx", "update", "delete"} =>
             CopyOf(proc[w].role, proc[w].record))'
      /\ (Busy(w) /\ proc[w].query \in {"insert", "setnx", "update", "delete"} =>
             proc[w].record # None)'
  BY <1>1 DEF Idle, CopyOf, Busy
<1>3. \A v \in Workers \ {w} : proc'[v] = proc[v]
  BY <1>1
<1>4. \A x \in Workers \cap {w} :
           /\ (CopyOf(proc[x].role, proc[x].result))'
           /\ (proc[x].query \in {"setnx", "update", "delete"} =>
                  CopyOf(proc[x].role, proc[x].record))'
           /\ (Busy(x) /\ proc[x].query \in {"insert", "setnx", "update", "delete"} =>
                  proc[x].record # None)'
  BY <1>2
<1> QED
  BY <1>0, <1>3, <1>4, FibersStep

\* The copies on Redis and in the logic server stay copies if they are not touched.
LEMMA StoresStep ==
  ASSUME OwnersAgree, OwnerKept, UNCHANGED <<redis, online>>
  PROVE  OwnersAgree'
<1>1. ASSUME NEW r \in Roles PROVE (CopyOf(r, redis[r]) /\ CopyOf(r, online[r]))'
  <2>1. CopyOf(r, redis[r]) /\ CopyOf(r, online[r])
    BY DEF OwnersAgree
  <2> QED
    BY <2>1, CopyStays DEF CopyOf
<1> QED
  BY <1>1 DEF OwnersAgree

\* Queries: what comes back from MySQL or Redis is a copy, and so is what goes there.
LEMMA ExecuteAgree ==
  ASSUME Inv, NEW w \in Workers, Execute(w), OwnerKept
  PROVE  AsksWithRecord' /\ FibersAgree' /\ OwnersAgree'
<1> USE DEF Inv
<1> DEFINE r == proc[w].role
<1>1. Busy(w)
  BY DEF Execute, InsertIgnore, Select, SetIfAbsent, Get, Update, DeleteIfUnchanged, Waits
<1>2. /\ r \in Roles /\ proc[w].record \in Stored /\ proc[w].monitor \in Monitors
      /\ HomeOf[proc[w].monitor] \in Homes
  BY <1>1, BusyIsCall
<1>3. CopyOf(r, redis[r])
  BY <1>2 DEF OwnersAgree
<1>4. CASE InsertIgnore(w)
  <2> DEFINE new == proc[w].record
             row == [ver |-> new.ver, user |-> new.user]
             res == IF mysql[r] = None THEN new ELSE None
  <2>1. new \in Records /\ row \in Rows /\ row # None
    BY <1>1, <1>2, <1>4, StorageAssumption
       DEF InsertIgnore, Waits, AsksWithRecord, Stored, Records, Rows
  <2>2. Return(w, res) /\ res \in Stored
    BY <1>4, <2>1 DEF InsertIgnore, Executed, Stored
  <2>3. res # None => mysql'[r] # None /\ mysql'[r].user = res.user
    BY <1>2, <1>4, <2>1 DEF InsertIgnore, TypeOK
  <2>4. AsksWithRecord' /\ FibersAgree'
    BY <1>1, <2>2, <2>3, ReturnAgree
  <2>5. UNCHANGED <<redis, online>>
    BY <1>4 DEF InsertIgnore, Executed, Return
  <2> QED
    BY <2>4, <2>5, StoresStep
<1>5. CASE Select(w)
  <2> DEFINE row == mysql[r]
             user == IF proc[w].op = "create" THEN proc[w].record.user ELSE row.user
             found == row # None /\ row.user = user
             res == IF found THEN [ver |-> row.ver, user |-> user, home |-> HomeOf[proc[w].monitor]]
                             ELSE None
  <2>1. Return(w, res) /\ UNCHANGED <<mysql, redis, online>>
    BY <1>5 DEF Select, Executed, Return
  <2>2. row \in Rows \cup {None}
    BY <1>2 DEF TypeOK
  <2>3. res \in Stored
    BY <1>2, <2>2 DEF Stored, Records, Rows
  <2>4. res # None => mysql[r] # None /\ mysql[r].user = res.user
    OBVIOUS
  <2>5. AsksWithRecord' /\ FibersAgree'
    BY <1>1, <2>1, <2>3, <2>4, ReturnAgree
  <2> QED
    BY <2>1, <2>5, StoresStep
<1>6. CASE SetIfAbsent(w)
  <2> DEFINE kept == IF redis[r] = None THEN proc[w].record ELSE redis[r]
  <2>1. Return(w, kept) /\ redis' = [redis EXCEPT ![r] = kept] /\ UNCHANGED <<mysql, online>>
    BY <1>6 DEF SetIfAbsent, Return
  <2>2. kept \in Stored
    BY <1>2 DEF TypeOK, Stored
  <2>3. CopyOf(r, proc[w].record)
    BY <1>6 DEF SetIfAbsent, Waits, FibersAgree
  <2>4. kept # None => mysql[r] # None /\ mysql[r].user = kept.user
    BY <1>3, <2>3 DEF CopyOf
  <2>5. AsksWithRecord' /\ FibersAgree'
    BY <1>1, <2>1, <2>2, <2>4, ReturnAgree
  <2>6. ASSUME NEW q \in Roles PROVE (CopyOf(q, redis[q]) /\ CopyOf(q, online[q]))'
    BY <2>1, <2>4 DEF OwnersAgree, CopyOf, TypeOK
  <2> QED
    BY <2>5, <2>6 DEF OwnersAgree
<1>7. CASE Get(w)
  <2>1. Return(w, redis[r]) /\ UNCHANGED <<mysql, redis, online>>
    BY <1>7 DEF Get, Executed, Return
  <2>2. redis[r] \in Stored
    BY <1>2 DEF TypeOK, Stored
  <2>3. redis[r] # None => mysql'[r] # None /\ mysql'[r].user = redis[r].user
    BY <1>3, <2>1 DEF CopyOf
  <2>4. AsksWithRecord' /\ FibersAgree'
    BY <1>1, <2>1, <2>2, <2>3, ReturnAgree
  <2> QED
    BY <2>1, <2>4, StoresStep
<1>8. CASE Update(w)
  <2>1. Return(w, None) /\ UNCHANGED <<redis, online>> /\ None \in Stored
    BY <1>8 DEF Update, Executed, Return, Stored
  <2>2. AsksWithRecord' /\ FibersAgree'
    BY <1>1, <2>1, ReturnAgree
  <2> QED
    BY <2>1, <2>2, StoresStep
<1>9. CASE DeleteIfUnchanged(w)
  <2> DEFINE left == IF redis[r] = proc[w].record THEN None ELSE redis[r]
  <2>1. Return(w, left) /\ redis' = [redis EXCEPT ![r] = left] /\ UNCHANGED <<mysql, online>>
    BY <1>9 DEF DeleteIfUnchanged, Executed, Return
  <2>2. left \in Stored
    BY <1>2 DEF TypeOK, Stored
  <2>3. left # None => mysql[r] # None /\ mysql[r].user = left.user
    BY <1>3 DEF CopyOf
  <2>4. AsksWithRecord' /\ FibersAgree'
    BY <1>1, <2>1, <2>2, <2>3, ReturnAgree
  <2>5. ASSUME NEW q \in Roles PROVE (CopyOf(q, redis[q]) /\ CopyOf(q, online[q]))'
    BY <2>1, <2>3 DEF OwnersAgree, CopyOf, TypeOK
  <2> QED
    BY <2>4, <2>5 DEF OwnersAgree
<1> QED
  BY <1>4, <1>5, <1>6, <1>7, <1>8, <1>9 DEF Execute

\* Fibers go on with what they have got.
LEMMA ResumeAgree ==
  ASSUME Inv, NEW w \in Workers, Resume(w), OwnerKept
  PROVE  AsksWithRecord' /\ FibersAgree' /\ OwnersAgree'
<1> USE DEF Inv
<1>1. Busy(w)
  BY DEF Resume, Inserted, Selected, Loaded, Fetched, Updated, Returned
<1>2. proc[w].record \in Stored /\ proc[w].result \in Stored
  BY <1>1, BusyIsCall
<1>3. CopyOf(proc[w].role, proc[w].result)
  BY DEF FibersAgree
<1>4. UNCHANGED <<mysql, redis, online>>
  BY DEF Resume, Inserted, Selected, Loaded, Fetched, Updated, world
<1>5. \/ Finish(w)
      \/ Ask(w, "select", proc[w].record)
      \/ proc[w].result # None /\ (Ask(w, "setnx", proc[w].result) \/ Ask(w, "update", proc[w].result))
      \/ proc[w].query = "update" /\ Ask(w, "delete", proc[w].record)
  BY DEF Resume, Inserted, Selected, Loaded, Fetched, Updated, Returned
<1>6. CASE Finish(w)
  BY <1>4, <1>6, FinishAgree, StoresStep
<1>7. CASE Ask(w, "select", proc[w].record)
  <2>1. AsksWithRecord' /\ FibersAgree'
    BY <1>1, <1>2, <1>4, <1>7, AskAgree DEF Queries
  <2> QED
    BY <1>4, <2>1, StoresStep
<1>8. CASE proc[w].result # None /\ (Ask(w, "setnx", proc[w].result) \/ Ask(w, "update", proc[w].result))
  <2>1. AsksWithRecord' /\ FibersAgree'
    BY <1>1, <1>2, <1>3, <1>4, <1>8, AskAgree DEF Queries
  <2> QED
    BY <1>4, <2>1, StoresStep
<1>9. CASE proc[w].query = "update" /\ Ask(w, "delete", proc[w].record)
  <2>1. proc[w].record # None /\ CopyOf(proc[w].role, proc[w].record)
    BY <1>1, <1>9 DEF AsksWithRecord, FibersAgree
  <2>2. AsksWithRecord' /\ FibersAgree'
    BY <1>1, <1>2, <1>4, <1>9, <2>1, AskAgree DEF Queries
  <2> QED
    BY <1>4, <2>2, StoresStep
<1> QED
  BY <1>5, <1>6, <1>7, <1>8, <1>9

\* Requests and visits begin with nothing in hand but a creation's new record.
LEMMA BeginAgree ==
  ASSUME Inv, NEW w \in Workers, NEW m \in Monitors, NEW r \in Roles,
         NEW op \in {"create", "load", "unload", "flush", "save"},
         NEW q \in Queries, NEW rec \in Stored, Begin(w, m, r, op, q, rec),
         q \in {"select", "get"} \/ (q = "insert" /\ rec # None)
  PROVE  AsksWithRecord' /\ FibersAgree' /\ OwnersAgree'
<1> USE DEF Inv
<1>0. OwnerKept /\ UNCHANGED <<redis, online>>
  BY DEF OwnerKept, Begin, world
<1>1. proc'[w] = [op |-> op, monitor |-> m, role |-> r, query |-> q,
                  executed |-> FALSE, record |-> rec, result |-> None]
  BY DEF Begin, TypeOK
<1>2. /\ (CopyOf(proc[w].role, proc[w].result))'
      /\ (proc[w].query \in {"setnx", "update", "delete"} =>
             CopyOf(proc[w].role, proc[w].record))'
      /\ (Busy(w) /\ proc[w].query \in {"insert", "setnx", "update", "delete"} =>
             proc[w].record # None)'
  BY <1>1 DEF CopyOf
<1>3. \A v \in Workers \ {w} : proc'[v] = proc[v]
  BY DEF Begin, TypeOK
<1>4. \A x \in Workers \cap {w} :
           /\ (CopyOf(proc[x].role, proc[x].result))'
           /\ (proc[x].query \in {"setnx", "update", "delete"} =>
                  CopyOf(proc[x].role, proc[x].record))'
           /\ (Busy(x) /\ proc[x].query \in {"insert", "setnx", "update", "delete"} =>
                  proc[x].record # None)'
  BY <1>2
<1>5. AsksWithRecord' /\ FibersAgree'
  BY <1>0, <1>3, <1>4, FibersStep
<1> QED
  BY <1>0, <1>5, StoresStep

\* Every step keeps the agreement about owners.
LEMMA AgreeStep ==
  ASSUME Inv, [Next]_vars
  PROVE  AsksWithRecord' /\ FibersAgree' /\ OwnersAgree'
<1> USE DEF Inv
<1>0. OwnerKept
  BY OwnerKeptStep
<1>1. ASSUME UNCHANGED proc PROVE AsksWithRecord' /\ FibersAgree'
  <2> DEFINE moved == {}
  <2>1. \A v \in Workers \ moved : proc'[v] = proc[v]
    BY <1>1
  <2>2. \A x \in Workers \cap moved :
           /\ (CopyOf(proc[x].role, proc[x].result))'
           /\ (proc[x].query \in {"setnx", "update", "delete"} =>
                  CopyOf(proc[x].role, proc[x].record))'
           /\ (Busy(x) /\ proc[x].query \in {"insert", "setnx", "update", "delete"} =>
                  proc[x].record # None)'
    OBVIOUS
  <2> HIDE DEF moved
  <2> QED
    BY <1>0, <2>1, <2>2, FibersStep
<1>2. ASSUME NEW w \in Fibers, NEW m \in Monitors, NEW r \in Roles, NEW u \in Users,
             RoleCreate(w, m, r, u)
      PROVE  AsksWithRecord' /\ FibersAgree' /\ OwnersAgree'
  <2> DEFINE new == [ver |-> 0, user |-> u, home |-> HomeOf[m]]
  <2>1. new \in Stored /\ new # None /\ w \in Workers
    BY StorageAssumption DEF Stored, Records, Versions, Homes, Workers
  <2>2. Begin(w, m, r, "create", "insert", new)
    BY <1>2 DEF RoleCreate
  <2> HIDE DEF new
  <2> QED
    BY <2>1, <2>2, BeginAgree DEF Queries
<1>3. ASSUME NEW w \in Fibers, NEW m \in Monitors, NEW r \in Roles,
             RoleLoad(w, m, r) \/ RoleUnload(w, m, r) \/ RoleFlush(w, m, r)
      PROVE  AsksWithRecord' /\ FibersAgree' /\ OwnersAgree'
  <2>1. w \in Workers /\ None \in Stored
    BY DEF Workers, Stored
  <2> QED
    BY <1>3, <2>1, BeginAgree DEF RoleLoad, RoleUnload, RoleFlush, Queries
<1>4. ASSUME NEW m \in Monitors, NEW r \in Roles, SaveNext(m, r)
      PROVE  AsksWithRecord' /\ FibersAgree' /\ OwnersAgree'
  <2>1. m \in Workers /\ None \in Stored
    BY DEF Workers, Stored
  <2> QED
    BY <1>4, <2>1, BeginAgree DEF SaveNext, Queries
<1>5. ASSUME NEW m \in Monitors, CheckTable(m) \/ Arrange(m)
      PROVE  AsksWithRecord' /\ FibersAgree' /\ OwnersAgree'
  BY <1>0, <1>1, <1>5, StoresStep DEF CheckTable, Arrange, world
<1>6. ASSUME NEW r \in Roles, Login(r) \/ Save(r) \/ Leave(r) \/ Expire(r)
      PROVE  AsksWithRecord' /\ FibersAgree' /\ OwnersAgree'
  <2>1. UNCHANGED <<proc, mysql>>
    BY <1>6 DEF Login, Save, Leave, Expire
  <2>2. CopyOf(r, redis[r]) /\ CopyOf(r, online[r])
    BY DEF OwnersAgree
  <2>3. CASE Login(r)
    BY <1>1, <2>1, <2>2, <2>3 DEF Login, OwnersAgree, CopyOf, TypeOK
  <2>4. CASE Save(r)
    <3>1. online[r] \in Records /\ online[r] # None
      BY <2>4 DEF Save, TypeOK
    <3> DEFINE new == [online[r] EXCEPT !.ver = saved[r] + 1]
    <3>2. new.user = online[r].user
      BY <3>1 DEF Records
    <3>3. online' = [online EXCEPT ![r] = new] /\ redis' = [redis EXCEPT ![r] = online'[r]]
      BY <2>4 DEF Save
    <3> HIDE DEF new
    <3>4. online'[r] = new /\ redis'[r] = new
      BY <3>3 DEF TypeOK
    <3>5. ASSUME NEW q \in Roles PROVE (CopyOf(q, redis[q]) /\ CopyOf(q, online[q]))'
      <4>1. CASE q = r
        BY <2>1, <2>2, <3>1, <3>2, <3>4, <4>1 DEF CopyOf
      <4>2. CASE q # r
        BY <2>1, <3>3, <4>2 DEF OwnersAgree, CopyOf, TypeOK
      <4> QED
        BY <4>1, <4>2
    <3> QED
      BY <1>1, <2>1, <3>5 DEF OwnersAgree
  <2>5. CASE Leave(r)
    BY <1>1, <2>1, <2>2, <2>5 DEF Leave, OwnersAgree, CopyOf, TypeOK
  <2>6. CASE Expire(r)
    BY <1>1, <2>1, <2>2, <2>6 DEF Expire, OwnersAgree, CopyOf, TypeOK, world
  <2> QED
    BY <1>6, <2>3, <2>4, <2>5, <2>6
<1>7. ASSUME NEW w \in Workers, QueryFails(w) \/ ResultLost(w)
      PROVE  AsksWithRecord' /\ FibersAgree' /\ OwnersAgree'
  <2>1. Finish(w) /\ UNCHANGED <<mysql, redis, online>>
    BY <1>7 DEF QueryFails, ResultLost, Throws, world
  <2> QED
    BY <1>0, <2>1, FinishAgree, StoresStep
<1>11. ASSUME NEW w \in Workers, UpdateFails(w)
       PROVE  AsksWithRecord' /\ FibersAgree' /\ OwnersAgree'
  <2>1. /\ Busy(w) /\ Return(w, None) /\ None \in Stored
        /\ UNCHANGED <<mysql, redis, online>>
    BY <1>11 DEF UpdateFails, Waits, Executed, Return, Stored
  <2>2. AsksWithRecord' /\ FibersAgree'
    BY <1>0, <2>1, ReturnAgree
  <2> QED
    BY <1>0, <2>1, <2>2, StoresStep
<1>8. ASSUME NEW m \in Monitors, MonitorCrash(m)
      PROVE  AsksWithRecord' /\ FibersAgree' /\ OwnersAgree'
  <2> DEFINE moved == {w \in Workers : proc[w].monitor = m}
  <2>1. proc' = [w \in Workers |-> IF proc[w].monitor = m THEN Idle ELSE proc[w]]
    BY <1>8 DEF MonitorCrash
  <2>2. \A v \in Workers \ moved : proc'[v] = proc[v]
    BY <2>1
  <2>3. \A x \in Workers \cap moved :
           /\ (CopyOf(proc[x].role, proc[x].result))'
           /\ (proc[x].query \in {"setnx", "update", "delete"} =>
                  CopyOf(proc[x].role, proc[x].record))'
           /\ (Busy(x) /\ proc[x].query \in {"insert", "setnx", "update", "delete"} =>
                  proc[x].record # None)'
    BY <2>1 DEF Idle, CopyOf, Busy
  <2> HIDE DEF moved
  <2>4. AsksWithRecord' /\ FibersAgree'
    BY <1>0, <2>2, <2>3, FibersStep
  <2> QED
    BY <1>0, <1>8, <2>4, StoresStep DEF MonitorCrash, world
<1>9. CASE UNCHANGED vars
  BY <1>0, <1>1, <1>9, StoresStep DEF vars
<1>10. ASSUME NEW w \in Workers, Execute(w) \/ Resume(w)
       PROVE  AsksWithRecord' /\ FibersAgree' /\ OwnersAgree'
  BY <1>0, <1>10, ExecuteAgree, ResumeAgree
<1> QED
  BY <1>2, <1>3, <1>4, <1>5, <1>6, <1>7, <1>8, <1>9, <1>10, <1>11
     DEF Next, Request, Timer, Logic, Fault

LEMMA InvStep ==
  ASSUME Inv, [Next]_vars
  PROVE  Inv' /\ OwnerKept
BY TypeStep, AgreeStep, OwnerKeptStep DEF Inv

\* The variables of the storage of roles keep their types.
THEOREM TypeCorrect == Spec => []TypeOK
<1>1. Init => Inv
  BY Start
<1>2. Inv /\ [Next]_vars => Inv'
  BY InvStep
<1>3. Inv => TypeOK
  BY DEF Inv
<1> QED
  BY <1>1, <1>2, <1>3, PTL DEF Spec

\* Redis, the logic server and MySQL agree on the user of every role, with any number
\* of monitors, fibers and users, stale writes, failing queries and crashes.
THEOREM OneOwner == Spec => []OwnersAgree
<1>1. Init => Inv
  BY Start
<1>2. Inv /\ [Next]_vars => Inv'
  BY InvStep
<1>3. Inv => OwnersAgree
  BY DEF Inv
<1> QED
  BY <1>1, <1>2, <1>3, PTL DEF Spec

\* A row of the table `role` is never deleted, and its user never changes.
THEOREM RolesStayTheirs == Spec => OwnerStays
<1>1. Init => Inv
  BY Start
<1>2. Inv /\ [Next]_vars => Inv'
  BY InvStep
<1>3. Inv /\ [Next]_vars => [OwnerKept]_vars
  BY InvStep
<1>4. [OwnerKept]_vars =>
        [\A r \in Roles : mysql[r] # None => mysql'[r] # None /\ mysql'[r].user = mysql[r].user]_vars
  BY DEF OwnerKept
<1> QED
  BY <1>1, <1>2, <1>3, <1>4, PTL DEF Spec, OwnerStays
-----------------------------------------------------------------------------
\* A role on Redis is tracked, if nothing is unloaded, fibers resume in the order in
\* which their results came, no monitor dies, and no result is lost of a query that was
\* executed: a SET NX whose result throws leaves a record on Redis and on no list.
Tracking == "unload" \notin Ops /\ InOrder /\ Faults \subseteq {"query_error"}

\* The state after a step.
NothingNext(w, m, r) ==
  /\ proc'[w].op # "idle" /\ proc'[w].monitor = m /\ proc'[w].role = r
  /\ proc'[w].query = "get" /\ proc'[w].executed /\ proc'[w].result = None
TrackNext(w, m, r) ==
  /\ proc'[w].op # "idle" /\ proc'[w].monitor = m /\ proc'[w].role = r
  /\ proc'[w].query = "setnx" /\ proc'[w].executed
SureNext(m, r, who) ==
  \/ r \in role_records'[m] /\ \A w \in Workers : ~NothingNext(w, m, r)
  \/ \E v \in who : TrackNext(v, m, r) /\ \A w \in Workers : NothingNext(w, m, r) => w \in ahead'[v]

\* A monitor stays sure of a role while a fiber `w` goes on: one that forgets the role
\* had found nothing, one that was going to track it does so after those, and `w` does
\* not find nothing now.
LEMMA SureStays ==
  ASSUME NEW w \in Workers, NEW m \in Monitors, NEW r \in Roles,
         NEW who \in SUBSET Workers, NEW next, who \ {w} \subseteq next,
         SureOf(m, r, who),
         \A v \in Workers : v # w => proc'[v] = proc[v] /\ ahead[v] \ {w} \subseteq ahead'[v],
         r \in role_records[m] => r \in role_records'[m] \/ FoundNothing(w, m, r),
         WillTrack(w, m, r) => ahead[w] = {} /\ r \in role_records'[m],
         ~NothingNext(w, m, r)
  PROVE  SureNext(m, r, next)
<1>1. \A x \in Workers : NothingNext(x, m, r) => x # w /\ FoundNothing(x, m, r)
  BY DEF NothingNext, FoundNothing, Busy
<1>2. CASE r \in role_records[m] /\ \A x \in Workers : ~FoundNothing(x, m, r)
  BY <1>1, <1>2 DEF SureNext
<1>3. ASSUME NEW v \in who, WillTrack(v, m, r),
             \A x \in Workers : FoundNothing(x, m, r) => x \in ahead[v]
      PROVE  SureNext(m, r, next)
  <2>1. CASE v = w
    BY <1>1, <1>3, <2>1 DEF SureNext
  <2>2. CASE v # w
    <3>1. v \in Workers /\ v \in next /\ proc'[v] = proc[v] /\ ahead[v] \ {w} \subseteq ahead'[v]
      BY <2>2
    <3>2. TrackNext(v, m, r)
      BY <1>3, <3>1 DEF TrackNext, WillTrack, Busy
    <3>3. \A x \in Workers : NothingNext(x, m, r) => x \in ahead'[v]
      BY <1>1, <1>3, <3>1
    <3> QED
      BY <3>1, <3>2, <3>3 DEF SureNext
  <2> QED
    BY <2>1, <2>2
<1> QED
  BY <1>2, <1>3 DEF SureOf

\* Steps in which no fiber goes on.
LEMMA SureSame ==
  ASSUME NEW m \in Monitors, NEW r \in Roles, NEW who \in SUBSET Workers, NEW next,
         SureOf(m, r, who), UNCHANGED <<proc, ahead, role_records>>,
         \A v \in who : WillTrack(v, m, r) => v \in next
  PROVE  SureNext(m, r, next)
BY DEF SureOf, SureNext, WillTrack, TrackNext, FoundNothing, NothingNext, Busy

\* A query is executed while the role is on Redis: nobody finds nothing.
LEMMA ExecuteSure ==
  ASSUME TypeOK, NEW w \in Workers, Execute(w), NEW m \in Monitors, NEW r \in Roles,
         redis[r] # None, NEW who \in SUBSET Workers, SureOf(m, r, who)
  PROVE  SureNext(m, r, who)
<1>1. Busy(w) /\ ~proc[w].executed /\ proc[w] \in Calls
  BY BusyIsCall DEF Execute, InsertIgnore, Select, SetIfAbsent, Get, Update, DeleteIfUnchanged, Waits
<1>2. /\ \A v \in Workers : v # w => proc'[v] = proc[v] /\ ahead'[v] = ahead[v]
      /\ role_records' = role_records
  BY DEF Execute, InsertIgnore, Select, SetIfAbsent, Get, Update, DeleteIfUnchanged,
         Executed, Return, TypeOK, tracking
<1>3. ~WillTrack(w, m, r)
  BY <1>1 DEF WillTrack
<1>4. ASSUME NothingNext(w, m, r) PROVE FALSE
  <2>1. \E res : proc' = [proc EXCEPT ![w] = [proc[w] EXCEPT !.executed = TRUE, !.result = res]]
    BY DEF Execute, InsertIgnore, Select, SetIfAbsent, Get, Update, DeleteIfUnchanged, Executed, Return
  <2>2. proc'[w].query = proc[w].query /\ proc'[w].role = proc[w].role
    BY <1>1, <2>1 DEF TypeOK, Calls
  <2>3. proc[w].query = "get" /\ proc[w].role = r
    BY <1>4, <2>2 DEF NothingNext
  <2>4. Get(w)
    BY <2>3 DEF Execute, InsertIgnore, Select, SetIfAbsent, Get, Update, DeleteIfUnchanged, Waits
  <2>5. proc'[w].result = redis[r]
    BY <1>1, <2>3, <2>4 DEF Get, Executed, Return, TypeOK, Calls
  <2> QED
    BY <1>4, <2>5 DEF NothingNext
<1> QED
  BY <1>2, <1>3, <1>4, SureStays

\* A row is put on Redis: its fiber resumes after all that have found nothing before.
LEMMA PutIsSure ==
  ASSUME TypeOK, InOrder, NEW w \in Workers, SetIfAbsent(w)
  PROVE  SureNext(proc[w].monitor, proc[w].role, Workers)
<1> DEFINE m == proc[w].monitor
           r == proc[w].role
<1>1. Busy(w) /\ ~proc[w].executed /\ proc[w] \in Calls /\ proc[w].query = "setnx"
  BY BusyIsCall DEF SetIfAbsent, Waits
<1>2. PICK kept : Return(w, kept)
  BY DEF SetIfAbsent
<1>3. /\ \A v \in Workers : v # w => proc'[v] = proc[v]
      /\ proc'[w] = [proc[w] EXCEPT !.executed = TRUE, !.result = kept]
      /\ ahead'[w] = {v \in Workers : Earlier(v, w)}
  BY <1>2 DEF Return, TypeOK
<1>4. TrackNext(w, m, r)
  BY <1>1, <1>3 DEF TrackNext, Calls, Busy
<1>5. ASSUME NEW x \in Workers, NothingNext(x, m, r) PROVE x \in ahead'[w]
  <2>1. x # w
    BY <1>4, <1>5 DEF TrackNext, NothingNext
  <2>2. Earlier(x, w)
    BY <1>3, <1>5, <2>1 DEF Earlier, NothingNext, Busy
  <2> QED
    BY <1>3, <2>2
<1> QED
  BY <1>4, <1>5 DEF SureNext

\* A fiber goes on, with what it has found.
LEMMA ResumeSure ==
  ASSUME TypeOK, NoUnloading, NEW w \in Workers, Resume(w), NEW m \in Monitors, NEW r \in Roles,
         NEW who \in SUBSET Workers, NEW next, who \ {w} \subseteq next, SureOf(m, r, who)
  PROVE  SureNext(m, r, next)
<1>1. /\ Busy(w) /\ proc[w].executed /\ ahead[w] = {} /\ proc[w] \in Calls
      /\ proc[w].query # "delete" /\ proc[w].monitor \in Monitors
  BY BusyIsCall DEF Resume, Inserted, Selected, Loaded, Fetched, Updated, Returned, NoUnloading
<1>2. Finish(w) \/ \E q \in Queries, rec \in Records \cup {None} : Ask(w, q, rec)
  BY <1>1, BusyIsCall DEF Resume, Inserted, Selected, Loaded, Fetched, Updated, Queries, Calls
<1>3. /\ \A v \in Workers : v # w => proc'[v] = proc[v] /\ ahead[v] \ {w} \subseteq ahead'[v]
      /\ proc'[w].op = "idle" \/ ~proc'[w].executed
  <2>1. CASE Finish(w)
    BY <2>1 DEF Finish, Go, TypeOK, Idle
  <2>2. ASSUME NEW q \in Queries, NEW rec \in Records \cup {None}, Ask(w, q, rec)
        PROVE  /\ \A v \in Workers : v # w => proc'[v] = proc[v] /\ ahead[v] \ {w} \subseteq ahead'[v]
               /\ ~proc'[w].executed
    BY <1>1, <2>2 DEF Ask, Go, TypeOK, Calls
  <2> QED
    BY <1>2, <2>1, <2>2
<1>4. ~NothingNext(w, m, r)
  BY <1>3 DEF NothingNext
<1>5. UNCHANGED role_records \/ Track(w) \/ (Forget(w) /\ proc[w].query = "get" /\ proc[w].result = None)
  BY <1>1 DEF Resume, Inserted, Selected, Loaded, Fetched, Updated, Returned, tracking
<1>6. r \in role_records[m] => r \in role_records'[m] \/ FoundNothing(w, m, r)
  <2>1. CASE UNCHANGED role_records
    BY <2>1
  <2>2. CASE Track(w)
    BY <1>1, <2>2 DEF Track, TypeOK
  <2>3. CASE Forget(w) /\ proc[w].query = "get" /\ proc[w].result = None
    BY <1>1, <2>3 DEF Forget, FoundNothing, TypeOK
  <2> QED
    BY <1>5, <2>1, <2>2, <2>3
<1>7. WillTrack(w, m, r) => r \in role_records'[m]
  <2>1. SUFFICES ASSUME WillTrack(w, m, r) PROVE r \in role_records'[m]
    OBVIOUS
  <2>2. proc[w].query = "setnx" /\ proc[w].monitor = m /\ proc[w].role = r
    BY <2>1 DEF WillTrack
  <2>3. Loaded(w)
    BY <2>2 DEF Resume, Inserted, Selected, Loaded, Fetched, Updated, Returned
  <2> QED
    BY <2>2, <2>3 DEF Loaded, Track, TypeOK
<1> QED
  BY <1>1, <1>3, <1>4, <1>6, <1>7, SureStays

\* A handler or a visit begins, or fails before its query is executed.
LEMMA BeginSure ==
  ASSUME TypeOK, NEW w \in Workers, NEW m \in Monitors, NEW r \in Roles,
         NEW who \in SUBSET Workers, SureOf(m, r, who),
         NEW n, NEW s, NEW op, NEW q, NEW rec, Begin(w, n, s, op, q, rec)
  PROVE  SureNext(m, r, who)
<1>1. /\ ~Busy(w) /\ ahead' = ahead /\ role_records' = role_records
      /\ \A v \in Workers : v # w => proc'[v] = proc[v]
      /\ ~proc'[w].executed
  BY DEF Begin, TypeOK
<1>2. ~WillTrack(w, m, r) /\ ~NothingNext(w, m, r)
  BY <1>1 DEF WillTrack, NothingNext
<1>3. \A v \in Workers : ahead[v] \ {w} \subseteq ahead'[v]
  BY <1>1
<1> QED
  BY <1>1, <1>2, <1>3, SureStays

LEMMA FailSure ==
  ASSUME TypeOK, NEW w \in Workers, QueryFails(w), NEW m \in Monitors, NEW r \in Roles,
         NEW who \in SUBSET Workers, SureOf(m, r, who)
  PROVE  SureNext(m, r, who)
<1>1. /\ ~proc[w].executed /\ role_records' = role_records /\ proc'[w].op = "idle"
      /\ \A v \in Workers : v # w => proc'[v] = proc[v]
      /\ \A v \in Workers : ahead[v] \ {w} \subseteq ahead'[v]
  BY DEF QueryFails, Throws, Finish, Go, TypeOK, Idle
<1>2. ~WillTrack(w, m, r) /\ ~NothingNext(w, m, r)
  BY <1>1 DEF WillTrack, NothingNext
<1> QED
  BY <1>1, <1>2, SureStays

\* An UPDATE that fails changes nothing that a monitor is sure of.
LEMMA UpdateFailsSure ==
  ASSUME TypeOK, NEW w \in Workers, UpdateFails(w), NEW m \in Monitors, NEW r \in Roles,
         NEW who \in SUBSET Workers, SureOf(m, r, who)
  PROVE  SureNext(m, r, who)
<1>1. Busy(w) /\ ~proc[w].executed /\ proc[w].query = "update" /\ proc[w] \in Calls
  BY BusyIsCall DEF UpdateFails, Waits
<1>2. /\ \A v \in Workers : v # w => proc'[v] = proc[v] /\ ahead'[v] = ahead[v]
      /\ role_records' = role_records
      /\ proc' = [proc EXCEPT ![w] = [proc[w] EXCEPT !.executed = TRUE, !.result = None]]
  BY DEF UpdateFails, Executed, Return, TypeOK, tracking
<1>3. proc'[w].query = "update"
  BY <1>1, <1>2 DEF TypeOK, Calls
<1>4. ~WillTrack(w, m, r) /\ ~NothingNext(w, m, r)
  BY <1>1, <1>3 DEF WillTrack, NothingNext
<1> QED
  BY <1>2, <1>4, SureStays

\* Nothing is unloaded unless that is asked for.
LEMMA NoUnloadingStep ==
  ASSUME TypeOK, NoUnloading, "unload" \notin Ops, [Next]_vars
  PROVE  NoUnloading'
<1> SUFFICES ASSUME NEW v \in Workers, proc'[v].op # "idle"
             PROVE  proc'[v].op # "unload" /\ proc'[v].query # "delete"
  BY DEF NoUnloading, Busy
<1>1. CASE proc'[v] = proc[v]
  BY <1>1 DEF NoUnloading, Busy
<1>2. ASSUME NEW w \in Fibers, NEW m \in Monitors, NEW r \in Roles, NEW u \in Users,
             RoleCreate(w, m, r, u)
      PROVE  proc'[v].op # "unload" /\ proc'[v].query # "delete"
  BY <1>1, <1>2 DEF RoleCreate, Begin, TypeOK
<1>3. ASSUME NEW w \in Fibers, NEW m \in Monitors, NEW r \in Roles,
             RoleLoad(w, m, r) \/ RoleUnload(w, m, r) \/ RoleFlush(w, m, r)
      PROVE  proc'[v].op # "unload" /\ proc'[v].query # "delete"
  BY <1>1, <1>3 DEF RoleLoad, RoleUnload, RoleFlush, Begin, TypeOK
<1>4. ASSUME NEW m \in Monitors, NEW r \in Roles, SaveNext(m, r)
      PROVE  proc'[v].op # "unload" /\ proc'[v].query # "delete"
  BY <1>1, <1>4 DEF SaveNext, Begin, TypeOK
<1>5. ASSUME NEW w \in Workers, Execute(w)
      PROVE  proc'[v].op # "unload" /\ proc'[v].query # "delete"
  <2>1. Busy(w) /\ proc[w] \in Calls
    BY <1>5, BusyIsCall DEF Execute, InsertIgnore, Select, SetIfAbsent, Get, Update,
                            DeleteIfUnchanged, Waits
  <2>2. \E res : proc' = [proc EXCEPT ![w] = [proc[w] EXCEPT !.executed = TRUE, !.result = res]]
    BY <1>5 DEF Execute, InsertIgnore, Select, SetIfAbsent, Get, Update, DeleteIfUnchanged,
                Executed, Return
  <2>3. proc'[w].op = proc[w].op /\ proc'[w].query = proc[w].query
    BY <2>1, <2>2 DEF Calls, TypeOK
  <2>4. v # w => proc'[v] = proc[v]
    BY <2>2 DEF TypeOK
  <2> QED
    BY <1>1, <2>1, <2>3, <2>4 DEF NoUnloading
<1>6. ASSUME NEW w \in Workers, Resume(w)
      PROVE  proc'[v].op # "unload" /\ proc'[v].query # "delete"
  <2>1. Busy(w) /\ proc[w] \in Calls /\ proc[w].op # "unload"
    BY <1>6, BusyIsCall DEF Resume, Inserted, Selected, Loaded, Fetched, Updated, Returned, NoUnloading
  <2>2. Finish(w) \/ \E q, rec : q \in Queries \ {"delete"} /\ Ask(w, q, rec)
    BY <1>6, <2>1 DEF Resume, Inserted, Selected, Loaded, Fetched, Updated, Queries
  <2>3. CASE Finish(w)
    BY <1>1, <2>3 DEF Finish, TypeOK, Idle
  <2>4. ASSUME NEW q \in Queries \ {"delete"}, NEW rec, Ask(w, q, rec)
        PROVE  proc'[v].op # "unload" /\ proc'[v].query # "delete"
    <3>1. proc'[w].op = proc[w].op /\ proc'[w].query = q
      BY <2>1, <2>4 DEF Ask, TypeOK, Calls
    <3>2. v # w => proc'[v] = proc[v]
      BY <2>4 DEF Ask, TypeOK
    <3> QED
      BY <1>1, <2>1, <3>1, <3>2
  <2> QED
    BY <2>2, <2>3, <2>4
<1>7. ASSUME NEW w \in Workers, QueryFails(w) \/ ResultLost(w)
      PROVE  proc'[v].op # "unload" /\ proc'[v].query # "delete"
  BY <1>1, <1>7 DEF QueryFails, ResultLost, Throws, Finish, TypeOK, Idle
<1>10. ASSUME NEW w \in Workers, UpdateFails(w)
       PROVE  proc'[v].op # "unload" /\ proc'[v].query # "delete"
  <2>1. Busy(w) /\ proc[w] \in Calls
    BY <1>10, BusyIsCall DEF UpdateFails, Waits
  <2>2. proc' = [proc EXCEPT ![w] = [proc[w] EXCEPT !.executed = TRUE, !.result = None]]
    BY <1>10 DEF UpdateFails, Executed, Return
  <2>3. proc'[w].op = proc[w].op /\ proc'[w].query = proc[w].query
    BY <2>1, <2>2 DEF Calls, TypeOK
  <2>4. v # w => proc'[v] = proc[v]
    BY <2>2 DEF TypeOK
  <2> QED
    BY <1>1, <2>1, <2>3, <2>4 DEF NoUnloading
<1>8. ASSUME NEW m \in Monitors, MonitorCrash(m)
      PROVE  proc'[v].op # "unload" /\ proc'[v].query # "delete"
  BY <1>1, <1>8 DEF MonitorCrash, Idle
<1>9. (\E m \in Monitors : CheckTable(m) \/ Arrange(m)) \/ Logic \/ UNCHANGED vars => proc' = proc
  BY DEF CheckTable, Arrange, Logic, Login, Save, Leave, Expire, vars
<1> QED
  BY <1>1, <1>2, <1>3, <1>4, <1>5, <1>6, <1>7, <1>8, <1>9, <1>10 DEF Next, Request, Timer, Fault

LEMMA TrackInit == Init => TrackInv
<1> SUFFICES ASSUME Init PROVE TrackInv
  OBVIOUS
<1>1. Inv
  BY Start
<1>2. OnlineOnRedis /\ NoUnloading /\ SomeoneIsSure
  BY DEF Init, OnlineOnRedis, NoUnloading, SomeoneIsSure, Busy, Idle
<1> QED
  BY <1>1, <1>2 DEF TrackInv

\* What Redis and the logic server have after a step.
LEMMA OnlineOnRedisStep ==
  ASSUME Inv, OnlineOnRedis, NoUnloading, [Next]_vars, "monitor_crash" \notin Faults
  PROVE  OnlineOnRedis'
<1> USE DEF Inv
<1> SUFFICES ASSUME NEW r \in Roles, online'[r] # None PROVE redis'[r] # None
  BY DEF OnlineOnRedis
<1>1. CASE UNCHANGED <<online, redis>>
  BY <1>1 DEF OnlineOnRedis
<1>2. ASSUME NEW w \in Workers, SetIfAbsent(w) PROVE redis'[r] # None
  <2>1. online' = online /\ redis[r] # None
    BY <1>2 DEF SetIfAbsent, Return, OnlineOnRedis
  <2> QED
    BY <1>2, <2>1 DEF SetIfAbsent, TypeOK
<1>3. ASSUME NEW w \in Workers, DeleteIfUnchanged(w) PROVE redis'[r] # None
  BY <1>3 DEF DeleteIfUnchanged, Waits, NoUnloading
<1>4. ASSUME NEW s \in Roles, Login(s) \/ Leave(s) PROVE redis'[r] # None
  BY <1>4 DEF Login, Leave, OnlineOnRedis, TypeOK
<1>5. ASSUME NEW s \in Roles, Save(s) PROVE redis'[r] # None
  <2>1. CASE r = s
    BY <1>5, <2>1 DEF Save, TypeOK
  <2>2. CASE r # s
    BY <1>5, <2>2 DEF Save, OnlineOnRedis, TypeOK
  <2> QED
    BY <2>1, <2>2
<1>6. ASSUME NEW s \in Roles, Expire(s) PROVE redis'[r] # None
  BY <1>6 DEF Expire, OnlineOnRedis, TypeOK, world
<1>7. ASSUME NEW w \in Workers, Execute(w) PROVE redis'[r] # None
  <2>1. CASE InsertIgnore(w) \/ Select(w) \/ Get(w) \/ Update(w)
    BY <1>1, <2>1 DEF InsertIgnore, Select, Get, Update, Executed, Return
  <2> QED
    BY <1>2, <1>3, <1>7, <2>1 DEF Execute
<1>8. ASSUME NEW w \in Workers, Resume(w) PROVE redis'[r] # None
  BY <1>1, <1>8 DEF Resume, Inserted, Selected, Loaded, Fetched, Updated, world
<1>9. (\E m \in Monitors : MonitorCrash(m)) => FALSE
  BY DEF MonitorCrash
<1>10. ASSUME \/ Request \/ Timer \/ UNCHANGED vars
              \/ \E w \in Workers : QueryFails(w) \/ ResultLost(w) \/ UpdateFails(w)
       PROVE  UNCHANGED <<online, redis>>
  BY <1>10 DEF Request, RoleCreate, RoleLoad, RoleUnload, RoleFlush, Timer, SaveNext, Begin, CheckTable,
         Arrange, QueryFails, ResultLost, Throws, UpdateFails, Executed, Return, world, vars
<1> QED
  BY <1>1, <1>4, <1>5, <1>6, <1>7, <1>8, <1>9, <1>10 DEF Next, Logic, Fault

\* Only a creation or a load puts a role on Redis that is not there.
LEMMA AppearsOnRedis ==
  ASSUME Inv, OnlineOnRedis, [Next]_vars, NEW r \in Roles, redis[r] = None, redis'[r] # None
  PROVE  \E w \in Workers : SetIfAbsent(w) /\ proc[w].role = r
<1> USE DEF Inv
<1>1. redis' # redis
  OBVIOUS
<1>2. ASSUME NEW s \in Roles, Save(s) \/ Expire(s) PROVE FALSE
  BY <1>2 DEF Save, Expire, OnlineOnRedis, TypeOK
<1>3. ASSUME NEW w \in Workers, DeleteIfUnchanged(w) PROVE FALSE
  BY <1>3 DEF DeleteIfUnchanged, TypeOK
<1>4. ASSUME NEW w \in Workers, SetIfAbsent(w) PROVE proc[w].role = r
  BY <1>4 DEF SetIfAbsent, TypeOK
<1>5. Request \/ Timer \/ Fault \/ UNCHANGED vars => redis' = redis
  BY DEF Request, RoleCreate, RoleLoad, RoleUnload, RoleFlush, Timer, SaveNext, Begin, CheckTable,
         Arrange, Fault, QueryFails, ResultLost, Throws, UpdateFails, MonitorCrash, vars
<1>6. \A w \in Workers : Resume(w) => redis' = redis
  BY DEF Resume, Inserted, Selected, Loaded, Fetched, Updated
<1>7. \A w \in Workers : Execute(w) => redis' = redis \/ SetIfAbsent(w) \/ DeleteIfUnchanged(w)
  BY DEF Execute, InsertIgnore, Select, Get, Update
<1>8. \A s \in Roles : Login(s) \/ Leave(s) => redis' = redis
  BY DEF Login, Leave
<1> QED
  BY <1>1, <1>2, <1>3, <1>4, <1>5, <1>6, <1>7, <1>8 DEF Next, Logic

\* A role on Redis stays tracked.
LEMMA SomeoneIsSureStep ==
  ASSUME TrackInv, Tracking, [Next]_vars
  PROVE  SomeoneIsSure'
<1> USE DEF TrackInv, Inv
<1> SUFFICES ASSUME NEW r \in Roles, redis'[r] # None
             PROVE  \E m \in Monitors : SureNext(m, r, Workers)
  BY DEF SomeoneIsSure, SureOf, SureNext, WillTrack, TrackNext, FoundNothing, NothingNext, Busy
<1>1. CASE redis[r] = None
  <2>1. PICK w \in Workers : SetIfAbsent(w) /\ proc[w].role = r
    BY <1>1, AppearsOnRedis
  <2>2. proc[w].monitor \in Monitors
    BY <2>1, BusyIsCall DEF SetIfAbsent, Waits
  <2>3. SureNext(proc[w].monitor, r, Workers)
    BY <2>1, PutIsSure DEF Tracking
  <2> QED
    BY <2>2, <2>3
<1>2. CASE redis[r] # None
  <2>1. PICK m \in Monitors : SureOf(m, r, Workers)
    BY <1>2 DEF SomeoneIsSure
  <2>2. ASSUME UNCHANGED <<proc, ahead, role_records>> PROVE SureNext(m, r, Workers)
    BY <2>1, <2>2, SureSame
  <2>3. ASSUME NEW w \in Workers, Execute(w) PROVE SureNext(m, r, Workers)
    BY <1>2, <2>1, <2>3, ExecuteSure
  <2>4. ASSUME NEW w \in Workers, Resume(w) PROVE SureNext(m, r, Workers)
    BY <2>1, <2>4, ResumeSure
  <2>5. ASSUME NEW w \in Workers, QueryFails(w) PROVE SureNext(m, r, Workers)
    BY <2>1, <2>5, FailSure
  <2>11. ASSUME NEW w \in Workers, UpdateFails(w) PROVE SureNext(m, r, Workers)
    BY <2>1, <2>11, UpdateFailsSure
  <2>6. ASSUME NEW w \in Workers, NEW n, NEW s, NEW op, NEW q, NEW rec, Begin(w, n, s, op, q, rec)
        PROVE  SureNext(m, r, Workers)
    BY <2>1, <2>6, BeginSure
  <2>7. ASSUME NEW w \in Fibers, NEW n \in Monitors, NEW s \in Roles,
               \/ \E u \in Users : RoleCreate(w, n, s, u)
               \/ RoleLoad(w, n, s) \/ RoleUnload(w, n, s) \/ RoleFlush(w, n, s)
        PROVE  SureNext(m, r, Workers)
    <3>1. w \in Workers
      BY DEF Workers
    <3>2. \E op, q, rec : Begin(w, n, s, op, q, rec)
      BY <2>7 DEF RoleCreate, RoleLoad, RoleUnload, RoleFlush
    <3> QED
      BY <2>6, <3>1, <3>2
  <2>8. ASSUME NEW n \in Monitors, NEW s \in Roles, SaveNext(n, s) PROVE SureNext(m, r, Workers)
    BY <2>6, <2>8 DEF SaveNext, Workers
  <2>9. (\E n \in Monitors : CheckTable(n) \/ Arrange(n)) \/ Logic \/ UNCHANGED vars =>
          UNCHANGED <<proc, ahead, role_records>>
    BY DEF CheckTable, Arrange, Logic, Login, Save, Leave, Expire, tracking, vars
  <2>10. (\A n \in Monitors : ~MonitorCrash(n)) /\ \A w \in Workers : ~ResultLost(w)
    BY DEF MonitorCrash, ResultLost, Tracking
  <2> QED
    BY <2>2, <2>3, <2>4, <2>5, <2>7, <2>8, <2>9, <2>10, <2>11 DEF Next, Request, Timer, Fault
<1> QED
  BY <1>1, <1>2

LEMMA TrackStep ==
  ASSUME TrackInv, Tracking, [Next]_vars
  PROVE  TrackInv'
<1>1. Inv' /\ OnlineOnRedis' /\ NoUnloading'
  BY InvStep, OnlineOnRedisStep, NoUnloadingStep DEF TrackInv, Tracking, Inv
<1>2. SomeoneIsSure'
  BY SomeoneIsSureStep
<1> QED
  BY <1>1, <1>2 DEF TrackInv

\* A role on Redis is on the list of a monitor, or in the hands of a fiber: for any
\* monitors, fibers and roles, with creations, loads, flushes and queries that are
\* refused, failing UPDATEs included.
THEOREM RolesAreTracked == Tracking => (Spec => []Tracked)
<1> SUFFICES ASSUME Tracking PROVE Spec => []Tracked
  OBVIOUS
<1>1. TrackInv /\ [Next]_vars => TrackInv'
  BY TrackStep
<1>2. TrackInv => Tracked
  BY DEF TrackInv, SomeoneIsSure, SureOf, WillTrack, Tracked
<1> QED
  BY <1>1, <1>2, TrackInit, PTL DEF Spec
-----------------------------------------------------------------------------
\* No save is lost: with one monitor whose save timer goes on, without unloading,
\* crashes and failing queries, if a record outlives four cycles of the timer.
Durable == /\ Tracking /\ Faults = {} /\ TTL >= 4
           /\ \E m : Monitors = {m}

\* The state after a step.
OldSnapshotNext(w, r) ==
  /\ proc'[w].op # "idle" /\ proc'[w].role = r
  /\ \/ /\ proc'[w].query = "get" /\ proc'[w].executed
        /\ proc'[w].result # None /\ proc'[w].result.ver # saved'[r]
     \/ proc'[w].query = "update" /\ ~proc'[w].executed /\ proc'[w].record.ver # saved'[r]
OldRowNext(w, r) ==
  /\ proc'[w].op # "idle" /\ proc'[w].role = r
  /\ \/ /\ proc'[w].query \in {"insert", "select"} /\ proc'[w].executed
        /\ proc'[w].result # None /\ proc'[w].result.ver # saved'[r]
     \/ proc'[w].query = "setnx" /\ ~proc'[w].executed /\ proc'[w].record.ver # saved'[r]
InMySQLNext(r) == mysql'[r] # None /\ mysql'[r].ver = saved'[r]
SaverGoesNext(m, r) ==
  \/ r \in save_buckets'[m]
  \/ /\ proc'[m].op # "idle" /\ proc'[m].role = r
     /\ proc'[m].query = "get" \/ (proc'[m].query = "update" /\ ~proc'[m].executed)
LatestKeptNext(r) ==
  /\ redis'[r] # None => redis'[r].ver = saved'[r]
  /\ online'[r] # None => online'[r].ver = saved'[r]
  /\ mysql'[r] = None => saved'[r] = 0
  /\ redis'[r] = None => /\ mysql'[r] = None \/ InMySQLNext(r)
                         /\ \A w \in Workers : ~OldSnapshotNext(w, r) /\ ~OldRowNext(w, r)
AfterCycle1Next(r) ==
  /\ \E m \in Monitors : SureNext(m, r, late')
  /\ \A w \in Workers : OldSnapshotNext(w, r) => w \in late'
AfterCycle2Next(r) ==
  /\ \E m \in Monitors : SureNext(m, r, {}) /\ (SaverGoesNext(m, r) \/ InMySQLNext(r))
  /\ \A w \in Workers : ~OldSnapshotNext(w, r)
AfterCycle3Next(r) == InMySQLNext(r) /\ \A w \in Workers : OldRowNext(w, r) => w \in late'
AfterCycle4Next(r) == \A w \in Workers : ~OldRowNext(w, r)
LastingNext(r) ==
  /\ LatestKeptNext(r)
  /\ redis'[r] # None => /\ age'[r] >= 1 => AfterCycle1Next(r)
                         /\ age'[r] >= 2 => AfterCycle2Next(r)
                         /\ age'[r] >= 3 => AfterCycle3Next(r)
                         /\ age'[r] >= 4 => AfterCycle4Next(r)

LEMMA NextIsNext ==
  ASSUME NEW r \in Roles
  PROVE  LastingNext(r) => Lasting(r)'
<1>1. LatestKeptNext(r) => LatestKept(r)'
  BY DEF LatestKeptNext, LatestKept, OldSnapshotNext, OldSnapshot, OldRowNext, OldRow,
         InMySQLNext, InMySQL, Busy
<1>2. AfterCycle1Next(r) => AfterCycle1(r)'
  BY DEF AfterCycle1Next, AfterCycle1, OldSnapshotNext, OldSnapshot, SureNext, SureOf,
         NothingNext, FoundNothing, TrackNext, WillTrack, Busy
<1>3. AfterCycle2Next(r) => AfterCycle2(r)'
  BY DEF AfterCycle2Next, AfterCycle2, OldSnapshotNext, OldSnapshot, SureNext, SureOf,
         NothingNext, FoundNothing, TrackNext, WillTrack, SaverGoesNext, SaverGoes,
         InMySQLNext, InMySQL, Busy
<1>4. AfterCycle3Next(r) => AfterCycle3(r)'
  BY DEF AfterCycle3Next, AfterCycle3, OldRowNext, OldRow, InMySQLNext, InMySQL, Busy
<1>5. AfterCycle4Next(r) => AfterCycle4(r)'
  BY DEF AfterCycle4Next, AfterCycle4, OldRowNext, OldRow, Busy
<1> QED
  BY <1>1, <1>2, <1>3, <1>4, <1>5 DEF LastingNext, Lasting

\* What a step of fibers and databases may do about a role: no copy becomes an old one
\* but a row that MySQL has while Redis has a newer record; what is put on Redis is the
\* latest; MySQL gets the latest unless there are old snapshots; monitors stay sure, and
\* the save timer does not give the role up.
Effect(r) ==
  /\ saved'[r] = saved[r] /\ online'[r] = online[r]
  /\ \A w \in Workers : OldSnapshotNext(w, r) => OldSnapshot(w, r) /\ (w \in late => w \in late')
  /\ \A w \in Workers : OldRowNext(w, r) =>
       /\ OldRow(w, r) \/ (redis[r] # None /\ ~InMySQL(r))
       /\ w \in late => w \in late'
  /\ \/ redis'[r] = redis[r] /\ age'[r] = age[r]
     \/ redis[r] = None /\ redis'[r] # None /\ redis'[r].ver = saved[r] /\ age'[r] = 0
  /\ mysql[r] # None => mysql'[r] # None
  /\ mysql'[r] = mysql[r] \/ InMySQLNext(r) \/ \E w \in Workers : OldSnapshot(w, r)
  /\ redis[r] # None => \A m \in Monitors :
       /\ SureOf(m, r, late) => SureNext(m, r, late')
       /\ SureOf(m, r, {}) => SureNext(m, r, {})
       /\ SureOf(m, r, {}) /\ SaverGoes(m, r) /\ (\A w \in Workers : ~OldSnapshot(w, r)) =>
            SaverGoesNext(m, r) \/ InMySQLNext(r)

LEMMA EffectKeeps ==
  ASSUME NEW r \in Roles, age[r] \in Nat, Lasting(r), Effect(r)
  PROVE  LastingNext(r)
<1>1. InMySQL(r) /\ (\A w \in Workers : ~OldSnapshot(w, r)) => InMySQLNext(r)
  BY DEF Effect, InMySQL, InMySQLNext
<1>2. LatestKeptNext(r)
  <2>1. LatestKept(r)
    BY DEF Lasting
  <2>2. redis'[r] = None => /\ mysql'[r] = None \/ InMySQLNext(r)
                            /\ \A w \in Workers : ~OldSnapshotNext(w, r) /\ ~OldRowNext(w, r)
    <3> SUFFICES ASSUME redis'[r] = None
                 PROVE  /\ mysql'[r] = None \/ InMySQLNext(r)
                        /\ \A w \in Workers : ~OldSnapshotNext(w, r) /\ ~OldRowNext(w, r)
      OBVIOUS
    <3>1. redis[r] = None
      BY DEF Effect
    <3>2. /\ mysql[r] = None \/ InMySQL(r)
          /\ \A w \in Workers : ~OldSnapshot(w, r) /\ ~OldRow(w, r)
      BY <2>1, <3>1 DEF LatestKept
    <3>3. mysql'[r] = None \/ InMySQLNext(r)
      BY <1>1, <3>2 DEF Effect
    <3> QED
      BY <3>1, <3>2, <3>3 DEF Effect
  <2>3. redis'[r] # None => redis'[r].ver = saved'[r]
    BY <2>1 DEF LatestKept, Effect
  <2>4. /\ online'[r] # None => online'[r].ver = saved'[r]
        /\ mysql'[r] = None => saved'[r] = 0
    BY <2>1 DEF LatestKept, Effect
  <2> QED
    BY <2>2, <2>3, <2>4 DEF LatestKeptNext
<1>3. ASSUME redis'[r] # None, age'[r] >= 1
      PROVE  redis[r] # None /\ age'[r] = age[r]
  BY <1>3 DEF Effect
<1>4. ASSUME redis'[r] # None, age'[r] >= 1
      PROVE  AfterCycle1Next(r)
  <2>1. AfterCycle1(r) /\ redis[r] # None
    BY <1>3, <1>4 DEF Lasting
  <2> QED
    BY <2>1 DEF AfterCycle1, AfterCycle1Next, Effect
<1>5. ASSUME redis'[r] # None, age'[r] >= 2
      PROVE  AfterCycle2Next(r)
  <2>1. age'[r] = age[r] /\ redis[r] # None
    BY <1>3, <1>5 DEF Effect
  <2>2. AfterCycle2(r)
    BY <1>5, <2>1 DEF Lasting
  <2>3. PICK m \in Monitors : SureOf(m, r, {}) /\ (SaverGoes(m, r) \/ InMySQL(r))
    BY <2>2 DEF AfterCycle2
  <2>4. \A w \in Workers : ~OldSnapshot(w, r)
    BY <2>2 DEF AfterCycle2
  <2>5. SureNext(m, r, {}) /\ (SaverGoesNext(m, r) \/ InMySQLNext(r))
    BY <1>1, <2>1, <2>3, <2>4 DEF Effect
  <2> QED
    BY <2>4, <2>5 DEF AfterCycle2Next, Effect
<1>6. ASSUME redis'[r] # None, age'[r] >= 3
      PROVE  AfterCycle3Next(r)
  <2>1. age'[r] = age[r] /\ redis[r] # None
    BY <1>3, <1>6 DEF Effect
  <2>2. AfterCycle3(r) /\ AfterCycle2(r)
    BY <1>6, <2>1 DEF Lasting
  <2>3. InMySQLNext(r)
    BY <1>1, <2>2 DEF AfterCycle3, AfterCycle2
  <2> QED
    BY <2>2, <2>3 DEF AfterCycle3, AfterCycle3Next, Effect
<1>7. ASSUME redis'[r] # None, age'[r] >= 4
      PROVE  AfterCycle4Next(r)
  <2>1. age'[r] = age[r] /\ redis[r] # None
    BY <1>3, <1>7 DEF Effect
  <2>2. AfterCycle3(r) /\ AfterCycle4(r)
    BY <1>7, <2>1 DEF Lasting
  <2> QED
    BY <2>2 DEF AfterCycle3, AfterCycle4, AfterCycle4Next, Effect
<1> QED
  BY <1>2, <1>4, <1>5, <1>6, <1>7 DEF LastingNext

\* A step in which at most the fiber `w` goes on.
LEMMA OneFiberCopies ==
  ASSUME NEW w \in Workers, NEW r \in Roles,
         saved'[r] = saved[r],
         \A v \in Workers : v # w => proc'[v] = proc[v],
         late \ {w} \subseteq late',
         w \in late => w \in late' \/ proc'[w].op = "idle",
         OldSnapshotNext(w, r) => OldSnapshot(w, r),
         OldRowNext(w, r) => OldRow(w, r) \/ (redis[r] # None /\ ~InMySQL(r))
  PROVE  /\ \A v \in Workers : OldSnapshotNext(v, r) => OldSnapshot(v, r) /\ (v \in late => v \in late')
         /\ \A v \in Workers : OldRowNext(v, r) =>
              /\ OldRow(v, r) \/ (redis[r] # None /\ ~InMySQL(r))
              /\ v \in late => v \in late'
<1>1. ASSUME NEW v \in Workers, OldSnapshotNext(v, r)
      PROVE  OldSnapshot(v, r) /\ (v \in late => v \in late')
  <2>1. CASE v = w
    BY <1>1, <2>1 DEF OldSnapshotNext
  <2>2. CASE v # w
    BY <1>1, <2>2 DEF OldSnapshotNext, OldSnapshot, Busy
  <2> QED
    BY <2>1, <2>2
<1>2. ASSUME NEW v \in Workers, OldRowNext(v, r)
      PROVE  /\ OldRow(v, r) \/ (redis[r] # None /\ ~InMySQL(r))
             /\ v \in late => v \in late'
  <2>1. CASE v = w
    BY <1>2, <2>1 DEF OldRowNext
  <2>2. CASE v # w
    BY <1>2, <2>2 DEF OldRowNext, OldRow, Busy
  <2> QED
    BY <2>1, <2>2
<1> QED
  BY <1>1, <1>2

LEMMA QuietEffect ==
  ASSUME TypeOK, NEW r \in Roles,
         saved'[r] = saved[r], online'[r] = online[r], redis'[r] = redis[r], age'[r] = age[r],
         UNCHANGED <<mysql, proc, ahead, role_records, save_buckets, late>>
  PROVE  Effect(r)
<1>1. \A w \in Workers : OldSnapshotNext(w, r) => OldSnapshot(w, r)
  BY DEF OldSnapshotNext, OldSnapshot, Busy
<1>2. \A w \in Workers : OldRowNext(w, r) => OldRow(w, r)
  BY DEF OldRowNext, OldRow, Busy
<1>3. ASSUME NEW m \in Monitors
      PROVE  /\ SureOf(m, r, late) => SureNext(m, r, late')
             /\ SureOf(m, r, {}) => SureNext(m, r, {})
             /\ SaverGoes(m, r) => SaverGoesNext(m, r)
  <2>1. late \subseteq Workers
    BY DEF TypeOK, Workers
  <2>2. SureOf(m, r, late) => SureNext(m, r, late')
    BY <2>1, SureSame
  <2>3. SureOf(m, r, {}) => SureNext(m, r, {})
    BY SureSame
  <2> QED
    BY <2>2, <2>3 DEF SaverGoes, SaverGoesNext, Busy
<1> QED
  BY <1>1, <1>2, <1>3 DEF Effect

\* A handler or a visit of the save timer begins.
LEMMA BeginEffect ==
  ASSUME TypeOK, NEW r \in Roles, NEW w \in Workers, NEW n \in Monitors, NEW s \in Roles,
         NEW op, NEW q \in {"insert", "select", "get"}, NEW rec, Begin(w, n, s, op, q, rec),
         \A m \in Monitors : SaverGoes(m, r) => SaverGoesNext(m, r)
  PROVE  Effect(r)
<1>1. /\ proc'[w] = [op |-> op, monitor |-> n, role |-> s, query |-> q,
                     executed |-> FALSE, record |-> rec, result |-> None]
      /\ \A v \in Workers : v # w => proc'[v] = proc[v]
      /\ UNCHANGED <<mysql, redis, online, saved, age, late>>
  BY DEF Begin, TypeOK, world
<1>2. ~OldSnapshotNext(w, r) /\ ~OldRowNext(w, r)
  BY <1>1 DEF OldSnapshotNext, OldRowNext
<1>3. /\ \A v \in Workers : OldSnapshotNext(v, r) => OldSnapshot(v, r) /\ (v \in late => v \in late')
      /\ \A v \in Workers : OldRowNext(v, r) =>
           /\ OldRow(v, r) \/ (redis[r] # None /\ ~InMySQL(r))
           /\ v \in late => v \in late'
  BY <1>1, <1>2, OneFiberCopies
<1>4. ASSUME NEW m \in Monitors
      PROVE  /\ SureOf(m, r, late) => SureNext(m, r, late')
             /\ SureOf(m, r, {}) => SureNext(m, r, {})
  <2>1. late \in SUBSET Workers /\ {} \in SUBSET Workers /\ late' = late
    BY <1>1 DEF TypeOK, Workers
  <2>2. \A who \in SUBSET Workers : SureOf(m, r, who) => SureNext(m, r, who)
    BY BeginSure
  <2> QED
    BY <2>1, <2>2
<1> QED
  BY <1>1, <1>3, <1>4 DEF Effect

\* A query is executed.
LEMMA ReturnParts ==
  ASSUME TypeOK, NEW w \in Workers, Busy(w), NEW res, Return(w, res)
  PROVE  /\ \A v \in Workers : v # w => proc'[v] = proc[v]
         /\ proc'[w].op = proc[w].op /\ proc'[w].role = proc[w].role
         /\ proc'[w].query = proc[w].query /\ proc'[w].record = proc[w].record
         /\ proc'[w].executed /\ proc'[w].result = res
         /\ UNCHANGED <<role_records, save_buckets, online, saved, late>>
<1>1. proc[w] \in Calls
  BY BusyIsCall
<1> QED
  BY <1>1 DEF Return, TypeOK, Calls, tracking

\* What the case of an executed query comes down to.
LEMMA ReturnEffect ==
  ASSUME TypeOK, NEW r \in Roles, NEW w \in Workers, Execute(w), Busy(w), NEW res, Return(w, res),
         OldSnapshotNext(w, r) => OldSnapshot(w, r),
         OldRowNext(w, r) => OldRow(w, r) \/ (redis[r] # None /\ ~InMySQL(r)),
         \/ redis'[r] = redis[r] /\ age'[r] = age[r]
         \/ redis[r] = None /\ redis'[r] # None /\ redis'[r].ver = saved[r] /\ age'[r] = 0,
         mysql[r] # None => mysql'[r] # None,
         mysql'[r] = mysql[r] \/ InMySQLNext(r) \/ \E v \in Workers : OldSnapshot(v, r),
         redis[r] # None /\ w \in Monitors /\ SaverGoes(w, r) /\ ~OldSnapshot(w, r) =>
           SaverGoesNext(w, r) \/ InMySQLNext(r)
  PROVE  Effect(r)
<1>1. /\ \A v \in Workers : v # w => proc'[v] = proc[v]
      /\ UNCHANGED <<save_buckets, online, saved, late>>
  BY ReturnParts
<1>2. /\ \A v \in Workers : OldSnapshotNext(v, r) => OldSnapshot(v, r) /\ (v \in late => v \in late')
      /\ \A v \in Workers : OldRowNext(v, r) =>
           /\ OldRow(v, r) \/ (redis[r] # None /\ ~InMySQL(r))
           /\ v \in late => v \in late'
  <2>1. late \ {w} \subseteq late' /\ (w \in late => w \in late' \/ proc'[w].op = "idle")
    BY <1>1
  <2>2. saved'[r] = saved[r]
    BY <1>1
  <2> QED
    BY <1>1, <2>1, <2>2, OneFiberCopies
<1>3. ASSUME NEW m \in Monitors, redis[r] # None
      PROVE  /\ SureOf(m, r, late) => SureNext(m, r, late')
             /\ SureOf(m, r, {}) => SureNext(m, r, {})
             /\ SureOf(m, r, {}) /\ SaverGoes(m, r) /\ (\A v \in Workers : ~OldSnapshot(v, r)) =>
                  SaverGoesNext(m, r) \/ InMySQLNext(r)
  <2>1. late \in SUBSET Workers /\ {} \in SUBSET Workers /\ late' = late
    BY <1>1 DEF TypeOK, Workers
  <2>2. \A who \in SUBSET Workers : SureOf(m, r, who) => SureNext(m, r, who)
    BY <1>3, ExecuteSure
  <2>3. m # w /\ SaverGoes(m, r) => SaverGoesNext(m, r)
    BY <1>1 DEF SaverGoes, SaverGoesNext, Busy, Workers
  <2> QED
    BY <1>3, <2>1, <2>2, <2>3
<1> QED
  BY <1>1, <1>2, <1>3 DEF Effect

LEMMA ExecuteEffect ==
  ASSUME LastInv, NEW w \in Workers, Execute(w), NEW r \in Roles
  PROVE  Effect(r)
<1> USE DEF LastInv, TrackInv, Inv
<1> DEFINE s == proc[w].role
           new == proc[w].record
<1>1. Busy(w) /\ ~proc[w].executed
  BY DEF Execute, InsertIgnore, Select, SetIfAbsent, Get, Update, DeleteIfUnchanged, Waits
<1>2. proc[w] \in Calls /\ s \in Roles
  BY <1>1, BusyIsCall
<1>3. Lasting(r) /\ LatestKept(r)
  BY DEF Lasting
<1>4. CopyOf(r, redis[r])
  BY DEF OwnersAgree
<1>5. CASE InsertIgnore(w)
  <2> DEFINE res == IF mysql[s] = None THEN new ELSE None
  <2>1. /\ Return(w, res) /\ UNCHANGED <<redis, age>> /\ proc[w].query = "insert"
        /\ mysql' = [mysql EXCEPT ![s] = IF @ = None THEN [ver |-> new.ver, user |-> new.user] ELSE @]
    BY <1>5 DEF InsertIgnore, Executed, Waits
  <2>2. /\ proc'[w].query = "insert" /\ proc'[w].role = s /\ proc'[w].result = res
        /\ saved' = saved
    BY <1>1, <2>1, ReturnParts
  <2>3. new.ver = 0 /\ new \in Records
    BY <1>1, <1>2, <2>1 DEF CreationsAreNew, AsksWithRecord, Calls
  <2>4. [ver |-> new.ver, user |-> new.user] # None
    BY <2>3, StorageAssumption DEF Records, Rows
  <2>5. s = r /\ mysql[r] = None => mysql'[r] # None /\ mysql'[r].ver = 0 /\ saved[r] = 0
    BY <1>3, <2>1, <2>3, <2>4 DEF TypeOK, LatestKept
  <2>6. ~(s = r /\ mysql[r] = None) => mysql'[r] = mysql[r]
    BY <2>1 DEF TypeOK
  <2>7. ~OldSnapshotNext(w, r)
    BY <2>2 DEF OldSnapshotNext
  <2>8. ~OldRowNext(w, r)
    BY <1>3, <2>2, <2>3 DEF OldRowNext, LatestKept
  <2>9. mysql'[r] = mysql[r] \/ InMySQLNext(r)
    BY <2>2, <2>5, <2>6 DEF InMySQLNext
  <2>10. w \notin Monitors
    BY <1>1, <2>1 DEF SaversSave
  <2> HIDE DEF res
  <2> QED
    BY <1>1, <2>1, <2>5, <2>6, <2>7, <2>8, <2>9, <2>10, ReturnEffect
<1>6. CASE Select(w)
  <2> DEFINE row == mysql[s]
             user == IF proc[w].op = "create" THEN proc[w].record.user ELSE row.user
             res == IF row # None /\ row.user = user
                      THEN [ver |-> row.ver, user |-> user, home |-> HomeOf[proc[w].monitor]]
                      ELSE None
  <2>1. Return(w, res) /\ UNCHANGED <<mysql, redis, age>> /\ proc[w].query = "select"
    BY <1>6 DEF Select, Executed, Waits
  <2>2. res # None => row # None /\ res.ver = row.ver
    OBVIOUS
  <2> HIDE DEF res
  <2>3. /\ proc'[w].query = "select" /\ proc'[w].role = s /\ proc'[w].result = res
        /\ saved' = saved
    BY <1>1, <2>1, ReturnParts
  <2>4. ~OldSnapshotNext(w, r)
    BY <2>3 DEF OldSnapshotNext
  <2>5. OldRowNext(w, r) => redis[r] # None /\ ~InMySQL(r)
    BY <1>3, <2>2, <2>3 DEF OldRowNext, LatestKept, InMySQL
  <2>6. w \notin Monitors
    BY <1>1, <2>1 DEF SaversSave
  <2> QED
    BY <1>1, <2>1, <2>4, <2>5, <2>6, ReturnEffect
<1>7. CASE SetIfAbsent(w)
  <2> DEFINE kept == IF redis[s] = None THEN new ELSE redis[s]
  <2>1. /\ Return(w, kept) /\ mysql' = mysql /\ proc[w].query = "setnx"
        /\ redis' = [redis EXCEPT ![s] = kept]
        /\ age' = [age EXCEPT ![s] = IF redis[s] = None THEN 0 ELSE @]
    BY <1>7 DEF SetIfAbsent, Waits
  <2>2. proc'[w].query = "setnx" /\ proc'[w].executed
    BY <1>1, <2>1, ReturnParts
  <2>3. ~OldSnapshotNext(w, r) /\ ~OldRowNext(w, r)
    BY <2>2 DEF OldSnapshotNext, OldRowNext
  <2>4. new # None
    BY <1>1, <2>1 DEF AsksWithRecord
  <2>5. redis[r] = None /\ s = r => new.ver = saved[r]
    BY <1>1, <1>3, <2>1 DEF LatestKept, OldRow
  <2>6. \/ redis'[r] = redis[r] /\ age'[r] = age[r]
        \/ redis[r] = None /\ redis'[r] # None /\ redis'[r].ver = saved[r] /\ age'[r] = 0
    BY <2>1, <2>4, <2>5 DEF TypeOK
  <2>7. w \notin Monitors
    BY <1>1, <2>1 DEF SaversSave
  <2> HIDE DEF kept
  <2> QED
    BY <1>1, <2>1, <2>3, <2>6, <2>7, ReturnEffect
<1>8. CASE Get(w)
  <2>1. /\ Return(w, redis[s]) /\ UNCHANGED <<mysql, redis, age>> /\ proc[w].query = "get"
    BY <1>8 DEF Get, Executed, Waits
  <2>2. /\ proc'[w].op = proc[w].op
        /\ proc'[w].query = "get" /\ proc'[w].role = s /\ proc'[w].result = redis[s]
        /\ saved' = saved /\ save_buckets' = save_buckets
    BY <1>1, <2>1, ReturnParts
  <2>3. ~OldSnapshotNext(w, r)
    BY <1>3, <2>2 DEF OldSnapshotNext, LatestKept
  <2>4. ~OldRowNext(w, r)
    BY <2>2 DEF OldRowNext
  <2>5. SaverGoes(w, r) => SaverGoesNext(w, r)
    BY <1>1, <2>2 DEF SaverGoes, SaverGoesNext, Busy
  <2> QED
    BY <1>1, <2>1, <2>3, <2>4, <2>5, ReturnEffect
<1>9. CASE Update(w)
  <2>1. /\ Return(w, None) /\ UNCHANGED <<redis, age>> /\ proc[w].query = "update"
        /\ mysql' = [mysql EXCEPT ![s] = IF @ = None THEN None ELSE [ver |-> new.ver, user |-> new.user]]
    BY <1>9 DEF Update, Executed, Waits
  <2>2. /\ proc'[w].query = "update" /\ proc'[w].executed
        /\ saved' = saved /\ save_buckets' = save_buckets
    BY <1>1, <2>1, ReturnParts
  <2>3. ~OldSnapshotNext(w, r) /\ ~OldRowNext(w, r)
    BY <2>2 DEF OldSnapshotNext, OldRowNext
  <2>4. new \in Records
    BY <1>1, <1>2, <2>1 DEF AsksWithRecord, Calls
  <2>5. [ver |-> new.ver, user |-> new.user] # None
    BY <2>4, StorageAssumption DEF Records, Rows
  <2>6. mysql[r] # None => mysql'[r] # None
    BY <2>1, <2>5 DEF TypeOK
  <2>7. s # r \/ mysql[r] = None => mysql'[r] = mysql[r]
    BY <2>1 DEF TypeOK
  <2>8. s = r /\ ~OldSnapshot(w, r) => new.ver = saved[r]
    BY <1>1, <2>1 DEF OldSnapshot
  <2>9. s = r /\ ~OldSnapshot(w, r) /\ mysql[r] # None => InMySQLNext(r)
    BY <2>1, <2>2, <2>6, <2>8 DEF InMySQLNext, TypeOK
  <2>10. redis[r] # None => mysql[r] # None
    BY <1>4 DEF CopyOf
  <2>11. redis[r] # None /\ SaverGoes(w, r) /\ ~OldSnapshot(w, r) => SaverGoesNext(w, r) \/ InMySQLNext(r)
    BY <2>1, <2>2, <2>9, <2>10 DEF SaverGoes, SaverGoesNext
  <2> QED
    BY <1>1, <2>1, <2>3, <2>6, <2>7, <2>9, <2>11, ReturnEffect
<1>10. CASE DeleteIfUnchanged(w)
  BY <1>10 DEF DeleteIfUnchanged, Waits, NoUnloading
<1> QED
  BY <1>5, <1>6, <1>7, <1>8, <1>9, <1>10 DEF Execute

\* A fiber goes on with its result.
LEMMA ResumeParts ==
  ASSUME TypeOK, NEW w \in Workers, Busy(w),
         Finish(w) \/ \E q \in Queries, rec \in Records \cup {None} : Ask(w, q, rec)
  PROVE  /\ \A v \in Workers : v # w => proc'[v] = proc[v]
         /\ late \ {w} \subseteq late' /\ (w \in late => w \in late' \/ proc'[w].op = "idle")
<1>1. CASE Finish(w)
  BY <1>1 DEF Finish, TypeOK, Idle
<1>2. ASSUME NEW q, NEW rec, Ask(w, q, rec)
      PROVE  /\ \A v \in Workers : v # w => proc'[v] = proc[v]
             /\ late' = late
  BY <1>2 DEF Ask, TypeOK
<1> QED
  BY <1>1, <1>2

LEMMA AskParts ==
  ASSUME TypeOK, NEW w \in Workers, Busy(w), NEW q, NEW rec, Ask(w, q, rec)
  PROVE  /\ proc'[w].op = proc[w].op /\ proc'[w].role = proc[w].role
         /\ proc'[w].query = q /\ ~proc'[w].executed /\ proc'[w].record = rec
<1>1. proc[w] \in Calls
  BY BusyIsCall
<1> QED
  BY <1>1 DEF Ask, TypeOK, Calls

LEMMA ResumeEffect ==
  ASSUME LastInv, NEW w \in Workers, Resume(w), NEW r \in Roles
  PROVE  Effect(r)
<1> USE DEF LastInv, TrackInv, Inv
<1>1. /\ Busy(w) /\ proc[w].executed /\ proc[w] \in Calls /\ proc[w].op # "unload"
      /\ proc[w].query # "delete"
      /\ UNCHANGED <<mysql, redis, online, saved, age, save_buckets>>
  BY BusyIsCall DEF Resume, Inserted, Selected, Loaded, Fetched, Updated, Returned, NoUnloading,
                    tracking, world
<1>2. \/ Finish(w)
      \/ proc[w].query = "insert" /\ Ask(w, "select", proc[w].record)
      \/ /\ proc[w].query \in {"insert", "select"} /\ proc[w].result # None
         /\ Ask(w, "setnx", proc[w].result)
      \/ /\ proc[w].query = "get" /\ proc[w].result # None
         /\ Ask(w, "update", proc[w].result)
  BY <1>1 DEF Resume, Inserted, Selected, Loaded, Fetched, Updated, Returned
<1>3. /\ \A v \in Workers : v # w => proc'[v] = proc[v]
      /\ late \ {w} \subseteq late' /\ (w \in late => w \in late' \/ proc'[w].op = "idle")
  <2>1. Finish(w) \/ \E q \in Queries, rec \in Records \cup {None} : Ask(w, q, rec)
    BY <1>1, <1>2 DEF Queries, Calls
  <2> QED
    BY <1>1, <2>1, ResumeParts
<1>4. OldSnapshotNext(w, r) => OldSnapshot(w, r)
  <2>1. CASE Finish(w)
    BY <2>1 DEF Finish, TypeOK, Idle, OldSnapshotNext
  <2>2. CASE ~Finish(w)
    BY <1>1, <1>2, <2>2, AskParts DEF OldSnapshotNext, OldSnapshot
  <2> QED
    BY <2>1, <2>2
<1>5. OldRowNext(w, r) => OldRow(w, r)
  <2>1. CASE Finish(w)
    BY <2>1 DEF Finish, TypeOK, Idle, OldRowNext
  <2>2. CASE ~Finish(w)
    BY <1>1, <1>2, <2>2, AskParts DEF OldRowNext, OldRow
  <2> QED
    BY <2>1, <2>2
<1>6. /\ \A v \in Workers : OldSnapshotNext(v, r) => OldSnapshot(v, r) /\ (v \in late => v \in late')
      /\ \A v \in Workers : OldRowNext(v, r) =>
           /\ OldRow(v, r) \/ (redis[r] # None /\ ~InMySQL(r))
           /\ v \in late => v \in late'
  <2>1. saved'[r] = saved[r]
    BY <1>1
  <2> QED
    BY <1>3, <1>4, <1>5, <2>1, OneFiberCopies
<1>7. ASSUME NEW m \in Monitors
      PROVE  /\ SureOf(m, r, late) => SureNext(m, r, late')
             /\ SureOf(m, r, {}) => SureNext(m, r, {})
  <2>1. late \in SUBSET Workers /\ {} \in SUBSET Workers
    BY DEF TypeOK, Workers
  <2>2. SureOf(m, r, late) => SureNext(m, r, late')
    BY <1>3, <2>1, ResumeSure
  <2>3. {} \ {w} \subseteq {}
    OBVIOUS
  <2>4. SureOf(m, r, {}) => SureNext(m, r, {})
    BY <2>1, <2>3, ResumeSure
  <2> QED
    BY <2>2, <2>4
<1>8. ASSUME NEW m \in Monitors, SureOf(m, r, {}), SaverGoes(m, r)
      PROVE  SaverGoesNext(m, r) \/ InMySQLNext(r)
  <2>0. m \in Workers
    BY DEF Workers
  <2>1. CASE r \in save_buckets[m]
    BY <1>1, <2>1 DEF SaverGoesNext
  <2>2. CASE m # w
    BY <1>1, <1>3, <1>8, <2>0, <2>2 DEF SaverGoes, SaverGoesNext, Busy
  <2>3. CASE m = w /\ r \notin save_buckets[m]
    <3>1. proc[w].query = "get" /\ proc[w].role = r /\ proc[w].op = "save"
      BY <1>1, <1>8, <2>3 DEF SaverGoes, SaversSave
    <3>2. proc[w].monitor = w
      BY <1>1, <2>3 DEF SaversSave
    <3>3. proc[w].result # None
      BY <1>1, <1>8, <2>3, <3>1, <3>2 DEF SureOf, FoundNothing
    <3>4. Ask(w, "update", proc[w].result)
      BY <1>1, <3>1, <3>3 DEF Resume, Inserted, Selected, Loaded, Fetched, Updated, Returned
    <3> QED
      BY <1>1, <2>3, <3>1, <3>4, AskParts DEF SaverGoesNext, Busy
  <2> QED
    BY <2>1, <2>2, <2>3
<1> QED
  BY <1>1, <1>6, <1>7, <1>8 DEF Effect

\* Login, save, logout and expiry of the role itself.
LEMMA LogicLasting ==
  ASSUME LastInv, Durable, NEW r \in Roles, Login(r) \/ Save(r) \/ Leave(r) \/ Expire(r)
  PROVE  LastingNext(r)
<1> USE DEF LastInv, TrackInv, Inv
<1>1. Lasting(r) /\ LatestKept(r) /\ age[r] \in Nat /\ saved[r] \in Nat
  BY StorageAssumption DEF Lasting, TypeOK, Versions
<1>2. UNCHANGED <<mysql, proc, ahead, role_records, save_buckets, late>>
  BY DEF Login, Save, Leave, Expire, tracking, world
<1>3. CASE Login(r)
  <2>1. /\ redis' = redis /\ saved' = saved /\ online'[r] = redis[r] /\ age'[r] = 0
        /\ redis[r] # None
    BY <1>3 DEF Login, TypeOK
  <2>2. LatestKeptNext(r)
    BY <1>1, <1>2, <2>1 DEF LatestKept, LatestKeptNext
  <2> QED
    BY <2>1, <2>2 DEF LastingNext
<1>4. CASE Save(r)
  <2>1. redis[r] # None /\ online[r] # None
    BY <1>4 DEF Save, OnlineOnRedis
  <2>2. mysql[r] # None
    BY <2>1 DEF OwnersAgree, CopyOf
  <2> DEFINE new == [online[r] EXCEPT !.ver = saved[r] + 1]
  <2>3. /\ saved'[r] = saved[r] + 1 /\ age'[r] = 0
        /\ online' = [online EXCEPT ![r] = new] /\ redis' = [redis EXCEPT ![r] = online'[r]]
    BY <1>4 DEF Save, TypeOK
  <2>4. new \in Records /\ new.ver = saved[r] + 1
    <3>1. online[r] \in Records
      BY <2>1 DEF TypeOK
    <3>2. saved[r] + 1 \in Versions
      BY <1>4, StorageAssumption DEF Save, TypeOK, Versions
    <3> QED
      BY <3>1, <3>2 DEF Records
  <2> HIDE DEF new
  <2>5. new # None
    BY <2>4, StorageAssumption
  <2>6. online'[r] = new /\ redis'[r] = new
    BY <2>3 DEF TypeOK
  <2>7. LatestKeptNext(r)
    BY <1>2, <2>2, <2>3, <2>4, <2>5, <2>6 DEF LatestKeptNext
  <2> QED
    BY <2>3, <2>7 DEF LastingNext
<1>5. CASE Leave(r)
  <2>1. /\ UNCHANGED <<redis, saved, age>> /\ online'[r] = None
    BY <1>5 DEF Leave, TypeOK
  <2>2. Effect(r) \/ online'[r] # online[r]
    BY <1>2, <2>1, QuietEffect
  <2>3. ASSUME online'[r] # online[r] PROVE LastingNext(r)
    <3>1. \A w \in Workers : OldSnapshotNext(w, r) => OldSnapshot(w, r)
      BY <1>2, <2>1 DEF OldSnapshotNext, OldSnapshot, Busy
    <3>2. \A w \in Workers : OldRowNext(w, r) => OldRow(w, r)
      BY <1>2, <2>1 DEF OldRowNext, OldRow, Busy
    <3>3. LatestKeptNext(r)
      BY <1>1, <1>2, <2>1, <3>1, <3>2 DEF LatestKept, LatestKeptNext, InMySQL, InMySQLNext
    <3>4. AfterCycle1(r) => AfterCycle1Next(r)
      <4>1. late \in SUBSET Workers
        BY DEF TypeOK, Workers
      <4>2. \A m \in Monitors : SureOf(m, r, late) => SureNext(m, r, late')
        BY <1>2, <4>1, SureSame
      <4> QED
        BY <1>2, <3>1, <4>2 DEF AfterCycle1, AfterCycle1Next
    <3>5. AfterCycle2(r) => AfterCycle2Next(r)
      <4>1. \A m \in Monitors : SureOf(m, r, {}) => SureNext(m, r, {})
        BY <1>2, SureSame
      <4>2. \A m \in Monitors : SaverGoes(m, r) => SaverGoesNext(m, r)
        BY <1>2 DEF SaverGoes, SaverGoesNext, Busy
      <4>3. InMySQL(r) => InMySQLNext(r)
        BY <1>2, <2>1 DEF InMySQL, InMySQLNext
      <4> QED
        BY <3>1, <4>1, <4>2, <4>3 DEF AfterCycle2, AfterCycle2Next
    <3>6. AfterCycle3(r) => AfterCycle3Next(r)
      BY <1>2, <2>1, <3>2 DEF AfterCycle3, AfterCycle3Next, InMySQL, InMySQLNext
    <3>7. AfterCycle4(r) => AfterCycle4Next(r)
      BY <3>2 DEF AfterCycle4, AfterCycle4Next
    <3> QED
      BY <1>1, <2>1, <3>3, <3>4, <3>5, <3>6, <3>7 DEF Lasting, LastingNext
  <2> QED
    BY <1>1, <2>2, <2>3, EffectKeeps
<1>6. CASE Expire(r)
  <2>1. /\ redis[r] # None /\ online[r] = None /\ age[r] = TTL /\ redis'[r] = None
        /\ UNCHANGED <<saved, online>>
    BY <1>6 DEF Expire, TypeOK, world
  <2>2. AfterCycle2(r) /\ AfterCycle3(r) /\ AfterCycle4(r)
    BY <1>1, <2>1, StorageAssumption DEF Lasting, Durable
  <2>3. \A w \in Workers : ~OldSnapshot(w, r) /\ ~OldRow(w, r)
    BY <2>2 DEF AfterCycle2, AfterCycle4
  <2>4. \A w \in Workers : ~OldSnapshotNext(w, r) /\ ~OldRowNext(w, r)
    BY <1>2, <2>1, <2>3 DEF OldSnapshotNext, OldSnapshot, OldRowNext, OldRow, Busy
  <2>5. InMySQLNext(r)
    BY <1>2, <2>1, <2>2 DEF AfterCycle3, InMySQL, InMySQLNext
  <2>6. LatestKeptNext(r)
    BY <2>1, <2>4, <2>5 DEF LatestKeptNext, InMySQLNext
  <2> QED
    BY <2>1, <2>6 DEF LastingNext
<1> QED
  BY <1>3, <1>4, <1>5, <1>6

\* A cycle of the save timer begins: the fibers that are running are the ones to wait
\* for, every role on the list is to be written, and what the last cycle waited for has
\* happened.
LEMMA ArrangeLasting ==
  ASSUME LastInv, Durable, NEW n \in Monitors, Arrange(n), NEW r \in Roles
  PROVE  LastingNext(r)
<1> USE DEF LastInv, TrackInv, Inv
<1>1. /\ ~Busy(n) /\ save_buckets[n] = {} /\ late = {}
      /\ save_buckets'[n] = role_records[n]
      /\ late' = {w \in Fibers : Busy(w)}
      /\ UNCHANGED <<mysql, redis, role_records, proc, ahead, online, saved>>
  BY DEF Arrange, TypeOK
<1>2. age'[r] = IF age[r] < TTL THEN age[r] + 1 ELSE TTL
  BY DEF Arrange
<1>3. /\ age[r] \in Nat /\ TTL \in Nat /\ age[r] <= TTL
      /\ Lasting(r) /\ LatestKept(r)
  BY StorageAssumption DEF TypeOK, Lasting
<1>4. \A m \in Monitors : m = n
  BY DEF Durable
<1>5. \A w \in Workers : Busy(w) => w \in late'
  BY <1>1, <1>4 DEF Workers
<1>6. \A w \in Workers : OldSnapshotNext(w, r) => OldSnapshot(w, r) /\ w \in late'
  BY <1>1, <1>5 DEF OldSnapshotNext, OldSnapshot, Busy
<1>7. \A w \in Workers : OldRowNext(w, r) => OldRow(w, r) /\ w \in late'
  BY <1>1, <1>5 DEF OldRowNext, OldRow, Busy
<1>8. InMySQL(r) => InMySQLNext(r)
  BY <1>1 DEF InMySQL, InMySQLNext
<1>9. LatestKeptNext(r)
  BY <1>1, <1>3, <1>6, <1>7, <1>8 DEF LatestKept, LatestKeptNext
<1>10. ASSUME redis[r] # None PROVE AfterCycle1Next(r)
  <2>1. PICK m \in Monitors : SureOf(m, r, Workers)
    BY <1>10 DEF SomeoneIsSure
  <2>2. \A v \in Workers : WillTrack(v, m, r) => v \in late'
    BY <1>5 DEF WillTrack
  <2>3. SureNext(m, r, late')
    BY <1>1, <2>1, <2>2, SureSame
  <2> QED
    BY <1>6, <2>3 DEF AfterCycle1Next
<1>11. ASSUME AfterCycle1(r) PROVE AfterCycle2Next(r)
  <2>1. SureOf(n, r, {})
    BY <1>1, <1>4, <1>11 DEF AfterCycle1
  <2>2. SureNext(n, r, {})
    BY <1>1, <2>1, SureSame
  <2>3. SaverGoesNext(n, r)
    BY <1>1, <2>1 DEF SureOf, SaverGoesNext
  <2>4. \A w \in Workers : ~OldSnapshotNext(w, r)
    BY <1>1, <1>6, <1>11 DEF AfterCycle1
  <2> QED
    BY <2>2, <2>3, <2>4 DEF AfterCycle2Next
<1>12. ASSUME AfterCycle2(r) PROVE AfterCycle3Next(r)
  <2>1. InMySQL(r)
    BY <1>1, <1>4, <1>12 DEF AfterCycle2, SaverGoes
  <2> QED
    BY <1>7, <1>8, <2>1 DEF AfterCycle3Next
<1>13. ASSUME AfterCycle3(r) PROVE AfterCycle4Next(r)
  BY <1>1, <1>7, <1>13 DEF AfterCycle3, AfterCycle4Next
<1>14. /\ age'[r] >= 2 => age[r] >= 1
       /\ age'[r] >= 3 => age[r] >= 2
       /\ age'[r] >= 4 => age[r] >= 3
  BY <1>2, <1>3
<1> QED
  BY <1>1, <1>3, <1>9, <1>10, <1>11, <1>12, <1>13, <1>14 DEF Lasting, LastingNext

\* A step of the logic server about another role.
LEMMA OtherRoleLasting ==
  ASSUME LastInv, NEW r \in Roles, NEW s \in Roles, s # r,
         Login(s) \/ Save(s) \/ Leave(s) \/ Expire(s)
  PROVE  LastingNext(r)
<1> USE DEF LastInv, TrackInv, Inv
<1>1. UNCHANGED <<mysql, proc, ahead, role_records, save_buckets, late>>
  BY DEF Login, Save, Leave, Expire, tracking, world
<1>2. saved'[r] = saved[r] /\ online'[r] = online[r] /\ redis'[r] = redis[r] /\ age'[r] = age[r]
  BY DEF Login, Save, Leave, Expire, TypeOK, world
<1>3. age[r] \in Nat /\ Lasting(r)
  BY StorageAssumption DEF TypeOK
<1> QED
  BY <1>1, <1>2, <1>3, QuietEffect, EffectKeeps

\* Requests and visits of the save timer.
LEMMA RequestBegins ==
  ASSUME NEW w \in Fibers, NEW n \in Monitors, NEW s \in Roles,
         \/ \E u \in Users : RoleCreate(w, n, s, u)
         \/ RoleLoad(w, n, s) \/ RoleUnload(w, n, s) \/ RoleFlush(w, n, s)
  PROVE  \E op, q, rec : /\ Begin(w, n, s, op, q, rec) /\ save_buckets' = save_buckets
                         /\ q \in {"insert", "select", "get"} /\ (q = "insert" => rec.ver = 0)
<1>1. ASSUME NEW u \in Users, RoleCreate(w, n, s, u)
      PROVE  \E rec : /\ Begin(w, n, s, "create", "insert", rec) /\ save_buckets' = save_buckets
                      /\ rec.ver = 0
  <2> DEFINE new == [ver |-> 0, user |-> u, home |-> HomeOf[n]]
  <2>1. Begin(w, n, s, "create", "insert", new) /\ save_buckets' = save_buckets
    BY <1>1 DEF RoleCreate
  <2>2. new.ver = 0
    OBVIOUS
  <2> QED
    BY <2>1, <2>2
<1> DEFINE Fits(op, q, rec) == /\ Begin(w, n, s, op, q, rec) /\ save_buckets' = save_buckets
                               /\ q \in {"insert", "select", "get"} /\ (q = "insert" => rec.ver = 0)
<1>2. RoleLoad(w, n, s) => Fits("load", "select", None)
  BY DEF RoleLoad
<1>3. RoleUnload(w, n, s) => Fits("unload", "get", None)
  BY DEF RoleUnload
<1>4. RoleFlush(w, n, s) => Fits("flush", "get", None)
  BY DEF RoleFlush
<1>5. (\E u \in Users : RoleCreate(w, n, s, u)) => \E rec : Fits("create", "insert", rec)
  BY <1>1
<1>6. \E op, q, rec : Fits(op, q, rec)
  <2> HIDE DEF Fits
  <2> QED
    BY <1>2, <1>3, <1>4, <1>5
<1> QED
  BY <1>6

LEMMA RequestLasting ==
  ASSUME LastInv, NEW r \in Roles, NEW w \in Fibers, NEW n \in Monitors, NEW s \in Roles,
         \/ \E u \in Users : RoleCreate(w, n, s, u)
         \/ RoleLoad(w, n, s) \/ RoleUnload(w, n, s) \/ RoleFlush(w, n, s)
  PROVE  LastingNext(r)
<1> USE DEF LastInv, TrackInv, Inv
<1>1. PICK op, q, rec : /\ Begin(w, n, s, op, q, rec) /\ save_buckets' = save_buckets
                        /\ q \in {"insert", "select", "get"}
  BY RequestBegins
<1>2. w \in Workers /\ w \notin Monitors
  BY StorageAssumption DEF Workers
<1>3. \A v \in Workers : v # w => proc'[v] = proc[v]
  BY <1>1 DEF Begin, TypeOK
<1>4. \A m \in Monitors : SaverGoes(m, r) => SaverGoesNext(m, r)
  BY <1>1, <1>2, <1>3 DEF SaverGoes, SaverGoesNext, Busy, Workers
<1>5. age[r] \in Nat /\ Lasting(r)
  BY StorageAssumption DEF TypeOK
<1> QED
  BY <1>1, <1>2, <1>4, <1>5, BeginEffect, EffectKeeps

LEMMA SaveNextLasting ==
  ASSUME LastInv, NEW r \in Roles, NEW n \in Monitors, NEW s \in Roles, SaveNext(n, s)
  PROVE  LastingNext(r)
<1> USE DEF LastInv, TrackInv, Inv
<1>1. /\ Begin(n, n, s, "save", "get", None) /\ ~Busy(n)
      /\ save_buckets' = [save_buckets EXCEPT ![n] = @ \ {s}]
  BY DEF SaveNext, Begin
<1>2. n \in Workers
  BY DEF Workers
<1>3. /\ \A v \in Workers : v # n => proc'[v] = proc[v]
      /\ proc'[n].op = "save" /\ proc'[n].role = s /\ proc'[n].query = "get"
  BY <1>1, <1>2 DEF Begin, TypeOK
<1>4. ASSUME NEW m \in Monitors, SaverGoes(m, r) PROVE SaverGoesNext(m, r)
  <2>1. m \in Workers
    BY DEF Workers
  <2>2. CASE m # n
    BY <1>1, <1>3, <1>4, <2>1, <2>2 DEF SaverGoes, SaverGoesNext, Busy, TypeOK
  <2>3. CASE m = n /\ s = r
    BY <1>3, <2>3 DEF SaverGoesNext
  <2>4. CASE m = n /\ s # r
    BY <1>1, <1>4, <2>4 DEF SaverGoes, SaverGoesNext, TypeOK
  <2> QED
    BY <2>2, <2>3, <2>4
<1>5. age[r] \in Nat /\ Lasting(r)
  BY StorageAssumption DEF TypeOK
<1> QED
  BY <1>1, <1>2, <1>4, <1>5, BeginEffect, EffectKeeps

LEMMA LastingStep ==
  ASSUME LastInv, Durable, [Next]_vars, NEW r \in Roles
  PROVE  Lasting(r)'
<1> SUFFICES LastingNext(r)
  BY NextIsNext
<1>0. TypeOK /\ age[r] \in Nat /\ Lasting(r)
  BY StorageAssumption DEF LastInv, TrackInv, Inv, TypeOK
<1>1. ASSUME NEW w \in Workers, Execute(w) PROVE LastingNext(r)
  BY <1>0, <1>1, ExecuteEffect, EffectKeeps
<1>2. ASSUME NEW w \in Workers, Resume(w) PROVE LastingNext(r)
  BY <1>0, <1>2, ResumeEffect, EffectKeeps
<1>3. Request => LastingNext(r)
  BY RequestLasting DEF Request
<1>4. ASSUME NEW n \in Monitors, NEW s \in Roles, SaveNext(n, s) PROVE LastingNext(r)
  BY <1>4, SaveNextLasting
<1>5. ASSUME NEW n \in Monitors, Arrange(n) PROVE LastingNext(r)
  BY <1>5, ArrangeLasting
<1>6. ASSUME (\E n \in Monitors : CheckTable(n)) \/ UNCHANGED vars PROVE LastingNext(r)
  <2>1. UNCHANGED <<mysql, redis, role_records, save_buckets, proc, ahead, world, late>>
    BY <1>6 DEF CheckTable, vars, world
  <2>2. saved'[r] = saved[r] /\ online'[r] = online[r] /\ redis'[r] = redis[r] /\ age'[r] = age[r]
    BY <2>1 DEF world
  <2> QED
    BY <1>0, <2>1, <2>2, QuietEffect, EffectKeeps
<1>7. Timer => LastingNext(r)
  BY <1>4, <1>5, <1>6 DEF Timer
<1>8. ASSUME NEW s \in Roles, Login(s) \/ Save(s) \/ Leave(s) \/ Expire(s) PROVE LastingNext(r)
  <2>1. CASE s = r
    BY <1>8, <2>1, LogicLasting
  <2>2. CASE s # r
    BY <1>8, <2>2, OtherRoleLasting
  <2> QED
    BY <2>1, <2>2
<1>9. ~Fault
  BY DEF Fault, QueryFails, ResultLost, UpdateFails, MonitorCrash, Durable
<1> QED
  BY <1>1, <1>2, <1>3, <1>6, <1>7, <1>8, <1>9 DEF Next, Logic

\* What the save timers and the creations are doing.
LEMMA DoingStep ==
  ASSUME Inv, SaversSave, CreationsAreNew, [Next]_vars, Faults = {}
  PROVE  SaversSave' /\ CreationsAreNew'
<1> USE DEF Inv
<1> DEFINE Fits(w) == /\ w \in Monitors => /\ proc'[w].monitor = w /\ proc'[w].op = "save"
                                           /\ proc'[w].query \in {"get", "update"}
                      /\ proc'[w].query = "insert" => proc'[w].record.ver = 0
<1> SUFFICES ASSUME NEW v \in Workers, proc'[v].op # "idle" PROVE Fits(v)
  BY DEF SaversSave, CreationsAreNew, Busy, Workers
<1>1. ASSUME proc'[v] = proc[v] PROVE Fits(v)
  BY <1>1 DEF SaversSave, CreationsAreNew, Busy
<1>2. ASSUME NEW w \in Fibers, NEW m \in Monitors, NEW r \in Roles,
             \/ \E u \in Users : RoleCreate(w, m, r, u)
             \/ RoleLoad(w, m, r) \/ RoleUnload(w, m, r) \/ RoleFlush(w, m, r)
      PROVE  Fits(v)
  <2>1. w \in Workers /\ w \notin Monitors
    BY StorageAssumption DEF Workers
  <2>2. PICK op, q, rec : Begin(w, m, r, op, q, rec) /\ (q = "insert" => rec.ver = 0)
    BY <1>2, RequestBegins
  <2>3. /\ v # w => proc'[v] = proc[v]
        /\ proc'[w].query = q /\ proc'[w].record = rec
    BY <2>1, <2>2 DEF Begin, TypeOK
  <2> QED
    BY <1>1, <2>1, <2>2, <2>3
<1>3. ASSUME NEW m \in Monitors, NEW r \in Roles, SaveNext(m, r) PROVE Fits(v)
  <2>1. m \in Workers
    BY DEF Workers
  <2>2. /\ v # m => proc'[v] = proc[v]
        /\ proc'[m].monitor = m /\ proc'[m].op = "save" /\ proc'[m].query = "get"
    BY <1>3, <2>1 DEF SaveNext, Begin, TypeOK
  <2> QED
    BY <1>1, <2>2
<1>4. ASSUME NEW w \in Workers, Execute(w) PROVE Fits(v)
  <2>1. Busy(w) /\ \E res : Return(w, res)
    BY <1>4 DEF Execute, InsertIgnore, Select, SetIfAbsent, Get, Update, DeleteIfUnchanged,
                Waits, Executed
  <2>2. /\ v # w => proc'[v] = proc[v]
        /\ proc'[w].op = proc[w].op /\ proc'[w].query = proc[w].query
        /\ proc'[w].record = proc[w].record
    BY <2>1, ReturnParts
  <2>3. proc'[w].monitor = proc[w].monitor
    <3>1. proc[w] \in Calls
      BY <2>1, BusyIsCall
    <3> QED
      BY <2>1, <3>1 DEF Return, TypeOK, Calls
  <2> QED
    BY <1>1, <2>1, <2>2, <2>3 DEF SaversSave, CreationsAreNew, Busy
<1>5. ASSUME NEW w \in Workers, Resume(w) PROVE Fits(v)
  <2>1. Busy(w) /\ proc[w] \in Calls
    BY <1>5, BusyIsCall DEF Resume, Inserted, Selected, Loaded, Fetched, Updated, Returned
  <2>2. CASE Finish(w)
    <3>1. v # w => proc'[v] = proc[v]
      BY <2>2 DEF Finish, TypeOK
    <3>2. proc'[w].op = "idle"
      BY <2>2 DEF Finish, TypeOK, Idle
    <3> QED
      BY <1>1, <3>1, <3>2
  <2>3. CASE ~Finish(w)
    <3>1. PICK q, rec : /\ Ask(w, q, rec)
                        /\ q # "insert"
                        /\ \/ q = "update"
                           \/ q = "delete" /\ proc[w].op = "unload"
                           \/ proc[w].query \in {"insert", "select"}
      BY <1>5, <2>3 DEF Resume, Inserted, Selected, Loaded, Fetched, Updated, Returned
    <3>2. /\ v # w => proc'[v] = proc[v]
          /\ proc'[w] = [proc[w] EXCEPT !.query = q, !.executed = FALSE, !.record = rec, !.result = None]
      BY <3>1 DEF Ask, TypeOK
    <3>3. proc'[w].op = proc[w].op /\ proc'[w].monitor = proc[w].monitor /\ proc'[w].query = q
      BY <2>1, <3>2 DEF Calls
    <3>4. w \in Monitors => q = "update" /\ proc[w].op = "save" /\ proc[w].monitor = w
      BY <2>1, <3>1 DEF SaversSave
    <3> QED
      BY <1>1, <3>1, <3>2, <3>3, <3>4
  <2> QED
    BY <2>2, <2>3
<1>6. ~Fault
  BY DEF Fault, QueryFails, ResultLost, UpdateFails, MonitorCrash
<1>7. (\E n \in Monitors : CheckTable(n) \/ Arrange(n)) \/ Logic \/ UNCHANGED vars => proc' = proc
  BY DEF CheckTable, Arrange, Logic, Login, Save, Leave, Expire, vars
<1> HIDE DEF Fits
<1> QED
  BY <1>1, <1>2, <1>3, <1>4, <1>5, <1>6, <1>7 DEF Next, Request, Timer

LEMMA LastInit == Init => LastInv
<1> SUFFICES ASSUME Init PROVE LastInv
  OBVIOUS
<1>1. TrackInv
  BY TrackInit
<1>2. SaversSave /\ CreationsAreNew
  BY DEF Init, SaversSave, CreationsAreNew, Busy, Idle, Workers
<1>3. ASSUME NEW r \in Roles PROVE Lasting(r)
  <2>1. \A w \in Workers : ~OldSnapshot(w, r) /\ ~OldRow(w, r)
    BY DEF Init, OldSnapshot, OldRow, Busy, Idle
  <2> QED
    BY <2>1 DEF Init, Lasting, LatestKept
<1> QED
  BY <1>1, <1>2, <1>3 DEF LastInv

LEMMA LastStep ==
  ASSUME LastInv, Durable, [Next]_vars
  PROVE  LastInv'
<1>1. TrackInv'
  BY TrackStep DEF LastInv, Durable
<1>2. SaversSave' /\ CreationsAreNew'
  BY DoingStep DEF LastInv, TrackInv, Durable
<1>3. \A r \in Roles : Lasting(r)'
  BY LastingStep
<1> QED
  BY <1>1, <1>2, <1>3 DEF LastInv

\* The next login finds what was saved last, whatever creations, loads, flushes and
\* snapshots are going on and whenever the record on Redis expires: for any fibers and
\* roles, any number of saves, and every time to live of at least four cycles.
THEOREM SavesAreKept == Durable => (Spec => []NothingLost)
<1> SUFFICES ASSUME Durable PROVE Spec => []NothingLost
  OBVIOUS
<1>1. LastInv /\ [Next]_vars => LastInv'
  BY LastStep
<1>2. LastInv => NothingLost
  BY DEF LastInv, Lasting, LatestKept, InMySQL, NothingLost, Current
<1> QED
  BY <1>1, <1>2, LastInit, PTL DEF Spec
=============================================================================
