------------------------------ MODULE ServiceRpc ------------------------------
(***************************************************************************)
(* The request mesh of one k32 process (common/static/service.cpp): the    *)
(* services it has discovered on Redis, its client sessions to them, the   *)
(* futures it has launched, and each request on its way through send task, *)
(* wire, handler fiber, response task and wire back.  Everything a fiber   *)
(* does between two yields is one action: the process is single-threaded.  *)
(***************************************************************************)
EXTENDS Naturals, Sequences, FiniteSets

CONSTANTS
  Self,      \* this process's own service UUID
  Peers,     \* the UUIDs of the other services
  Futures,   \* Service_Future objects (a bound), numbered as they are launched
  Sessions,  \* WebSocket client sessions (a bound), numbered as they are opened
  None       \* the null pointer

Services == Peers \cup {Self}

\* A response slot's request UUID: random and fresh, so the slot identifies it.
Requests == Futures \X Services

\* What a service record says: not there, there without an address, usable.
Records == {"absent", "no_address", "up"}

Errors == {"none", "not_found", "unreachable", "lost"}

VARIABLES
  remote_services,  \* this process's copy of the service records on Redis
  conn,             \* remote_connections: weak_session and weak_futures, by peer
  sess,             \* client sessions: peer, client state, is the server end up
  life,             \* futures: not launched, held by the caller, destroyed
  targets,          \* futures: the multicast list
  resp,             \* futures: mf_responses, by target
  done,             \* futures: mf_abstract_future_complete was called
  req,              \* requests: where the request or its answer is
  served            \* history: requests whose handler has run

vars == <<remote_services, conn, sess, life, targets, resp, done, req, served>>
futureVars == <<life, targets, resp, done>>

ASSUME MeshAssumption ==
  /\ Self \notin Peers
  /\ None \notin Sessions \cup Peers \cup Requests

ASSUME NumberAssumption == Futures \subseteq Nat /\ Sessions \subseteq Nat

Stages == {"none", "local", "task", "sent", "fiber", "reply", "answer", "end"}
SessionStates == {"fresh", "open", "closing", "gone"}

\* Types of the entries of conn, sess, resp and req.
Connections == [session : Sessions \cup {None}, waiting : Seq(Requests)]
SessionRecords == [peer : Peers \cup {None}, state : SessionStates, up : BOOLEAN]
Progress == [stage : Stages, session : Sessions \cup {None}, want : BOOLEAN]
Responses == [answer : Requests \cup {None}, error : Errors, complete : BOOLEAN]

Blank == [answer |-> None, error |-> "none", complete |-> FALSE]
NoConn == [session |-> None, waiting |-> <<>>]
NoReq == [stage |-> "none", session |-> None, want |-> FALSE]

Init ==
  /\ remote_services = [p \in Peers |-> "absent"]
  /\ conn = [p \in Peers |-> NoConn]
  /\ sess = [s \in Sessions |-> [peer |-> None, state |-> "fresh", up |-> FALSE]]
  /\ life = [f \in Futures |-> "idle"]
  /\ targets = [f \in Futures |-> {}]
  /\ resp = [f \in Futures |-> [t \in Services |-> Blank]]
  /\ done = [f \in Futures |-> FALSE]
  /\ req = [r \in Requests |-> NoReq]
  /\ served = {}
-----------------------------------------------------------------------------
\* A weak pointer to a future has expired once its caller let go of it.
Expired(r) == life[r[1]] # "live"

\* weak_session.lock(): a session object lives until its close event is handled.
Lock(p) ==
  IF conn[p].session # None /\ sess[conn[p].session].state # "gone"
    THEN conn[p].session ELSE None

\* The first expired slot of the waiting list is reused, else the list grows.
FirstExpired(w, b) == Expired(w[b]) /\ \A c \in 1..(b - 1) : ~Expired(w[c])

\* Fault: the expired slot is reset instead of taken over.
AddWaiterResets(w, r) ==
  Append([b \in DOMAIN w |-> IF FirstExpired(w, b) THEN None ELSE w[b]], r)

AddWaiter(w, r) ==
  IF \E b \in DOMAIN w : FirstExpired(w, b)
    THEN [w EXCEPT ![CHOOSE b \in DOMAIN w : FirstExpired(w, b)] = r]
    ELSE Append(w, r)

Waiting(r) == \E b \in DOMAIN conn[r[2]].waiting : conn[r[2]].waiting[b] = r

\* A future is completed by the update that finds all its responses complete.
CompleteIfAll(touched) ==
  done' = [f \in Futures |-> done[f] \/
             (f \in touched /\ \A t \in targets[f] : resp'[f][t].complete)]

\* do_set_response: the slot whose request UUID matches is filled.
SetResponse(r) ==
  IF Expired(r) THEN UNCHANGED futureVars
  ELSE /\ resp' = [resp EXCEPT ![r[1]][r[2]] =
                     [answer |-> r, error |-> "none", complete |-> TRUE]]
       /\ CompleteIfAll({r[1]})
       /\ UNCHANGED <<life, targets>>

\* Fault: a lost peer's responses are started over, answers included.
LosePeersBlanks(lost) ==
  LET hit(f, t) == /\ t \in lost \cap targets[f]
                   /\ life[f] = "live"
                   /\ \E b \in DOMAIN conn[t].waiting : conn[t].waiting[b][1] = f
  IN  /\ resp' = [f \in Futures |-> [t \in Services |->
                    IF hit(f, t) THEN [answer |-> None, error |-> "lost", complete |-> TRUE]
                                 ELSE resp[f][t]]]
      /\ CompleteIfAll({f \in Futures : \E t \in Services : hit(f, t)})
      /\ UNCHANGED <<life, targets>>

\* Fault: the responses are failed, the future is not completed.
LosePeersQuietly(lost) ==
  /\ resp' = [f \in Futures |-> [t \in Services |->
       IF /\ t \in lost \cap targets[f] /\ life[f] = "live"
          /\ \E b \in DOMAIN conn[t].waiting : conn[t].waiting[b][1] = f
         THEN [resp[f][t] EXCEPT !.error = "lost", !.complete = TRUE] ELSE resp[f][t]]]
  /\ UNCHANGED <<life, targets, done>>

\* Every response of a lost peer is failed, in each live future on its list.
\* The answer object stays where it is, only the error is written.
LosePeers(lost) ==
  LET hit(f, t) == /\ t \in lost \cap targets[f]
                   /\ life[f] = "live"
                   /\ \E b \in DOMAIN conn[t].waiting : conn[t].waiting[b][1] = f
  IN  /\ resp' = [f \in Futures |-> [t \in Services |->
                    IF hit(f, t) THEN [resp[f][t] EXCEPT !.error = "lost", !.complete = TRUE]
                                 ELSE resp[f][t]]]
      /\ CompleteIfAll({f \in Futures : \E t \in Services : hit(f, t)})
      /\ UNCHANGED <<life, targets>>
-----------------------------------------------------------------------------
\* Of the multicast list ts: the peers with a service record, those that have a
\* session or can be given one, and those that need a new one.
Known(ts) == {p \in ts \cap Peers : remote_services[p] # "absent"}
Sent(ts) == {p \in Known(ts) : Lock(p) # None \/ remote_services[p] = "up"}
Opening(ts) == {p \in Sent(ts) : Lock(p) = None}
FreshSessions == {s \in Sessions : sess[s].state = "fresh"}
SessionFor(ts, new, p) == IF p \in Opening(ts) THEN new[p] ELSE conn[p].session
Refusal(ts, t) == IF t \in Known(ts) THEN "unreachable" ELSE "not_found"

\* A send task per remote target, on the peer's list and its (new) session; a
\* fiber for this process itself.
Dispatch(f, ts, new) ==
  /\ \A p, q \in Opening(ts) : new[p] = new[q] => p = q
  /\ \A p \in Opening(ts), s \in FreshSessions :
       s < new[p] => \E q \in Opening(ts) : new[q] = s
  /\ sess' = [s \in Sessions |->
       IF \E p \in Opening(ts) : new[p] = s
         THEN [peer |-> CHOOSE p \in Opening(ts) : new[p] = s, state |-> "open", up |-> TRUE]
         ELSE sess[s]]
  /\ conn' = [p \in Peers |->
       IF p \in Sent(ts) THEN [session |-> SessionFor(ts, new, p),
                               waiting |-> AddWaiter(conn[p].waiting, <<f, p>>)]
                         ELSE conn[p]]
  /\ req' = [r \in Requests |->
       IF r[1] = f /\ r[2] \in Sent(ts)
         THEN [stage |-> "task", session |-> SessionFor(ts, new, r[2]), want |-> FALSE]
       ELSE IF r[1] = f /\ r[2] \in ts \cap {Self}
         THEN [stage |-> "local", session |-> None, want |-> TRUE]
       ELSE req[r]]

Unlaunched(f) == life[f] = "idle" /\ \A g \in Futures : g < f => life[g] # "idle"

\* Fault: a target that is this process itself is not waited for.
LaunchSkipsSelf(f, ts) ==
  /\ Unlaunched(f)
  /\ \E new \in [Opening(ts) -> FreshSessions] : Dispatch(f, ts, new)
  /\ life' = [life EXCEPT ![f] = "live"]
  /\ targets' = [targets EXCEPT ![f] = ts]
  /\ resp' = [resp EXCEPT ![f] = [t \in Services |->
       IF t \in ts \ (Sent(ts) \cup {Self})
         THEN [answer |-> None, error |-> Refusal(ts, t), complete |-> TRUE]
         ELSE Blank]]
  /\ done' = [done EXCEPT ![f] = (Sent(ts) = {})]
  /\ UNCHANGED <<remote_services, served>>

\* Service::launch.  A target that is not known or has no address fails at once.
Launch(f, ts) ==
  /\ Unlaunched(f)
  /\ \E new \in [Opening(ts) -> FreshSessions] : Dispatch(f, ts, new)
  /\ life' = [life EXCEPT ![f] = "live"]
  /\ targets' = [targets EXCEPT ![f] = ts]
  /\ resp' = [resp EXCEPT ![f] = [t \in Services |->
       IF t \in ts \ (Sent(ts) \cup {Self})
         THEN [answer |-> None, error |-> Refusal(ts, t), complete |-> TRUE]
         ELSE Blank]]
  /\ done' = [done EXCEPT ![f] = (Sent(ts) = {} /\ Self \notin ts)]
  /\ UNCHANGED <<remote_services, served>>

\* The caller lets go of the future, answered or not: the object is destroyed.
Drop(f) ==
  /\ life[f] = "live"
  /\ life' = [life EXCEPT ![f] = "gone"]
  /\ targets' = [targets EXCEPT ![f] = {}]
  /\ resp' = [resp EXCEPT ![f] = [t \in Services |-> Blank]]
  /\ done' = [done EXCEPT ![f] = FALSE]
  /\ UNCHANGED <<remote_services, conn, sess, req, served>>

MoveTo(r, stage) == req' = [req EXCEPT ![r].stage = stage]

\* Local_Request_Fiber: the handler runs here and the slot is filled.
LocalRequest(r) ==
  /\ req[r].stage = "local"
  /\ MoveTo(r, "end")
  /\ served' = served \cup {r}
  /\ SetResponse(r)
  /\ UNCHANGED <<remote_services, conn, sess>>

\* Remote_Request_Task: asks for an answer only if someone still waits for it.
SendRequest(r) ==
  /\ req[r].stage = "task"
  /\ LET next == IF sess[req[r].session].state = "open" THEN "sent" ELSE "end"
     IN  req' = [req EXCEPT ![r] = [@ EXCEPT !.stage = next, !.want = ~Expired(r)]]
  /\ UNCHANGED <<remote_services, conn, sess, futureVars, served>>

\* do_server_ws_callback, text: the peer starts a fiber for the request.
ReceiveRequest(r) ==
  /\ req[r].stage = "sent"
  /\ sess[req[r].session].up
  /\ MoveTo(r, "fiber")
  /\ UNCHANGED <<remote_services, conn, sess, futureVars, served>>

\* Remote_Request_Fiber: nothing runs if the session is gone by now.
RemoteRequest(r) ==
  /\ req[r].stage = "fiber"
  /\ IF sess[req[r].session].up
       THEN /\ served' = served \cup {r}
            /\ MoveTo(r, IF req[r].want THEN "reply" ELSE "end")
       ELSE /\ MoveTo(r, "end")
            /\ UNCHANGED served
  /\ UNCHANGED <<remote_services, conn, sess, futureVars>>

\* Remote_Response_Task.
SendResponse(r) ==
  /\ req[r].stage = "reply"
  /\ MoveTo(r, IF sess[req[r].session].up THEN "answer" ELSE "end")
  /\ UNCHANGED <<remote_services, conn, sess, futureVars, served>>

\* Fault: answers are taken in the order of the list, not by request UUID.
ReceiveResponseInOrder(r) ==
  /\ req[r].stage = "answer"
  /\ sess[req[r].session].state # "gone"
  /\ MoveTo(r, "end")
  /\ IF conn[r[2]].waiting # <<>>
       THEN LET q == conn[r[2]].waiting[1]
            IN  IF Expired(q) THEN UNCHANGED futureVars
                ELSE /\ resp' = [resp EXCEPT ![q[1]][q[2]] =
                                   [answer |-> r, error |-> "none", complete |-> TRUE]]
                     /\ CompleteIfAll({q[1]})
                     /\ UNCHANGED <<life, targets>>
       ELSE UNCHANGED futureVars
  /\ UNCHANGED <<remote_services, conn, sess, served>>

\* do_client_ws_callback, text: found by request UUID on the peer's list, so an
\* answer whose record has been erased is dropped.
ReceiveResponse(r) ==
  /\ req[r].stage = "answer"
  /\ sess[req[r].session].state # "gone"
  /\ MoveTo(r, "end")
  /\ IF Waiting(r) THEN SetResponse(r) ELSE UNCHANGED futureVars
  /\ UNCHANGED <<remote_services, conn, sess, served>>
-----------------------------------------------------------------------------
\* The server end goes away: authentication refused, peer stopped or crashed.
ServerDown(s) ==
  /\ sess[s].up
  /\ sess' = [sess EXCEPT ![s].up = FALSE]
  /\ UNCHANGED <<remote_services, conn, futureVars, req, served>>

\* The client end learns that the connection is over; its close event is queued.
ConnectionLost(s) ==
  /\ sess[s].state = "open"
  /\ sess' = [sess EXCEPT ![s].state = "closing"]
  /\ UNCHANGED <<remote_services, conn, futureVars, req, served>>

\* Fault: the record goes, the futures on its list are not told.
CloseEventForgets(s) ==
  /\ sess[s].state = "closing"
  /\ sess' = [sess EXCEPT ![s] = [@ EXCEPT !.state = "gone", !.up = FALSE]]
  /\ conn' = [conn EXCEPT ![sess[s].peer] = NoConn]
  /\ UNCHANGED <<remote_services, futureVars, req, served>>

\* do_client_ws_callback, close: the record of the session's peer is erased,
\* whichever session that record holds by now.
CloseEvent(s) ==
  /\ sess[s].state = "closing"
  /\ sess' = [sess EXCEPT ![s] = [@ EXCEPT !.state = "gone", !.up = FALSE]]
  /\ conn' = [conn EXCEPT ![sess[s].peer] = NoConn]
  /\ LosePeers({sess[s].peer})
  /\ UNCHANGED <<remote_services, req, served>>
-----------------------------------------------------------------------------
\* Fault: a purged record's session is left open.
RefreshServicesLeaks(found) ==
  LET purged == {p \in Peers : Lock(p) = None \/ found[p] = "absent"}
  IN  /\ remote_services' = found
      /\ conn' = [p \in Peers |-> IF p \in purged THEN NoConn ELSE conn[p]]
      /\ LosePeers(purged)
      /\ UNCHANGED <<sess, req, served>>

\* Fault: a purged record's futures are not told.
RefreshServicesForgets(found) ==
  LET purged == {p \in Peers : Lock(p) = None \/ found[p] = "absent"}
      shut == {Lock(p) : p \in purged}
  IN  /\ remote_services' = found
      /\ sess' = [s \in Sessions |-> IF s \in shut THEN [sess[s] EXCEPT !.state = "closing"]
                                                   ELSE sess[s]]
      /\ conn' = [p \in Peers |-> IF p \in purged THEN NoConn ELSE conn[p]]
      /\ UNCHANGED <<futureVars, req, served>>

\* do_subscribe_timer_callback, from either timer: the scan result replaces
\* remote_services, connections that are lost or whose service is not on the
\* list are shut down and their records purged.  Keys come and go on Redis (TTL
\* 10 s) and a scan may be answered late, so any result may arrive at any time;
\* no state of this process is read before that.
RefreshServices(found) ==
  LET purged == {p \in Peers : Lock(p) = None \/ found[p] = "absent"}
      shut == {Lock(p) : p \in purged}
  IN  /\ remote_services' = found
      /\ sess' = [s \in Sessions |-> IF s \in shut THEN [sess[s] EXCEPT !.state = "closing"]
                                                   ELSE sess[s]]
      /\ conn' = [p \in Peers |-> IF p \in purged THEN NoConn ELSE conn[p]]
      /\ LosePeers(purged)
      /\ UNCHANGED <<req, served>>
-----------------------------------------------------------------------------
\* Each request is at one stage, and one of these can happen to it there.
Step(r) == \/ LocalRequest(r) \/ SendRequest(r) \/ ReceiveRequest(r)
           \/ RemoteRequest(r) \/ SendResponse(r) \/ ReceiveResponse(r)

Next ==
  \/ \E f \in Futures : Drop(f) \/ \E ts \in SUBSET Services : Launch(f, ts)
  \/ \E r \in Requests : \/ LocalRequest(r) \/ SendRequest(r) \/ ReceiveRequest(r)
                         \/ RemoteRequest(r) \/ SendResponse(r) \/ ReceiveResponse(r)
  \/ \E s \in Sessions : ServerDown(s) \/ ConnectionLost(s) \/ CloseEvent(s)
  \/ \E found \in [Peers -> Records] : RefreshServices(found)

Spec == Init /\ [][Next]_vars

\* Tasks and fibers are scheduled until they have run, the network delivers on
\* a session that stays up, a client whose server end is down finds out, and
\* every session gets its close event.  Nothing is assumed of the timers, of
\* discovery, of the callers or of peers staying up.
Fairness ==
  /\ \A r \in Requests : WF_vars(Step(r))
  /\ \A s \in Sessions : WF_vars(CloseEvent(s) \/ (~sess[s].up /\ ConnectionLost(s)))

FairSpec == Spec /\ Fairness
-----------------------------------------------------------------------------
TypeOK ==
  /\ remote_services \in [Peers -> Records]
  /\ conn \in [Peers -> Connections]
  /\ sess \in [Sessions -> SessionRecords]
  /\ life \in [Futures -> {"idle", "live", "gone"}]
  /\ targets \in [Futures -> SUBSET Services]
  /\ resp \in [Futures -> [Services -> Responses]]
  /\ done \in [Futures -> BOOLEAN]
  /\ req \in [Requests -> Progress]
  /\ served \subseteq Requests

\* A live future's response that is still missing.
Missing(f, t) == life[f] = "live" /\ t \in targets[f] /\ ~resp[f][t].complete

\* The session a record holds is one to that peer, and still has its close event
\* to come: when that event is handled the record goes.
RecordsFollowSessions ==
  \A p \in Peers : conn[p].session # None =>
    /\ sess[conn[p].session].peer = p
    /\ sess[conn[p].session].state \in {"open", "closing"}

\* Every session that was opened has a peer.
SessionsHavePeers == \A s \in Sessions : sess[s].state # "fresh" => sess[s].peer \in Peers

\* The event of this process that is bound to fill a missing response: the end
\* of the local fiber, or an answer or close event of the session it was sent on.
Watched(f, t) ==
  IF t = Self THEN req[<<f, t>>].stage = "local"
  ELSE /\ Waiting(<<f, t>>)
       /\ conn[t].session = req[<<f, t>>].session
       /\ Lock(t) # None

\* No waiting fiber is forgotten: whatever the order of launches, answers, close
\* events and purges, a response that is still missing is due from a fiber of this
\* process, or its request is on the list of the peer's record and was sent on the
\* session which that record holds and whose close event has not been handled yet.
NoLostFuture ==
  \A f \in Futures, t \in Services : Missing(f, t) => Watched(f, t)

\* The fiber is woken exactly when all responses are in: never with a missing
\* one, and never left asleep with a full set.
WokenWhenAllIn ==
  \A f \in Futures : life[f] = "live" =>
    (done[f] <=> \A t \in targets[f] : resp[f][t].complete)

\* An answer lands in the slot of the request it answers, and only after that
\* request's handler ran.
AnswerIsForRequest ==
  \A f \in Futures, t \in Services : resp[f][t].answer # None =>
    resp[f][t].answer = <<f, t>> /\ <<f, t>> \in served

\* An answer on its way comes from a handler that ran.
AnswersWereServed ==
  \A r \in Requests : req[r].stage \in {"reply", "answer"} => r \in served

\* The inductive invariant behind the three properties above and AnswersStay.
Inv == /\ TypeOK /\ RecordsFollowSessions /\ SessionsHavePeers /\ AnswersWereServed
       /\ NoLostFuture /\ WokenWhenAllIn /\ AnswerIsForRequest

\* "Connection lost" is never invented: some session to that service is over.
\* (Not always the session the request was sent on: see CloseEvent.)
LossHasCause ==
  \A f \in Futures, p \in Peers : resp[f][p].error = "lost" =>
    \E s \in Sessions : sess[s].peer = p /\ sess[s].state \in {"closing", "gone"}

\* Who is on the list of a record was sent on a session of that record.
ListsHaveSessions == \A p \in Peers : conn[p].waiting # <<>> => conn[p].session # None

\* What was received is never taken back: as long as the caller holds the future,
\* no answer object disappears and no completed response becomes incomplete.
AnswersStay ==
  [][\A f \in Futures, t \in Services : life[f] = "live" /\ life'[f] = "live" =>
       /\ resp[f][t].answer # None => resp'[f][t].answer = resp[f][t].answer
       /\ resp[f][t].complete => resp'[f][t].complete
       /\ done[f] => done'[f]]_vars

\* Every launched future is completed, or its caller stopped waiting.
EveryFutureSettles == \A f \in Futures : life[f] = "live" ~> done[f] \/ life[f] = "gone"

\* A request is made by a future for one of its targets.
RequestsHaveFutures ==
  \A r \in Requests : req[r].stage # "none" =>
    life[r[1]] # "idle" /\ (life[r[1]] = "live" => r[2] \in targets[r[1]])

\* A handler runs once: a request that has been served never gets to one again.
ServedOnce == \A r \in served : req[r].stage \in {"reply", "answer", "end"}

\* The mesh implements the promise of RpcFuture.
Outcome == [f \in Futures |-> [t \in Services |->
              IF ~resp[f][t].complete THEN "pending"
              ELSE IF resp[f][t].error = "none" THEN "answered" ELSE "failed"]]
Promise == INSTANCE RpcFuture WITH wanted <- targets, complete <- done, outcome <- Outcome
KeepsPromise == Promise!Spec
=============================================================================
