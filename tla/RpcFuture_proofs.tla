---------------------------- MODULE RpcFuture_proofs ----------------------------
(***************************************************************************)
(* The request mesh keeps the promise of RpcFuture: each of its steps is a *)
(* step of the promise, or changes nothing that the caller can see, for    *)
(* any number of peers, futures and sessions.                              *)
(***************************************************************************)
EXTENDS ServiceRpc_proofs

\* One request moves, the others stay.
LEMMA MoveToEffect ==
  ASSUME TypeOK, NEW r \in Requests, NEW st, MoveTo(r, st)
  PROVE  req'[r].stage = st /\ \A q \in Requests \ {r} : req'[q] = req[q]
<1>1. [req[r] EXCEPT !.stage = st].stage = st
  BY DEF TypeOK, Progress
<1> QED
  BY <1>1 DEF MoveTo, TypeOK

\* Where a request goes from each stage.
LEMMA StageEffect ==
  ASSUME TypeOK, NEW r \in Requests,
         QuietMove(r) \/ LocalRequest(r) \/ ReceiveResponse(r)
  PROVE  /\ \A q \in Requests \ {r} : req'[q] = req[q]
         /\ req[r].stage # "none" /\ UNCHANGED <<life, targets>>
         /\ \/ served' = served /\ req[r].stage = "task"
            \/ served' = served /\ req[r].stage = "sent"
            \/ served' = served /\ req'[r].stage \in {"answer", "end"}
            \/ /\ served' = served \cup {r} /\ req[r].stage \in {"local", "fiber"}
               /\ req'[r].stage \in {"reply", "end"}
<1>1. CASE SendRequest(r)
  BY <1>1 DEF SendRequest, futureVars, TypeOK
<1>2. CASE ReceiveRequest(r)
  BY <1>2, MoveToEffect DEF ReceiveRequest, futureVars
<1>3. CASE RemoteRequest(r)
  BY <1>3, MoveToEffect DEF RemoteRequest, futureVars
<1>4. CASE SendResponse(r)
  BY <1>4, MoveToEffect DEF SendResponse, futureVars
<1>5. CASE LocalRequest(r)
  BY <1>5, MoveToEffect, SetResponseEffect DEF LocalRequest
<1>6. CASE ReceiveResponse(r)
  BY <1>6, MoveToEffect, SetResponseEffect DEF ReceiveResponse, futureVars
<1> QED
  BY <1>1, <1>2, <1>3, <1>4, <1>5, <1>6 DEF QuietMove

\* The steps of the mesh: a launch, a drop, a step of one request, peers that are
\* lost, or a change of sessions that no future sees.
LEMMA StepKinds ==
  ASSUME [Next]_vars
  PROVE  \/ \E f \in Futures, ts \in SUBSET Services : Launch(f, ts)
         \/ \E f \in Futures : Drop(f)
         \/ \E r \in Requests : QuietMove(r) \/ LocalRequest(r) \/ ReceiveResponse(r)
         \/ \E lost : LosePeers(lost) /\ UNCHANGED <<req, served>>
         \/ UNCHANGED <<futureVars, req, served>>
<1>1. ASSUME NEW s \in Sessions, ServerDown(s) \/ ConnectionLost(s)
      PROVE  UNCHANGED <<futureVars, req, served>>
  BY <1>1 DEF ServerDown, ConnectionLost
<1>2. ASSUME NEW s \in Sessions, CloseEvent(s)
      PROVE  \E lost : LosePeers(lost) /\ UNCHANGED <<req, served>>
  BY <1>2 DEF CloseEvent
<1>3. ASSUME NEW found \in [Peers -> Records], RefreshServices(found)
      PROVE  \E lost : LosePeers(lost) /\ UNCHANGED <<req, served>>
  BY <1>3 DEF RefreshServices
<1>4. UNCHANGED vars => UNCHANGED <<futureVars, req, served>>
  BY DEF vars, futureVars
<1> QED
  BY <1>1, <1>2, <1>3, <1>4 DEF Next, QuietMove

\* A request is made by a future for one of its targets, and is served once.
LEMMA RequestsStep ==
  ASSUME Inv, RequestsHaveFutures, ServedOnce, [Next]_vars
  PROVE  RequestsHaveFutures' /\ ServedOnce'
<1> USE DEF Inv
<1>0. \A r \in Requests : r[1] \in Futures /\ r[2] \in Services
  BY DEF Requests
<1>1. ASSUME NEW f \in Futures, NEW ts \in SUBSET Services, Launch(f, ts)
      PROVE  RequestsHaveFutures' /\ ServedOnce'
  <2>1. /\ life[f] = "idle" /\ life'[f] = "live" /\ targets'[f] = ts /\ served' = served
        /\ \A g \in Futures \ {f} : life'[g] = life[g] /\ targets'[g] = targets[g]
    BY <1>1 DEF Launch, Unlaunched, TypeOK
  <2>2. \A r \in Requests :
          req'[r] = req[r] \/ (r[1] = f /\ r[2] \in ts /\ req[r].stage = "none")
    <3>1. \A r \in Requests : r[1] = f => req[r].stage = "none"
      BY <2>1 DEF RequestsHaveFutures
    <3>2. Sent(ts) \subseteq ts
      BY DEF Sent, Known
    <3> QED
      BY <1>1, <3>1, <3>2 DEF Launch, Dispatch
  <2>3. RequestsHaveFutures'
    BY <1>0, <2>1, <2>2 DEF RequestsHaveFutures
  <2>4. ServedOnce'
    <3>1. \A r \in served : req'[r] = req[r]
      BY <2>2 DEF ServedOnce, TypeOK
    <3> QED
      BY <2>1, <3>1 DEF ServedOnce
  <2> QED
    BY <2>3, <2>4
<1>2. ASSUME NEW f \in Futures, Drop(f)
      PROVE  RequestsHaveFutures' /\ ServedOnce'
  <2>1. /\ life'[f] = "gone" /\ UNCHANGED <<req, served>>
        /\ \A g \in Futures \ {f} : life'[g] = life[g] /\ targets'[g] = targets[g]
    BY <1>2 DEF Drop, TypeOK
  <2> QED
    BY <1>0, <2>1 DEF RequestsHaveFutures, ServedOnce
<1>3. ASSUME NEW r \in Requests, QuietMove(r) \/ LocalRequest(r) \/ ReceiveResponse(r)
      PROVE  RequestsHaveFutures' /\ ServedOnce'
  <2>1. /\ \A q \in Requests \ {r} : req'[q] = req[q]
        /\ req[r].stage # "none" /\ UNCHANGED <<life, targets>>
        /\ \/ served' = served /\ req[r].stage = "task"
           \/ served' = served /\ req[r].stage = "sent"
           \/ served' = served /\ req'[r].stage \in {"answer", "end"}
           \/ /\ served' = served \cup {r} /\ req[r].stage \in {"local", "fiber"}
              /\ req'[r].stage \in {"reply", "end"}
    BY <1>3, StageEffect
  <2>2. RequestsHaveFutures'
    BY <2>1 DEF RequestsHaveFutures
  <2>3. ServedOnce'
    BY <2>1 DEF ServedOnce, TypeOK
  <2> QED
    BY <2>2, <2>3
<1>4. ASSUME UNCHANGED <<life, targets, req, served>>
      PROVE  RequestsHaveFutures' /\ ServedOnce'
  BY <1>4 DEF RequestsHaveFutures, ServedOnce
<1>5. ASSUME NEW lost, LosePeers(lost), UNCHANGED <<req, served>>
      PROVE  UNCHANGED <<life, targets, req, served>>
  BY <1>5 DEF LosePeers
<1>6. UNCHANGED <<futureVars, req, served>> => UNCHANGED <<life, targets, req, served>>
  BY DEF futureVars
<1> QED
  BY <1>1, <1>2, <1>3, <1>4, <1>5, <1>6, StepKinds

\* What a future's caller sees of one slot.
LEMMA OutcomeIs ==
  ASSUME NEW f \in Futures, NEW t \in Services
  PROVE  /\ Outcome[f][t] = IF ~resp[f][t].complete THEN "pending"
                            ELSE IF resp[f][t].error = "none" THEN "answered" ELSE "failed"
         /\ Outcome'[f][t] = IF ~resp'[f][t].complete THEN "pending"
                             ELSE IF resp'[f][t].error = "none" THEN "answered" ELSE "failed"
BY DEF Outcome

\* Filling slots, of futures that are alive, with v is a Conclude of the promise.
LEMMA Concludes ==
  ASSUME Inv, NEW pairs \in SUBSET Requests, NEW v \in {"answered", "failed"}, NEW touched,
         \A r \in pairs : life[r[1]] = "live" /\ r[2] \in targets[r[1]],
         \A f \in Futures, t \in Services :
           /\ <<f, t>> \in pairs => Outcome'[f][t] = v
           /\ <<f, t>> \notin pairs => resp'[f][t] = resp[f][t],
         \A f \in Futures : f \in touched <=> \E t \in Services : <<f, t>> \in pairs,
         CompleteIfAll(touched), UNCHANGED <<life, targets>>
  PROVE  Promise!Conclude(pairs, v)
<1> USE DEF Inv
<1>1. \A f \in Futures, t \in Services : Outcome'[f][t] = IF <<f, t>> \in pairs THEN v ELSE Outcome[f][t]
  <2>1. ASSUME NEW f \in Futures, NEW t \in Services, resp'[f][t] = resp[f][t]
        PROVE  Outcome'[f][t] = Outcome[f][t]
    BY <2>1, OutcomeIs
  <2> QED
    BY <2>1
<1>2. Outcome' = [f \in Futures |-> [t \in Services |-> IF <<f, t>> \in pairs THEN v ELSE Outcome[f][t]]]
  <2>1. Outcome' = [f \in Futures |-> [t \in Services |-> Outcome'[f][t]]]
    BY DEF Outcome
  <2> QED
    BY <1>1, <2>1
<1>3. \A f \in Futures, t \in Services : Outcome'[f][t] # "pending" <=> resp'[f][t].complete
  BY OutcomeIs
<1>4. done' = [f \in Futures |-> done[f] \/ ( /\ \E t \in Services : <<f, t>> \in pairs
                                            /\ \A t \in targets[f] : Outcome'[f][t] # "pending" )]
  <2>1. done' = [f \in Futures |-> done[f] \/
                   (f \in touched /\ \A t \in targets[f] : resp'[f][t].complete)]
    BY DEF CompleteIfAll
  <2>2. ASSUME NEW f \in Futures
        PROVE  (f \in touched /\ \A t \in targets[f] : resp'[f][t].complete) <=>
               ( /\ \E t \in Services : <<f, t>> \in pairs
                 /\ \A t \in targets[f] : Outcome'[f][t] # "pending" )
    <3>1. targets[f] \subseteq Services
      BY DEF TypeOK
    <3> QED
      BY <1>3, <3>1
  <2> QED
    BY <2>1, <2>2
<1> QED
  BY <1>2, <1>4 DEF Promise!Conclude

\* An answer that reaches its future.
LEMMA SetResponseConcludes ==
  ASSUME Inv, NEW r \in Requests, ~Expired(r), r[2] \in targets[r[1]], SetResponse(r)
  PROVE  Promise!Conclude({r}, "answered")
<1> USE DEF Inv
<1>1. r[1] \in Futures /\ r[2] \in Services /\ r = <<r[1], r[2]>>
  BY DEF Requests
<1>2. ASSUME NEW f \in Futures, NEW t \in Services
      PROVE  /\ <<f, t>> \in {r} => Outcome'[f][t] = "answered"
             /\ <<f, t>> \notin {r} => resp'[f][t] = resp[f][t]
  <2>1. CASE <<f, t>> = r
    <3>1. f = r[1] /\ t = r[2]
      BY <2>1
    <3>2. resp'[f][t] = [answer |-> r, error |-> "none", complete |-> TRUE]
      BY <3>1, SetResponseEffect
    <3> QED
      BY <2>1, <3>2, OutcomeIs
  <2>2. CASE <<f, t>> # r
    BY <2>2, SetResponseEffect
  <2> QED
    BY <2>1, <2>2
<1>3. \A f \in Futures : f \in {r[1]} <=> \E t \in Services : <<f, t>> \in {r}
  BY <1>1
<1>4. CompleteIfAll({r[1]}) /\ UNCHANGED <<life, targets>>
  BY DEF SetResponse
<1>5. {r} \in SUBSET Requests /\ \A q \in {r} : life[q[1]] = "live" /\ q[2] \in targets[q[1]]
  BY DEF Expired
<1> QED
  BY <1>2, <1>3, <1>4, <1>5, Concludes

\* Peers that are lost.
LEMMA LosePeersConcludes ==
  ASSUME Inv, NEW lost, LosePeers(lost)
  PROVE  \E pairs \in SUBSET Requests : Promise!Conclude(pairs, "failed")
<1> USE DEF Inv
<1> DEFINE hit(f, t) == /\ t \in lost \cap targets[f]
                        /\ life[f] = "live"
                        /\ \E b \in DOMAIN conn[t].waiting : conn[t].waiting[b][1] = f
           pairs == {r \in Requests : hit(r[1], r[2])}
           touched == {f \in Futures : \E t \in Services : hit(f, t)}
<1>1. \A f \in Futures, t \in Services :
        resp'[f][t] = IF hit(f, t) THEN [resp[f][t] EXCEPT !.error = "lost", !.complete = TRUE]
                                   ELSE resp[f][t]
  BY DEF LosePeers
<1>2. CompleteIfAll(touched) /\ UNCHANGED <<life, targets>>
  BY DEF LosePeers
<1>3. \A r \in pairs : life[r[1]] = "live" /\ r[2] \in targets[r[1]]
  OBVIOUS
<1> HIDE DEF hit
<1>4. \A f \in Futures, t \in Services : <<f, t>> \in pairs <=> hit(f, t)
  BY DEF Requests
<1>5. ASSUME NEW f \in Futures, NEW t \in Services
      PROVE  /\ <<f, t>> \in pairs => Outcome'[f][t] = "failed"
             /\ <<f, t>> \notin pairs => resp'[f][t] = resp[f][t]
  <2>1. CASE hit(f, t)
    <3>1. resp'[f][t] = [resp[f][t] EXCEPT !.error = "lost", !.complete = TRUE]
      BY <1>1, <2>1
    <3>2. resp'[f][t].complete /\ resp'[f][t].error = "lost"
      BY <3>1 DEF TypeOK, Responses
    <3>3. Outcome'[f][t] = "failed"
      BY <3>2, OutcomeIs
    <3> QED
      BY <1>4, <2>1, <3>3
  <2>2. CASE ~hit(f, t)
    BY <1>1, <1>4, <2>2
  <2> QED
    BY <2>1, <2>2
<1>6. \A f \in Futures : f \in touched <=> \E t \in Services : <<f, t>> \in pairs
  BY <1>4
<1>7. pairs \in SUBSET Requests
  OBVIOUS
<1> HIDE DEF pairs, touched
<1>8. Promise!Conclude(pairs, "failed")
  BY <1>2, <1>3, <1>5, <1>6, <1>7, Concludes
<1> QED
  BY <1>7, <1>8

\* A launch of the mesh is one of the promise: who cannot be asked has failed.
LEMMA LaunchPromised ==
  ASSUME Inv, NEW f \in Futures, NEW ts \in SUBSET Services, Launch(f, ts)
  PROVE  \E failed \in SUBSET Services : Promise!Launch(f, ts, failed)
<1> USE DEF Inv
<1> DEFINE failed == ts \ (Sent(ts) \cup {Self})
<1>1. /\ life[f] = "idle" /\ UNCHANGED served
      /\ life' = [life EXCEPT ![f] = "live"]
      /\ targets' = [targets EXCEPT ![f] = ts]
      /\ resp' = [resp EXCEPT ![f] = [t \in Services |->
           IF t \in failed THEN [answer |-> None, error |-> Refusal(ts, t), complete |-> TRUE]
                           ELSE Blank]]
      /\ done' = [done EXCEPT ![f] = (Sent(ts) = {} /\ Self \notin ts)]
  BY DEF Launch, Unlaunched
<1>2. Sent(ts) \subseteq ts
  BY DEF Sent, Known
<1>3. (failed = ts) <=> (Sent(ts) = {} /\ Self \notin ts)
  BY <1>2
<1>4. done' = [done EXCEPT ![f] = (failed = ts)]
  BY <1>1, <1>3
<1>5. failed \subseteq ts /\ failed \in SUBSET Services
  OBVIOUS
<1> HIDE DEF failed
<1>6. \A t \in Services : Outcome'[f][t] = IF t \in failed THEN "failed" ELSE "pending"
  <2>1. \A t \in Services : Refusal(ts, t) # "none"
    BY DEF Refusal
  <2>2. \A t \in Services : resp'[f][t] =
          IF t \in failed THEN [answer |-> None, error |-> Refusal(ts, t), complete |-> TRUE] ELSE Blank
    BY <1>1 DEF TypeOK
  <2>3. ASSUME NEW t \in Services
        PROVE  Outcome'[f][t] = IF t \in failed THEN "failed" ELSE "pending"
    <3>1. CASE t \in failed
      <4>1. resp'[f][t] = [answer |-> None, error |-> Refusal(ts, t), complete |-> TRUE]
        BY <2>2, <3>1
      <4>2. resp'[f][t].complete /\ resp'[f][t].error # "none"
        BY <2>1, <4>1
      <4> QED
        BY <3>1, <4>2, OutcomeIs
    <3>2. CASE t \notin failed
      <4>1. resp'[f][t] = Blank
        BY <2>2, <3>2
      <4>2. ~resp'[f][t].complete
        BY <4>1 DEF Blank
      <4> QED
        BY <3>2, <4>2, OutcomeIs
    <3> QED
      BY <3>1, <3>2
  <2> QED
    BY <2>3
<1>7. \A g \in Futures \ {f}, t \in Services : Outcome'[g][t] = Outcome[g][t]
  <2>1. \A g \in Futures \ {f} : resp'[g] = resp[g]
    BY <1>1 DEF TypeOK
  <2> QED
    BY <2>1, OutcomeIs
<1>8. Outcome' = [Outcome EXCEPT ![f] = [t \in Services |-> IF t \in failed THEN "failed" ELSE "pending"]]
  <2>1. /\ Outcome' = [g \in Futures |-> [t \in Services |-> Outcome'[g][t]]]
        /\ Outcome = [g \in Futures |-> [t \in Services |-> Outcome[g][t]]]
    BY DEF Outcome
  <2> QED
    BY <1>6, <1>7, <2>1
<1>9. Promise!Launch(f, ts, failed)
  BY <1>1, <1>4, <1>5, <1>8 DEF Promise!Launch
<1> QED
  BY <1>5, <1>9

LEMMA DropPromised ==
  ASSUME Inv, NEW f \in Futures, Drop(f)
  PROVE  Promise!Drop(f)
<1> USE DEF Inv
<1>1. \A t \in Services : Outcome'[f][t] = "pending"
  <2>1. \A t \in Services : resp'[f][t] = Blank
    BY DEF Drop, TypeOK
  <2> QED
    BY <2>1, OutcomeIs DEF Blank
<1>2. \A g \in Futures \ {f}, t \in Services : Outcome'[g][t] = Outcome[g][t]
  <2>1. \A g \in Futures \ {f} : resp'[g] = resp[g]
    BY DEF Drop, TypeOK
  <2> QED
    BY <2>1, OutcomeIs
<1>3. Outcome' = [Outcome EXCEPT ![f] = [t \in Services |-> "pending"]]
  <2>1. /\ Outcome' = [g \in Futures |-> [t \in Services |-> Outcome'[g][t]]]
        /\ Outcome = [g \in Futures |-> [t \in Services |-> Outcome[g][t]]]
    BY DEF Outcome
  <2> QED
    BY <1>1, <1>2, <2>1
<1> QED
  BY <1>3 DEF Drop, Promise!Drop

\* A step of one request: a handler runs, an answer arrives, or nobody sees it.
LEMMA MovePromised ==
  ASSUME Inv, RequestsHaveFutures, ServedOnce,
         NEW r \in Requests, QuietMove(r) \/ LocalRequest(r) \/ ReceiveResponse(r)
  PROVE  Promise!Serve(r) \/ Promise!Answer(r) \/ UNCHANGED Promise!vars
<1> USE DEF Inv
<1>1. req[r].stage # "none" => life[r[1]] # "idle" /\ (life[r[1]] = "live" => r[2] \in targets[r[1]])
  BY DEF RequestsHaveFutures
<1>2. UNCHANGED <<futureVars, served>> => UNCHANGED Promise!vars
  BY DEF Promise!vars, futureVars, Outcome
<1>3. ASSUME UNCHANGED futureVars, served' = served \cup {r}, req[r].stage \in {"local", "fiber"}
      PROVE  Promise!Serve(r)
  <2>1. r \notin served
    BY <1>3 DEF ServedOnce
  <2>2. UNCHANGED <<life, targets, Outcome, done>>
    BY <1>3 DEF futureVars, Outcome
  <2> QED
    BY <1>1, <1>3, <2>1, <2>2 DEF Promise!Serve
<1>4. CASE QuietMove(r)
  <2>1. UNCHANGED futureVars /\ req[r].stage # "local"
    BY <1>4, MoveEffect
  <2>2. served' = served \/ (served' = served \cup {r} /\ req[r].stage = "fiber")
    BY <1>4 DEF QuietMove, SendRequest, ReceiveRequest, RemoteRequest, SendResponse
  <2> QED
    BY <1>2, <1>3, <2>1, <2>2
<1>5. CASE LocalRequest(r)
  <2>1. SetResponse(r) /\ served' = served \cup {r} /\ req[r].stage = "local"
    BY <1>5 DEF LocalRequest
  <2>2. CASE Expired(r)
    BY <1>3, <2>1, <2>2 DEF SetResponse
  <2>3. CASE ~Expired(r)
    BY <1>1, <2>1, <2>3, SetResponseConcludes DEF Promise!Answer, Expired
  <2> QED
    BY <2>2, <2>3
<1>6. CASE ReceiveResponse(r)
  <2>1. req[r].stage = "answer" /\ served' = served
    BY <1>6 DEF ReceiveResponse
  <2>2. UNCHANGED futureVars \/ (~Expired(r) /\ SetResponse(r))
    BY <1>6 DEF ReceiveResponse, SetResponse
  <2>3. CASE UNCHANGED futureVars
    BY <1>2, <2>1, <2>3
  <2>4. CASE ~Expired(r) /\ SetResponse(r)
    <3>1. served' = served \cup {r}
      BY <2>1 DEF AnswersWereServed
    <3>2. Promise!Conclude({r}, "answered")
      BY <1>1, <2>1, <2>4, SetResponseConcludes DEF Expired
    <3> QED
      BY <3>1, <3>2 DEF Promise!Answer
  <2> QED
    BY <2>2, <2>3, <2>4
<1> QED
  BY <1>4, <1>5, <1>6

LEMMA PromiseInit == Init => Promise!Init
BY DEF Init, Promise!Init, Outcome, Blank

LEMMA PromiseStep ==
  ASSUME Inv, RequestsHaveFutures, ServedOnce, [Next]_vars
  PROVE  [Promise!Next]_(Promise!vars)
<1> USE DEF Inv
<1>1. ASSUME NEW f \in Futures, NEW ts \in SUBSET Services, Launch(f, ts)
      PROVE  Promise!Next
  BY <1>1, LaunchPromised DEF Promise!Next
<1>2. ASSUME NEW f \in Futures, Drop(f)
      PROVE  Promise!Next
  BY <1>2, DropPromised DEF Promise!Next
<1>3. ASSUME NEW r \in Requests, QuietMove(r) \/ LocalRequest(r) \/ ReceiveResponse(r)
      PROVE  Promise!Next \/ UNCHANGED Promise!vars
  BY <1>3, MovePromised DEF Promise!Next, Promise!Pairs, Requests
<1>4. ASSUME NEW lost, LosePeers(lost), UNCHANGED <<req, served>>
      PROVE  Promise!Next
  <2>1. PICK pairs \in SUBSET Requests : Promise!Conclude(pairs, "failed")
    BY <1>4, LosePeersConcludes
  <2>2. Promise!Lose(pairs)
    BY <1>4, <2>1 DEF Promise!Lose
  <2> QED
    BY <2>2 DEF Promise!Next, Promise!Pairs, Requests
<1>5. ASSUME UNCHANGED <<futureVars, req, served>>
      PROVE  UNCHANGED Promise!vars
  BY <1>5 DEF Promise!vars, futureVars, Outcome
<1> QED
  BY <1>1, <1>2, <1>3, <1>4, <1>5, StepKinds

\* The mesh keeps the promise, whatever happens to the sessions and the peers.
THEOREM PromiseKept == Spec => KeepsPromise
<1>1. Init => RequestsHaveFutures /\ ServedOnce
  BY DEF Init, RequestsHaveFutures, ServedOnce, NoReq
<1>2. Inv /\ (RequestsHaveFutures /\ ServedOnce) /\ [Next]_vars => (RequestsHaveFutures /\ ServedOnce)'
  BY RequestsStep
<1>3. Inv /\ (RequestsHaveFutures /\ ServedOnce) /\ [Next]_vars => [Promise!Next]_(Promise!vars)
  BY PromiseStep
<1> QED
  BY <1>1, <1>2, <1>3, PromiseInit, Invariance, PTL DEF Spec, KeepsPromise, Promise!Spec
=============================================================================
