--------------------------- MODULE ServiceRpc_proofs ---------------------------
(***************************************************************************)
(* Proofs about the request mesh, for any number of peers, futures and     *)
(* sessions: no waiting fiber is forgotten.                                *)
(***************************************************************************)
EXTENDS ServiceRpc, TLAPS, SequenceTheorems

USE MeshAssumption

\* Adding a request to a waiting list keeps every entry that has not expired:
\* a reused slot never evicts a future somebody still waits for.
LEMMA AddWaiterKeeps ==
  ASSUME NEW w \in Seq(Requests), NEW r \in Requests
  PROVE  /\ AddWaiter(w, r) \in Seq(Requests)
         /\ \E b \in DOMAIN AddWaiter(w, r) : AddWaiter(w, r)[b] = r
         /\ \A b \in DOMAIN w : ~Expired(w[b]) =>
              \E c \in DOMAIN AddWaiter(w, r) : AddWaiter(w, r)[c] = w[b]
<1>1. CASE \E b \in DOMAIN w : FirstExpired(w, b)
  <2> DEFINE slot == CHOOSE b \in DOMAIN w : FirstExpired(w, b)
  <2>1. slot \in DOMAIN w /\ Expired(w[slot])
    BY <1>1 DEF FirstExpired
  <2>2. AddWaiter(w, r) = [w EXCEPT ![slot] = r]
    BY <1>1 DEF AddWaiter
  <2> HIDE DEF slot
  <2>3. DOMAIN w = 1..Len(w)
    BY LenProperties
  <2>4. /\ [w EXCEPT ![slot] = r] \in Seq(Requests)
        /\ DOMAIN [w EXCEPT ![slot] = r] = DOMAIN w
        /\ \A b \in DOMAIN w : [w EXCEPT ![slot] = r][b] = IF b = slot THEN r ELSE w[b]
    BY <2>1, <2>3, ExceptSeq
  <2> QED
    BY <2>1, <2>2, <2>4
<1>2. CASE ~ \E b \in DOMAIN w : FirstExpired(w, b)
  <2>1. AddWaiter(w, r) = Append(w, r)
    BY <1>2 DEF AddWaiter
  <2>2. /\ Append(w, r) \in Seq(Requests)
        /\ Len(w) \in Nat
        /\ DOMAIN w = 1..Len(w)
        /\ DOMAIN Append(w, r) = 1..(Len(w) + 1)
        /\ \A b \in 1..Len(w) : Append(w, r)[b] = w[b]
        /\ Append(w, r)[Len(w) + 1] = r
    OBVIOUS
  <2> QED
    BY <2>1, <2>2
<1> QED
  BY <1>1, <1>2

\* The two ways responses are written keep the futures well-typed.
LEMMA SetResponseType ==
  ASSUME TypeOK, NEW r \in Requests, SetResponse(r)
  PROVE  /\ life' = life /\ targets' = targets
         /\ resp' \in [Futures -> [Services -> Responses]]
         /\ done' \in [Futures -> BOOLEAN]
<1>1. CASE Expired(r)
  BY <1>1 DEF SetResponse, futureVars, TypeOK
<1>2. CASE ~Expired(r)
  <2>1. r[1] \in Futures /\ r[2] \in Services
    BY DEF Requests
  <2>2. [answer |-> r, error |-> "none", complete |-> TRUE] \in Responses
    BY DEF Errors, Responses
  <2>3. resp' = [resp EXCEPT ![r[1]][r[2]] = [answer |-> r, error |-> "none", complete |-> TRUE]]
    BY <1>2 DEF SetResponse
  <2> HIDE DEF Requests
  <2>4. resp' \in [Futures -> [Services -> Responses]]
    BY <2>1, <2>2, <2>3 DEF TypeOK
  <2>5. done' = [f \in Futures |-> done[f] \/
             (f \in {r[1]} /\ \A t \in targets[f] : resp'[f][t].complete)]
    BY <1>2 DEF SetResponse, CompleteIfAll
  <2>6. done' \in [Futures -> BOOLEAN]
    BY <2>5
  <2> QED
    BY <1>2, <2>4, <2>6 DEF SetResponse
<1> QED
  BY <1>1, <1>2

LEMMA LosePeersType ==
  ASSUME TypeOK, NEW lost, LosePeers(lost)
  PROVE  /\ life' = life /\ targets' = targets
         /\ resp' \in [Futures -> [Services -> Responses]]
         /\ done' \in [Futures -> BOOLEAN]
<1> DEFINE hit(f, t) == /\ t \in lost \cap targets[f]
                        /\ life[f] = "live"
                        /\ \E b \in DOMAIN conn[t].waiting : conn[t].waiting[b][1] = f
<1>1. resp' = [f \in Futures |-> [t \in Services |->
                 IF hit(f, t) THEN [resp[f][t] EXCEPT !.error = "lost", !.complete = TRUE]
                              ELSE resp[f][t]]]
  BY DEF LosePeers
<1>2. done' = [f \in Futures |-> done[f] \/
                 (f \in {g \in Futures : \E t \in Services : hit(g, t)}
                    /\ \A t \in targets[f] : resp'[f][t].complete)]
  BY DEF LosePeers, CompleteIfAll
<1> HIDE DEF hit
<1>3. ASSUME NEW f \in Futures, NEW t \in Services
      PROVE  [resp[f][t] EXCEPT !.error = "lost", !.complete = TRUE] \in Responses
  <2>1. resp[f][t] \in Responses
    BY DEF TypeOK
  <2> QED
    BY <2>1 DEF Responses, Errors
<1>4. resp' \in [Futures -> [Services -> Responses]]
  BY <1>1, <1>3 DEF TypeOK
<1>5. done' \in [Futures -> BOOLEAN]
  BY <1>2
<1> QED
  BY <1>4, <1>5 DEF LosePeers

\* Updates of one entry keep its type.
LEMMA SessionTypes ==
  ASSUME NEW x \in SessionRecords, NEW st \in SessionStates, NEW b \in BOOLEAN
  PROVE  /\ [x EXCEPT !.state = st] \in SessionRecords
         /\ [x EXCEPT !.up = b] \in SessionRecords
         /\ [x EXCEPT !.state = st, !.up = b] \in SessionRecords
BY DEF SessionRecords

LEMMA ProgressTypes ==
  ASSUME NEW x \in Progress, NEW st \in Stages, NEW b \in BOOLEAN
  PROVE  /\ [x EXCEPT !.stage = st] \in Progress
         /\ [x EXCEPT !.stage = st, !.want = b] \in Progress
BY DEF Progress

\* No step takes a variable out of its type.
LEMMA TypeStep == TypeOK /\ [Next]_vars => TypeOK'
<1> SUFFICES ASSUME TypeOK, [Next]_vars PROVE TypeOK'
  OBVIOUS
<1>1. ASSUME NEW f \in Futures, NEW ts \in SUBSET Services, Launch(f, ts) PROVE TypeOK'
  <2>1. PICK new \in [Opening(ts) -> FreshSessions] : Dispatch(f, ts, new)
    BY <1>1 DEF Launch
  <2>2. /\ Sent(ts) \subseteq Peers /\ Opening(ts) \subseteq Sent(ts)
        /\ \A p \in Opening(ts) : new[p] \in Sessions
    BY <2>1 DEF Known, Sent, Opening, FreshSessions
  <2>3. \A p \in Sent(ts) : SessionFor(ts, new, p) \in Sessions \cup {None}
    BY <2>2 DEF SessionFor, TypeOK, Connections
  <2>4. sess' \in [Sessions -> SessionRecords]
    <3>1. ASSUME NEW s \in Sessions, \E p \in Opening(ts) : new[p] = s
          PROVE  [peer |-> CHOOSE p \in Opening(ts) : new[p] = s, state |-> "open", up |-> TRUE]
                   \in SessionRecords
      BY <3>1, <2>2 DEF SessionRecords, SessionStates
    <3> QED
      BY <2>1, <3>1 DEF TypeOK, Dispatch
  <2>5. conn' \in [Peers -> Connections]
    <3>1. ASSUME NEW p \in Sent(ts)
          PROVE  [session |-> SessionFor(ts, new, p),
                  waiting |-> AddWaiter(conn[p].waiting, <<f, p>>)] \in Connections
      <4>1. conn[p].waiting \in Seq(Requests) /\ <<f, p>> \in Requests
        BY <2>2 DEF TypeOK, Requests, Services, Connections
      <4> QED
        BY <2>3, <4>1, AddWaiterKeeps DEF Connections
    <3> QED
      BY <2>1, <3>1 DEF TypeOK, Dispatch
  <2>6. req' \in [Requests -> Progress]
    <3>1. [stage |-> "local", session |-> None, want |-> TRUE] \in Progress
      BY DEF Progress, Stages
    <3>2. ASSUME NEW p \in Sent(ts)
          PROVE  [stage |-> "task", session |-> SessionFor(ts, new, p), want |-> FALSE] \in Progress
      BY <2>3 DEF Progress, Stages
    <3> QED
      BY <2>1, <3>1, <3>2 DEF TypeOK, Dispatch
  <2>7. resp' \in [Futures -> [Services -> Responses]]
    <3>1. \A t \in Services :
            [answer |-> None, error |-> Refusal(ts, t), complete |-> TRUE] \in Responses
      BY DEF Refusal, Responses, Errors
    <3>2. Blank \in Responses
      BY DEF Blank, Responses, Errors
    <3> QED
      BY <1>1, <3>1, <3>2 DEF Launch, TypeOK
  <2>8. /\ life' \in [Futures -> {"idle", "live", "gone"}]
        /\ targets' \in [Futures -> SUBSET Services]
        /\ remote_services' \in [Peers -> Records]
        /\ served' \subseteq Requests
        /\ done' \in [Futures -> BOOLEAN]
    BY <1>1 DEF Launch, TypeOK
  <2> QED
    BY <2>4, <2>5, <2>6, <2>7, <2>8 DEF TypeOK
<1>2. ASSUME NEW f \in Futures, Drop(f) PROVE TypeOK'
  <2>1. Blank \in Responses
    BY DEF Blank, Responses, Errors
  <2> QED
    BY <1>2, <2>1 DEF Drop, TypeOK
<1>3. ASSUME NEW r \in Requests, NEW st \in Stages, MoveTo(r, st)
      PROVE  req' \in [Requests -> Progress]
  BY <1>3, ProgressTypes DEF MoveTo, TypeOK
<1>4. {"end", "fiber", "reply", "answer", "sent"} \subseteq Stages
  BY DEF Stages
<1>5. ASSUME NEW r \in Requests, LocalRequest(r) PROVE TypeOK'
  <2>1. SetResponse(r)
    BY <1>5 DEF LocalRequest
  <2>2. req' \in [Requests -> Progress]
    BY <1>5, <1>3, <1>4 DEF LocalRequest
  <2> QED
    BY <1>5, <2>1, <2>2, SetResponseType DEF LocalRequest, TypeOK
<1>6. ASSUME NEW r \in Requests, SendRequest(r) PROVE TypeOK'
  <2>1. PICK st \in {"sent", "end"} :
          req' = [req EXCEPT ![r] = [@ EXCEPT !.stage = st, !.want = ~Expired(r)]]
    BY <1>6 DEF SendRequest
  <2>2. st \in Stages
    BY <1>4
  <2>3. (~Expired(r)) \in BOOLEAN
    BY DEF Expired
  <2>4. [req[r] EXCEPT !.stage = st, !.want = ~Expired(r)] \in Progress
    BY <2>2, <2>3, ProgressTypes DEF TypeOK
  <2>5. req' \in [Requests -> Progress]
    BY <2>1, <2>4 DEF TypeOK
  <2> QED
    BY <1>6, <2>5 DEF SendRequest, TypeOK, futureVars
<1>7. ASSUME NEW r \in Requests, ReceiveRequest(r) PROVE TypeOK'
  <2>1. req' \in [Requests -> Progress]
    BY <1>7, <1>3, <1>4 DEF ReceiveRequest
  <2> QED
    BY <1>7, <2>1 DEF ReceiveRequest, TypeOK, futureVars
<1>8. ASSUME NEW r \in Requests, RemoteRequest(r) PROVE TypeOK'
  <2>1. req' \in [Requests -> Progress]
    BY <1>8, <1>3, <1>4 DEF RemoteRequest
  <2> QED
    BY <1>8, <2>1 DEF RemoteRequest, TypeOK, futureVars
<1>9. ASSUME NEW r \in Requests, SendResponse(r) PROVE TypeOK'
  <2>1. req' \in [Requests -> Progress]
    BY <1>9, <1>3, <1>4 DEF SendResponse
  <2> QED
    BY <1>9, <2>1 DEF SendResponse, TypeOK, futureVars
<1>10. ASSUME NEW r \in Requests, ReceiveResponse(r) PROVE TypeOK'
  <2>1. req' \in [Requests -> Progress]
    BY <1>10, <1>3, <1>4 DEF ReceiveResponse
  <2>2. CASE Waiting(r)
    <3>1. SetResponse(r)
      BY <1>10, <2>2 DEF ReceiveResponse
    <3> QED
      BY <1>10, <2>1, <3>1, SetResponseType DEF ReceiveResponse, TypeOK
  <2>3. CASE ~Waiting(r)
    BY <1>10, <2>1, <2>3 DEF ReceiveResponse, TypeOK, futureVars
  <2> QED
    BY <2>2, <2>3
<1>11. ASSUME NEW s \in Sessions, ServerDown(s) PROVE TypeOK'
  <2>1. [sess[s] EXCEPT !.up = FALSE] \in SessionRecords
    BY SessionTypes DEF TypeOK, SessionStates
  <2>2. sess' \in [Sessions -> SessionRecords]
    BY <1>11, <2>1 DEF ServerDown, TypeOK
  <2> QED
    BY <1>11, <2>2 DEF ServerDown, TypeOK, futureVars
<1>12. ASSUME NEW s \in Sessions, ConnectionLost(s) PROVE TypeOK'
  <2>1. [sess[s] EXCEPT !.state = "closing"] \in SessionRecords
    BY SessionTypes DEF TypeOK, SessionStates
  <2>2. sess' \in [Sessions -> SessionRecords]
    BY <1>12, <2>1 DEF ConnectionLost, TypeOK
  <2> QED
    BY <1>12, <2>2 DEF ConnectionLost, TypeOK, futureVars
<1>13. NoConn \in Connections
  BY EmptySeq DEF NoConn, Connections
<1>14. ASSUME NEW s \in Sessions, CloseEvent(s) PROVE TypeOK'
  <2>1. LosePeers({sess[s].peer})
    BY <1>14 DEF CloseEvent
  <2>2. [sess[s] EXCEPT !.state = "gone", !.up = FALSE] \in SessionRecords
    BY SessionTypes DEF TypeOK, SessionStates
  <2>3. sess' \in [Sessions -> SessionRecords] /\ conn' \in [Peers -> Connections]
    BY <1>14, <2>2, <1>13 DEF CloseEvent, TypeOK
  <2> QED
    BY <1>14, <2>1, <2>3, LosePeersType DEF CloseEvent, TypeOK
<1>15. ASSUME NEW found \in [Peers -> Records], RefreshServices(found) PROVE TypeOK'
  <2> DEFINE purged == {p \in Peers : Lock(p) = None \/ found[p] = "absent"}
  <2>1. LosePeers(purged)
    BY <1>15 DEF RefreshServices
  <2>2. \A s \in Sessions : [sess[s] EXCEPT !.state = "closing"] \in SessionRecords
    BY SessionTypes DEF TypeOK, SessionStates
  <2>3. sess' \in [Sessions -> SessionRecords] /\ conn' \in [Peers -> Connections]
    BY <1>15, <2>2, <1>13 DEF RefreshServices, TypeOK
  <2> QED
    BY <1>15, <2>1, <2>3, LosePeersType DEF RefreshServices, TypeOK
<1>16. CASE UNCHANGED vars
  BY <1>16 DEF vars, TypeOK
<1> QED
  BY <1>1, <1>2, <1>5, <1>6, <1>7, <1>8, <1>9, <1>10, <1>11, <1>12, <1>14, <1>15, <1>16 DEF Next

LEMMA TypeInit == Init => TypeOK
BY DEF Init, TypeOK, Records, Blank, NoConn, NoReq, Responses, Errors, Connections,
       SessionRecords, SessionStates, Progress, Stages

\* Type correctness: every variable of the mesh keeps its type.
THEOREM TypeCorrect == Spec => []TypeOK
BY TypeInit, TypeStep, PTL DEF Spec

\* What filling one slot changes.
LEMMA SetResponseEffect ==
  ASSUME TypeOK, NEW r \in Requests, SetResponse(r)
  PROVE  /\ life' = life /\ targets' = targets
         /\ Expired(r) => resp' = resp /\ done' = done
         /\ ~Expired(r) =>
              /\ resp'[r[1]][r[2]] = [answer |-> r, error |-> "none", complete |-> TRUE]
              /\ \A f \in Futures, t \in Services : <<f, t>> # r => resp'[f][t] = resp[f][t]
<1>1. r[1] \in Futures /\ r[2] \in Services /\ r = <<r[1], r[2]>>
  BY DEF Requests
<1>2. CASE Expired(r)
  BY <1>2 DEF SetResponse, futureVars
<1>3. CASE ~Expired(r)
  <2>1. resp' = [resp EXCEPT ![r[1]][r[2]] = [answer |-> r, error |-> "none", complete |-> TRUE]]
    BY <1>3 DEF SetResponse
  <2> QED
    BY <1>1, <1>3, <2>1 DEF TypeOK, SetResponse
<1> QED
  BY <1>2, <1>3

\* What losing peers changes.
LEMMA LosePeersEffect ==
  ASSUME TypeOK, NEW lost, LosePeers(lost)
  PROVE  /\ life' = life /\ targets' = targets
         /\ \A f \in Futures, t \in Services :
              /\ resp'[f][t].answer = resp[f][t].answer
              /\ resp[f][t].complete => resp'[f][t].complete
              /\ resp'[f][t] # resp[f][t] => life[f] = "live" /\ t \in targets[f]
              /\ Missing(f, t) /\ t \in lost /\ Waiting(<<f, t>>) => resp'[f][t].complete
<1> DEFINE hit(f, t) == /\ t \in lost \cap targets[f]
                        /\ life[f] = "live"
                        /\ \E b \in DOMAIN conn[t].waiting : conn[t].waiting[b][1] = f
           loss(f, t) == [resp[f][t] EXCEPT !.error = "lost", !.complete = TRUE]
<1>1. \A f \in Futures, t \in Services : resp'[f][t] = IF hit(f, t) THEN loss(f, t) ELSE resp[f][t]
  BY DEF LosePeers
<1>2. \A f \in Futures, t \in Services :
        loss(f, t).answer = resp[f][t].answer /\ loss(f, t).complete
  <2> SUFFICES ASSUME NEW f \in Futures, NEW t \in Services
               PROVE  loss(f, t).answer = resp[f][t].answer /\ loss(f, t).complete
    OBVIOUS
  <2>1. resp[f][t] \in Responses
    BY DEF TypeOK
  <2> QED
    BY <2>1 DEF Responses
<1>3. \A f \in Futures, t \in Services :
        Missing(f, t) /\ t \in lost /\ Waiting(<<f, t>>) => hit(f, t)
  BY DEF Missing, Waiting
<1>4. \A f \in Futures, t \in Services : hit(f, t) => life[f] = "live" /\ t \in targets[f]
  OBVIOUS
<1>5. life' = life /\ targets' = targets
  BY DEF LosePeers
<1> HIDE DEF hit, loss
<1> QED
  BY <1>1, <1>2, <1>3, <1>4, <1>5

\* What Launch does to the peers' records and sessions.
LEMMA LaunchEffect ==
  ASSUME Inv, NEW f \in Futures, NEW ts \in SUBSET Services, Launch(f, ts)
  PROVE  \E new \in [Opening(ts) -> FreshSessions] :
           /\ Dispatch(f, ts, new)
           /\ Sent(ts) \subseteq Peers
           /\ \A p \in Peers : Lock(p) # None =>
                conn'[p].session = conn[p].session /\ sess'[conn[p].session] = sess[conn[p].session]
           /\ \A p \in Opening(ts) :
                /\ conn'[p].session = new[p] /\ new[p] \in Sessions
                /\ sess'[new[p]] = [peer |-> p, state |-> "open", up |-> TRUE]
           /\ \A p \in Peers \ Opening(ts) : conn'[p].session = conn[p].session
           /\ \A s \in Sessions : sess[s].state # "fresh" => sess'[s] = sess[s]
           /\ \A s \in Sessions : sess'[s] = sess[s] \/ \E p \in Opening(ts) : s = new[p]
<1>1. PICK new \in [Opening(ts) -> FreshSessions] : Dispatch(f, ts, new)
  BY DEF Launch
<1>2. Opening(ts) \subseteq Sent(ts) /\ Sent(ts) \subseteq Peers
  BY DEF Opening, Sent, Known
<1>3. \A p \in Opening(ts) : new[p] \in Sessions /\ sess[new[p]].state = "fresh"
  BY DEF FreshSessions
<1>4. ASSUME NEW p \in Opening(ts)
      PROVE  conn'[p].session = new[p] /\ sess'[new[p]] = [peer |-> p, state |-> "open", up |-> TRUE]
  <2>1. (CHOOSE q \in Opening(ts) : new[q] = new[p]) = p
    BY <1>1 DEF Dispatch
  <2> QED
    BY <1>1, <1>2, <1>3, <2>1 DEF Dispatch, SessionFor
<1>5. \A p \in Peers \ Opening(ts) : conn'[p].session = conn[p].session
  BY <1>1, <1>2 DEF Dispatch, SessionFor
<1>6. \A s \in Sessions : sess[s].state # "fresh" => sess'[s] = sess[s]
  BY <1>1, <1>3 DEF Dispatch
<1>7. \A s \in Sessions : sess'[s] = sess[s] \/ \E p \in Opening(ts) : s = new[p]
  BY <1>1 DEF Dispatch
<1>8. ASSUME NEW p \in Peers, Lock(p) # None
      PROVE  /\ conn'[p].session = conn[p].session
             /\ sess'[conn[p].session] = sess[conn[p].session]
  <2>1. p \notin Opening(ts)
    BY <1>8 DEF Opening
  <2>2. conn[p].session # None
    BY <1>8 DEF Lock
  <2>3. conn[p].session \in Sessions /\ sess[conn[p].session].state # "fresh"
    <3>1. RecordsFollowSessions /\ conn[p] \in Connections
      BY DEF Inv, TypeOK
    <3> QED
      BY <2>2, <3>1 DEF Connections, RecordsFollowSessions
  <2> QED
    BY <1>5, <1>6, <2>1, <2>3
<1> QED
  BY <1>1, <1>2, <1>3, <1>4, <1>5, <1>6, <1>7, <1>8

\* Records hold sessions to their own peer, whose close event is still to come.
LEMMA SessionStep ==
  ASSUME Inv, [Next]_vars
  PROVE  RecordsFollowSessions' /\ SessionsHavePeers'
<1> USE DEF Inv
<1>1. ASSUME NEW f \in Futures, NEW ts \in SUBSET Services, Launch(f, ts)
      PROVE  RecordsFollowSessions' /\ SessionsHavePeers'
  <2>1. PICK new \in [Opening(ts) -> FreshSessions] :
           /\ Sent(ts) \subseteq Peers
           /\ \A p \in Opening(ts) :
                /\ conn'[p].session = new[p] /\ new[p] \in Sessions
                /\ sess'[new[p]] = [peer |-> p, state |-> "open", up |-> TRUE]
           /\ \A p \in Peers \ Opening(ts) : conn'[p].session = conn[p].session
           /\ \A s \in Sessions : sess[s].state # "fresh" => sess'[s] = sess[s]
           /\ \A s \in Sessions : sess'[s] = sess[s] \/ \E p \in Opening(ts) : s = new[p]
    BY <1>1, LaunchEffect
  <2>2. Opening(ts) \subseteq Peers
    BY <2>1 DEF Opening
  <2>3. RecordsFollowSessions'
    <3> SUFFICES ASSUME NEW p \in Peers, conn'[p].session # None
                 PROVE  /\ sess'[conn'[p].session].peer = p
                        /\ sess'[conn'[p].session].state \in {"open", "closing"}
      BY DEF RecordsFollowSessions
    <3>1. CASE p \in Opening(ts)
      <4>1. conn'[p].session = new[p]
        BY <2>1, <3>1
      <4>2. sess'[new[p]] = [peer |-> p, state |-> "open", up |-> TRUE]
        BY <2>1, <3>1
      <4> QED
        BY <4>1, <4>2
    <3>2. CASE p \notin Opening(ts)
      <4>1. conn'[p].session = conn[p].session
        BY <2>1, <3>2
      <4>2. conn[p].session \in Sessions
        BY <4>1 DEF TypeOK, Connections
      <4> QED
        BY <2>1, <4>1, <4>2 DEF RecordsFollowSessions
    <3> QED
      BY <3>1, <3>2
  <2>4. SessionsHavePeers'
    <3> SUFFICES ASSUME NEW s \in Sessions, sess'[s].state # "fresh"
                 PROVE  sess'[s].peer \in Peers
      BY DEF SessionsHavePeers
    <3>1. CASE sess'[s] = sess[s]
      BY <3>1 DEF SessionsHavePeers
    <3>2. CASE sess'[s] # sess[s]
      <4>1. PICK p \in Opening(ts) : s = new[p]
        BY <2>1, <3>2
      <4>2. sess'[s] = [peer |-> p, state |-> "open", up |-> TRUE]
        BY <2>1, <4>1
      <4> QED
        BY <2>2, <4>2
    <3> QED
      BY <3>1, <3>2
  <2> QED
    BY <2>3, <2>4
<1>2. ASSUME NEW s \in Sessions, ServerDown(s) \/ ConnectionLost(s)
      PROVE  RecordsFollowSessions' /\ SessionsHavePeers'
  <2>1. conn' = conn
    BY <1>2 DEF ServerDown, ConnectionLost
  <2>2. \A q \in Sessions :
          /\ sess'[q].peer = sess[q].peer
          /\ sess'[q].state = sess[q].state \/ (sess[q].state = "open" /\ sess'[q].state = "closing")
    <3>1. sess[s] \in SessionRecords
      BY DEF TypeOK
    <3>2. /\ [sess[s] EXCEPT !.up = FALSE].peer = sess[s].peer
          /\ [sess[s] EXCEPT !.up = FALSE].state = sess[s].state
          /\ [sess[s] EXCEPT !.state = "closing"].peer = sess[s].peer
          /\ [sess[s] EXCEPT !.state = "closing"].state = "closing"
      BY <3>1 DEF SessionRecords
    <3>3. \/ sess' = [sess EXCEPT ![s] = [sess[s] EXCEPT !.up = FALSE]]
          \/ /\ sess[s].state = "open"
             /\ sess' = [sess EXCEPT ![s] = [sess[s] EXCEPT !.state = "closing"]]
      BY <1>2 DEF ServerDown, ConnectionLost
    <3> QED
      BY <3>2, <3>3 DEF TypeOK
  <2>3. \A p \in Peers : conn[p].session # None => conn[p].session \in Sessions
    BY DEF TypeOK, Connections
  <2> QED
    BY <2>1, <2>2, <2>3 DEF RecordsFollowSessions, SessionsHavePeers
<1>3. ASSUME NEW s \in Sessions, CloseEvent(s)
      PROVE  RecordsFollowSessions' /\ SessionsHavePeers'
  <2>1. \A q \in Sessions : sess'[q].peer = sess[q].peer /\ (q # s => sess'[q] = sess[q])
    BY <1>3 DEF CloseEvent, TypeOK, SessionRecords
  <2>2. \A p \in Peers : conn'[p] = IF p = sess[s].peer THEN NoConn ELSE conn[p]
    BY <1>3 DEF CloseEvent, TypeOK
  <2>3. sess[s].state # "fresh"
    BY <1>3 DEF CloseEvent
  <2>4. \A p \in Peers : conn[p].session # None => conn[p].session \in Sessions
    BY DEF TypeOK, Connections
  <2> QED
    BY <2>1, <2>2, <2>3, <2>4 DEF RecordsFollowSessions, SessionsHavePeers, NoConn
<1>4. ASSUME NEW found \in [Peers -> Records], RefreshServices(found)
      PROVE  RecordsFollowSessions' /\ SessionsHavePeers'
  <2> DEFINE purged == {p \in Peers : Lock(p) = None \/ found[p] = "absent"}
             shut == {Lock(p) : p \in purged}
  <2>1. /\ sess' = [s \in Sessions |-> IF s \in shut THEN [sess[s] EXCEPT !.state = "closing"]
                                                     ELSE sess[s]]
        /\ conn' = [p \in Peers |-> IF p \in purged THEN NoConn ELSE conn[p]]
    BY <1>4 DEF RefreshServices
  <2>2. \A s \in Sessions : /\ sess'[s].peer = sess[s].peer
                             /\ sess'[s].state = IF s \in shut THEN "closing" ELSE sess[s].state
    BY <2>1 DEF TypeOK, SessionRecords
  <2>3. \A s \in Sessions : s \in shut => sess[s].state \in {"open", "closing"}
    <3>1. ASSUME NEW s \in Sessions, NEW p \in Peers, s = Lock(p)
          PROVE  sess[s].state \in {"open", "closing"}
      BY <3>1, MeshAssumption DEF Lock, RecordsFollowSessions
    <3> QED
      BY <3>1
  <2>4. \A p \in Peers : conn[p].session # None => conn[p].session \in Sessions
    BY DEF TypeOK, Connections
  <2> HIDE DEF shut
  <2> QED
    BY <2>1, <2>2, <2>3, <2>4 DEF RecordsFollowSessions, SessionsHavePeers, NoConn
<1>5. CASE UNCHANGED <<conn, sess>>
  BY <1>5 DEF RecordsFollowSessions, SessionsHavePeers
<1>6. ASSUME NEW r \in Requests,
             \/ LocalRequest(r) \/ SendRequest(r) \/ ReceiveRequest(r)
             \/ RemoteRequest(r) \/ SendResponse(r) \/ ReceiveResponse(r)
      PROVE  UNCHANGED <<conn, sess>>
  BY <1>6 DEF LocalRequest, SendRequest, ReceiveRequest, RemoteRequest, SendResponse, ReceiveResponse
<1>7. ASSUME NEW f \in Futures, Drop(f) PROVE UNCHANGED <<conn, sess>>
  BY <1>7 DEF Drop
<1>8. UNCHANGED vars => UNCHANGED <<conn, sess>>
  BY DEF vars
<1> QED
  BY <1>1, <1>2, <1>3, <1>4, <1>5, <1>6, <1>7, <1>8 DEF Next

\* The steps that only move one request along.
QuietMove(r) == SendRequest(r) \/ ReceiveRequest(r) \/ RemoteRequest(r) \/ SendResponse(r)

LEMMA MoveEffect ==
  ASSUME TypeOK, NEW r \in Requests,
         QuietMove(r) \/ LocalRequest(r) \/ ReceiveResponse(r)
  PROVE  /\ UNCHANGED <<conn, sess>>
         /\ \A q \in Requests : req'[q].session = req[q].session /\ (q # r => req'[q] = req[q])
         /\ served \subseteq served'
         /\ req'[r].stage \in {"reply", "answer"} => r \in served' \/ req[r].stage = "reply"
         /\ QuietMove(r) => req[r].stage # "local" /\ UNCHANGED futureVars
<1>1. req[r] \in Progress
  BY DEF TypeOK
<1>2. ASSUME NEW st, NEW b
      PROVE  /\ [req[r] EXCEPT !.stage = st].session = req[r].session
             /\ [req[r] EXCEPT !.stage = st].stage = st
             /\ [req[r] EXCEPT !.stage = st, !.want = b].session = req[r].session
             /\ [req[r] EXCEPT !.stage = st, !.want = b].stage = st
  BY <1>1 DEF Progress
<1>3. CASE SendRequest(r)
  <2>1. PICK st \in {"sent", "end"} :
          req' = [req EXCEPT ![r] = [req[r] EXCEPT !.stage = st, !.want = ~Expired(r)]]
    BY <1>3 DEF SendRequest
  <2>2. /\ [req[r] EXCEPT !.stage = st, !.want = ~Expired(r)].session = req[r].session
        /\ [req[r] EXCEPT !.stage = st, !.want = ~Expired(r)].stage = st
    BY <1>2
  <2>3. UNCHANGED <<conn, sess, futureVars, served>> /\ req[r].stage = "task"
    BY <1>3 DEF SendRequest
  <2> HIDE DEF Expired
  <2> QED
    BY <2>1, <2>2, <2>3 DEF TypeOK
<1>4. ASSUME NEW st, MoveTo(r, st)
      PROVE  /\ \A q \in Requests : req'[q].session = req[q].session /\ (q # r => req'[q] = req[q])
             /\ req'[r].stage = st
  BY <1>2, <1>4 DEF MoveTo, TypeOK
<1>5. CASE ReceiveRequest(r)
  BY <1>4, <1>5 DEF ReceiveRequest
<1>6. CASE RemoteRequest(r)
  BY <1>4, <1>6 DEF RemoteRequest
<1>7. CASE SendResponse(r)
  BY <1>4, <1>7 DEF SendResponse
<1>8. CASE LocalRequest(r)
  BY <1>4, <1>8 DEF LocalRequest, QuietMove, SendRequest, ReceiveRequest, RemoteRequest, SendResponse
<1>9. CASE ReceiveResponse(r)
  BY <1>4, <1>9 DEF ReceiveResponse, QuietMove, SendRequest, ReceiveRequest, RemoteRequest, SendResponse
<1> QED
  BY <1>3, <1>5, <1>6, <1>7, <1>8, <1>9 DEF QuietMove

\* Answers come from handlers that ran, and land in their own slot.
LEMMA AnswerStep ==
  ASSUME Inv, [Next]_vars
  PROVE  AnswersWereServed' /\ AnswerIsForRequest'
<1> USE DEF Inv
<1>1. ASSUME NEW r \in Requests,
             QuietMove(r) \/ LocalRequest(r) \/ ReceiveResponse(r)
      PROVE  AnswersWereServed' /\ AnswerIsForRequest'
  <2>1. AnswersWereServed'
    BY <1>1, MoveEffect DEF AnswersWereServed
  <2>2. CASE SetResponse(r) /\ r \in served'
    <3>1. served \subseteq served'
      BY <1>1, MoveEffect
    <3>2. r = <<r[1], r[2]>>
      BY DEF Requests
    <3> SUFFICES ASSUME NEW f \in Futures, NEW t \in Services, resp'[f][t].answer # None
                 PROVE  resp'[f][t].answer = <<f, t>> /\ <<f, t>> \in served'
      BY <2>1 DEF AnswerIsForRequest
    <3>3. CASE resp'[f][t] = resp[f][t]
      BY <3>1, <3>3 DEF AnswerIsForRequest
    <3>4. CASE resp'[f][t] # resp[f][t]
      <4>1. ~Expired(r) /\ <<f, t>> = r
        BY <2>2, <3>4, SetResponseEffect
      <4>2. r[1] = f /\ r[2] = t
        BY <4>1
      <4>3. resp'[f][t] = [answer |-> r, error |-> "none", complete |-> TRUE]
        BY <2>2, <4>1, <4>2, SetResponseEffect
      <4> QED
        BY <2>2, <4>1, <4>3
    <3> QED
      BY <3>3, <3>4
  <2>3. CASE resp' = resp
    BY <1>1, <2>1, <2>3, MoveEffect DEF AnswerIsForRequest
  <2>4. (SetResponse(r) /\ r \in served') \/ resp' = resp
    <3>1. CASE QuietMove(r)
      BY <3>1, MoveEffect DEF futureVars
    <3>2. CASE LocalRequest(r)
      BY <3>2 DEF LocalRequest
    <3>3. CASE ReceiveResponse(r)
      BY <3>3 DEF ReceiveResponse, AnswersWereServed, futureVars
    <3> QED
      BY <1>1, <3>1, <3>2, <3>3
  <2> QED
    BY <2>1, <2>2, <2>3, <2>4
<1>2. ASSUME NEW f \in Futures, NEW ts \in SUBSET Services, Launch(f, ts)
      PROVE  AnswersWereServed' /\ AnswerIsForRequest'
  <2>1. \A g \in Futures, t \in Services :
          resp'[g][t] = resp[g][t] \/ resp'[g][t].answer = None
    BY <1>2 DEF Launch, TypeOK, Blank
  <2>2. \A r \in Requests : req'[r] = req[r] \/ req'[r].stage \in {"task", "local"}
    BY <1>2 DEF Launch, Dispatch
  <2>3. served' = served
    BY <1>2 DEF Launch
  <2> QED
    BY <2>1, <2>2, <2>3 DEF AnswersWereServed, AnswerIsForRequest
<1>3. ASSUME NEW f \in Futures, Drop(f)
      PROVE  AnswersWereServed' /\ AnswerIsForRequest'
  BY <1>3 DEF Drop, TypeOK, Blank, AnswersWereServed, AnswerIsForRequest
<1>4. ASSUME NEW lost, LosePeers(lost), UNCHANGED <<req, served>>
      PROVE  AnswersWereServed' /\ AnswerIsForRequest'
  BY <1>4, LosePeersEffect DEF AnswersWereServed, AnswerIsForRequest
<1>5. ASSUME NEW s \in Sessions, CloseEvent(s)
      PROVE  AnswersWereServed' /\ AnswerIsForRequest'
  BY <1>4, <1>5 DEF CloseEvent
<1>6. ASSUME NEW found \in [Peers -> Records], RefreshServices(found)
      PROVE  AnswersWereServed' /\ AnswerIsForRequest'
  <2>1. \E lost : LosePeers(lost) /\ UNCHANGED <<req, served>>
    BY <1>6 DEF RefreshServices
  <2> QED
    BY <1>4, <2>1
<1>7. CASE UNCHANGED <<req, served, resp>>
  BY <1>7 DEF AnswersWereServed, AnswerIsForRequest
<1>8. ASSUME NEW s \in Sessions, ServerDown(s) \/ ConnectionLost(s)
      PROVE  UNCHANGED <<req, served, resp>>
  BY <1>8 DEF ServerDown, ConnectionLost, futureVars
<1>9. UNCHANGED vars => UNCHANGED <<req, served, resp>>
  BY DEF vars
<1> QED
  BY <1>1, <1>2, <1>3, <1>5, <1>6, <1>7, <1>8, <1>9 DEF Next, QuietMove

\* A fiber is woken by the step that brings in the last response, and only by it.
LEMMA WokenStep ==
  ASSUME Inv, [Next]_vars
  PROVE  WokenWhenAllIn'
<1> USE DEF Inv
<1>1. ASSUME NEW touched, CompleteIfAll(touched), life' = life, targets' = targets,
             \A f \in Futures, t \in Services : resp[f][t].complete => resp'[f][t].complete,
             \A f \in Futures : f \in touched \/ resp'[f] = resp[f]
      PROVE  WokenWhenAllIn'
  <2> SUFFICES ASSUME NEW f \in Futures, life[f] = "live"
               PROVE  done'[f] <=> \A t \in targets[f] : resp'[f][t].complete
    BY <1>1 DEF WokenWhenAllIn
  <2>1. done'[f] <=> done[f] \/ (f \in touched /\ \A t \in targets[f] : resp'[f][t].complete)
    BY <1>1 DEF CompleteIfAll
  <2>2. done[f] <=> \A t \in targets[f] : resp[f][t].complete
    BY DEF WokenWhenAllIn
  <2>3. targets[f] \subseteq Services
    BY DEF TypeOK
  <2>4. CASE f \in touched
    BY <1>1, <2>1, <2>2, <2>3, <2>4
  <2>5. CASE resp'[f] = resp[f]
    BY <1>1, <2>1, <2>2, <2>3, <2>5
  <2> QED
    BY <1>1, <2>4, <2>5
<1>2. ASSUME UNCHANGED futureVars PROVE WokenWhenAllIn'
  BY <1>2 DEF futureVars, WokenWhenAllIn
<1>3. ASSUME NEW r \in Requests, SetResponse(r) PROVE WokenWhenAllIn'
  <2>1. CASE Expired(r)
    BY <1>2, <1>3, <2>1 DEF SetResponse
  <2>2. CASE ~Expired(r)
    <3>1. resp' = [resp EXCEPT ![r[1]][r[2]] = [answer |-> r, error |-> "none", complete |-> TRUE]]
      BY <1>3, <2>2 DEF SetResponse
    <3>2. \A f \in Futures : f \in {r[1]} \/ resp'[f] = resp[f]
      BY <3>1 DEF TypeOK
    <3>3. \A f \in Futures, t \in Services : resp[f][t].complete => resp'[f][t].complete
      BY <3>1 DEF TypeOK
    <3>4. CompleteIfAll({r[1]}) /\ life' = life /\ targets' = targets
      BY <1>3, <2>2 DEF SetResponse
    <3> QED
      BY <1>1, <3>2, <3>3, <3>4
  <2> QED
    BY <2>1, <2>2
<1>4. ASSUME NEW lost, LosePeers(lost) PROVE WokenWhenAllIn'
  <2> DEFINE hit(f, t) == /\ t \in lost \cap targets[f]
                          /\ life[f] = "live"
                          /\ \E b \in DOMAIN conn[t].waiting : conn[t].waiting[b][1] = f
             touched == {f \in Futures : \E t \in Services : hit(f, t)}
  <2>1. CompleteIfAll(touched)
    BY <1>4 DEF LosePeers
  <2>2. resp' = [f \in Futures |-> [t \in Services |->
                   IF hit(f, t) THEN [resp[f][t] EXCEPT !.error = "lost", !.complete = TRUE]
                                ELSE resp[f][t]]]
    BY <1>4 DEF LosePeers
  <2> HIDE DEF hit
  <2>3. \A f \in Futures : f \in touched \/ resp'[f] = resp[f]
    <3> SUFFICES ASSUME NEW f \in Futures, f \notin touched PROVE resp'[f] = resp[f]
      OBVIOUS
    <3>1. resp'[f] = [t \in Services |-> resp[f][t]]
      BY <2>2
    <3> QED
      BY <3>1 DEF TypeOK
  <2>4. \A f \in Futures, t \in Services : resp[f][t].complete => resp'[f][t].complete
    BY <1>4, LosePeersEffect
  <2>5. life' = life /\ targets' = targets
    BY <1>4 DEF LosePeers
  <2> HIDE DEF touched
  <2> QED
    BY <1>1, <2>1, <2>3, <2>4, <2>5
<1>5. ASSUME NEW f \in Futures, NEW ts \in SUBSET Services, Launch(f, ts) PROVE WokenWhenAllIn'
  <2>1. /\ life' = [life EXCEPT ![f] = "live"]
        /\ targets' = [targets EXCEPT ![f] = ts]
        /\ resp' = [resp EXCEPT ![f] = [t \in Services |->
             IF t \in ts \ (Sent(ts) \cup {Self})
               THEN [answer |-> None, error |-> Refusal(ts, t), complete |-> TRUE]
               ELSE Blank]]
        /\ done' = [done EXCEPT ![f] = (Sent(ts) = {} /\ Self \notin ts)]
    BY <1>5 DEF Launch
  <2>2. Sent(ts) \subseteq ts
    BY DEF Sent, Known
  <2>3. \A t \in ts : resp'[f][t].complete <=> t \notin Sent(ts) \cup {Self}
    BY <2>1 DEF TypeOK, Blank
  <2>4. done'[f] <=> \A t \in targets'[f] : resp'[f][t].complete
    <3>1. done'[f] <=> (Sent(ts) = {} /\ Self \notin ts)
      BY <2>1 DEF TypeOK
    <3>2. targets'[f] = ts
      BY <2>1 DEF TypeOK
    <3> QED
      BY <2>2, <2>3, <3>1, <3>2
  <2>5. ASSUME NEW g \in Futures, g # f
        PROVE  /\ life'[g] = life[g] /\ targets'[g] = targets[g]
               /\ resp'[g] = resp[g] /\ done'[g] = done[g]
    BY <2>1, <2>5 DEF TypeOK
  <2> QED
    BY <2>4, <2>5 DEF WokenWhenAllIn
<1>6. ASSUME NEW f \in Futures, Drop(f) PROVE WokenWhenAllIn'
  <2>1. life'[f] = "gone"
    BY <1>6 DEF Drop, TypeOK
  <2>2. ASSUME NEW g \in Futures, g # f
        PROVE  /\ life'[g] = life[g] /\ targets'[g] = targets[g]
               /\ resp'[g] = resp[g] /\ done'[g] = done[g]
    BY <1>6, <2>2 DEF Drop, TypeOK
  <2> QED
    BY <2>1, <2>2 DEF WokenWhenAllIn
<1>7. ASSUME NEW r \in Requests,
             \/ LocalRequest(r) \/ SendRequest(r) \/ ReceiveRequest(r)
             \/ RemoteRequest(r) \/ SendResponse(r) \/ ReceiveResponse(r)
      PROVE  SetResponse(r) \/ UNCHANGED futureVars
  BY <1>7 DEF LocalRequest, SendRequest, ReceiveRequest, RemoteRequest, SendResponse, ReceiveResponse
<1>8. ASSUME NEW s \in Sessions, ServerDown(s) \/ ConnectionLost(s) \/ CloseEvent(s)
      PROVE  UNCHANGED futureVars \/ \E lost : LosePeers(lost)
  BY <1>8 DEF ServerDown, ConnectionLost, CloseEvent
<1>9. ASSUME NEW found \in [Peers -> Records], RefreshServices(found)
      PROVE  \E lost : LosePeers(lost)
  BY <1>9 DEF RefreshServices
<1>10. UNCHANGED vars => UNCHANGED futureVars
  BY DEF vars, futureVars
<1> QED
  BY <1>2, <1>3, <1>4, <1>5, <1>6, <1>7, <1>8, <1>9, <1>10 DEF Next

\* A response that is missing after a step stays due from somewhere.
LEMMA NoLostStep ==
  ASSUME Inv, [Next]_vars
  PROVE  NoLostFuture'
<1> USE DEF Inv
<1>1. ASSUME NEW f \in Futures, NEW t \in Services, Missing(f, t),
             req'[<<f, t>>].session = req[<<f, t>>].session,
             t = Self => req'[<<f, t>>].stage = req[<<f, t>>].stage,
             t # Self => /\ conn'[t] = conn[t]
                         /\ sess'[conn[t].session].state # "gone" \/ sess'[conn[t].session] = sess[conn[t].session]
      PROVE  Watched(f, t)'
  <2>1. Watched(f, t)
    BY <1>1 DEF NoLostFuture
  <2>2. CASE t = Self
    BY <1>1, <2>1, <2>2 DEF Watched
  <2>3. CASE t # Self
    <3>1. Waiting(<<f, t>>)'
      BY <1>1, <2>1, <2>3 DEF Watched, Waiting
    <3>2. Lock(t)' # None
      BY <1>1, <2>1, <2>3 DEF Watched, Lock
    <3> QED
      BY <1>1, <2>1, <2>3, <3>1, <3>2 DEF Watched
  <2> QED
    BY <2>2, <2>3
<1>2. ASSUME NEW r \in Requests,
             QuietMove(r) \/ LocalRequest(r) \/ ReceiveResponse(r)
      PROVE  NoLostFuture'
  <2> SUFFICES ASSUME NEW f \in Futures, NEW t \in Services, Missing(f, t)' PROVE Watched(f, t)'
    BY DEF NoLostFuture
  <2>1. <<f, t>> \in Requests /\ r[1] \in Futures /\ r[2] \in Services /\ r = <<r[1], r[2]>>
    BY DEF Requests
  <2>2. SetResponse(r) \/ (UNCHANGED futureVars /\ ~LocalRequest(r))
    BY <1>2, MoveEffect DEF LocalRequest, ReceiveResponse
  <2>3. CASE SetResponse(r)
    <3>1. life' = life /\ targets' = targets
      BY <2>3, SetResponseEffect
    <3>2. ~(~Expired(r) /\ <<f, t>> = r)
      <4> SUFFICES ASSUME ~Expired(r), <<f, t>> = r PROVE FALSE
        OBVIOUS
      <4>1. r[1] = f /\ r[2] = t
        OBVIOUS
      <4>2. resp'[f][t] = [answer |-> r, error |-> "none", complete |-> TRUE]
        BY <2>3, <4>1, SetResponseEffect
      <4>3. resp'[f][t].complete
        BY <4>2
      <4> QED
        BY <4>3 DEF Missing
    <3>3. resp'[f][t] = resp[f][t]
      BY <2>3, <3>2, SetResponseEffect
    <3>4. Missing(f, t)
      BY <3>1, <3>3 DEF Missing
    <3>5. <<f, t>> # r
      <4> SUFFICES ASSUME <<f, t>> = r PROVE FALSE
        OBVIOUS
      <4>1. Expired(r) /\ r[1] = f
        BY <3>2
      <4> QED
        BY <3>4, <4>1 DEF Missing, Expired
    <3>6. req'[<<f, t>>] = req[<<f, t>>] /\ UNCHANGED <<conn, sess>>
      BY <1>2, <2>1, <3>5, MoveEffect
    <3> QED
      BY <1>1, <3>4, <3>6
  <2>4. CASE UNCHANGED futureVars /\ ~LocalRequest(r)
    <3>1. Missing(f, t)
      BY <2>4 DEF Missing, futureVars
    <3>2. req'[<<f, t>>].session = req[<<f, t>>].session /\ UNCHANGED <<conn, sess>>
      BY <1>2, <2>1, MoveEffect
    <3>3. t = Self => req'[<<f, t>>].stage = req[<<f, t>>].stage
      <4>1. req[r].stage # "local"
        BY <1>2, <2>4, MoveEffect DEF ReceiveResponse
      <4>2. t = Self => req[<<f, t>>].stage = "local"
        BY <3>1 DEF NoLostFuture, Watched
      <4> QED
        BY <1>2, <2>1, <4>1, <4>2, MoveEffect
    <3> QED
      BY <1>1, <3>1, <3>2, <3>3
  <2> QED
    BY <2>2, <2>3, <2>4
<1>3. ASSUME NEW f \in Futures, NEW ts \in SUBSET Services, Launch(f, ts)
      PROVE  NoLostFuture'
  <2> SUFFICES ASSUME NEW g \in Futures, NEW t \in Services, Missing(g, t)' PROVE Watched(g, t)'
    BY DEF NoLostFuture
  <2>1. PICK new \in [Opening(ts) -> FreshSessions] :
           /\ Dispatch(f, ts, new)
           /\ Sent(ts) \subseteq Peers
           /\ \A p \in Peers : Lock(p) # None =>
                conn'[p].session = conn[p].session /\ sess'[conn[p].session] = sess[conn[p].session]
           /\ \A p \in Opening(ts) :
                /\ conn'[p].session = new[p] /\ new[p] \in Sessions
                /\ sess'[new[p]] = [peer |-> p, state |-> "open", up |-> TRUE]
    BY <1>3, LaunchEffect
  <2>2. <<g, t>> \in Requests
    BY DEF Requests
  <2>3. ASSUME t \in Sent(ts)
        PROVE  /\ conn'[t].waiting = AddWaiter(conn[t].waiting, <<f, t>>)
               /\ conn[t].waiting \in Seq(Requests) /\ <<f, t>> \in Requests
    BY <2>1, <2>3 DEF Dispatch, TypeOK, Connections, Requests
  <2>4. CASE g = f
    <3>1. t \in ts /\ t \in Sent(ts) \cup {Self}
      BY <1>3, <2>4 DEF Missing, Launch, TypeOK
    <3>2. CASE t = Self
      <4>1. t \notin Sent(ts)
        BY <2>1, <3>2, MeshAssumption
      <4> QED
        BY <2>1, <2>2, <2>4, <3>1, <3>2, <4>1 DEF Watched, Dispatch
    <3>3. CASE t # Self
      <4>1. t \in Sent(ts) /\ t \in Peers
        BY <2>1, <3>1, <3>3
      <4>2. Waiting(<<g, t>>)'
        <5> DEFINE w == AddWaiter(conn[t].waiting, <<f, t>>)
        <5>1. conn'[t].waiting = w
          BY <2>3, <4>1
        <5>2. \E b \in DOMAIN w : w[b] = <<f, t>>
          BY <2>3, <4>1, AddWaiterKeeps
        <5> HIDE DEF w
        <5> QED
          BY <2>4, <5>1, <5>2 DEF Waiting
      <4>3. req'[<<g, t>>].session = SessionFor(ts, new, t)
        BY <2>1, <2>2, <2>4, <4>1 DEF Dispatch
      <4>4. conn'[t].session = SessionFor(ts, new, t)
        BY <2>1, <4>1 DEF Dispatch
      <4>5. Lock(t)' # None
        <5>1. CASE t \in Opening(ts)
          <6>1. conn'[t].session = new[t] /\ new[t] \in Sessions
            BY <2>1, <5>1
          <6>2. sess'[new[t]] = [peer |-> t, state |-> "open", up |-> TRUE]
            BY <2>1, <5>1
          <6>3. sess'[new[t]].state = "open"
            BY <6>2
          <6> QED
            BY <6>1, <6>3, MeshAssumption DEF Lock
        <5>2. CASE t \notin Opening(ts)
          <6>1. Lock(t) # None
            BY <4>1, <5>2 DEF Opening
          <6> QED
            BY <2>1, <4>1, <6>1 DEF Lock
        <5> QED
          BY <5>1, <5>2
      <4> QED
        BY <3>3, <4>2, <4>3, <4>4, <4>5 DEF Watched
    <3> QED
      BY <3>2, <3>3
  <2>5. CASE g # f
    <3>1. Missing(g, t)
      BY <1>3, <2>5 DEF Missing, Launch, TypeOK
    <3>2. Watched(g, t)
      BY <3>1 DEF NoLostFuture
    <3>3. req'[<<g, t>>] = req[<<g, t>>]
      BY <2>1, <2>2, <2>5 DEF Dispatch
    <3>4. CASE t = Self
      BY <3>2, <3>3, <3>4 DEF Watched
    <3>5. CASE t # Self
      <4>1. t \in Peers /\ Lock(t) # None
        BY <3>2, <3>5 DEF Watched, Services
      <4>2. conn'[t].session = conn[t].session /\ sess'[conn[t].session] = sess[conn[t].session]
        BY <2>1, <4>1
      <4>3. Lock(t)' # None
        BY <4>1, <4>2 DEF Lock
      <4>4. Waiting(<<g, t>>)'
        <5>1. CASE t \in Sent(ts)
          <6>1. PICK b \in DOMAIN conn[t].waiting : conn[t].waiting[b] = <<g, t>>
            BY <3>2, <3>5 DEF Watched, Waiting
          <6>2. ~Expired(conn[t].waiting[b])
            BY <3>1, <6>1 DEF Expired, Missing
          <6>3. \E c \in DOMAIN AddWaiter(conn[t].waiting, <<f, t>>) :
                  AddWaiter(conn[t].waiting, <<f, t>>)[c] = conn[t].waiting[b]
            BY <2>3, <5>1, <6>2, AddWaiterKeeps
          <6> QED
            BY <2>3, <5>1, <6>1, <6>3 DEF Waiting
        <5>2. CASE t \notin Sent(ts)
          <6>1. conn'[t] = conn[t]
            BY <2>1, <4>1, <5>2 DEF Dispatch
          <6> QED
            BY <3>2, <3>5, <6>1 DEF Watched, Waiting
        <5> QED
          BY <5>1, <5>2
      <4> QED
        BY <3>2, <3>3, <3>5, <4>2, <4>3, <4>4 DEF Watched
    <3> QED
      BY <3>4, <3>5
  <2> QED
    BY <2>4, <2>5
<1>4. ASSUME NEW f \in Futures, Drop(f) PROVE NoLostFuture'
  <2> SUFFICES ASSUME NEW g \in Futures, NEW t \in Services, Missing(g, t)' PROVE Watched(g, t)'
    BY DEF NoLostFuture
  <2>1. g # f
    BY <1>4 DEF Missing, Drop, TypeOK
  <2>2. Missing(g, t)
    BY <1>4, <2>1 DEF Missing, Drop, TypeOK
  <2>3. UNCHANGED <<conn, sess, req>>
    BY <1>4 DEF Drop
  <2> QED
    BY <1>1, <2>2, <2>3
<1>5. ASSUME NEW lost, LosePeers(lost), req' = req,
             \A p \in Peers \ lost :
               conn'[p] = conn[p] /\ (conn[p].session # None => sess'[conn[p].session].state # "gone"),
             lost \cap {Self} = {}
      PROVE  NoLostFuture'
  <2> SUFFICES ASSUME NEW f \in Futures, NEW t \in Services, Missing(f, t)' PROVE Watched(f, t)'
    BY DEF NoLostFuture
  <2>1. Missing(f, t)
    BY <1>5, LosePeersEffect DEF Missing
  <2>2. Watched(f, t)
    BY <2>1 DEF NoLostFuture
  <2>3. t \notin lost
    <3> SUFFICES ASSUME t \in lost PROVE FALSE
      OBVIOUS
    <3>1. Waiting(<<f, t>>)
      BY <1>5, <2>2 DEF Watched
    <3>2. resp'[f][t].complete
      BY <1>5, <2>1, <3>1, LosePeersEffect
    <3> QED
      BY <3>2 DEF Missing
  <2>4. t # Self => conn'[t] = conn[t] /\ sess'[conn[t].session].state # "gone"
    BY <1>5, <2>2, <2>3 DEF Watched, Services, Lock
  <2> QED
    BY <1>1, <1>5, <2>1, <2>4
<1>6. ASSUME NEW s \in Sessions, CloseEvent(s) PROVE NoLostFuture'
  <2>1. sess[s].peer \in Peers
    BY <1>6 DEF CloseEvent, SessionsHavePeers
  <2>2. \A p \in Peers \ {sess[s].peer} : conn'[p] = conn[p]
    BY <1>6 DEF CloseEvent, TypeOK
  <2>3. \A p \in Peers \ {sess[s].peer} : conn[p].session # None => sess'[conn[p].session].state # "gone"
    <3> SUFFICES ASSUME NEW p \in Peers, p # sess[s].peer, conn[p].session # None
                 PROVE  sess'[conn[p].session].state # "gone"
      OBVIOUS
    <3>1. conn[p].session # s /\ sess[conn[p].session].state # "gone"
      BY DEF RecordsFollowSessions
    <3>2. conn[p].session \in Sessions
      BY DEF TypeOK, Connections
    <3>3. sess'[conn[p].session] = sess[conn[p].session]
      BY <1>6, <3>1, <3>2 DEF CloseEvent, TypeOK
    <3> QED
      BY <3>1, <3>3
  <2>4. LosePeers({sess[s].peer}) /\ req' = req
    BY <1>6 DEF CloseEvent
  <2>5. {sess[s].peer} \cap {Self} = {}
    BY <2>1, MeshAssumption
  <2> QED
    BY <1>5, <2>2, <2>3, <2>4, <2>5
<1>7. ASSUME NEW found \in [Peers -> Records], RefreshServices(found) PROVE NoLostFuture'
  <2> DEFINE purged == {p \in Peers : Lock(p) = None \/ found[p] = "absent"}
             shut == {Lock(p) : p \in purged}
  <2>1. /\ sess' = [s \in Sessions |-> IF s \in shut THEN [sess[s] EXCEPT !.state = "closing"]
                                                     ELSE sess[s]]
        /\ conn' = [p \in Peers |-> IF p \in purged THEN NoConn ELSE conn[p]]
        /\ LosePeers(purged) /\ req' = req
    BY <1>7 DEF RefreshServices
  <2>2. \A s \in Sessions : sess'[s].state = IF s \in shut THEN "closing" ELSE sess[s].state
    BY <2>1 DEF TypeOK, SessionRecords
  <2>3. purged \subseteq Peers /\ purged \cap {Self} = {}
    BY MeshAssumption
  <2> HIDE DEF purged, shut
  <2>4. \A p \in Peers \ purged :
          conn'[p] = conn[p] /\ (conn[p].session # None => sess'[conn[p].session].state # "gone")
    <3> SUFFICES ASSUME NEW p \in Peers, p \notin purged
                 PROVE  conn'[p] = conn[p]
                          /\ (conn[p].session # None => sess'[conn[p].session].state # "gone")
      OBVIOUS
    <3>1. conn[p].session # None =>
            conn[p].session \in Sessions /\ sess[conn[p].session].state # "gone"
      <4>1. conn[p] \in Connections
        BY DEF TypeOK
      <4> QED
        BY <4>1 DEF RecordsFollowSessions, Connections
    <3> QED
      BY <2>1, <2>2, <3>1
  <2> QED
    BY <1>5, <2>1, <2>3, <2>4
<1>8. ASSUME NEW s \in Sessions, ServerDown(s) \/ ConnectionLost(s) PROVE NoLostFuture'
  <2> SUFFICES ASSUME NEW f \in Futures, NEW t \in Services, Missing(f, t)' PROVE Watched(f, t)'
    BY DEF NoLostFuture
  <2>1. Missing(f, t) /\ UNCHANGED <<conn, req>>
    BY <1>8 DEF Missing, ServerDown, ConnectionLost, futureVars
  <2>2. ASSUME t # Self
        PROVE  conn[t].session \in Sessions /\ sess[conn[t].session].state # "gone"
    <3>1. t \in Peers /\ conn[t] \in Connections
      BY <2>2 DEF TypeOK, Services
    <3>2. Watched(f, t)
      BY <2>1 DEF NoLostFuture
    <3> QED
      BY <2>2, <3>1, <3>2 DEF Watched, Lock, Connections
  <2>3. \A q \in Sessions : sess[q].state # "gone" => sess'[q].state # "gone"
    <3>1. sess[s] \in SessionRecords
      BY DEF TypeOK
    <3>2. /\ [sess[s] EXCEPT !.up = FALSE].state = sess[s].state
          /\ [sess[s] EXCEPT !.state = "closing"].state = "closing"
      BY <3>1 DEF SessionRecords
    <3> QED
      BY <1>8, <3>2 DEF ServerDown, ConnectionLost, TypeOK
  <2> QED
    BY <1>1, <2>1, <2>2, <2>3
<1>9. CASE UNCHANGED vars
  BY <1>9 DEF vars, NoLostFuture, Missing, Watched, Waiting, Lock
<1> QED
  BY <1>2, <1>3, <1>4, <1>6, <1>7, <1>8, <1>9 DEF Next, QuietMove

\* The invariant is inductive.
THEOREM Invariance == Spec => []Inv
<1>1. Init => Inv
  BY TypeInit, MeshAssumption
     DEF Init, Inv, RecordsFollowSessions, SessionsHavePeers, AnswersWereServed, NoLostFuture,
         WokenWhenAllIn, AnswerIsForRequest, Missing, NoConn, NoReq, Blank
<1>2. Inv /\ [Next]_vars => Inv'
  BY TypeStep, SessionStep, AnswerStep, NoLostStep, WokenStep DEF Inv
<1> QED
  BY <1>1, <1>2, PTL DEF Spec

\* No waiting fiber is forgotten, whatever the number of peers, futures and
\* sessions and in whatever order launches, answers, close events and purges come.
THEOREM NoFutureIsLost == Spec => []NoLostFuture
<1>1. Inv => NoLostFuture
  BY DEF Inv
<1> QED
  BY <1>1, Invariance, PTL

\* A fiber is woken exactly when the last response is in.
THEOREM WokenExactly == Spec => []WokenWhenAllIn
<1>1. Inv => WokenWhenAllIn
  BY DEF Inv
<1> QED
  BY <1>1, Invariance, PTL

\* An answer is in the slot of the request it answers, and its handler ran.
THEOREM AnswersMatch == Spec => []AnswerIsForRequest
<1>1. Inv => AnswerIsForRequest
  BY DEF Inv
<1> QED
  BY <1>1, Invariance, PTL

\* No response of a future that its caller holds is taken back, and no future is put
\* to sleep again.
LEMMA NothingTakenBack ==
  ASSUME Inv, [Next]_vars, NEW f \in Futures, NEW t \in Services, life[f] = "live", life'[f] = "live"
  PROVE  /\ resp[f][t].answer # None => resp'[f][t].answer = resp[f][t].answer
         /\ resp[f][t].complete => resp'[f][t].complete
         /\ done[f] => done'[f]
<1> USE DEF Inv
<1> DEFINE Goal == /\ resp[f][t].answer # None => resp'[f][t].answer = resp[f][t].answer
                   /\ resp[f][t].complete => resp'[f][t].complete
                   /\ done[f] => done'[f]
<1> HIDE DEF Goal
<1>1. ASSUME NEW r \in Requests, SetResponse(r) PROVE Goal
  <2>1. CASE Expired(r)
    BY <1>1, <2>1 DEF SetResponse, futureVars, Goal
  <2>2. CASE ~Expired(r)
    <3>1. done[f] => done'[f]
      BY <1>1, <2>2 DEF SetResponse, CompleteIfAll
    <3>2. CASE <<f, t>> = r
      <4>1. r[1] = f /\ r[2] = t
        BY <3>2
      <4>2. resp'[f][t] = [answer |-> r, error |-> "none", complete |-> TRUE]
        BY <1>1, <2>2, <4>1, SetResponseEffect
      <4>3. resp[f][t].answer # None => resp[f][t].answer = r
        BY <3>2 DEF AnswerIsForRequest
      <4> QED
        BY <3>1, <4>2, <4>3 DEF Goal
    <3>3. CASE <<f, t>> # r
      BY <1>1, <2>2, <3>1, <3>3, SetResponseEffect DEF Goal
    <3> QED
      BY <3>2, <3>3
  <2> QED
    BY <2>1, <2>2
<1>2. ASSUME NEW lost, LosePeers(lost) PROVE Goal
  <2>1. done[f] => done'[f]
    BY <1>2 DEF LosePeers, CompleteIfAll
  <2> QED
    BY <1>2, <2>1, LosePeersEffect DEF Goal
<1>3. ASSUME UNCHANGED futureVars PROVE Goal
  BY <1>3 DEF futureVars, Goal
<1>4. ASSUME NEW g \in Futures, Drop(g) \/ \E ts \in SUBSET Services : Launch(g, ts) PROVE Goal
  <2>1. g # f
    BY <1>4 DEF Drop, Launch, Unlaunched, TypeOK
  <2>2. resp'[f] = resp[f] /\ done'[f] = done[f]
    BY <1>4, <2>1 DEF Drop, Launch, TypeOK
  <2> QED
    BY <2>2 DEF Goal
<1>5. ASSUME NEW r \in Requests,
             \/ LocalRequest(r) \/ SendRequest(r) \/ ReceiveRequest(r)
             \/ RemoteRequest(r) \/ SendResponse(r) \/ ReceiveResponse(r)
      PROVE  SetResponse(r) \/ UNCHANGED futureVars
  BY <1>5 DEF LocalRequest, SendRequest, ReceiveRequest, RemoteRequest, SendResponse, ReceiveResponse
<1>6. ASSUME NEW s \in Sessions, ServerDown(s) \/ ConnectionLost(s) \/ CloseEvent(s)
      PROVE  UNCHANGED futureVars \/ \E lost : LosePeers(lost)
  BY <1>6 DEF ServerDown, ConnectionLost, CloseEvent
<1>7. ASSUME NEW found \in [Peers -> Records], RefreshServices(found)
      PROVE  \E lost : LosePeers(lost)
  BY <1>7 DEF RefreshServices
<1>8. UNCHANGED vars => UNCHANGED futureVars
  BY DEF vars, futureVars
<1>9. Goal
  BY <1>1, <1>2, <1>3, <1>4, <1>5, <1>6, <1>7, <1>8 DEF Next
<1> QED
  BY <1>9 DEF Goal

\* What was received is never taken back.
THEOREM AnswersAreKept == Spec => AnswersStay
<1>1. Inv /\ [Next]_vars =>
        [\A f \in Futures, t \in Services : life[f] = "live" /\ life'[f] = "live" =>
           /\ resp[f][t].answer # None => resp'[f][t].answer = resp[f][t].answer
           /\ resp[f][t].complete => resp'[f][t].complete
           /\ done[f] => done'[f]]_vars
  BY NothingTakenBack
<1> QED
  BY <1>1, Invariance, PTL DEF Spec, AnswersStay

\* Only a peer with someone on its list has anything to lose.
LEMMA LossEffect ==
  ASSUME TypeOK, NEW lost, LosePeers(lost), NEW f \in Futures, NEW t \in Services,
         resp'[f][t].error = "lost"
  PROVE  resp[f][t].error = "lost" \/ (t \in lost /\ conn[t].waiting # <<>>)
<1> DEFINE hit == /\ t \in lost \cap targets[f]
                  /\ life[f] = "live"
                  /\ \E b \in DOMAIN conn[t].waiting : conn[t].waiting[b][1] = f
<1>1. ~hit => resp'[f][t] = resp[f][t]
  BY DEF LosePeers
<1>2. CASE hit
  BY <1>2
<1>3. CASE ~hit
  <2>1. resp'[f][t] = resp[f][t]
    BY <1>1, <1>3
  <2> QED
    BY <2>1
<1> QED
  BY <1>2, <1>3

\* Sessions to a peer stay sessions to it, and once over stay over.
LEMMA SessionsEnd ==
  ASSUME Inv, [Next]_vars, NEW s \in Sessions, sess[s].state \in {"closing", "gone"}
  PROVE  sess'[s].peer = sess[s].peer /\ sess'[s].state \in {"closing", "gone"}
<1> USE DEF Inv
<1>0. sess[s] \in SessionRecords
  BY DEF TypeOK
<1>1. ASSUME NEW f \in Futures, NEW ts \in SUBSET Services, Launch(f, ts)
      PROVE  sess'[s] = sess[s]
  BY <1>1, LaunchEffect
<1>2. /\ [sess[s] EXCEPT !.state = "closing"].peer = sess[s].peer
      /\ [sess[s] EXCEPT !.state = "closing"].state = "closing"
      /\ [sess[s] EXCEPT !.state = "gone", !.up = FALSE].peer = sess[s].peer
      /\ [sess[s] EXCEPT !.state = "gone", !.up = FALSE].state = "gone"
      /\ [sess[s] EXCEPT !.up = FALSE].peer = sess[s].peer
      /\ [sess[s] EXCEPT !.up = FALSE].state = sess[s].state
  BY <1>0 DEF SessionRecords
<1>3. ASSUME NEW q \in Sessions, ServerDown(q) \/ ConnectionLost(q) \/ CloseEvent(q)
      PROVE  sess'[s] \in {sess[s], [sess[s] EXCEPT !.up = FALSE],
                           [sess[s] EXCEPT !.state = "closing"],
                           [sess[s] EXCEPT !.state = "gone", !.up = FALSE]}
  <2>1. s = q \/ sess'[s] = sess[s]
    BY <1>3 DEF ServerDown, ConnectionLost, CloseEvent, TypeOK
  <2>2. CASE ServerDown(q)
    BY <2>1, <2>2 DEF ServerDown, TypeOK
  <2>3. CASE ConnectionLost(q)
    BY <2>1, <2>3 DEF ConnectionLost, TypeOK
  <2>4. CASE CloseEvent(q)
    BY <2>1, <2>4 DEF CloseEvent, TypeOK
  <2> QED
    BY <1>3, <2>2, <2>3, <2>4
<1>4. ASSUME NEW found \in [Peers -> Records], RefreshServices(found)
      PROVE  sess'[s] \in {sess[s], [sess[s] EXCEPT !.state = "closing"]}
  BY <1>4 DEF RefreshServices
<1>5. ASSUME NEW r \in Requests,
             \/ LocalRequest(r) \/ SendRequest(r) \/ ReceiveRequest(r)
             \/ RemoteRequest(r) \/ SendResponse(r) \/ ReceiveResponse(r)
      PROVE  UNCHANGED sess
  BY <1>5 DEF LocalRequest, SendRequest, ReceiveRequest, RemoteRequest, SendResponse, ReceiveResponse
<1>6. ASSUME NEW f \in Futures, Drop(f) PROVE UNCHANGED sess
  BY <1>6 DEF Drop
<1>7. UNCHANGED vars => UNCHANGED sess
  BY DEF vars
<1> QED
  BY <1>1, <1>2, <1>3, <1>4, <1>5, <1>6, <1>7 DEF Next

\* The list of a peer grows only as its record gets a session, and is emptied when
\* the record loses it.
LEMMA ListsStep ==
  ASSUME Inv, ListsHaveSessions, [Next]_vars
  PROVE  ListsHaveSessions'
<1> USE DEF Inv
<1>1. ASSUME NEW f \in Futures, NEW ts \in SUBSET Services, Launch(f, ts)
      PROVE  ListsHaveSessions'
  <2> SUFFICES ASSUME NEW p \in Peers, conn'[p].waiting # <<>> PROVE conn'[p].session # None
    BY DEF ListsHaveSessions
  <2>1. PICK new \in [Opening(ts) -> FreshSessions] :
          /\ Dispatch(f, ts, new)
          /\ \A q \in Opening(ts) : /\ conn'[q].session = new[q] /\ new[q] \in Sessions
                                    /\ sess'[new[q]] = [peer |-> q, state |-> "open", up |-> TRUE]
          /\ \A q \in Peers \ Opening(ts) : conn'[q].session = conn[q].session
    BY <1>1, LaunchEffect
  <2>2. CASE p \in Opening(ts)
    BY <2>1, <2>2
  <2>3. CASE p \in Sent(ts) \ Opening(ts)
    BY <2>1, <2>3 DEF Opening, Lock
  <2>4. CASE p \notin Sent(ts)
    <3>1. conn'[p] = conn[p]
      BY <2>1, <2>4 DEF Dispatch
    <3> QED
      BY <3>1 DEF ListsHaveSessions
  <2> QED
    BY <2>2, <2>3, <2>4
<1>2. ASSUME NEW s \in Sessions, CloseEvent(s) PROVE ListsHaveSessions'
  BY <1>2 DEF CloseEvent, ListsHaveSessions, NoConn, TypeOK
<1>3. ASSUME NEW found \in [Peers -> Records], RefreshServices(found) PROVE ListsHaveSessions'
  BY <1>3 DEF RefreshServices, ListsHaveSessions, NoConn, TypeOK
<1>4. ASSUME UNCHANGED conn PROVE ListsHaveSessions'
  BY <1>4 DEF ListsHaveSessions
<1>5. ASSUME NEW r \in Requests,
             \/ LocalRequest(r) \/ SendRequest(r) \/ ReceiveRequest(r)
             \/ RemoteRequest(r) \/ SendResponse(r) \/ ReceiveResponse(r)
      PROVE  UNCHANGED conn
  BY <1>5 DEF LocalRequest, SendRequest, ReceiveRequest, RemoteRequest, SendResponse, ReceiveResponse
<1>6. ASSUME NEW f \in Futures, Drop(f) PROVE UNCHANGED conn
  BY <1>6 DEF Drop
<1>7. ASSUME NEW s \in Sessions, ServerDown(s) \/ ConnectionLost(s) PROVE UNCHANGED conn
  BY <1>7 DEF ServerDown, ConnectionLost
<1>8. UNCHANGED vars => UNCHANGED conn
  BY DEF vars
<1> QED
  BY <1>1, <1>2, <1>3, <1>4, <1>5, <1>6, <1>7, <1>8 DEF Next

\* A response is only failed as lost in the step that ends a session to its peer.
LEMMA LossStep ==
  ASSUME Inv, ListsHaveSessions, LossHasCause, [Next]_vars
  PROVE  LossHasCause'
<1> USE DEF Inv
<1> SUFFICES ASSUME NEW f \in Futures, NEW p \in Peers, resp'[f][p].error = "lost"
             PROVE  \E s \in Sessions : sess'[s].peer = p /\ sess'[s].state \in {"closing", "gone"}
  BY DEF LossHasCause
<1> DEFINE Goal == \E s \in Sessions : sess'[s].peer = p /\ sess'[s].state \in {"closing", "gone"}
<1> HIDE DEF Goal
<1>0. p \in Services
  BY DEF Services
<1>1. ASSUME resp[f][p].error = "lost" PROVE Goal
  <2>1. PICK s \in Sessions : sess[s].peer = p /\ sess[s].state \in {"closing", "gone"}
    BY <1>1 DEF LossHasCause
  <2> QED
    BY <2>1, SessionsEnd DEF Goal
<1>2. ASSUME NEW s \in Sessions, CloseEvent(s) PROVE Goal
  <2>1. LosePeers({sess[s].peer}) /\ sess' = [sess EXCEPT ![s] = [@ EXCEPT !.state = "gone", !.up = FALSE]]
    BY <1>2 DEF CloseEvent
  <2>2. CASE sess[s].peer = p
    <3>1. sess'[s].peer = sess[s].peer /\ sess'[s].state = "gone"
      BY <2>1 DEF TypeOK, SessionRecords
    <3> QED
      BY <2>2, <3>1 DEF Goal
  <2>3. CASE sess[s].peer # p
    <3>1. resp[f][p].error = "lost"
      BY <1>0, <2>1, <2>3, LossEffect
    <3> QED
      BY <1>1, <3>1
  <2> QED
    BY <2>2, <2>3
<1>3. ASSUME NEW found \in [Peers -> Records], RefreshServices(found) PROVE Goal
  <2> DEFINE purged == {q \in Peers : Lock(q) = None \/ found[q] = "absent"}
  <2>1. /\ LosePeers(purged)
        /\ sess' = [s \in Sessions |-> IF s \in {Lock(q) : q \in purged}
                                         THEN [sess[s] EXCEPT !.state = "closing"] ELSE sess[s]]
    BY <1>3 DEF RefreshServices
  <2>2. CASE p \in purged /\ conn[p].waiting # <<>>
    <3>1. conn[p].session # None
      BY <2>2 DEF ListsHaveSessions
    <3>2. /\ conn[p].session \in Sessions /\ sess[conn[p].session].peer = p
          /\ Lock(p) = conn[p].session
      <4>1. conn[p].session \in Sessions
        BY <3>1 DEF TypeOK, Connections
      <4>2. sess[conn[p].session].peer = p /\ sess[conn[p].session].state # "gone"
        BY <3>1 DEF RecordsFollowSessions
      <4> QED
        BY <3>1, <4>1, <4>2 DEF Lock
    <3>3. sess'[conn[p].session] = [sess[conn[p].session] EXCEPT !.state = "closing"]
      BY <2>1, <2>2, <3>2
    <3>4. /\ sess'[conn[p].session].peer = p /\ sess'[conn[p].session].state = "closing"
      BY <3>2, <3>3 DEF TypeOK, SessionRecords
    <3> QED
      BY <3>2, <3>4 DEF Goal
  <2>3. CASE ~(p \in purged /\ conn[p].waiting # <<>>)
    <3> HIDE DEF purged
    <3>1. resp[f][p].error = "lost"
      BY <1>0, <2>1, <2>3, LossEffect
    <3> QED
      BY <1>1, <3>1
  <2> QED
    BY <2>2, <2>3
<1>4. ASSUME NEW r \in Requests, SetResponse(r) PROVE Goal
  <2>1. r[1] \in Futures /\ r[2] \in Services
    BY DEF Requests
  <2>2. \/ resp'[f][p] = resp[f][p]
        \/ resp'[f][p] = [answer |-> r, error |-> "none", complete |-> TRUE]
    <3>1. CASE Expired(r)
      BY <1>4, <3>1, SetResponseEffect
    <3>2. CASE ~Expired(r) /\ <<f, p>> = r
      <4>1. r[1] = f /\ r[2] = p
        BY <3>2
      <4> QED
        BY <1>4, <3>2, <4>1, SetResponseEffect
    <3>3. CASE ~Expired(r) /\ <<f, p>> # r
      BY <1>0, <1>4, <3>3, SetResponseEffect
    <3> QED
      BY <3>1, <3>2, <3>3
  <2>3. resp[f][p].error = "lost"
    BY <2>2
  <2> QED
    BY <1>1, <2>3
<1>5. ASSUME NEW g \in Futures, Drop(g) \/ \E ts \in SUBSET Services : Launch(g, ts) PROVE Goal
  <2>1. resp'[f][p] = resp[f][p] \/ resp'[f][p].error # "lost"
    <3>1. ASSUME Drop(g)
          PROVE  resp'[f][p] = resp[f][p] \/ resp'[f][p].error # "lost"
      BY <1>0, <3>1 DEF Drop, TypeOK, Blank
    <3>2. ASSUME NEW ts \in SUBSET Services, Launch(g, ts)
          PROVE  resp'[f][p] = resp[f][p] \/ resp'[f][p].error # "lost"
      <4>1. \A t \in Services : Refusal(ts, t) # "lost"
        BY DEF Refusal
      <4> QED
        BY <1>0, <3>2, <4>1 DEF Launch, TypeOK, Blank
    <3> QED
      BY <1>5, <3>1, <3>2
  <2> QED
    BY <1>1, <2>1
<1>6. ASSUME NEW r \in Requests,
             \/ LocalRequest(r) \/ SendRequest(r) \/ ReceiveRequest(r)
             \/ RemoteRequest(r) \/ SendResponse(r) \/ ReceiveResponse(r)
      PROVE  SetResponse(r) \/ UNCHANGED resp
  BY <1>6 DEF LocalRequest, SendRequest, ReceiveRequest, RemoteRequest, SendResponse, ReceiveResponse,
              futureVars
<1>7. ASSUME NEW s \in Sessions, ServerDown(s) \/ ConnectionLost(s) PROVE UNCHANGED resp
  BY <1>7 DEF ServerDown, ConnectionLost, futureVars
<1>8. UNCHANGED vars => UNCHANGED resp
  BY DEF vars
<1>9. Goal
  BY <1>1, <1>2, <1>3, <1>4, <1>5, <1>6, <1>7, <1>8 DEF Next
<1> QED
  BY <1>9 DEF Goal

\* "Connection lost" is never invented: a session to that service is over.
THEOREM LossIsReal == Spec => []LossHasCause
<1>1. Init => ListsHaveSessions /\ LossHasCause
  BY DEF Init, ListsHaveSessions, LossHasCause, NoConn, Blank, Services
<1>2. Inv /\ (ListsHaveSessions /\ LossHasCause) /\ [Next]_vars => (ListsHaveSessions /\ LossHasCause)'
  BY ListsStep, LossStep
<1> QED
  BY <1>1, <1>2, Invariance, PTL DEF Spec
=============================================================================
