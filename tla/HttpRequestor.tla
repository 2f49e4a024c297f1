----------------------------- MODULE HttpRequestor -----------------------------
(***************************************************************************)
(* HTTP requests of a k32 process (common/static/http_requestor.cpp).      *)
(* Requests to one host go over one connection, one after another without  *)
(* waiting; an answer does not name its request, but is given to the first *)
(* future in the queue of the host.  Events of a session come in order.    *)
(***************************************************************************)
EXTENDS Naturals, Sequences

CONSTANTS
  Hosts,     \* host:port
  SchemesOf, \* hosts: what requests are made with, http or https or both
  Futures,   \* HTTP_Future objects (a bound), numbered as they are enqueued
  Sessions,  \* client sessions (a bound), numbered as they are opened
  Zero,      \* a status of zero: no answer
  None       \* the null pointer

ASSUME HttpAssumption ==
  /\ Futures \subseteq Nat /\ Sessions \subseteq Nat
  /\ \A h \in Hosts : SchemesOf[h] \subseteq {"http", "https"}
  /\ None \notin Hosts \cup Futures \cup Sessions
  /\ Zero \notin Futures \cup {None}

Schemes == {"http", "https"}

VARIABLES
  conn,   \* connections_by_host: a weak session for each scheme, and request_queue
  sess,   \* sessions: their host, and open, closing (the close event is due) or gone
  wire,   \* sessions: requests sent that the server has not answered
  inbox,  \* sessions: responses that have come, whose events are not handled
  life,   \* futures: not there, held by the caller, destroyed
  resp,   \* futures: the request whose answer it has, or zero
  via     \* history, futures: the session the request was sent on

vars == <<conn, sess, wire, inbox, life, resp, via>>

NoEntry == [session |-> [c \in Schemes |-> None], queue |-> <<>>]
Unopened == [host |-> None, state |-> "fresh"]
Messages == [of : Futures, final : BOOLEAN]
Entries == [session : [Schemes -> Sessions \cup {None}], queue : Seq(Futures)]
Opened == [host : Hosts, state : {"open", "closing", "gone"}]

Init ==
  /\ conn = [h \in Hosts |-> NoEntry]
  /\ sess = [s \in Sessions |-> Unopened]
  /\ wire = [s \in Sessions |-> <<>>]
  /\ inbox = [s \in Sessions |-> <<>>]
  /\ life = [f \in Futures |-> "idle"]
  /\ resp = [f \in Futures |-> None]
  /\ via = [f \in Futures |-> None]

Lowest(S, x) == x \in S /\ \A y \in S : x <= y
Fresh == {s \in Sessions : sess[s].state = "fresh"}

\* weak_session.lock(): a session lives until its close event has been handled.
Lock(h, c) ==
  LET s == conn[h].session[c]
  IN  IF s # None /\ sess[s].state # "gone" THEN s ELSE None
-----------------------------------------------------------------------------
\* The request is queued and sent on s.  If s has been shut down it goes nowhere.
Send(f, h, c, s) ==
  /\ conn' = [conn EXCEPT ![h].session[c] = s, ![h].queue = Append(@, f)]
  /\ wire' = [wire EXCEPT ![s] = Append(@, f)]
  /\ via' = [via EXCEPT ![f] = s]
  /\ life' = [life EXCEPT ![f] = "live"]
  /\ UNCHANGED <<inbox, resp>>

\* Fault: a new session does not learn its host.
EnqueueWeakNowhere(f, h, c) ==
  /\ Lowest({g \in Futures : life[g] = "idle"}, f)
  /\ c \in SchemesOf[h]
  /\ \/ Lock(h, c) # None /\ Send(f, h, c, Lock(h, c)) /\ UNCHANGED sess
     \/ /\ Lock(h, c) = None
        /\ \E s \in Fresh :
             /\ Lowest(Fresh, s)
             /\ sess' = [sess EXCEPT ![s].state = "open"]
             /\ Send(f, h, c, s)

\* enqueue_weak: on the session of the host and scheme, or a new one.
EnqueueWeak(f, h, c) ==
  /\ Lowest({g \in Futures : life[g] = "idle"}, f)
  /\ c \in SchemesOf[h]
  /\ \/ Lock(h, c) # None /\ Send(f, h, c, Lock(h, c)) /\ UNCHANGED sess
     \/ /\ Lock(h, c) = None
        /\ \E s \in Fresh :
             /\ Lowest(Fresh, s)
             /\ sess' = [sess EXCEPT ![s] = [host |-> h, state |-> "open"]]
             /\ Send(f, h, c, s)

\* The caller stops waiting; the queue still has its weak pointer.
Drop(f) ==
  /\ life[f] = "live"
  /\ life' = [life EXCEPT ![f] = "dead"]
  /\ UNCHANGED <<conn, sess, wire, inbox, resp, via>>
-----------------------------------------------------------------------------
\* The server answers in order, and may say 1xx before that (once, a bound).
Interim(s) ==
  /\ sess[s].state = "open" /\ wire[s] # <<>>
  /\ \A i \in DOMAIN inbox[s] : inbox[s][i].of # Head(wire[s])
  /\ inbox' = [inbox EXCEPT ![s] = Append(@, [of |-> Head(wire[s]), final |-> FALSE])]
  /\ UNCHANGED <<conn, sess, wire, life, resp, via>>

Answer(s) ==
  /\ sess[s].state = "open" /\ wire[s] # <<>>
  /\ inbox' = [inbox EXCEPT ![s] = Append(@, [of |-> Head(wire[s]), final |-> TRUE])]
  /\ wire' = [wire EXCEPT ![s] = Tail(@)]
  /\ UNCHANGED <<conn, sess, life, resp, via>>

\* The connection fails, or is closed by either side.
Down(s) ==
  /\ sess[s].state = "open"
  /\ sess' = [sess EXCEPT ![s].state = "closing"]
  /\ UNCHANGED <<conn, wire, inbox, life, resp, via>>
-----------------------------------------------------------------------------
\* Events.

\* Fault: a future that is not alive is skipped, and its answer given to the next.
PopFrontAlive(h, x) ==
  LET queue == conn[h].queue
      alive == {i \in DOMAIN queue : life[queue[i]] = "live"}
      n == IF alive = {} THEN Len(queue) ELSE CHOOSE i \in alive : Lowest(alive, i)
  IN  /\ conn' = [conn EXCEPT ![h].queue = SubSeq(@, n + 1, Len(@))]
      /\ resp' = IF alive = {} THEN resp ELSE [resp EXCEPT ![queue[n]] = x]

\* The first of the queue is popped; if that future is alive it gets x.
PopFront(h, x) ==
  LET f == Head(conn[h].queue)
  IN  /\ conn' = [conn EXCEPT ![h].queue = Tail(@)]
      /\ resp' = [resp EXCEPT ![f] = IF life[f] = "live" THEN x ELSE @]

\* Fault: every message is taken for the answer.
SetAnyResponse(h, msg) ==
  IF conn[h].queue = <<>> THEN UNCHANGED <<conn, resp>> ELSE PopFront(h, msg.of)

\* Fault: an interim response is taken for a failure.
SetZeroIfInterim(h, msg) ==
  IF conn[h].queue = <<>> THEN UNCHANGED <<conn, resp>>
                          ELSE PopFront(h, IF msg.final THEN msg.of ELSE Zero)

\* Fault: the future stays in the queue.
SetAndKeep(h, msg) ==
  LET f == Head(conn[h].queue)
  IN  /\ resp' = IF ~msg.final \/ conn[h].queue = <<>> \/ life[f] # "live" THEN resp
                 ELSE [resp EXCEPT ![f] = msg.of]
      /\ UNCHANGED conn

\* do_set_single_response
SetSingleResponse(h, msg) ==
  IF ~msg.final \/ conn[h].queue = <<>> THEN UNCHANGED <<conn, resp>> ELSE PopFront(h, msg.of)

MessageEvent(s) ==
  /\ inbox[s] # <<>>
  /\ SetSingleResponse(sess[s].host, Head(inbox[s]))
  /\ inbox' = [inbox EXCEPT ![s] = Tail(@)]
  /\ UNCHANGED <<sess, wire, life, via>>

\* Fault: it ends at the first future that is not alive.
RemoveUntilExpired(h) ==
  LET queue == conn[h].queue
      left == {queue[i] : i \in {k \in DOMAIN queue : \A j \in 1..k : life[queue[j]] = "live"}}
  IN  /\ conn' = [conn EXCEPT ![h] = NoEntry]
      /\ resp' = [f \in Futures |-> IF f \in left THEN Zero ELSE resp[f]]

\* do_remove_connection: the rest of the queue is answered with a status of zero.
RemoveConnection(h) ==
  LET queue == conn[h].queue
      left == {queue[i] : i \in DOMAIN queue}
  IN  /\ conn' = [conn EXCEPT ![h] = NoEntry]
      /\ resp' = [f \in Futures |-> IF f \in left /\ life[f] = "live" THEN Zero ELSE resp[f]]

\* The last event of a session.
CloseEvent(s) ==
  /\ sess[s].state = "closing" /\ inbox[s] = <<>>
  /\ RemoveConnection(sess[s].host)
  /\ sess' = [sess EXCEPT ![s].state = "gone"]
  /\ wire' = [wire EXCEPT ![s] = <<>>]
  /\ UNCHANGED <<inbox, life, via>>
-----------------------------------------------------------------------------
Next ==
  \/ \E f \in Futures : Drop(f) \/ \E h \in Hosts, c \in Schemes : EnqueueWeak(f, h, c)
  \/ \E s \in Sessions : Interim(s) \/ Answer(s) \/ Down(s) \/ MessageEvent(s) \/ CloseEvent(s)

Spec == Init /\ [][Next]_vars

\* Events are handled; a server answers, or the connection is closed in the end.
FairSpec ==
  Spec /\ \A s \in Sessions : WF_vars(MessageEvent(s) \/ CloseEvent(s)) /\ WF_vars(Answer(s) \/ Down(s))
-----------------------------------------------------------------------------
TypeOK ==
  /\ conn \in [Hosts -> Entries]
  /\ sess \in [Sessions -> Opened \cup {Unopened}]
  /\ wire \in [Sessions -> Seq(Futures)]
  /\ inbox \in [Sessions -> Seq(Messages)]
  /\ life \in [Futures -> {"idle", "live", "dead"}]
  /\ resp \in [Futures -> Futures \cup {None, Zero}]
  /\ via \in [Futures -> Sessions \cup {None}]

\* Requests are numbered as they are made, so those made in order go up.
Ascending(seq) == \A i, j \in DOMAIN seq : i < j => seq[i] < seq[j]
Members(seq) == {seq[i] : i \in DOMAIN seq}

\* What s has still to answer: what has come, and what the server has to send.
Finals(s) == {i \in DOMAIN inbox[s] : inbox[s][i].final}
Outstanding(s) == {inbox[s][i].of : i \in Finals(s)} \cup Members(wire[s])

\* It does so in the order in which the requests were made.
AnswersInOrder(s) ==
  /\ Ascending(wire[s])
  /\ \A i \in Finals(s) :
       /\ \A j \in Finals(s) : i < j => inbox[s][i].of < inbox[s][j].of
       /\ \A r \in Members(wire[s]) : inbox[s][i].of < r

\* The queue of a host and what its session has still to answer are the same, in
\* the same order, destroyed futures included: nothing else ties an answer to its
\* request.
Alive(s) == sess[s].state \in {"open", "closing"}
QueueAligned ==
  \A s \in Sessions : Alive(s) =>
    /\ Ascending(conn[sess[s].host].queue)
    /\ Members(conn[sess[s].host].queue) = Outstanding(s)
    /\ AnswersInOrder(s)

\* A future has the answer to its own request, however many are under way on the
\* connection, whatever the server says before it answers, whichever futures have
\* been destroyed and however often the connection has been replaced.
AnswerIsForRequest == \A f \in Futures : resp[f] \in {None, Zero, f}

\* Zero means that the connection on which the request was sent has been closed,
\* and no answer to it had come.
ZeroIfClosed ==
  \A f \in Futures : resp[f] = Zero =>
    /\ sess[via[f]].state = "gone"
    /\ \A i \in DOMAIN inbox[via[f]] : inbox[via[f]][i].of # f

\* An entry of connections_by_host holds sessions to that host, and all that are
\* alive; it has no queue when there is none.
EntriesHoldSessions ==
  \A h \in Hosts :
    /\ \A c \in Schemes : conn[h].session[c] # None =>
         sess[conn[h].session[c]].host = h /\ c \in SchemesOf[h]
    /\ \A s \in Sessions : Alive(s) /\ sess[s].host = h => \E c \in Schemes : conn[h].session[c] = s
    /\ conn[h].queue # <<>> => \E s \in Sessions : Alive(s) /\ sess[s].host = h

\* A session that is not alive has nothing under way.
NothingOnDeadSessions ==
  \A s \in Sessions : ~Alive(s) => wire[s] = <<>> /\ inbox[s] = <<>>

\* A request that is queued has been sent to that host and has no answer; one that
\* the server has to answer came on that session.
QueuedAreWaiting ==
  /\ \A h \in Hosts : \A f \in Members(conn[h].queue) :
       resp[f] = None /\ via[f] \in Sessions /\ sess[via[f]].host = h
  /\ \A s \in Sessions : \A f \in Members(wire[s]) : via[f] = s

\* Futures are taken in the order of their numbers; an unused one is blank.
UnusedAreLast ==
  \A f \in Futures : life[f] = "idle" =>
    /\ resp[f] = None /\ via[f] = None
    /\ \A g \in Futures : life[g] # "idle" => g < f

\* Who has an answer has sent a request.
AnsweredWereSent == \A f \in Futures : via[f] = None => resp[f] = None

\* The inductive invariant behind the properties above and AnswersStay, of a process
\* that asks each host with one scheme.
SingleScheme == \A h \in Hosts : \A c, d \in SchemesOf[h] : c = d
Inv == /\ TypeOK /\ EntriesHoldSessions /\ NothingOnDeadSessions /\ QueuedAreWaiting
       /\ UnusedAreLast /\ AnsweredWereSent /\ QueueAligned /\ AnswerIsForRequest /\ ZeroIfClosed

\* What is left of it when a host may be asked with both schemes: enough for AnswersStay,
\* while QueueAligned, AnswerIsForRequest and ZeroIfClosed fail.
EntriesOfHost ==
  \A h \in Hosts, c \in Schemes : conn[h].session[c] # None =>
    sess[conn[h].session[c]].host = h /\ sess[conn[h].session[c]].state # "fresh"
QueuesAscend == \A h \in Hosts : Ascending(conn[h].queue)
OrderInv == /\ TypeOK /\ EntriesOfHost /\ NothingOnDeadSessions /\ QueuedAreWaiting
            /\ UnusedAreLast /\ QueuesAscend

\* Who waits is woken: every request gets its answer, or zero.
EveryRequestEnds == \A f \in Futures : life[f] = "live" ~> life[f] = "dead" \/ resp[f] # None

\* An answer that has come is what the caller gets.
AnswersStay == [][\A f \in Futures : resp[f] # None => resp'[f] = resp[f]]_vars
=============================================================================
