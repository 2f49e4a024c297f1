-------------------------- MODULE HttpRequestor_proofs --------------------------
(***************************************************************************)
(* Proofs about HTTP requests, for any number of hosts, connections and    *)
(* requests under way: an answer, which does not name its request, goes to *)
(* the future that waits for it.                                           *)
(***************************************************************************)
EXTENDS HttpRequestor, TLAPS, SequenceTheorems

USE HttpAssumption

\* A later request at the end of a queue.
LEMMA AppendAscends ==
  ASSUME NEW q \in Seq(Futures), NEW f \in Futures,
         Ascending(q), \A g \in Members(q) : g < f
  PROVE  /\ Append(q, f) \in Seq(Futures)
         /\ Ascending(Append(q, f))
         /\ Members(Append(q, f)) = Members(q) \cup {f}
<1>1. /\ Append(q, f) \in Seq(Futures)
      /\ DOMAIN Append(q, f) = 1..(Len(q) + 1) /\ DOMAIN q = 1..Len(q) /\ Len(q) \in Nat
      /\ \A i \in 1..Len(q) : Append(q, f)[i] = q[i]
      /\ Append(q, f)[Len(q) + 1] = f
  BY AppendProperties, LenProperties
<1>2. Ascending(Append(q, f))
  <2> SUFFICES ASSUME NEW i \in 1..(Len(q) + 1), NEW j \in 1..(Len(q) + 1), i < j
               PROVE  Append(q, f)[i] < Append(q, f)[j]
    BY <1>1 DEF Ascending
  <2>1. i \in 1..Len(q) /\ Append(q, f)[i] = q[i] /\ q[i] \in Members(q)
    BY <1>1 DEF Members
  <2> QED
    BY <1>1, <2>1 DEF Ascending
<1>3. Members(Append(q, f)) = Members(q) \cup {f}
  BY <1>1 DEF Members
<1> QED
  BY <1>1, <1>2, <1>3

\* The first of a queue is its earliest request.
LEMMA TailAscends ==
  ASSUME NEW q \in Seq(Futures), q # <<>>, Ascending(q)
  PROVE  /\ Tail(q) \in Seq(Futures) /\ Ascending(Tail(q))
         /\ Head(q) \in Futures /\ Head(q) \in Members(q)
         /\ Members(Tail(q)) = Members(q) \ {Head(q)}
         /\ \A g \in Members(q) \ {Head(q)} : Head(q) < g
<1>1. /\ Head(q) = q[1] /\ Len(q) \in Nat \ {0}
      /\ DOMAIN q = 1..Len(q) /\ \A i \in 1..Len(q) : q[i] \in Futures
      /\ Tail(q) \in Seq(Futures)
      /\ DOMAIN Tail(q) = 1..(Len(q) - 1)
      /\ \A i \in 1..(Len(q) - 1) : Tail(q)[i] = q[i + 1]
  BY HeadTailProperties, LenProperties, EmptySeq
<1>2. Ascending(Tail(q))
  BY <1>1 DEF Ascending
<1>3. \A i \in 2..Len(q) : q[1] < q[i]
  BY <1>1 DEF Ascending
<1>4. \A g : g \in Members(Tail(q)) <=> \E i \in 2..Len(q) : g = q[i]
  <2>1. ASSUME NEW i \in 2..Len(q)
        PROVE  q[i] \in Members(Tail(q))
    <3>1. i - 1 \in 1..(Len(q) - 1) /\ (i - 1) + 1 = i
      BY <1>1
    <3>2. Tail(q)[i - 1] = q[i]
      BY <1>1, <3>1
    <3> QED
      BY <1>1, <3>1, <3>2 DEF Members
  <2>2. ASSUME NEW g \in Members(Tail(q))
        PROVE  \E i \in 2..Len(q) : g = q[i]
    <3>1. PICK k \in 1..(Len(q) - 1) : g = Tail(q)[k]
      BY <1>1 DEF Members
    <3>2. k + 1 \in 2..Len(q) /\ g = q[k + 1]
      BY <1>1, <3>1
    <3> QED
      BY <3>2
  <2> QED
    BY <2>1, <2>2
<1>5. \A g : g \in Members(q) <=> g = q[1] \/ \E i \in 2..Len(q) : g = q[i]
  <2>1. \A i : i \in 1..Len(q) <=> i = 1 \/ i \in 2..Len(q)
    BY <1>1
  <2> QED
    BY <1>1, <2>1 DEF Members
<1>6. Members(Tail(q)) = Members(q) \ {q[1]}
  <2>1. ASSUME NEW i \in 2..Len(q)
        PROVE  q[i] # q[1]
    <3>1. 1 \in 1..Len(q) /\ i \in 1..Len(q)
      BY <1>1
    <3>2. q[1] \in Nat /\ q[i] \in Nat
      BY <1>1, <3>1
    <3>3. q[1] < q[i]
      BY <1>3
    <3> QED
      BY <3>2, <3>3
  <2> QED
    BY <1>4, <1>5, <2>1
<1>7. \A g \in Members(q) \ {q[1]} : q[1] < g
  BY <1>3, <1>5
<1>8. Head(q) \in Futures /\ Head(q) \in Members(q)
  BY <1>1, <1>5
<1> QED
  BY <1>1, <1>2, <1>6, <1>7, <1>8

LEMMA EmptyAscends == Ascending(<<>>) /\ Members(<<>>) = {} /\ <<>> \in Seq(Futures)
BY EmptySeq DEF Ascending, Members

LEMMA MembersAreFutures ==
  ASSUME NEW q \in Seq(Futures)
  PROVE  Members(q) \subseteq Futures /\ (q = <<>> <=> Members(q) = {})
<1>1. DOMAIN q = 1..Len(q) /\ Len(q) \in Nat /\ \A i \in 1..Len(q) : q[i] \in Futures
  BY LenProperties
<1>2. q # <<>> => 1 \in DOMAIN q
  BY <1>1, EmptySeq
<1>3. Members(q) \subseteq Futures
  BY <1>1 DEF Members
<1>4. q # <<>> => q[1] \in Members(q)
  BY <1>2 DEF Members
<1> QED
  BY <1>3, <1>4, EmptyAscends

\* A session that was opened has a host, and may change its state.
LEMMA OpenedSessions ==
  ASSUME TypeOK, NEW s \in Sessions, sess[s].state # "fresh"
  PROVE  /\ sess[s] \in Opened /\ sess[s].host \in Hosts
         /\ sess[s].state \in {"open", "closing", "gone"}
         /\ \A state \in {"open", "closing", "gone"} :
              [sess[s] EXCEPT !.state = state] = [host |-> sess[s].host, state |-> state]
<1>1. sess[s] \in Opened
  BY DEF TypeOK, Unopened
<1> QED
  BY <1>1 DEF Opened

\* The entry of a host that is asked with one scheme holds its one session.
LEMMA OneSessionPerHost ==
  ASSUME SingleScheme, TypeOK, EntriesHoldSessions,
         NEW s \in Sessions, NEW t \in Sessions, Alive(s), Alive(t), sess[s].host = sess[t].host
  PROVE  s = t
<1>1. sess[s].host \in Hosts
  BY OpenedSessions DEF Alive
<1>2. PICK c \in Schemes, d \in Schemes : /\ conn[sess[s].host].session[c] = s
                              /\ conn[sess[s].host].session[d] = t
  BY <1>1 DEF EntriesHoldSessions
<1>3. c \in SchemesOf[sess[s].host] /\ d \in SchemesOf[sess[s].host]
  BY <1>1, <1>2 DEF EntriesHoldSessions
<1> QED
  BY <1>1, <1>2, <1>3 DEF SingleScheme

\* A change of the entry of a host keeps its type.
LEMMA EntryTypes ==
  ASSUME NEW e \in Entries, NEW q \in Seq(Futures), NEW c \in Schemes, NEW s \in Sessions
  PROVE  /\ [e EXCEPT !.queue = q] \in Entries
         /\ [e EXCEPT !.session[c] = s, !.queue = q] \in Entries
         /\ [e EXCEPT !.session[c] = s, !.queue = q].queue = q
         /\ [e EXCEPT !.session[c] = s, !.queue = q].session = [e.session EXCEPT ![c] = s]
         /\ [e EXCEPT !.queue = q].session = e.session /\ [e EXCEPT !.queue = q].queue = q
BY DEF Entries

LEMMA NoEntryType == NoEntry \in Entries
BY EmptySeq DEF NoEntry, Entries

\* What a response does to the entry of its host.
LEMMA PopFrontEffect ==
  ASSUME TypeOK, NEW h \in Hosts, conn[h].queue # <<>>, NEW x \in Futures \cup {Zero}, PopFront(h, x)
  PROVE  /\ Head(conn[h].queue) \in Futures
         /\ conn' \in [Hosts -> Entries] /\ resp' \in [Futures -> Futures \cup {None, Zero}]
         /\ conn'[h].queue = Tail(conn[h].queue) /\ conn'[h].session = conn[h].session
         /\ \A g \in Hosts \ {h} : conn'[g] = conn[g]
         /\ \A f \in Futures : resp'[f] = IF f = Head(conn[h].queue) /\ life[f] = "live" THEN x ELSE resp[f]
<1>1. conn \in [Hosts -> Entries] /\ conn[h] \in Entries /\ conn[h].queue \in Seq(Futures)
  BY DEF TypeOK, Entries
<1>2. Head(conn[h].queue) \in Futures /\ Tail(conn[h].queue) \in Seq(Futures)
  BY <1>1, HeadTailProperties
<1>4. /\ [conn[h] EXCEPT !.queue = Tail(conn[h].queue)] \in Entries
      /\ [conn[h] EXCEPT !.queue = Tail(conn[h].queue)].queue = Tail(conn[h].queue)
      /\ [conn[h] EXCEPT !.queue = Tail(conn[h].queue)].session = conn[h].session
  BY <1>1, <1>2 DEF Entries
<1>5. resp \in [Futures -> Futures \cup {None, Zero}]
  BY DEF TypeOK
<1>6. resp' = [resp EXCEPT ![Head(conn[h].queue)] =
                 IF life[Head(conn[h].queue)] = "live" THEN x ELSE @]
  BY DEF PopFront
<1>7. conn' \in [Hosts -> Entries] /\ conn'[h] = [conn[h] EXCEPT !.queue = Tail(conn[h].queue)]
  BY <1>1, <1>4 DEF PopFront
<1>8. \A g \in Hosts \ {h} : conn'[g] = conn[g]
  BY <1>1 DEF PopFront
<1>9. resp' \in [Futures -> Futures \cup {None, Zero}]
  BY <1>2, <1>5, <1>6
<1>10. \A f \in Futures :
         resp'[f] = IF f = Head(conn[h].queue) /\ life[f] = "live" THEN x ELSE resp[f]
  BY <1>2, <1>5, <1>6
<1> QED
  BY <1>2, <1>4, <1>7, <1>8, <1>9, <1>10

\* What comes from the server.
LEMMA InboxGrows ==
  ASSUME TypeOK, NEW s \in Sessions, wire[s] # <<>>, NEW b \in BOOLEAN
  PROVE  LET msg == [of |-> Head(wire[s]), final |-> b]
         IN  /\ msg \in Messages
             /\ Append(inbox[s], msg) \in Seq(Messages)
             /\ DOMAIN inbox[s] = 1..Len(inbox[s]) /\ Len(inbox[s]) \in Nat
             /\ DOMAIN Append(inbox[s], msg) = 1..(Len(inbox[s]) + 1)
             /\ \A i \in 1..Len(inbox[s]) : Append(inbox[s], msg)[i] = inbox[s][i]
             /\ Append(inbox[s], msg)[Len(inbox[s]) + 1] = msg
<1> DEFINE msg == [of |-> Head(wire[s]), final |-> b]
<1>1. inbox[s] \in Seq(Messages) /\ wire[s] \in Seq(Futures)
  BY DEF TypeOK
<1>2. msg \in Messages
  BY <1>1, HeadTailProperties DEF Messages
<1> HIDE DEF msg
<1>3. /\ Append(inbox[s], msg) \in Seq(Messages)
      /\ DOMAIN inbox[s] = 1..Len(inbox[s]) /\ Len(inbox[s]) \in Nat
      /\ DOMAIN Append(inbox[s], msg) = 1..(Len(inbox[s]) + 1)
      /\ \A i \in 1..Len(inbox[s]) : Append(inbox[s], msg)[i] = inbox[s][i]
      /\ Append(inbox[s], msg)[Len(inbox[s]) + 1] = msg
  BY <1>1, <1>2, AppendProperties, LenProperties
<1> QED
  BY <1>2, <1>3 DEF msg

\* A message is there only if its session has been opened.
LEMMA MessagesComeOnSessions ==
  ASSUME TypeOK, NothingOnDeadSessions, NEW s \in Sessions, inbox[s] # <<>> \/ wire[s] # <<>>
  PROVE  Alive(s) /\ sess[s].host \in Hosts
BY OpenedSessions DEF NothingOnDeadSessions, Alive

\* No step takes a variable out of its type.
LEMMA TypeStep == TypeOK /\ NothingOnDeadSessions /\ [Next]_vars => TypeOK'
<1> SUFFICES ASSUME TypeOK, NothingOnDeadSessions, [Next]_vars PROVE TypeOK'
  OBVIOUS
<1>1. ASSUME NEW f \in Futures, NEW h \in Hosts, NEW c \in Schemes, EnqueueWeak(f, h, c)
      PROVE  TypeOK'
  <2>1. PICK s \in Sessions :
          /\ Send(f, h, c, s)
          /\ UNCHANGED sess \/ sess' = [sess EXCEPT ![s] = [host |-> h, state |-> "open"]]
    <3>1. Lock(h, c) # None => Lock(h, c) \in Sessions
      BY DEF Lock, TypeOK, Entries
    <3> QED
      BY <1>1, <3>1 DEF EnqueueWeak, Fresh
  <2>2. sess' \in [Sessions -> Opened \cup {Unopened}]
    BY <2>1 DEF TypeOK, Opened
  <2>3. Append(conn[h].queue, f) \in Seq(Futures) /\ Append(wire[s], f) \in Seq(Futures)
    BY AppendProperties DEF TypeOK, Entries
  <2>4. wire' \in [Sessions -> Seq(Futures)] /\ via' \in [Futures -> Sessions \cup {None}]
    BY <2>1, <2>3 DEF Send, TypeOK
  <2>5. conn' \in [Hosts -> Entries]
    <3>1. conn \in [Hosts -> Entries]
      BY DEF TypeOK
    <3>2. [conn[h] EXCEPT !.session[c] = s, !.queue = Append(@, f)] \in Entries
      BY <2>3, <3>1, EntryTypes
    <3> QED
      BY <2>1, <3>1, <3>2 DEF Send
  <2> QED
    BY <2>1, <2>2, <2>4, <2>5 DEF Send, TypeOK
<1>2. ASSUME NEW f \in Futures, Drop(f) PROVE TypeOK'
  BY <1>2 DEF Drop, TypeOK
<1>3. ASSUME NEW s \in Sessions, Interim(s) \/ Answer(s) PROVE TypeOK'
  <2>1. wire[s] # <<>>
    BY <1>3 DEF Interim, Answer
  <2>2. /\ Append(inbox[s], [of |-> Head(wire[s]), final |-> TRUE]) \in Seq(Messages)
        /\ Append(inbox[s], [of |-> Head(wire[s]), final |-> FALSE]) \in Seq(Messages)
    BY <2>1, InboxGrows
  <2>3. Tail(wire[s]) \in Seq(Futures)
    BY <2>1, HeadTailProperties DEF TypeOK
  <2>4. inbox' \in [Sessions -> Seq(Messages)] /\ wire' \in [Sessions -> Seq(Futures)]
    <3>1. inbox \in [Sessions -> Seq(Messages)] /\ wire \in [Sessions -> Seq(Futures)]
      BY DEF TypeOK
    <3> QED
      <4>1. CASE Interim(s)
        BY <2>2, <3>1, <4>1 DEF Interim
      <4>2. CASE Answer(s)
        BY <2>2, <2>3, <3>1, <4>2 DEF Answer
      <4> QED
        BY <1>3, <4>1, <4>2
  <2> QED
    BY <1>3, <2>4 DEF Interim, Answer, TypeOK
<1>4. ASSUME NEW s \in Sessions, Down(s) PROVE TypeOK'
  <2>1. [sess[s] EXCEPT !.state = "closing"] \in Opened
    BY <1>4, OpenedSessions DEF Down, Opened
  <2> QED
    BY <1>4, <2>1 DEF Down, TypeOK
<1>5. ASSUME NEW s \in Sessions, MessageEvent(s) PROVE TypeOK'
  <2>1. inbox[s] \in Seq(Messages) /\ inbox[s] # <<>>
    BY <1>5 DEF MessageEvent, TypeOK
  <2>2. Head(inbox[s]) \in Messages /\ Tail(inbox[s]) \in Seq(Messages)
    BY <2>1, HeadTailProperties
  <2>3. sess[s].host \in Hosts
    BY <2>1, MessagesComeOnSessions
  <2>4. conn' \in [Hosts -> Entries] /\ resp' \in [Futures -> Futures \cup {None, Zero}]
    <3>1. CASE UNCHANGED <<conn, resp>>
      BY <3>1 DEF TypeOK
    <3>2. CASE ~UNCHANGED <<conn, resp>>
      <4>1. PopFront(sess[s].host, Head(inbox[s]).of) /\ conn[sess[s].host].queue # <<>>
        BY <1>5, <3>2 DEF MessageEvent, SetSingleResponse
      <4>2. Head(inbox[s]).of \in Futures
        BY <2>2 DEF Messages
      <4> QED
        BY <2>3, <4>1, <4>2, PopFrontEffect
    <3> QED
      BY <3>1, <3>2
  <2>5. inbox' \in [Sessions -> Seq(Messages)] /\ UNCHANGED <<sess, wire, life, via>>
    BY <1>5, <2>2 DEF MessageEvent, TypeOK
  <2> QED
    BY <2>4, <2>5 DEF TypeOK
<1>6. ASSUME NEW s \in Sessions, CloseEvent(s) PROVE TypeOK'
  <2>1. [sess[s] EXCEPT !.state = "gone"] \in Opened
    BY <1>6, OpenedSessions DEF CloseEvent, Opened
  <2>2. sess' \in [Sessions -> Opened \cup {Unopened}] /\ wire' \in [Sessions -> Seq(Futures)]
    BY <1>6, <2>1, EmptySeq DEF CloseEvent, TypeOK
  <2>3. conn' \in [Hosts -> Entries] /\ resp' \in [Futures -> Futures \cup {None, Zero}]
    BY <1>6, NoEntryType DEF CloseEvent, RemoveConnection, TypeOK
  <2> QED
    BY <1>6, <2>2, <2>3 DEF CloseEvent, TypeOK
<1>7. CASE UNCHANGED vars
  BY <1>7 DEF vars, TypeOK
<1> QED
  BY <1>1, <1>2, <1>3, <1>4, <1>5, <1>6, <1>7 DEF Next

\* What a request does: it goes on the one session of its host, which is opened if
\* there is none.
LEMMA EnqueueEffect ==
  ASSUME SingleScheme, Inv, NEW f \in Futures, NEW h \in Hosts, NEW c \in Schemes,
         EnqueueWeak(f, h, c)
  PROVE  \E s \in Sessions :
           /\ sess'[s].host = h /\ sess'[s].state \in {"open", "closing"}
           /\ Alive(s) => sess'[s] = sess[s]
           /\ ~Alive(s) => sess[s].state = "fresh" /\ conn[h].queue = <<>>
           /\ \A t \in Sessions \ {s} : sess'[t] = sess[t] /\ ~(Alive(t) /\ sess[t].host = h)
           /\ Send(f, h, c, s)
<1> USE DEF Inv
<1>1. c \in SchemesOf[h]
  BY DEF EnqueueWeak
<1>2. \A d \in Schemes : conn[h].session[d] # None => d = c
  BY <1>1 DEF EntriesHoldSessions, SingleScheme
<1>3. CASE Lock(h, c) # None
  <2> DEFINE s == Lock(h, c)
  <2>1. s = conn[h].session[c] /\ s # None /\ sess[s].state # "gone"
    BY <1>3 DEF Lock
  <2>2. s \in Sessions /\ sess[s].host = h
    BY <2>1 DEF TypeOK, Entries, EntriesHoldSessions
  <2>3. UNCHANGED sess /\ Send(f, h, c, s)
    BY <1>3 DEF EnqueueWeak
  <2> HIDE DEF s
  <2>4. sess[s].state \in {"open", "closing"}
    BY <2>1, <2>2 DEF TypeOK, Unopened, Opened
  <2>5. \A t \in Sessions \ {s} : ~(Alive(t) /\ sess[t].host = h)
    BY <2>2, <2>4, OneSessionPerHost DEF Alive
  <2> QED
    BY <2>2, <2>3, <2>4, <2>5 DEF Alive
<1>4. CASE Lock(h, c) = None
  <2>1. \A t \in Sessions : ~(Alive(t) /\ sess[t].host = h)
    BY <1>2, <1>4 DEF EntriesHoldSessions, Lock, Alive
  <2>2. conn[h].queue = <<>>
    BY <2>1 DEF EntriesHoldSessions
  <2>3. PICK s \in Fresh : /\ sess' = [sess EXCEPT ![s] = [host |-> h, state |-> "open"]]
                           /\ Send(f, h, c, s)
    BY <1>4 DEF EnqueueWeak
  <2>4. /\ s \in Sessions /\ sess[s].state = "fresh" /\ sess'[s].host = h /\ sess'[s].state = "open"
        /\ \A t \in Sessions \ {s} : sess'[t] = sess[t]
    BY <2>3 DEF Fresh, TypeOK
  <2> QED
    BY <2>1, <2>2, <2>3, <2>4 DEF Alive
<1> QED
  BY <1>3, <1>4

\* Where a session has the same messages on their way it owes the same answers.
LEMMA SameMessages ==
  ASSUME NEW t \in Sessions, inbox'[t] = inbox[t], wire'[t] = wire[t]
  PROVE  Outstanding(t)' = Outstanding(t) /\ AnswersInOrder(t)' = AnswersInOrder(t)
BY DEF Outstanding, AnswersInOrder, Finals

\* What has come is among the requests in the queue.
LEMMA FinalsAreQueued ==
  ASSUME Inv, NEW s \in Sessions, Alive(s), NEW i \in Finals(s)
  PROVE  inbox[s][i].of \in Members(conn[sess[s].host].queue)
BY DEF Inv, QueueAligned, Outstanding

\* A new request comes after all others.
LEMMA NewComesLast ==
  ASSUME Inv, NEW f \in Futures, life[f] = "idle"
  PROVE  /\ \A h \in Hosts : \A g \in Members(conn[h].queue) : g < f
         /\ \A s \in Sessions : \A g \in Members(wire[s]) : g < f
<1> USE DEF Inv
<1>1. \A h \in Hosts : \A g \in Members(conn[h].queue) : g \in Futures /\ via[g] # None
  BY MembersAreFutures DEF TypeOK, Entries, QueuedAreWaiting
<1>2. \A s \in Sessions : \A g \in Members(wire[s]) : g \in Futures /\ via[g] # None
  BY MembersAreFutures DEF TypeOK, QueuedAreWaiting
<1> QED
  BY <1>1, <1>2 DEF UnusedAreLast, TypeOK

\* The parts of EntriesHoldSessions after a step.
AliveNext(s) == sess'[s].state \in {"open", "closing"}
LEMMA EntriesNext ==
  ASSUME \A h \in Hosts, c \in Schemes : conn'[h].session[c] # None =>
           sess'[conn'[h].session[c]].host = h /\ c \in SchemesOf[h],
         \A h \in Hosts, t \in Sessions : AliveNext(t) /\ sess'[t].host = h =>
           \E c \in Schemes : conn'[h].session[c] = t,
         \A h \in Hosts : conn'[h].queue # <<>> =>
           \E t \in Sessions : AliveNext(t) /\ sess'[t].host = h
  PROVE  EntriesHoldSessions'
BY DEF EntriesHoldSessions, Alive, AliveNext

\* A session that is alive is in the entry of its host.
LEMMA AliveIsHeld ==
  ASSUME EntriesHoldSessions, NEW t \in Sessions, Alive(t), sess[t].host \in Hosts
  PROVE  \E d \in Schemes : conn[sess[t].host].session[d] = t
BY DEF EntriesHoldSessions

LEMMA EnqueueStep ==
  ASSUME SingleScheme, Inv, NEW f \in Futures, NEW h \in Hosts, NEW c \in Schemes,
         EnqueueWeak(f, h, c)
  PROVE  Inv'
<1> USE DEF Inv
<1>1. PICK s \in Sessions :
           /\ sess'[s].host = h /\ sess'[s].state \in {"open", "closing"}
           /\ Alive(s) => sess'[s] = sess[s]
           /\ ~Alive(s) => sess[s].state = "fresh" /\ conn[h].queue = <<>>
           /\ \A t \in Sessions \ {s} : sess'[t] = sess[t] /\ ~(Alive(t) /\ sess[t].host = h)
           /\ Send(f, h, c, s)
  BY EnqueueEffect
<1>2. /\ life[f] = "idle" /\ \A g \in Futures : life[g] = "idle" => f <= g
      /\ c \in SchemesOf[h]
  BY DEF EnqueueWeak, Lowest
<1>3. /\ conn'[h].session = [conn[h].session EXCEPT ![c] = s]
      /\ conn'[h].queue = Append(conn[h].queue, f)
      /\ \A g \in Hosts \ {h} : conn'[g] = conn[g]
  <2>1. conn \in [Hosts -> Entries] /\ Append(conn[h].queue, f) \in Seq(Futures)
    BY AppendProperties DEF TypeOK, Entries
  <2>2. /\ conn'[h] = [conn[h] EXCEPT !.session[c] = s, !.queue = Append(conn[h].queue, f)]
        /\ \A g \in Hosts \ {h} : conn'[g] = conn[g]
    BY <1>1, <2>1 DEF Send
  <2> QED
    BY <2>1, <2>2 DEF Entries
<1>4. /\ wire'[s] = Append(wire[s], f) /\ \A t \in Sessions \ {s} : wire'[t] = wire[t]
      /\ via'[f] = s /\ \A g \in Futures \ {f} : via'[g] = via[g]
      /\ life'[f] = "live" /\ \A g \in Futures \ {f} : life'[g] = life[g]
      /\ UNCHANGED <<inbox, resp>>
  BY <1>1 DEF Send, TypeOK
<1>5. TypeOK'
  BY TypeStep DEF Next
<1>6. /\ conn[h].queue \in Seq(Futures) /\ wire[s] \in Seq(Futures)
      /\ \A g \in Members(conn[h].queue) : g < f
      /\ \A g \in Members(wire[s]) : g < f
  BY <1>2, NewComesLast DEF TypeOK, Entries
<1>7. ~Alive(s) => /\ wire[s] = <<>> /\ inbox[s] = <<>>
                   /\ conn[h].queue = <<>> /\ sess[s].host = None
  BY <1>1 DEF NothingOnDeadSessions, TypeOK, Unopened, Opened
<1>8. Ascending(conn[h].queue) /\ Ascending(wire[s])
  <2>1. CASE Alive(s)
    BY <1>1, <2>1 DEF QueueAligned, AnswersInOrder
  <2>2. CASE ~Alive(s)
    BY <1>7, <2>2, EmptyAscends
  <2> QED
    BY <2>1, <2>2
<1>9. /\ Ascending(conn'[h].queue) /\ Members(conn'[h].queue) = Members(conn[h].queue) \cup {f}
      /\ Ascending(wire'[s]) /\ Members(wire'[s]) = Members(wire[s]) \cup {f}
  BY <1>3, <1>4, <1>6, <1>8, AppendAscends
<1>10. resp[f] = None /\ via[f] = None
  BY <1>2 DEF UnusedAreLast
<1>11. s # None /\ None \notin Sessions /\ None \notin Hosts
  OBVIOUS
<1>12. EntriesHoldSessions'
  <2>1. ASSUME NEW g \in Hosts, NEW d \in Schemes, conn'[g].session[d] # None
        PROVE  sess'[conn'[g].session[d]].host = g /\ d \in SchemesOf[g]
    <3>1. CASE g = h /\ d = c
      BY <1>1, <1>2, <1>3, <3>1 DEF TypeOK, Entries
    <3>2. CASE ~(g = h /\ d = c)
      <4>1. conn'[g].session[d] = conn[g].session[d]
        BY <1>3, <3>2 DEF TypeOK, Entries
      <4>2. conn[g].session[d] \in Sessions /\ sess[conn[g].session[d]].host = g /\ d \in SchemesOf[g]
        BY <2>1, <4>1 DEF TypeOK, Entries, EntriesHoldSessions
      <4>3. sess'[conn[g].session[d]].host = g
        BY <1>1, <1>7, <1>11, <4>2
      <4> QED
        BY <4>1, <4>2, <4>3
    <3> QED
      BY <3>1, <3>2
  <2>2. ASSUME NEW g \in Hosts, NEW t \in Sessions, Alive(t)', sess'[t].host = g
        PROVE  \E d \in Schemes : conn'[g].session[d] = t
    <3>1. CASE t = s
      BY <1>1, <1>3, <2>2, <3>1 DEF TypeOK, Entries
    <3>2. CASE t # s
      <4>1. Alive(t) /\ sess[t].host = g /\ g # h
        BY <1>1, <2>2, <3>2 DEF Alive
      <4>2. PICK d \in Schemes : conn[g].session[d] = t
        BY <4>1, AliveIsHeld
      <4> QED
        BY <1>3, <4>1, <4>2
    <3> QED
      BY <3>1, <3>2
  <2>3. ASSUME NEW g \in Hosts, conn'[g].queue # <<>>
        PROVE  \E t \in Sessions : Alive(t)' /\ sess'[t].host = g
    <3>1. CASE g = h
      BY <1>1, <3>1 DEF Alive
    <3>2. CASE g # h
      <4>1. PICK t \in Sessions : Alive(t) /\ sess[t].host = g
        BY <1>3, <2>3, <3>2 DEF EntriesHoldSessions
      <4>2. sess'[t] = sess[t]
        BY <1>1, <4>1
      <4> QED
        BY <4>1, <4>2 DEF Alive
    <3> QED
      BY <3>1, <3>2
  <2> QED
    BY <2>1, <2>2, <2>3 DEF EntriesHoldSessions
<1>13. NothingOnDeadSessions'
  BY <1>1, <1>4 DEF NothingOnDeadSessions, Alive
<1>14. QueuedAreWaiting'
  <2>1. ASSUME NEW x \in Sessions, NEW g \in Hosts, sess[x].host = g
        PROVE  sess'[x].host = g
    BY <1>1, <1>7, <1>11, <2>1
  <2>2. ASSUME NEW g \in Hosts, NEW e \in Members(conn'[g].queue)
        PROVE  resp'[e] = None /\ via'[e] \in Sessions /\ sess'[via'[e]].host = g
    <3>1. CASE e = f /\ g = h
      BY <1>1, <1>4, <1>10, <3>1
    <3>2. CASE ~(e = f /\ g = h)
      <4>1. e \in Members(conn[g].queue)
        BY <1>3, <1>9, <2>2, <3>2
      <4>2. e \in Futures /\ resp[e] = None /\ via[e] \in Sessions /\ sess[via[e]].host = g
        BY <4>1, MembersAreFutures DEF QueuedAreWaiting, TypeOK, Entries
      <4>3. e # f
        BY <1>10, <1>11, <4>2
      <4>4. resp'[e] = resp[e] /\ via'[e] = via[e]
        BY <1>4, <4>2, <4>3
      <4> QED
        BY <2>1, <4>2, <4>4
    <3> QED
      BY <3>1, <3>2
  <2>3. ASSUME NEW t \in Sessions, NEW e \in Members(wire'[t])
        PROVE  via'[e] = t
    <3>1. CASE e = f /\ t = s
      BY <1>4, <3>1
    <3>2. CASE ~(e = f /\ t = s)
      <4>1. e \in Members(wire[t])
        BY <1>4, <1>9, <2>3, <3>2
      <4>2. e \in Futures /\ via[e] = t
        BY <4>1, MembersAreFutures DEF QueuedAreWaiting, TypeOK
      <4>3. e # f
        BY <1>10, <1>11, <4>2
      <4> QED
        BY <1>4, <4>2, <4>3
    <3> QED
      BY <3>1, <3>2
  <2> QED
    BY <2>2, <2>3 DEF QueuedAreWaiting
<1>15. UnusedAreLast'
  <2> SUFFICES ASSUME NEW g \in Futures, life'[g] = "idle"
               PROVE  /\ resp'[g] = None /\ via'[g] = None
                      /\ \A e \in Futures : life'[e] # "idle" => e < g
    BY DEF UnusedAreLast
  <2>1. g # f /\ life[g] = "idle" /\ f <= g
    BY <1>2, <1>4
  <2>2. f < g
    <3>1. f \in Nat /\ g \in Nat
      OBVIOUS
    <3> QED
      BY <2>1, <3>1
  <2> QED
    BY <1>4, <2>1, <2>2 DEF UnusedAreLast
<1>16. AnsweredWereSent'
  BY <1>4, <1>11 DEF AnsweredWereSent
<1>17. QueueAligned'
  <2> SUFFICES ASSUME NEW t \in Sessions, Alive(t)'
               PROVE  /\ Ascending(conn'[sess'[t].host].queue)
                      /\ Members(conn'[sess'[t].host].queue) = Outstanding(t)'
                      /\ AnswersInOrder(t)'
    BY DEF QueueAligned, Ascending, Members
  <2>1. CASE t # s
    <3>1. sess'[t] = sess[t] /\ Alive(t) /\ sess[t].host # h /\ sess[t].host \in Hosts
      BY <1>1, <2>1, OpenedSessions DEF Alive
    <3>2. conn'[sess'[t].host] = conn[sess[t].host]
      BY <1>3, <3>1
    <3>3. Outstanding(t)' = Outstanding(t) /\ AnswersInOrder(t)' = AnswersInOrder(t)
      BY <1>4, <2>1, SameMessages
    <3>4. /\ Ascending(conn[sess[t].host].queue)
          /\ Members(conn[sess[t].host].queue) = Outstanding(t)
          /\ AnswersInOrder(t)
      BY <3>1 DEF QueueAligned
    <3> QED
      BY <3>2, <3>3, <3>4
  <2>2. CASE t = s
    <3>1. Members(conn[h].queue) = Outstanding(s)
      <4>1. CASE Alive(s)
        BY <1>1, <4>1 DEF QueueAligned
      <4>2. CASE ~Alive(s)
        BY <1>7, <4>2, EmptyAscends DEF Outstanding, Finals
      <4> QED
        BY <4>1, <4>2
    <3>2. Outstanding(s)' = Outstanding(s) \cup {f}
      BY <1>4, <1>9 DEF Outstanding, Finals, Members
    <3>3. ASSUME NEW i \in Finals(s)
          PROVE  /\ inbox[s][i].of < f
                 /\ \A j \in Finals(s) : i < j => inbox[s][i].of < inbox[s][j].of
                 /\ \A r \in Members(wire[s]) : inbox[s][i].of < r
      <4>1. Alive(s)
        BY <1>7, <3>3 DEF Finals
      <4> QED
        BY <1>1, <1>6, <4>1, FinalsAreQueued DEF QueueAligned, AnswersInOrder
    <3>4. AnswersInOrder(s)'
      <4>1. Finals(s)' = Finals(s)
        BY <1>4 DEF Finals
      <4>2. Members(wire[s])' = Members(wire[s]) \cup {f} /\ Ascending(wire[s])'
        BY <1>9 DEF Members, Ascending
      <4> QED
        BY <1>4, <3>3, <4>1, <4>2 DEF AnswersInOrder
    <3> QED
      BY <1>1, <1>9, <2>2, <3>1, <3>2, <3>4
  <2> QED
    BY <2>1, <2>2
<1>18. AnswerIsForRequest'
  BY <1>4 DEF AnswerIsForRequest
<1>19. ZeroIfClosed'
  <2> SUFFICES ASSUME NEW g \in Futures, resp'[g] = Zero
               PROVE  /\ sess'[via'[g]].state = "gone"
                      /\ \A i \in DOMAIN inbox'[via'[g]] : inbox'[via'[g]][i].of # g
    BY DEF ZeroIfClosed
  <2>1. g # f /\ resp[g] = Zero
    BY <1>4, <1>10
  <2>2. via[g] \in Sessions /\ via'[g] = via[g]
    <3>1. via[g] # None
      BY <2>1 DEF AnsweredWereSent
    <3> QED
      BY <1>4, <2>1, <3>1 DEF TypeOK
  <2>4. sess[via[g]].state = "gone" /\ \A i \in DOMAIN inbox[via[g]] : inbox[via[g]][i].of # g
    BY <2>1 DEF ZeroIfClosed
  <2>3. via[g] # s
    BY <1>1, <2>4 DEF Alive
  <2>5. sess'[via[g]] = sess[via[g]]
    BY <1>1, <2>2, <2>3
  <2>6. inbox'[via[g]] = inbox[via[g]]
    BY <1>4
  <2> QED
    BY <2>2, <2>4, <2>5, <2>6
<1> QED
  BY <1>5, <1>12, <1>13, <1>14, <1>15, <1>16, <1>17, <1>18, <1>19

\* A step that leaves queues and messages alone.
LEMMA SessionsOnlyStep ==
  ASSUME Inv, TypeOK', UNCHANGED <<conn, wire, inbox, via>>,
         \A t \in Sessions :
           /\ sess'[t].host = sess[t].host
           /\ sess'[t].state \in {"open", "closing"} <=> sess[t].state \in {"open", "closing"}
           /\ sess[t].state = "gone" => sess'[t].state = "gone",
         UNCHANGED resp,
         \A f \in Futures : life'[f] = "idle" <=> life[f] = "idle"
  PROVE  Inv'
<1> USE DEF Inv
<1>1. \A t \in Sessions : Outstanding(t)' = Outstanding(t) /\ AnswersInOrder(t)' = AnswersInOrder(t)
  BY SameMessages
<1>9. ASSUME NEW t \in Sessions PROVE Alive(t)' <=> Alive(t)
  <2>1. sess'[t].state \in {"open", "closing"} <=> sess[t].state \in {"open", "closing"}
    OBVIOUS
  <2> HIDE DEF Inv
  <2> QED
    BY <2>1 DEF Alive
<1>2. EntriesHoldSessions'
  <2>0. EntriesHoldSessions
    OBVIOUS
  <2>1. ASSUME NEW h \in Hosts, NEW c \in Schemes, conn[h].session[c] # None
        PROVE  sess'[conn[h].session[c]].host = h /\ c \in SchemesOf[h]
    <3>1. conn[h].session[c] \in Sessions \cup {None}
      BY DEF TypeOK, Entries
    <3>2. sess[conn[h].session[c]].host = h /\ c \in SchemesOf[h]
      BY <2>0, <2>1 DEF EntriesHoldSessions
    <3> QED
      BY <2>1, <3>1, <3>2
  <2>2. ASSUME NEW t \in Sessions PROVE AliveNext(t) <=> Alive(t)
    BY DEF Alive, AliveNext
  <2>3. /\ \A h \in Hosts, t \in Sessions : AliveNext(t) /\ sess'[t].host = h =>
             \E c \in Schemes : conn[h].session[c] = t
        /\ \A h \in Hosts : conn[h].queue # <<>> =>
             \E t \in Sessions : AliveNext(t) /\ sess'[t].host = h
    BY <2>0, <2>2 DEF EntriesHoldSessions
  <2>4. conn' = conn
    OBVIOUS
  <2> HIDE DEF Inv
  <2> QED
    BY <2>1, <2>3, <2>4, EntriesNext
<1>8. NothingOnDeadSessions'
  BY <1>9 DEF NothingOnDeadSessions
<1>3. QueuedAreWaiting'
  <2>1. ASSUME NEW h \in Hosts, NEW f \in Members(conn[h].queue)
        PROVE  resp'[f] = None /\ via'[f] \in Sessions /\ sess'[via'[f]].host = h
    <3>1. resp[f] = None /\ via[f] \in Sessions /\ sess[via[f]].host = h
      BY DEF QueuedAreWaiting
    <3>2. sess'[via[f]].host = sess[via[f]].host
      BY <3>1
    <3> QED
      BY <3>1, <3>2
  <2>2. \A t \in Sessions : \A f \in Members(wire[t]) : via'[f] = t
    BY DEF QueuedAreWaiting
  <2> QED
    BY <2>1, <2>2 DEF QueuedAreWaiting, Members
<1>4. UnusedAreLast' /\ AnsweredWereSent'
  BY DEF UnusedAreLast, AnsweredWereSent
<1>5. QueueAligned'
  BY <1>1, <1>9 DEF QueueAligned, Ascending, Members
<1>6. AnswerIsForRequest'
  BY DEF AnswerIsForRequest
<1>7. ZeroIfClosed'
  <2> SUFFICES ASSUME NEW f \in Futures, resp[f] = Zero
               PROVE  /\ sess'[via[f]].state = "gone"
                      /\ \A i \in DOMAIN inbox[via[f]] : inbox[via[f]][i].of # f
    <3>1. via' = via /\ inbox' = inbox /\ resp' = resp
      OBVIOUS
    <3> HIDE DEF Inv
    <3> QED
      BY <3>1 DEF ZeroIfClosed
  <2>1. via[f] \in Sessions
    BY DEF AnsweredWereSent, TypeOK
  <2>2. /\ sess[via[f]].state = "gone"
        /\ \A i \in DOMAIN inbox[via[f]] : inbox[via[f]][i].of # f
    BY DEF ZeroIfClosed
  <2> QED
    BY <2>1, <2>2
<1> QED
  BY <1>2, <1>3, <1>4, <1>5, <1>6, <1>7, <1>8

LEMMA DropStep ==
  ASSUME Inv, NEW f \in Futures, Drop(f)
  PROVE  Inv'
<1>1. TypeOK'
  BY TypeStep DEF Next, Inv
<1>2. \A g \in Futures : life'[g] = "idle" <=> life[g] = "idle"
  BY DEF Drop, Inv, TypeOK
<1>3. UNCHANGED <<conn, sess, wire, inbox, resp, via>>
  BY DEF Drop
<1> QED
  BY <1>1, <1>2, <1>3, SessionsOnlyStep DEF Alive

LEMMA DownStep ==
  ASSUME Inv, NEW s \in Sessions, Down(s)
  PROVE  Inv'
<1>1. TypeOK'
  BY TypeStep DEF Next, Inv
<1>2. sess'[s] = [host |-> sess[s].host, state |-> "closing"]
  BY OpenedSessions DEF Down, Inv, TypeOK
<1>3. \A t \in Sessions \ {s} : sess'[t] = sess[t]
  BY DEF Down, Inv, TypeOK
<1>4. UNCHANGED <<conn, wire, inbox, via>> /\ UNCHANGED resp /\ UNCHANGED life /\ sess[s].state = "open"
  BY DEF Down
<1>5. \A t \in Sessions :
        /\ sess'[t].host = sess[t].host
        /\ sess'[t].state \in {"open", "closing"} <=> sess[t].state \in {"open", "closing"}
        /\ sess[t].state = "gone" => sess'[t].state = "gone"
  BY <1>2, <1>3, <1>4
<1>6. UNCHANGED <<conn, wire, inbox, via>>
  BY <1>4
<1>7. UNCHANGED resp
  BY <1>4
<1>8. \A f \in Futures : life'[f] = "idle" <=> life[f] = "idle"
  BY <1>4
<1> QED
  BY <1>1, <1>5, <1>6, <1>7, <1>8, SessionsOnlyStep

\* A step in which the server of s says something, and nobody hears it yet.
LEMMA ServerSpeaksStep ==
  ASSUME Inv, NEW s \in Sessions, sess[s].state = "open", TypeOK',
         UNCHANGED <<conn, sess, life, resp, via>>,
         \A t \in Sessions \ {s} : inbox'[t] = inbox[t] /\ wire'[t] = wire[t],
         Members(wire'[s]) \subseteq Members(wire[s]),
         Outstanding(s)' = Outstanding(s), AnswersInOrder(s)'
  PROVE  Inv'
<1> USE DEF Inv
<1>1. \A t \in Sessions : Alive(t)' = Alive(t)
  BY DEF Alive
<1>2. EntriesHoldSessions'
  <2>1. \A h \in Hosts : conn[h].queue # <<>> => \E t \in Sessions : Alive(t)' /\ sess'[t].host = h
    BY <1>1 DEF EntriesHoldSessions
  <2>2. \A h \in Hosts : \A t \in Sessions : Alive(t)' /\ sess'[t].host = h =>
          \E c \in Schemes : conn[h].session[c] = t
    BY <1>1 DEF EntriesHoldSessions
  <2> QED
    BY <2>1, <2>2 DEF EntriesHoldSessions
<1>3. NothingOnDeadSessions'
  BY <1>1 DEF NothingOnDeadSessions, Alive
<1>4. QueuedAreWaiting'
  <2>1. \A h \in Hosts : \A f \in Members(conn[h].queue) :
          resp'[f] = None /\ via'[f] \in Sessions /\ sess'[via'[f]].host = h
    BY DEF QueuedAreWaiting
  <2>2. \A t \in Sessions : \A f \in Members(wire'[t]) : via'[f] = t
    BY DEF QueuedAreWaiting
  <2> QED
    BY <2>1, <2>2 DEF QueuedAreWaiting, Members
<1>5. UnusedAreLast' /\ AnsweredWereSent' /\ AnswerIsForRequest'
  BY DEF UnusedAreLast, AnsweredWereSent, AnswerIsForRequest
<1>6. QueueAligned'
  <2> SUFFICES ASSUME NEW t \in Sessions, Alive(t)
               PROVE  /\ Ascending(conn[sess[t].host].queue)
                      /\ Members(conn[sess[t].host].queue) = Outstanding(t)'
                      /\ AnswersInOrder(t)'
    BY <1>1 DEF QueueAligned, Ascending, Members
  <2>1. CASE t = s
    BY <2>1 DEF QueueAligned
  <2>2. CASE t # s
    BY <2>2, SameMessages DEF QueueAligned
  <2> QED
    BY <2>1, <2>2
<1>7. ZeroIfClosed'
  <2> SUFFICES ASSUME NEW f \in Futures, resp[f] = Zero
               PROVE  /\ sess[via[f]].state = "gone"
                      /\ \A i \in DOMAIN inbox'[via[f]] : inbox'[via[f]][i].of # f
    BY DEF ZeroIfClosed
  <2>1. via[f] \in Sessions /\ via[f] # s
    BY DEF AnsweredWereSent, TypeOK, ZeroIfClosed
  <2>2. inbox'[via[f]] = inbox[via[f]]
    BY <2>1
  <2>3. sess[via[f]].state = "gone" /\ \A i \in DOMAIN inbox[via[f]] : inbox[via[f]][i].of # f
    BY DEF ZeroIfClosed
  <2> QED
    BY <2>2, <2>3
<1> QED
  BY <1>2, <1>3, <1>4, <1>5, <1>6, <1>7

LEMMA InterimStep ==
  ASSUME Inv, NEW s \in Sessions, Interim(s)
  PROVE  Inv'
<1> USE DEF Inv
<1>1. TypeOK'
  BY TypeStep DEF Next
<1>2. /\ sess[s].state = "open" /\ wire[s] # <<>>
      /\ UNCHANGED <<conn, sess, wire, life, resp, via>>
      /\ inbox'[s] = Append(inbox[s], [of |-> Head(wire[s]), final |-> FALSE])
      /\ \A t \in Sessions \ {s} : inbox'[t] = inbox[t]
  BY DEF Interim, TypeOK
<1>3. Finals(s)' = Finals(s) /\ \A i \in Finals(s) : inbox'[s][i] = inbox[s][i]
  BY <1>2, InboxGrows DEF Finals
<1>6. Members(wire[s])' = Members(wire[s]) /\ Ascending(wire[s])' = Ascending(wire[s])
  BY <1>2 DEF Members, Ascending
<1>4. Outstanding(s)' = Outstanding(s) /\ (AnswersInOrder(s) => AnswersInOrder(s)')
  <2>1. Outstanding(s)' = Outstanding(s)
    BY <1>3, <1>6 DEF Outstanding
  <2>2. AnswersInOrder(s) => AnswersInOrder(s)'
    BY <1>3, <1>6 DEF AnswersInOrder
  <2> QED
    BY <2>1, <2>2
<1>5. AnswersInOrder(s)'
  BY <1>2, <1>4 DEF QueueAligned, Alive
<1> QED
  BY <1>1, <1>2, <1>4, <1>5, ServerSpeaksStep

LEMMA AnswerStep ==
  ASSUME Inv, NEW s \in Sessions, Answer(s)
  PROVE  Inv'
<1> USE DEF Inv
<1> DEFINE f == Head(wire[s])
           n == Len(inbox[s]) + 1
<1>1. TypeOK'
  BY TypeStep DEF Next
<1>2. /\ sess[s].state = "open" /\ wire[s] # <<>>
      /\ UNCHANGED <<conn, sess, life, resp, via>>
      /\ inbox'[s] = Append(inbox[s], [of |-> f, final |-> TRUE])
      /\ wire'[s] = Tail(wire[s])
      /\ \A t \in Sessions \ {s} : inbox'[t] = inbox[t] /\ wire'[t] = wire[t]
  BY DEF Answer, TypeOK
<1>3. AnswersInOrder(s)
  BY <1>2 DEF QueueAligned, Alive
<1>4. /\ Ascending(wire'[s]) /\ f \in Members(wire[s])
      /\ Members(wire'[s]) = Members(wire[s]) \ {f}
      /\ \A g \in Members(wire[s]) \ {f} : f < g
  BY <1>2, <1>3, TailAscends DEF TypeOK, AnswersInOrder
<1>5. /\ Finals(s)' = Finals(s) \cup {n} /\ n \notin Finals(s)
      /\ inbox'[s][n].of = f
      /\ \A i \in Finals(s) : inbox'[s][i] = inbox[s][i] /\ i < n /\ ~(n < i)
  BY <1>2, InboxGrows DEF Finals
<1> HIDE DEF f, n
<1>6. Outstanding(s)' = Outstanding(s)
  <2>1. Members(wire[s])' = Members(wire'[s])
    BY DEF Members
  <2> QED
    BY <1>4, <1>5, <2>1 DEF Outstanding
<1>7. AnswersInOrder(s)'
  <2>1. Ascending(wire[s])' /\ Members(wire[s])' = Members(wire[s]) \ {f}
    BY <1>4 DEF Ascending, Members
  <2>2. \A i \in Finals(s) : inbox[s][i].of < f
    BY <1>3, <1>4 DEF AnswersInOrder
  <2>3. ~(n < n)
    BY DEF n, TypeOK
  <2> QED
    BY <1>3, <1>4, <1>5, <2>1, <2>2, <2>3 DEF AnswersInOrder
<1> QED
  BY <1>1, <1>2, <1>4, <1>6, <1>7, ServerSpeaksStep
\* When the first message of a session is handled the others move up.
LEMMA InboxMovesUp ==
  ASSUME TypeOK, NEW s \in Sessions, inbox[s] # <<>>, inbox'[s] = Tail(inbox[s])
  PROVE  /\ Head(inbox[s]) = inbox[s][1] /\ Head(inbox[s]) \in Messages
         /\ Finals(s) \subseteq Nat
         /\ 1 \in Finals(s) <=> Head(inbox[s]).final
         /\ \A i \in Finals(s)' : /\ i \in Nat \ {0} /\ i + 1 \in Finals(s)
                                  /\ inbox'[s][i] = inbox[s][i + 1]
         /\ \A i \in Finals(s) \ {1} : i - 1 \in Finals(s)' /\ inbox'[s][i - 1] = inbox[s][i]
<1>1. inbox[s] \in Seq(Messages)
  BY DEF TypeOK
<1>2. /\ Head(inbox[s]) = inbox[s][1] /\ Len(inbox[s]) \in Nat \ {0}
      /\ DOMAIN inbox[s] = 1..Len(inbox[s]) /\ \A i \in 1..Len(inbox[s]) : inbox[s][i] \in Messages
      /\ DOMAIN inbox'[s] = 1..(Len(inbox[s]) - 1)
      /\ \A i \in 1..(Len(inbox[s]) - 1) : inbox'[s][i] = inbox[s][i + 1]
  BY <1>1, HeadTailProperties, LenProperties, EmptySeq
<1>3. \A i \in 1..(Len(inbox[s]) - 1) : i \in Nat \ {0} /\ i + 1 \in 1..Len(inbox[s])
  BY <1>2
<1>4. \A i \in 1..Len(inbox[s]) : i # 1 => i - 1 \in 1..(Len(inbox[s]) - 1) /\ (i - 1) + 1 = i
  BY <1>2
<1>5. /\ Finals(s) = {i \in 1..Len(inbox[s]) : inbox[s][i].final}
      /\ Finals(s)' = {i \in 1..(Len(inbox[s]) - 1) : inbox'[s][i].final}
  BY <1>2 DEF Finals
<1>6. \A i \in Finals(s)' : /\ i \in Nat \ {0} /\ i + 1 \in Finals(s)
                            /\ inbox'[s][i] = inbox[s][i + 1]
  BY <1>2, <1>3, <1>5
<1>7. \A i \in Finals(s) \ {1} : i - 1 \in Finals(s)' /\ inbox'[s][i - 1] = inbox[s][i]
  <2> SUFFICES ASSUME NEW i \in Finals(s) \ {1}
               PROVE  i - 1 \in Finals(s)' /\ inbox'[s][i - 1] = inbox[s][i]
    OBVIOUS
  <2>1. i - 1 \in 1..(Len(inbox[s]) - 1) /\ (i - 1) + 1 = i /\ inbox[s][i].final
    BY <1>4, <1>5
  <2>2. inbox'[s][i - 1] = inbox[s][i]
    BY <1>2, <2>1
  <2> QED
    BY <1>5, <2>1, <2>2
<1>8. Finals(s) \subseteq Nat /\ 1 \in 1..Len(inbox[s])
  BY <1>2, <1>5
<1> QED
  BY <1>2, <1>5, <1>6, <1>7, <1>8

\* What is left of the answers of a session keeps its order, and what was first is
\* not among it.
LEMMA OutstandingShrinks ==
  ASSUME TypeOK, NEW s \in Sessions, AnswersInOrder(s),
         inbox[s] # <<>>, inbox'[s] = Tail(inbox[s]), wire'[s] = wire[s]
  PROVE  /\ AnswersInOrder(s)'
         /\ ~Head(inbox[s]).final => Outstanding(s)' = Outstanding(s)
         /\ Head(inbox[s]).final =>
              /\ Head(inbox[s]).of \in Outstanding(s)
              /\ Outstanding(s)' = Outstanding(s) \ {Head(inbox[s]).of}
              /\ \A r \in Outstanding(s)' : Head(inbox[s]).of < r
<1> DEFINE f == Head(inbox[s]).of
           Left == {inbox[s][i].of : i \in Finals(s) \ {1}}
<1>1. /\ Head(inbox[s]) = inbox[s][1] /\ Head(inbox[s]) \in Messages
      /\ Finals(s) \subseteq Nat
      /\ 1 \in Finals(s) <=> Head(inbox[s]).final
      /\ \A i \in Finals(s)' : /\ i \in Nat \ {0} /\ i + 1 \in Finals(s)
                               /\ inbox'[s][i] = inbox[s][i + 1]
      /\ \A i \in Finals(s) \ {1} : i - 1 \in Finals(s)' /\ inbox'[s][i - 1] = inbox[s][i]
  BY InboxMovesUp
<1>2. Members(wire[s])' = Members(wire[s]) /\ Ascending(wire[s])' = Ascending(wire[s])
  BY DEF Members, Ascending
<1>3. Outstanding(s)' = Left \cup Members(wire[s])
  <2>1. {inbox'[s][i].of : i \in Finals(s)'} = Left
    <3>1. \A i \in Finals(s)' : i + 1 \in Finals(s) \ {1} /\ inbox'[s][i].of = inbox[s][i + 1].of
      <4>1. \A i \in Nat \ {0} : i + 1 # 1
        OBVIOUS
      <4> QED
        BY <1>1, <4>1
    <3>2. \A i \in Finals(s) \ {1} : i - 1 \in Finals(s)' /\ inbox'[s][i - 1].of = inbox[s][i].of
      BY <1>1
    <3>3. \A x \in {inbox'[s][i].of : i \in Finals(s)'} : x \in Left
      BY <3>1
    <3>4. \A x \in Left : x \in {inbox'[s][i].of : i \in Finals(s)'}
      BY <3>2
    <3> QED
      BY <3>3, <3>4
  <2> QED
    BY <1>2, <2>1 DEF Outstanding
<1>4. AnswersInOrder(s)'
  <2>1. ASSUME NEW i \in Finals(s)', NEW j \in Finals(s)', i < j
        PROVE  inbox'[s][i].of < inbox'[s][j].of
    <3>1. i + 1 \in Finals(s) /\ j + 1 \in Finals(s) /\ i + 1 < j + 1
      BY <1>1, <2>1
    <3>2. inbox[s][i + 1].of < inbox[s][j + 1].of
      BY <3>1 DEF AnswersInOrder
    <3> QED
      BY <1>1, <3>2
  <2>2. ASSUME NEW i \in Finals(s)', NEW r \in Members(wire[s])
        PROVE  inbox'[s][i].of < r
    <3>1. i + 1 \in Finals(s) /\ inbox'[s][i] = inbox[s][i + 1]
      BY <1>1
    <3> QED
      BY <3>1 DEF AnswersInOrder
  <2> QED
    BY <1>2, <2>1, <2>2 DEF AnswersInOrder
<1>5. ASSUME ~Head(inbox[s]).final
      PROVE  Outstanding(s)' = Outstanding(s)
  <2>1. Finals(s) \ {1} = Finals(s)
    BY <1>1, <1>5
  <2> QED
    BY <1>3, <2>1 DEF Outstanding
<1>6. ASSUME Head(inbox[s]).final
      PROVE  /\ f \in Outstanding(s)
             /\ Outstanding(s)' = Outstanding(s) \ {f}
             /\ \A r \in Outstanding(s)' : f < r
  <2>1. 1 \in Finals(s) /\ inbox[s][1].of = f /\ f \in Futures
    BY <1>1, <1>6 DEF Messages
  <2>2. \A i \in Finals(s) \ {1} : f < inbox[s][i].of
    <3>1. \A i \in Finals(s) \ {1} : i \in Nat /\ i - 1 \in Nat \ {0}
      BY <1>1
    <3>2. \A i \in Finals(s) \ {1} : 1 < i
      BY <3>1
    <3> QED
      BY <2>1, <3>2 DEF AnswersInOrder
  <2>3. \A r \in Members(wire[s]) : f < r
    BY <2>1 DEF AnswersInOrder
  <2>4. \A r \in Left \cup Members(wire[s]) : f < r
    BY <2>2, <2>3
  <2>5. Outstanding(s) = (Left \cup Members(wire[s])) \cup {f}
    BY <2>1 DEF Outstanding
  <2>6. f \notin Left \cup Members(wire[s])
    <3>1. \A r \in Nat : ~(r < r)
      OBVIOUS
    <3> QED
      BY <2>1, <2>4, <3>1
  <2> QED
    BY <1>3, <2>4, <2>5, <2>6
<1> QED
  BY <1>4, <1>5, <1>6

\* The first future in the queue is the one that the answer is for.
LEMMA FirstIsAnswered ==
  ASSUME Inv, NEW s \in Sessions, MessageEvent(s), Head(inbox[s]).final
  PROVE  /\ conn[sess[s].host].queue # <<>>
         /\ Head(conn[sess[s].host].queue) = Head(inbox[s]).of
         /\ PopFront(sess[s].host, Head(inbox[s]).of)
<1> USE DEF Inv
<1> DEFINE q == conn[sess[s].host].queue
           f == Head(inbox[s]).of
<1>1. inbox[s] # <<>> /\ inbox'[s] = Tail(inbox[s]) /\ wire'[s] = wire[s]
  BY DEF MessageEvent, TypeOK
<1>2. Alive(s) /\ sess[s].host \in Hosts
  BY <1>1, MessagesComeOnSessions
<1>3. q \in Seq(Futures) /\ Ascending(q) /\ Members(q) = Outstanding(s) /\ AnswersInOrder(s)
  BY <1>2 DEF QueueAligned, TypeOK, Entries
<1>4. /\ f \in Outstanding(s) /\ Outstanding(s)' = Outstanding(s) \ {f}
      /\ \A r \in Outstanding(s)' : f < r
  BY <1>1, <1>3, OutstandingShrinks
<1>5. q # <<>> /\ Members(q) \subseteq Futures
  BY <1>3, <1>4, MembersAreFutures
<1>6. Head(q) \in Members(q) /\ \A g \in Members(q) \ {Head(q)} : Head(q) < g
  BY <1>3, <1>5, TailAscends
<1>7. Head(q) = f
  <2>1. Head(q) \in Nat /\ f \in Nat
    BY <1>3, <1>4, <1>5, <1>6
  <2>2. Head(q) # f => Head(q) < f /\ f < Head(q)
    BY <1>3, <1>4, <1>6
  <2> QED
    BY <2>1, <2>2
<1> QED
  BY <1>5, <1>7 DEF MessageEvent, SetSingleResponse

LEMMA MessageStep ==
  ASSUME SingleScheme, Inv, NEW s \in Sessions, MessageEvent(s)
  PROVE  Inv'
<1> USE DEF Inv
<1> DEFINE h == sess[s].host
           q == conn[h].queue
           f == Head(inbox[s]).of
<1>1. TypeOK'
  BY TypeStep DEF Next
<1>2. /\ inbox[s] # <<>> /\ inbox'[s] = Tail(inbox[s])
      /\ \A t \in Sessions \ {s} : inbox'[t] = inbox[t]
      /\ UNCHANGED <<sess, wire, life, via>>
  BY DEF MessageEvent, TypeOK
<1>3. Alive(s) /\ h \in Hosts
  BY <1>2, MessagesComeOnSessions
<1>4. AnswersInOrder(s) /\ Ascending(q) /\ q \in Seq(Futures) /\ Members(q) = Outstanding(s)
  BY <1>3 DEF QueueAligned, TypeOK, Entries
<1>5. \A t \in Sessions : Alive(t)' = Alive(t)
  BY <1>2 DEF Alive
<1>6. /\ \A g \in Hosts : conn'[g].session = conn[g].session
      /\ \A g \in Hosts \ {h} : conn'[g] = conn[g]
      /\ Ascending(conn'[h].queue) /\ Members(conn'[h].queue) = Outstanding(s)'
      /\ Members(conn'[h].queue) \subseteq Members(q)
      /\ AnswersInOrder(s)'
      /\ \/ UNCHANGED resp
         \/ /\ f \in Futures /\ resp[f] = None /\ via[f] # None /\ life[f] # "idle"
            /\ sess[via[f]].host = h
            /\ f \notin Members(conn'[h].queue)
            /\ resp'[f] \in {None, f} /\ \A g \in Futures \ {f} : resp'[g] = resp[g]
  <2>1. CASE ~Head(inbox[s]).final
    <3>1. UNCHANGED conn /\ UNCHANGED resp
      BY <2>1 DEF MessageEvent, SetSingleResponse
    <3>2. Outstanding(s)' = Outstanding(s) /\ AnswersInOrder(s)'
      BY <1>2, <1>4, <2>1, OutstandingShrinks
    <3> QED
      BY <1>4, <3>1, <3>2
  <2>2. CASE Head(inbox[s]).final
    <3>1. q # <<>> /\ Head(q) = f /\ PopFront(h, f)
      BY <2>2, FirstIsAnswered
    <3>2. Head(inbox[s]) \in Messages /\ f \in Futures
      BY <1>2, InboxMovesUp DEF Messages
    <3> HIDE DEF f
    <3>3. /\ conn'[h].queue = Tail(q) /\ conn'[h].session = conn[h].session
          /\ \A g \in Hosts \ {h} : conn'[g] = conn[g]
          /\ \A g \in Futures : resp'[g] = IF g = f /\ life[g] = "live" THEN f ELSE resp[g]
      BY <1>3, <3>1, <3>2, PopFrontEffect
    <3>4. Outstanding(s)' = Outstanding(s) \ {f} /\ AnswersInOrder(s)'
      BY <1>2, <1>4, <2>2, OutstandingShrinks DEF f
    <3>5. Ascending(Tail(q)) /\ Members(Tail(q)) = Members(q) \ {f} /\ f \in Members(q)
      BY <1>4, <3>1, TailAscends
    <3>6. resp[f] = None /\ via[f] \in Sessions /\ sess[via[f]].host = h
      BY <1>3, <3>5 DEF QueuedAreWaiting
    <3>7. via[f] # None /\ life[f] # "idle"
      BY <3>2, <3>6 DEF UnusedAreLast
    <3>8. resp'[f] \in {None, f} /\ \A g \in Futures \ {f} : resp'[g] = resp[g]
      BY <3>2, <3>3, <3>6
    <3>9. f \notin Members(conn'[h].queue) /\ Members(conn'[h].queue) \subseteq Members(q)
      BY <3>3, <3>5
    <3>10. Ascending(conn'[h].queue) /\ Members(conn'[h].queue) = Outstanding(s)'
      BY <1>4, <3>3, <3>4, <3>5
    <3>11. \A g \in Hosts : conn'[g].session = conn[g].session
      BY <3>3
    <3> QED
      BY <3>2, <3>3, <3>4, <3>6, <3>7, <3>8, <3>9, <3>10, <3>11
  <2> QED
    BY <2>1, <2>2
<1> HIDE DEF f
<1>7. EntriesHoldSessions'
  <2>1. ASSUME NEW g \in Hosts, NEW d \in Schemes, conn'[g].session[d] # None
        PROVE  sess[conn'[g].session[d]].host = g /\ d \in SchemesOf[g]
    BY <1>6, <2>1 DEF EntriesHoldSessions
  <2>2. ASSUME NEW g \in Hosts, NEW t \in Sessions, Alive(t), sess[t].host = g
        PROVE  \E d \in Schemes : conn'[g].session[d] = t
    BY <1>6, <2>2 DEF EntriesHoldSessions
  <2>3. ASSUME NEW g \in Hosts, conn'[g].queue # <<>>
        PROVE  \E t \in Sessions : Alive(t) /\ sess[t].host = g
    <3>1. CASE g = h
      BY <1>3, <3>1
    <3>2. CASE g # h
      BY <1>6, <2>3, <3>2 DEF EntriesHoldSessions
    <3> QED
      BY <3>1, <3>2
  <2> QED
    BY <1>2, <1>5, <2>1, <2>2, <2>3 DEF EntriesHoldSessions
<1>8. NothingOnDeadSessions'
  BY <1>2, <1>3, <1>5 DEF NothingOnDeadSessions
<1>9. QueuedAreWaiting'
  <2>1. ASSUME NEW g \in Hosts, NEW e \in Members(conn'[g].queue)
        PROVE  resp'[e] = None /\ via'[e] \in Sessions /\ sess'[via'[e]].host = g
    <3>1. e \in Members(conn[g].queue)
      BY <1>6, <2>1
    <3>2. e \in Futures /\ resp[e] = None /\ via[e] \in Sessions /\ sess[via[e]].host = g
      BY <3>1, MembersAreFutures DEF QueuedAreWaiting, TypeOK, Entries
    <3>3. resp'[e] = resp[e]
      <4>1. CASE g = h
        BY <1>6, <2>1, <3>2, <4>1
      <4>2. CASE g # h
        BY <1>6, <3>2, <4>2
      <4> QED
        BY <4>1, <4>2
    <3> QED
      BY <1>2, <3>2, <3>3
  <2>2. \A t \in Sessions : \A e \in Members(wire'[t]) : via'[e] = t
    BY <1>2 DEF QueuedAreWaiting
  <2> QED
    BY <2>1, <2>2 DEF QueuedAreWaiting, Members
<1>10. UnusedAreLast'
  BY <1>2, <1>6 DEF UnusedAreLast
<1>11. AnsweredWereSent'
  BY <1>2, <1>6 DEF AnsweredWereSent
<1>12. QueueAligned'
  <2> SUFFICES ASSUME NEW t \in Sessions, Alive(t)
               PROVE  /\ Ascending(conn'[sess[t].host].queue)
                      /\ Members(conn'[sess[t].host].queue) = Outstanding(t)'
                      /\ AnswersInOrder(t)'
    BY <1>2, <1>5 DEF QueueAligned, Ascending, Members
  <2>1. CASE t = s
    BY <1>6, <2>1
  <2>2. CASE t # s
    <3>1. sess[t].host \in Hosts \ {h}
      BY <1>3, <2>2, OneSessionPerHost, OpenedSessions DEF Alive
    <3>2. conn'[sess[t].host] = conn[sess[t].host]
      BY <1>6, <3>1
    <3>3. Outstanding(t)' = Outstanding(t) /\ AnswersInOrder(t)' = AnswersInOrder(t)
      BY <1>2, <2>2, SameMessages
    <3>4. /\ Ascending(conn[sess[t].host].queue)
          /\ Members(conn[sess[t].host].queue) = Outstanding(t)
          /\ AnswersInOrder(t)
      BY DEF QueueAligned
    <3> QED
      BY <3>2, <3>3, <3>4
  <2> QED
    BY <2>1, <2>2
<1>13. AnswerIsForRequest'
  BY <1>6 DEF AnswerIsForRequest
<1>14. ZeroIfClosed'
  <2> SUFFICES ASSUME NEW g \in Futures, resp'[g] = Zero
               PROVE  /\ sess[via[g]].state = "gone"
                      /\ \A i \in DOMAIN inbox'[via[g]] : inbox'[via[g]][i].of # g
    BY <1>2 DEF ZeroIfClosed
  <2>1. resp[g] = Zero
    BY <1>6
  <2>2. sess[via[g]].state = "gone" /\ \A i \in DOMAIN inbox[via[g]] : inbox[via[g]][i].of # g
    BY <2>1 DEF ZeroIfClosed
  <2>3. via[g] \in Sessions
    BY <2>1 DEF AnsweredWereSent, TypeOK
  <2>4. via[g] # s
    BY <1>3, <2>2 DEF Alive
  <2>5. inbox'[via[g]] = inbox[via[g]]
    BY <1>2, <2>3, <2>4
  <2> QED
    BY <2>2, <2>5
<1> QED
  BY <1>1, <1>7, <1>8, <1>9, <1>10, <1>11, <1>12, <1>13, <1>14

LEMMA CloseStep ==
  ASSUME SingleScheme, Inv, NEW s \in Sessions, CloseEvent(s)
  PROVE  Inv'
<1> USE DEF Inv
<1> DEFINE h == sess[s].host
           left == {f \in Members(conn[h].queue) : life[f] = "live"}
<1>1. TypeOK'
  BY TypeStep DEF Next
<1>2. sess[s].state = "closing" /\ inbox[s] = <<>> /\ UNCHANGED <<inbox, life, via>>
  BY DEF CloseEvent
<1>3. Alive(s) /\ h \in Hosts
  BY <1>2, OpenedSessions DEF Alive
<1>4. /\ conn'[h] = NoEntry /\ \A g \in Hosts \ {h} : conn'[g] = conn[g]
      /\ wire'[s] = <<>> /\ \A t \in Sessions \ {s} : wire'[t] = wire[t]
      /\ sess'[s].host = h /\ sess'[s].state = "gone" /\ \A t \in Sessions \ {s} : sess'[t] = sess[t]
  <2>1. sess'[s] = [host |-> h, state |-> "gone"]
    BY <1>2, OpenedSessions DEF CloseEvent, TypeOK
  <2> QED
    BY <1>3, <2>1 DEF CloseEvent, RemoveConnection, TypeOK
<1>5. \A f \in Futures : resp'[f] = IF f \in left THEN Zero ELSE resp[f]
  BY DEF CloseEvent, RemoveConnection, Members
<1>6. ~Alive(s)' /\ \A t \in Sessions \ {s} : /\ Alive(t)' = Alive(t)
                                              /\ Alive(t) => sess[t].host # h
  <2>1. \A t \in Sessions \ {s} : Alive(t) => sess[t].host # h
    BY <1>3, OneSessionPerHost
  <2> QED
    BY <1>4, <2>1 DEF Alive
<1>7. Members(conn[h].queue) = Members(wire[s])
  <2>1. Members(conn[h].queue) = Outstanding(s)
    BY <1>3 DEF QueueAligned
  <2> QED
    BY <1>2, <2>1, EmptySeq DEF Outstanding, Finals
<1>8. \A f \in left : f \in Futures /\ resp[f] = None /\ via[f] = s /\ life[f] = "live"
  BY <1>3, <1>7, MembersAreFutures DEF QueuedAreWaiting, TypeOK
<1> HIDE DEF left
<1>9. NoEntry.queue = <<>> /\ \A c \in Schemes : NoEntry.session[c] = None
  BY DEF NoEntry
<1>10. EntriesHoldSessions'
  <2>1. ASSUME NEW g \in Hosts, NEW d \in Schemes, conn'[g].session[d] # None
        PROVE  sess'[conn'[g].session[d]].host = g /\ d \in SchemesOf[g]
    <3>1. g # h /\ conn'[g] = conn[g]
      BY <1>4, <1>9, <2>1
    <3>2. /\ conn[g].session[d] \in Sessions /\ sess[conn[g].session[d]].host = g
          /\ d \in SchemesOf[g]
      BY <2>1, <3>1 DEF EntriesHoldSessions, TypeOK, Entries
    <3>3. \A t \in Sessions : sess'[t].host = sess[t].host
      BY <1>4
    <3> QED
      BY <3>1, <3>2, <3>3
  <2>0. \A t \in Sessions : AliveNext(t) <=> t # s /\ Alive(t)
    BY <1>4 DEF Alive, AliveNext
  <2>2. ASSUME NEW g \in Hosts, NEW t \in Sessions, AliveNext(t), sess'[t].host = g
        PROVE  \E d \in Schemes : conn'[g].session[d] = t
    <3>1. t # s /\ Alive(t) /\ sess[t].host = g /\ g # h
      BY <1>4, <1>6, <2>0, <2>2
    <3>2. conn'[g] = conn[g] /\ \E d \in Schemes : conn[g].session[d] = t
      BY <1>4, <3>1 DEF EntriesHoldSessions
    <3> QED
      BY <3>2
  <2>3. ASSUME NEW g \in Hosts, conn'[g].queue # <<>>
        PROVE  \E t \in Sessions : AliveNext(t) /\ sess'[t].host = g
    <3>1. g # h /\ conn[g].queue # <<>>
      BY <1>4, <1>9, <2>3
    <3>2. PICK t \in Sessions : Alive(t) /\ sess[t].host = g
      BY <3>1 DEF EntriesHoldSessions
    <3>3. t # s /\ sess'[t] = sess[t]
      BY <1>4, <3>1, <3>2
    <3> QED
      BY <2>0, <3>2, <3>3
  <2>4. \A g \in Hosts, d \in Schemes : conn'[g].session[d] # None =>
          sess'[conn'[g].session[d]].host = g /\ d \in SchemesOf[g]
    BY <2>1
  <2>5. \A g \in Hosts, t \in Sessions : AliveNext(t) /\ sess'[t].host = g =>
          \E d \in Schemes : conn'[g].session[d] = t
    BY <2>2
  <2>6. \A g \in Hosts : conn'[g].queue # <<>> =>
          \E t \in Sessions : AliveNext(t) /\ sess'[t].host = g
    BY <2>3
  <2> HIDE DEF h, Inv
  <2> QED
    BY <2>4, <2>5, <2>6, EntriesNext
<1>11. NothingOnDeadSessions'
  BY <1>2, <1>4, <1>6 DEF NothingOnDeadSessions
<1>12. QueuedAreWaiting'
  <2>1. ASSUME NEW g \in Hosts, NEW e \in Members(conn'[g].queue)
        PROVE  resp'[e] = None /\ via[e] \in Sessions /\ sess'[via[e]].host = g
    <3>1. g # h /\ e \in Members(conn[g].queue)
      BY <1>4, <1>9, <2>1, EmptyAscends
    <3>2. e \in Futures /\ resp[e] = None /\ via[e] \in Sessions /\ sess[via[e]].host = g
      BY <3>1, MembersAreFutures DEF QueuedAreWaiting, TypeOK, Entries
    <3> QED
      BY <1>4, <1>5, <1>8, <3>1, <3>2
  <2>2. ASSUME NEW t \in Sessions, NEW e \in Members(wire'[t])
        PROVE  via[e] = t
    BY <1>4, <2>2, EmptyAscends DEF QueuedAreWaiting
  <2> QED
    BY <1>2, <2>1, <2>2 DEF QueuedAreWaiting, Members
<1>13. UnusedAreLast'
  BY <1>2, <1>5, <1>8 DEF UnusedAreLast
<1>14. AnsweredWereSent'
  BY <1>2, <1>5, <1>8 DEF AnsweredWereSent
<1>15. QueueAligned'
  <2> SUFFICES ASSUME NEW t \in Sessions, Alive(t)'
               PROVE  /\ Ascending(conn'[sess'[t].host].queue)
                      /\ Members(conn'[sess'[t].host].queue) = Outstanding(t)'
                      /\ AnswersInOrder(t)'
    BY DEF QueueAligned, Ascending, Members
  <2>1. t # s /\ Alive(t) /\ sess'[t] = sess[t] /\ sess[t].host \in Hosts \ {h}
    BY <1>4, <1>6, OpenedSessions DEF Alive
  <2>2. conn'[sess'[t].host] = conn[sess[t].host]
    BY <1>4, <2>1
  <2>3. Outstanding(t)' = Outstanding(t) /\ AnswersInOrder(t)' = AnswersInOrder(t)
    BY <1>2, <1>4, <2>1, SameMessages
  <2>4. /\ Ascending(conn[sess[t].host].queue)
        /\ Members(conn[sess[t].host].queue) = Outstanding(t)
        /\ AnswersInOrder(t)
    BY <2>1 DEF QueueAligned
  <2> QED
    BY <2>2, <2>3, <2>4
<1>16. AnswerIsForRequest'
  BY <1>5 DEF AnswerIsForRequest
<1>17. ZeroIfClosed'
  <2> SUFFICES ASSUME NEW f \in Futures, resp'[f] = Zero
               PROVE  /\ sess'[via[f]].state = "gone"
                      /\ \A i \in DOMAIN inbox[via[f]] : inbox[via[f]][i].of # f
    BY <1>2 DEF ZeroIfClosed
  <2>1. CASE f \in left
    <3>1. via[f] = s /\ DOMAIN inbox[s] = {}
      BY <1>2, <1>8, <2>1
    <3> QED
      BY <1>4, <3>1
  <2>2. CASE f \notin left
    <3>1. resp[f] = Zero
      BY <1>5, <2>2
    <3>2. via[f] \in Sessions /\ sess[via[f]].state = "gone"
      BY <3>1 DEF AnsweredWereSent, TypeOK, ZeroIfClosed
    <3>3. sess'[via[f]].state = "gone"
      BY <1>4, <3>2
    <3> QED
      BY <3>1, <3>3 DEF ZeroIfClosed
  <2> QED
    BY <2>1, <2>2
<1> QED
  BY <1>1, <1>10, <1>11, <1>12, <1>13, <1>14, <1>15, <1>16, <1>17

LEMMA InvInit == Init => Inv
<1> SUFFICES ASSUME Init PROVE Inv
  OBVIOUS
<1>1. TypeOK
  BY NoEntryType, EmptySeq DEF Init, TypeOK
<1>2. /\ \A h \in Hosts : conn[h].queue = <<>> /\ \A c \in Schemes : conn[h].session[c] = None
      /\ \A s \in Sessions : ~Alive(s) /\ wire[s] = <<>> /\ inbox[s] = <<>>
      /\ \A f \in Futures : life[f] = "idle" /\ resp[f] = None /\ via[f] = None
  BY DEF Init, NoEntry, Unopened, Alive
<1>3. EntriesHoldSessions /\ NothingOnDeadSessions /\ QueueAligned
  BY <1>2 DEF EntriesHoldSessions, NothingOnDeadSessions, QueueAligned
<1>4. QueuedAreWaiting
  BY <1>2, EmptyAscends DEF QueuedAreWaiting
<1>5. UnusedAreLast /\ AnsweredWereSent /\ AnswerIsForRequest /\ ZeroIfClosed
  BY <1>2 DEF UnusedAreLast, AnsweredWereSent, AnswerIsForRequest, ZeroIfClosed
<1> QED
  BY <1>1, <1>3, <1>4, <1>5 DEF Inv

\* The invariant is inductive: no step of Next, and no stuttering step, breaks it.
LEMMA InvStep == SingleScheme /\ Inv /\ [Next]_vars => Inv'
<1> SUFFICES ASSUME SingleScheme, Inv, [Next]_vars PROVE Inv'
  OBVIOUS
<1>1. CASE UNCHANGED vars
  <2>1. TypeOK'
    BY <1>1, TypeStep DEF Inv
  <2>2. UNCHANGED <<conn, wire, inbox, via>> /\ UNCHANGED sess /\ UNCHANGED resp /\ UNCHANGED life
    BY <1>1 DEF vars
  <2> QED
    BY <2>1, <2>2, SessionsOnlyStep
<1>2. ASSUME NEW f \in Futures, Drop(f) \/ \E h \in Hosts, c \in Schemes : EnqueueWeak(f, h, c)
      PROVE  Inv'
  BY <1>2, DropStep, EnqueueStep
<1>3. ASSUME NEW s \in Sessions,
             Interim(s) \/ Answer(s) \/ Down(s) \/ MessageEvent(s) \/ CloseEvent(s)
      PROVE  Inv'
  BY <1>3, InterimStep, AnswerStep, DownStep, MessageStep, CloseStep
<1> QED
  BY <1>1, <1>2, <1>3 DEF Next

\* Every state of the program has the invariant.
LEMMA Invariance == ASSUME SingleScheme PROVE Spec => []Inv
BY InvInit, InvStep, PTL DEF Spec

-----------------------------------------------------------------------------
\* With any schemes.
LEMMA AppendMembers ==
  ASSUME NEW q \in Seq(Futures), NEW f \in Futures
  PROVE  Members(Append(q, f)) = Members(q) \cup {f}
<1>1. /\ DOMAIN Append(q, f) = 1..(Len(q) + 1) /\ DOMAIN q = 1..Len(q) /\ Len(q) \in Nat
      /\ \A i \in 1..Len(q) : Append(q, f)[i] = q[i]
      /\ Append(q, f)[Len(q) + 1] = f
  BY AppendProperties, LenProperties
<1> QED
  BY <1>1 DEF Members

LEMMA TailMembers ==
  ASSUME NEW q \in Seq(Futures), q # <<>>
  PROVE  Members(Tail(q)) \subseteq Members(q)
<1>1. /\ DOMAIN q = 1..Len(q) /\ Len(q) \in Nat \ {0}
      /\ DOMAIN Tail(q) = 1..(Len(q) - 1)
      /\ \A i \in 1..(Len(q) - 1) : Tail(q)[i] = q[i + 1]
  BY HeadTailProperties, LenProperties, EmptySeq
<1>2. \A i \in 1..(Len(q) - 1) : i + 1 \in 1..Len(q)
  BY <1>1
<1> QED
  BY <1>1, <1>2 DEF Members

\* What a request does, whichever schemes its host is asked with.
LEMMA EnqueueAnyEffect ==
  ASSUME TypeOK, EntriesOfHost, NEW f \in Futures, NEW h \in Hosts, NEW c \in Schemes,
         EnqueueWeak(f, h, c)
  PROVE  \E s \in Sessions :
           /\ sess'[s].host = h /\ sess'[s].state \in {"open", "closing"}
           /\ Alive(s) => sess'[s] = sess[s]
           /\ ~Alive(s) => sess[s].state = "fresh"
           /\ \A t \in Sessions \ {s} : sess'[t] = sess[t]
           /\ Send(f, h, c, s)
<1>1. CASE Lock(h, c) # None
  <2> DEFINE s == Lock(h, c)
  <2>1. s = conn[h].session[c] /\ s # None /\ sess[s].state # "gone"
    BY <1>1 DEF Lock
  <2>2. s \in Sessions /\ sess[s].host = h /\ sess[s].state # "fresh"
    BY <2>1 DEF TypeOK, Entries, EntriesOfHost
  <2>3. UNCHANGED sess /\ Send(f, h, c, s)
    BY <1>1 DEF EnqueueWeak
  <2> HIDE DEF s
  <2>4. sess[s].state \in {"open", "closing"}
    BY <2>1, <2>2 DEF TypeOK, Unopened, Opened
  <2> QED
    BY <2>2, <2>3, <2>4 DEF Alive
<1>2. CASE Lock(h, c) = None
  <2>1. PICK s \in Fresh : /\ sess' = [sess EXCEPT ![s] = [host |-> h, state |-> "open"]]
                           /\ Send(f, h, c, s)
    BY <1>2 DEF EnqueueWeak
  <2>2. /\ s \in Sessions /\ sess[s].state = "fresh" /\ sess'[s].host = h /\ sess'[s].state = "open"
        /\ \A t \in Sessions \ {s} : sess'[t] = sess[t]
    BY <2>1 DEF Fresh, TypeOK
  <2> QED
    BY <2>1, <2>2 DEF Alive
<1> QED
  BY <1>1, <1>2

LEMMA EnqueueOrder ==
  ASSUME OrderInv, NEW f \in Futures, NEW h \in Hosts, NEW c \in Schemes, EnqueueWeak(f, h, c)
  PROVE  OrderInv'
<1> USE DEF OrderInv
<1>1. PICK s \in Sessions :
           /\ sess'[s].host = h /\ sess'[s].state \in {"open", "closing"}
           /\ Alive(s) => sess'[s] = sess[s]
           /\ ~Alive(s) => sess[s].state = "fresh"
           /\ \A t \in Sessions \ {s} : sess'[t] = sess[t]
           /\ Send(f, h, c, s)
  BY EnqueueAnyEffect
<1>2. life[f] = "idle" /\ \A g \in Futures : life[g] = "idle" => f <= g
  BY DEF EnqueueWeak, Lowest
<1>3. /\ conn'[h].session = [conn[h].session EXCEPT ![c] = s]
      /\ conn'[h].queue = Append(conn[h].queue, f)
      /\ \A g \in Hosts \ {h} : conn'[g] = conn[g]
  <2>1. conn \in [Hosts -> Entries] /\ Append(conn[h].queue, f) \in Seq(Futures)
    BY AppendProperties DEF TypeOK, Entries
  <2>2. /\ conn'[h] = [conn[h] EXCEPT !.session[c] = s, !.queue = Append(conn[h].queue, f)]
        /\ \A g \in Hosts \ {h} : conn'[g] = conn[g]
    BY <1>1, <2>1 DEF Send
  <2> QED
    BY <2>1, <2>2 DEF Entries
<1>4. /\ wire'[s] = Append(wire[s], f) /\ \A t \in Sessions \ {s} : wire'[t] = wire[t]
      /\ via'[f] = s /\ \A g \in Futures \ {f} : via'[g] = via[g]
      /\ life'[f] = "live" /\ \A g \in Futures \ {f} : life'[g] = life[g]
      /\ UNCHANGED <<inbox, resp>>
  BY <1>1 DEF Send, TypeOK
<1>5. TypeOK'
  BY TypeStep DEF Next
<1>6. \A g \in Hosts : /\ conn[g].queue \in Seq(Futures) /\ Ascending(conn[g].queue)
                       /\ \A e \in Members(conn[g].queue) : e \in Futures /\ e < f /\ via[e] # None
  <2> SUFFICES ASSUME NEW g \in Hosts
               PROVE  /\ conn[g].queue \in Seq(Futures) /\ Ascending(conn[g].queue)
                      /\ \A e \in Members(conn[g].queue) : e \in Futures /\ e < f /\ via[e] # None
    OBVIOUS
  <2>1. conn[g].queue \in Seq(Futures)
    BY DEF TypeOK, Entries
  <2>2. \A e \in Members(conn[g].queue) : e \in Futures /\ via[e] \in Sessions
    BY <2>1, MembersAreFutures DEF QueuedAreWaiting
  <2>3. \A e \in Members(conn[g].queue) : e \in Futures /\ via[e] # None /\ life[e] # "idle"
    BY <2>2 DEF UnusedAreLast
  <2> QED
    BY <1>2, <2>1, <2>3 DEF QueuesAscend, UnusedAreLast
<1>7. QueuesAscend' /\ Members(conn'[h].queue) = Members(conn[h].queue) \cup {f}
  <2>1. /\ Ascending(conn'[h].queue)
        /\ Members(conn'[h].queue) = Members(conn[h].queue) \cup {f}
    BY <1>3, <1>6, AppendAscends
  <2>2. ASSUME NEW g \in Hosts PROVE Ascending(conn'[g].queue)
    BY <1>3, <1>6, <2>1
  <2> QED
    BY <2>1, <2>2 DEF QueuesAscend, Ascending
<1>8. \A t \in Sessions : /\ sess[t].state # "fresh" => sess'[t].host = sess[t].host
                          /\ sess'[t].state = "fresh" => sess[t].state = "fresh"
  BY <1>1 DEF Alive, TypeOK, Opened
<1>9. EntriesOfHost'
  <2> SUFFICES ASSUME NEW g \in Hosts, NEW d \in Schemes, conn'[g].session[d] # None
               PROVE  /\ sess'[conn'[g].session[d]].host = g
                      /\ sess'[conn'[g].session[d]].state # "fresh"
    BY DEF EntriesOfHost
  <2>1. CASE g = h /\ d = c
    <3>1. conn'[g].session[d] = s
      BY <1>3, <2>1 DEF TypeOK, Entries
    <3> QED
      BY <1>1, <2>1, <3>1
  <2>2. CASE ~(g = h /\ d = c)
    <3>1. conn'[g].session[d] = conn[g].session[d] /\ conn[g].session[d] \in Sessions \cup {None}
      BY <1>3, <2>2 DEF TypeOK, Entries
    <3>2. /\ conn[g].session[d] \in Sessions
          /\ sess[conn[g].session[d]].host = g /\ sess[conn[g].session[d]].state # "fresh"
      BY <3>1 DEF EntriesOfHost
    <3> QED
      BY <1>8, <3>1, <3>2
  <2> QED
    BY <2>1, <2>2
<1>10. NothingOnDeadSessions'
  <2> SUFFICES ASSUME NEW t \in Sessions, ~AliveNext(t)
               PROVE  wire'[t] = <<>> /\ inbox'[t] = <<>>
    BY DEF NothingOnDeadSessions, Alive, AliveNext
  <2>1. t # s /\ ~Alive(t)
    BY <1>1 DEF Alive, AliveNext
  <2> QED
    BY <1>4, <2>1 DEF NothingOnDeadSessions
<1>11. QueuedAreWaiting'
  <2>1. ASSUME NEW g \in Hosts, NEW e \in Members(conn'[g].queue)
        PROVE  resp'[e] = None /\ via'[e] \in Sessions /\ sess'[via'[e]].host = g
    <3>1. CASE e = f
      <4>0. ~(f < f)
        OBVIOUS
      <4>1. g = h
        BY <1>3, <1>6, <2>1, <3>1, <4>0
      <4>2. resp[f] = None
        BY <1>2 DEF UnusedAreLast
      <4> QED
        BY <1>1, <1>4, <3>1, <4>1, <4>2
    <3>2. CASE e # f
      <4>0. e \in Members(conn[g].queue)
        <5>1. CASE g = h
          BY <1>7, <2>1, <3>2, <5>1
        <5>2. CASE g # h
          BY <1>3, <2>1, <5>2
        <5> QED
          BY <5>1, <5>2
      <4>1. e \in Members(conn[g].queue) /\ e \in Futures
        BY <1>6, <4>0
      <4>2. resp[e] = None /\ via[e] \in Sessions /\ sess[via[e]].host = g
        BY <4>1 DEF QueuedAreWaiting
      <4>3. sess[via[e]].state # "fresh"
        <5>1. sess[via[e]] \in Opened \cup {Unopened}
          BY <4>2 DEF TypeOK
        <5>2. sess[via[e]] # Unopened
          BY <4>2, HttpAssumption DEF Unopened
        <5> QED
          BY <5>1, <5>2 DEF Opened
      <4> QED
        BY <1>4, <1>8, <3>2, <4>1, <4>2, <4>3
    <3> QED
      BY <3>1, <3>2
  <2>2. ASSUME NEW t \in Sessions, NEW e \in Members(wire'[t])
        PROVE  via'[e] = t
    <3>1. wire[t] \in Seq(Futures)
      BY DEF TypeOK
    <3>2. Members(wire'[t]) = IF t = s THEN Members(wire[s]) \cup {f} ELSE Members(wire[t])
      <4>1. wire[s] \in Seq(Futures)
        BY DEF TypeOK
      <4>2. Members(Append(wire[s], f)) = Members(wire[s]) \cup {f}
        BY <4>1, AppendMembers
      <4> QED
        BY <1>4, <4>2
    <3>3. e # f => e \in Members(wire[t]) /\ e \in Futures
      BY <2>2, <3>1, <3>2, MembersAreFutures
    <3>4. f \notin Members(wire[t])
      BY <1>2 DEF QueuedAreWaiting, UnusedAreLast
    <3> QED
      BY <1>4, <2>2, <3>2, <3>3, <3>4 DEF QueuedAreWaiting
  <2> QED
    BY <2>1, <2>2 DEF QueuedAreWaiting, Members
<1>12. UnusedAreLast'
  BY <1>2, <1>4 DEF UnusedAreLast
<1> QED
  BY <1>5, <1>7, <1>9, <1>10, <1>11, <1>12

\* The other steps take requests from queues and connections.
LEMMA OrderShrinks ==
  ASSUME OrderInv, TypeOK', UNCHANGED via,
         \A t \in Sessions : /\ sess'[t].host = sess[t].host
                             /\ sess'[t].state = "fresh" => sess[t].state = "fresh",
         \A t \in Sessions : ~AliveNext(t) => wire'[t] = <<>> /\ inbox'[t] = <<>>,
         \A t \in Sessions : Members(wire'[t]) \subseteq Members(wire[t]),
         \A h \in Hosts : /\ Ascending(conn'[h].queue)
                          /\ Members(conn'[h].queue) \subseteq Members(conn[h].queue)
                          /\ \A c \in Schemes : conn'[h].session[c] \in {conn[h].session[c], None},
         \A f \in Futures : life'[f] = "idle" <=> life[f] = "idle",
         \A f \in Futures : \/ resp'[f] = resp[f]
                            \/ /\ life[f] # "idle"
                               /\ \A h \in Hosts : f \notin Members(conn'[h].queue)
  PROVE  OrderInv'
<1> USE DEF OrderInv
<1>1. EntriesOfHost'
  <2> SUFFICES ASSUME NEW h \in Hosts, NEW c \in Schemes, conn'[h].session[c] # None
               PROVE  /\ sess'[conn'[h].session[c]].host = h
                      /\ sess'[conn'[h].session[c]].state # "fresh"
    BY DEF EntriesOfHost
  <2>1. conn'[h].session[c] = conn[h].session[c] /\ conn[h].session[c] \in Sessions
    BY DEF TypeOK, Entries
  <2> QED
    BY <2>1 DEF EntriesOfHost
<1>2. NothingOnDeadSessions'
  BY DEF NothingOnDeadSessions, Alive, AliveNext
<1>3. QueuedAreWaiting'
  <2>1. ASSUME NEW h \in Hosts, NEW e \in Members(conn'[h].queue)
        PROVE  resp'[e] = None /\ via[e] \in Sessions /\ sess'[via[e]].host = h
    <3>1. e \in Members(conn[h].queue)
      BY <2>1
    <3>2. e \in Futures /\ resp[e] = None /\ via[e] \in Sessions /\ sess[via[e]].host = h
      BY <3>1, MembersAreFutures DEF QueuedAreWaiting, TypeOK, Entries
    <3> QED
      BY <2>1, <3>2
  <2>2. \A t \in Sessions : \A e \in Members(wire'[t]) : via[e] = t
    BY DEF QueuedAreWaiting
  <2> QED
    BY <2>1, <2>2 DEF QueuedAreWaiting, Members
<1>4. UnusedAreLast'
  BY DEF UnusedAreLast
<1>5. QueuesAscend'
  BY DEF QueuesAscend, Ascending
<1> QED
  BY <1>1, <1>2, <1>3, <1>4, <1>5

\* A response that comes pops the queue of its host.
LEMMA PoppedOnce ==
  ASSUME OrderInv, NEW s \in Sessions, MessageEvent(s)
  PROVE  /\ \A h \in Hosts : /\ Ascending(conn'[h].queue)
                             /\ Members(conn'[h].queue) \subseteq Members(conn[h].queue)
                             /\ conn'[h].session = conn[h].session
         /\ \A f \in Futures :
              \/ resp'[f] = resp[f]
              \/ /\ resp[f] = None /\ life[f] # "idle"
                 /\ \A h \in Hosts : f \notin Members(conn'[h].queue)
<1> USE DEF OrderInv
<1> DEFINE h == sess[s].host
           q == conn[h].queue
           x == Head(inbox[s]).of
<1>1. inbox[s] # <<>> /\ inbox[s] \in Seq(Messages)
  BY DEF MessageEvent, TypeOK
<1>2. h \in Hosts
  BY <1>1, MessagesComeOnSessions
<1>3. x \in Futures
  <2>1. Head(inbox[s]) \in Messages
    BY <1>1, HeadTailProperties
  <2> QED
    BY <2>1 DEF Messages
<1>4. CASE UNCHANGED <<conn, resp>>
  BY <1>4 DEF QueuesAscend
<1>5. CASE ~UNCHANGED <<conn, resp>>
  <2>1. PopFront(h, x) /\ q # <<>>
    BY <1>5 DEF MessageEvent, SetSingleResponse
  <2> HIDE DEF x
  <2>2. /\ conn'[h].queue = Tail(q) /\ conn'[h].session = conn[h].session
        /\ \A g \in Hosts \ {h} : conn'[g] = conn[g]
        /\ \A f \in Futures : resp'[f] = IF f = Head(q) /\ life[f] = "live" THEN x ELSE resp[f]
    BY <1>2, <1>3, <2>1, PopFrontEffect
  <2>3. q \in Seq(Futures) /\ Ascending(q)
    BY <1>2 DEF TypeOK, Entries, QueuesAscend
  <2>4. /\ Ascending(Tail(q)) /\ Head(q) \in Futures /\ Head(q) \in Members(q)
        /\ Members(Tail(q)) = Members(q) \ {Head(q)}
    BY <2>1, <2>3, TailAscends
  <2>5. resp[Head(q)] = None /\ via[Head(q)] \in Sessions /\ sess[via[Head(q)]].host = h
    BY <1>2, <2>4 DEF QueuedAreWaiting
  <2>6. life[Head(q)] # "idle"
    BY <2>4, <2>5 DEF UnusedAreLast
  <2>7. ASSUME NEW g \in Hosts PROVE Head(q) \notin Members(conn'[g].queue)
    <3>1. CASE g = h
      BY <2>2, <2>4, <3>1
    <3>2. CASE g # h
      <4>1. \A e \in Members(conn[g].queue) : sess[via[e]].host = g
        BY DEF QueuedAreWaiting
      <4> QED
        BY <2>2, <2>5, <3>2, <4>1
    <3> QED
      BY <3>1, <3>2
  <2>8. \A g \in Hosts : /\ Ascending(conn'[g].queue)
                         /\ Members(conn'[g].queue) \subseteq Members(conn[g].queue)
                         /\ conn'[g].session = conn[g].session
    BY <2>2, <2>4 DEF QueuesAscend
  <2> QED
    BY <2>2, <2>5, <2>6, <2>7, <2>8
<1> QED
  BY <1>4, <1>5

\* The end of a connection empties the queue of its host.
LEMMA EmptiedOnce ==
  ASSUME OrderInv, NEW s \in Sessions, CloseEvent(s)
  PROVE  /\ \A h \in Hosts : /\ Ascending(conn'[h].queue)
                             /\ Members(conn'[h].queue) \subseteq Members(conn[h].queue)
                             /\ \A c \in Schemes : conn'[h].session[c] \in {conn[h].session[c], None}
         /\ \A f \in Futures :
              \/ resp'[f] = resp[f]
              \/ /\ resp[f] = None /\ life[f] # "idle"
                 /\ \A h \in Hosts : f \notin Members(conn'[h].queue)
<1> USE DEF OrderInv
<1> DEFINE h == sess[s].host
<1>1. h \in Hosts
  BY OpenedSessions DEF CloseEvent
<1>2. conn'[h] = NoEntry /\ \A g \in Hosts \ {h} : conn'[g] = conn[g]
  BY <1>1 DEF CloseEvent, RemoveConnection, TypeOK
<1>3. /\ Ascending(NoEntry.queue) /\ Members(NoEntry.queue) = {}
      /\ \A c \in Schemes : NoEntry.session[c] = None
  BY EmptyAscends DEF NoEntry
<1>4. \A g \in Hosts : /\ Ascending(conn'[g].queue)
                       /\ Members(conn'[g].queue) \subseteq Members(conn[g].queue)
                       /\ \A c \in Schemes : conn'[g].session[c] \in {conn[g].session[c], None}
  BY <1>2, <1>3 DEF QueuesAscend
<1>5. ASSUME NEW f \in Futures, resp'[f] # resp[f]
      PROVE  /\ resp[f] = None /\ life[f] # "idle"
             /\ \A g \in Hosts : f \notin Members(conn'[g].queue)
  <2>1. f \in Members(conn[h].queue) /\ life[f] = "live"
    BY <1>5 DEF CloseEvent, RemoveConnection, Members
  <2>2. resp[f] = None /\ sess[via[f]].host = h
    BY <1>1, <2>1 DEF QueuedAreWaiting
  <2>3. \A g \in Hosts : f \notin Members(conn'[g].queue)
    BY <1>2, <1>3, <2>2 DEF QueuedAreWaiting
  <2> QED
    BY <2>1, <2>2, <2>3
<1> QED
  BY <1>4, <1>5

LEMMA OrderStep == OrderInv /\ [Next]_vars => OrderInv'
<1> SUFFICES ASSUME OrderInv, [Next]_vars PROVE OrderInv'
  OBVIOUS
<1> USE DEF OrderInv
<1>0. TypeOK'
  BY TypeStep
<1>1. ASSUME NEW f \in Futures, NEW h \in Hosts, NEW c \in Schemes, EnqueueWeak(f, h, c)
      PROVE  OrderInv'
  BY <1>1, EnqueueOrder
<1>2. ASSUME UNCHANGED <<conn, wire, inbox, resp, via>>,
             \A t \in Sessions : /\ sess'[t].host = sess[t].host
                                 /\ sess'[t].state = "fresh" => sess[t].state = "fresh"
                                 /\ ~AliveNext(t) => ~Alive(t),
             \A f \in Futures : life'[f] = "idle" <=> life[f] = "idle"
      PROVE  OrderInv'
  <2>1. \A t \in Sessions : ~AliveNext(t) => wire'[t] = <<>> /\ inbox'[t] = <<>>
    BY <1>2 DEF NothingOnDeadSessions
  <2>2. \A h \in Hosts : Ascending(conn'[h].queue)
    BY <1>2 DEF QueuesAscend
  <2> QED
    BY <1>0, <1>2, <2>1, <2>2, OrderShrinks
<1>3. CASE UNCHANGED vars
  BY <1>2, <1>3 DEF vars, Alive, AliveNext
<1>4. ASSUME NEW f \in Futures, Drop(f) PROVE OrderInv'
  BY <1>2, <1>4 DEF Drop, TypeOK, Alive, AliveNext
<1>5. ASSUME NEW s \in Sessions, Down(s) PROVE OrderInv'
  <2>1. sess'[s] = [host |-> sess[s].host, state |-> "closing"]
    BY <1>5, OpenedSessions DEF Down, TypeOK
  <2>2. \A t \in Sessions \ {s} : sess'[t] = sess[t]
    BY <1>5 DEF Down, TypeOK
  <2> QED
    BY <1>2, <1>5, <2>1, <2>2 DEF Down, Alive, AliveNext
<1>6. ASSUME NEW s \in Sessions, Interim(s) \/ Answer(s) PROVE OrderInv'
  <2>1. /\ sess[s].state = "open" /\ wire[s] # <<>>
        /\ UNCHANGED <<conn, sess, life, resp, via>>
        /\ wire'[s] \in {wire[s], Tail(wire[s])}
        /\ \A t \in Sessions \ {s} : inbox'[t] = inbox[t] /\ wire'[t] = wire[t]
    BY <1>6 DEF Interim, Answer, TypeOK
  <2>2. Members(Tail(wire[s])) \subseteq Members(wire[s])
    BY <2>1, TailMembers DEF TypeOK
  <2>3. \A t \in Sessions : Members(wire'[t]) \subseteq Members(wire[t])
    BY <2>1, <2>2
  <2>4. \A t \in Sessions : ~AliveNext(t) => wire'[t] = <<>> /\ inbox'[t] = <<>>
    BY <2>1 DEF NothingOnDeadSessions, Alive, AliveNext
  <2>5. \A h \in Hosts : Ascending(conn'[h].queue)
    BY <2>1 DEF QueuesAscend
  <2> QED
    BY <1>0, <2>1, <2>3, <2>4, <2>5, OrderShrinks
<1>7. ASSUME NEW s \in Sessions, MessageEvent(s) PROVE OrderInv'
  <2>1. /\ inbox[s] # <<>> /\ \A t \in Sessions \ {s} : inbox'[t] = inbox[t]
        /\ UNCHANGED <<sess, wire, life, via>>
    BY <1>7 DEF MessageEvent, TypeOK
  <2>2. Alive(s)
    BY <2>1, MessagesComeOnSessions
  <2>3. \A t \in Sessions : ~AliveNext(t) => wire'[t] = <<>> /\ inbox'[t] = <<>>
    BY <2>1, <2>2 DEF NothingOnDeadSessions, Alive, AliveNext
  <2> QED
    BY <1>0, <1>7, <2>1, <2>3, PoppedOnce, OrderShrinks
<1>8. ASSUME NEW s \in Sessions, CloseEvent(s) PROVE OrderInv'
  <2>1. /\ sess[s].state = "closing" /\ inbox[s] = <<>> /\ wire'[s] = <<>>
        /\ \A t \in Sessions \ {s} : sess'[t] = sess[t] /\ wire'[t] = wire[t]
        /\ UNCHANGED <<inbox, life, via>>
    BY <1>8 DEF CloseEvent, TypeOK
  <2>2. sess'[s] = [host |-> sess[s].host, state |-> "gone"]
    BY <1>8, <2>1, OpenedSessions DEF CloseEvent, TypeOK
  <2>3. \A t \in Sessions : ~AliveNext(t) => wire'[t] = <<>> /\ inbox'[t] = <<>>
    BY <2>1 DEF NothingOnDeadSessions, Alive, AliveNext
  <2>4. \A t \in Sessions : Members(wire'[t]) \subseteq Members(wire[t])
    BY <2>1, EmptyAscends
  <2>5. \A t \in Sessions : /\ sess'[t].host = sess[t].host
                            /\ sess'[t].state = "fresh" => sess[t].state = "fresh"
    BY <2>1, <2>2
  <2> QED
    BY <1>0, <1>8, <2>1, <2>3, <2>4, <2>5, EmptiedOnce, OrderShrinks
<1> HIDE DEF OrderInv
<1> QED
  BY <1>1, <1>3, <1>4, <1>5, <1>6, <1>7, <1>8 DEF Next

LEMMA OrderInit == Init => OrderInv
<1> SUFFICES ASSUME Init PROVE OrderInv
  OBVIOUS
<1>1. TypeOK
  BY NoEntryType, EmptySeq DEF Init, TypeOK
<1>2. /\ \A h \in Hosts : conn[h].queue = <<>> /\ \A c \in Schemes : conn[h].session[c] = None
      /\ \A s \in Sessions : wire[s] = <<>> /\ inbox[s] = <<>>
      /\ \A f \in Futures : life[f] = "idle" /\ resp[f] = None /\ via[f] = None
  BY DEF Init, NoEntry
<1>3. EntriesOfHost /\ NothingOnDeadSessions /\ QueuedAreWaiting /\ UnusedAreLast /\ QueuesAscend
  BY <1>2, EmptyAscends DEF EntriesOfHost, NothingOnDeadSessions, QueuedAreWaiting, UnusedAreLast,
                            QueuesAscend
<1> QED
  BY <1>1, <1>3 DEF OrderInv

\* An answer goes to a future that has none.
LEMMA NoAnswerChanges ==
  ASSUME OrderInv, [Next]_vars
  PROVE  \A f \in Futures : resp[f] # None => resp'[f] = resp[f]
<1>1. ASSUME NEW s \in Sessions, MessageEvent(s) \/ CloseEvent(s)
      PROVE  \A f \in Futures : resp[f] # None => resp'[f] = resp[f]
  BY <1>1, PoppedOnce, EmptiedOnce
<1>2. ASSUME NEW f \in Futures, Drop(f) \/ \E h \in Hosts, c \in Schemes : EnqueueWeak(f, h, c)
      PROVE  UNCHANGED resp
  BY <1>2 DEF Drop, EnqueueWeak, Send
<1>3. ASSUME NEW s \in Sessions, Interim(s) \/ Answer(s) \/ Down(s)
      PROVE  UNCHANGED resp
  BY <1>3 DEF Interim, Answer, Down
<1>4. UNCHANGED vars => UNCHANGED resp
  BY DEF vars
<1> QED
  BY <1>1, <1>2, <1>3, <1>4 DEF Next

-----------------------------------------------------------------------------
\* The variables of the HTTP requestor keep their types.
THEOREM TypeCorrect == Spec => []TypeOK
<1>1. OrderInv => TypeOK
  BY DEF OrderInv
<1> QED
  BY <1>1, OrderInit, OrderStep, PTL DEF Spec

\* The queue of a host and what its connection has still to answer stay the same, in
\* the same order.
THEOREM QueuesAlign == SingleScheme => (Spec => []QueueAligned)
<1> SUFFICES ASSUME SingleScheme PROVE Spec => []QueueAligned
  OBVIOUS
<1>1. Inv => QueueAligned
  BY DEF Inv
<1> QED
  BY <1>1, Invariance, PTL

\* A future is only ever given the answer to its own request.
THEOREM AnswersMatch == SingleScheme => (Spec => []AnswerIsForRequest)
<1> SUFFICES ASSUME SingleScheme PROVE Spec => []AnswerIsForRequest
  OBVIOUS
<1>1. Inv => AnswerIsForRequest
  BY DEF Inv
<1> QED
  BY <1>1, Invariance, PTL

\* A request fails only with the connection it was sent on, and only unanswered.
THEOREM FailuresHaveCause == SingleScheme => (Spec => []ZeroIfClosed)
<1> SUFFICES ASSUME SingleScheme PROVE Spec => []ZeroIfClosed
  OBVIOUS
<1>1. Inv => ZeroIfClosed
  BY DEF Inv
<1> QED
  BY <1>1, Invariance, PTL

\* An answer that has come is neither replaced nor taken back, not even when two
\* connections share one queue.
THEOREM AnswersAreFinal == Spec => AnswersStay
<1>1. OrderInv /\ [Next]_vars => [\A f \in Futures : resp[f] # None => resp'[f] = resp[f]]_vars
  BY NoAnswerChanges
<1> QED
  BY <1>1, OrderInit, OrderStep, PTL DEF Spec, AnswersStay
=============================================================================
