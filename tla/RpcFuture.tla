------------------------------- MODULE RpcFuture -------------------------------
(***************************************************************************)
(* What `Service::launch` promises to the fiber that called it, without    *)
(* sessions, records, tasks or timers: a request goes to a set of target   *)
(* services, every target ends up answered or failed, and the future is    *)
(* complete from exactly the moment the last target is.  A target is only  *)
(* ever answered by a handler that ran for this very request.              *)
(***************************************************************************)
CONSTANTS Futures, Services

VARIABLES
  life,      \* [Futures -> {"idle", "live", "gone"}], "gone": the caller let go of it
  wanted,    \* [Futures -> SUBSET Services], the multicast list
  outcome,   \* [Futures -> [Services -> {"pending", "answered", "failed"}]]
  complete,  \* [Futures -> BOOLEAN], what the waiting fiber is woken by
  served     \* the requests whose handler has run to its end

vars == <<life, wanted, outcome, complete, served>>

Pairs == Futures \X Services

Init ==
  /\ life = [f \in Futures |-> "idle"]
  /\ wanted = [f \in Futures |-> {}]
  /\ outcome = [f \in Futures |-> [t \in Services |-> "pending"]]
  /\ complete = [f \in Futures |-> FALSE]
  /\ served = {}

\* Launch f at the services in ts; those in failed fail at once.
Launch(f, ts, failed) ==
  /\ life[f] = "idle"
  /\ failed \subseteq ts
  /\ life' = [life EXCEPT ![f] = "live"]
  /\ wanted' = [wanted EXCEPT ![f] = ts]
  /\ outcome' = [outcome EXCEPT ![f] = [t \in Services |-> IF t \in failed THEN "failed" ELSE "pending"]]
  /\ complete' = [complete EXCEPT ![f] = (failed = ts)]
  /\ UNCHANGED served

\* A remote handler runs to its end, at most once for a request, whether or
\* not anyone still waits for its answer.
Serve(r) ==
  /\ life[r[1]] # "idle"
  /\ r \notin served
  /\ served' = served \cup {r}
  /\ UNCHANGED <<life, wanted, outcome, complete>>

\* Targets in `pairs` of live futures all get result v in one step.
Conclude(pairs, v) ==
  /\ \A r \in pairs : life[r[1]] = "live" /\ r[2] \in wanted[r[1]]
  /\ outcome' = [f \in Futures |-> [t \in Services |->
                   IF <<f, t>> \in pairs THEN v ELSE outcome[f][t]]]
  /\ complete' = [f \in Futures |-> complete[f] \/
                   ( /\ \E t \in Services : <<f, t>> \in pairs
                     /\ \A t \in wanted[f] : outcome'[f][t] # "pending" )]
  /\ UNCHANGED <<life, wanted>>

\* A remote answer arrives after its handler ran; a handler of the caller's
\* own process runs and answers in one step.
Answer(r) ==
  /\ served' = served \cup {r}
  /\ Conclude({r}, "answered")

\* The way to some services is lost.  A target that had answered loses its
\* answer too: the code marks every response of a lost service as failed.
Lose(pairs) == Conclude(pairs, "failed") /\ UNCHANGED served

\* The caller lets go of the future; nobody can see it any more.
Drop(f) ==
  /\ life[f] = "live"
  /\ life' = [life EXCEPT ![f] = "gone"]
  /\ wanted' = [wanted EXCEPT ![f] = {}]
  /\ outcome' = [outcome EXCEPT ![f] = [t \in Services |-> "pending"]]
  /\ complete' = [complete EXCEPT ![f] = FALSE]
  /\ UNCHANGED served

Next ==
  \/ \E f \in Futures, ts, failed \in SUBSET Services : Launch(f, ts, failed)
  \/ \E r \in Pairs : Serve(r) \/ Answer(r)
  \/ \E pairs \in SUBSET Pairs : Lose(pairs)
  \/ \E f \in Futures : Drop(f)

Spec == Init /\ [][Next]_vars
=============================================================================
