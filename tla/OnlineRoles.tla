------------------------------ MODULE OnlineRoles ------------------------------
(***************************************************************************)
(* What a logic server promises to agents about the roles that are online  *)
(* there, without objects, fibers, queries and answers.  A role comes      *)
(* online by a login and no sooner than its last logout is over; it may    *)
(* change agents while it is online; it leaves when that is asked for, or  *)
(* when no agent has had it for disconnect_to_logout_duration without a    *)
(* break.  LogicRoles implements this.                                     *)
(***************************************************************************)
CONSTANTS Roles, Agents, None

VARIABLES
  phase,  \* roles: "out", "in", and "asked" or "silent" while being logged out
  agent,  \* roles: the agent of an online role, or None
  idle    \* roles that have been disconnected for disconnect_to_logout_duration

vars == <<phase, agent, idle>>

Init ==
  /\ phase = [r \in Roles |-> "out"]
  /\ agent = [r \in Roles |-> None]
  /\ idle = {}

Login(r, a) ==
  /\ phase[r] = "out"
  /\ phase' = [phase EXCEPT ![r] = "in"]
  /\ agent' = [agent EXCEPT ![r] = a]
  /\ UNCHANGED idle

\* A login, a reconnect or a disconnect of a role that is online; a disconnected
\* one starts its time anew.
Attach(r, a) ==
  /\ phase[r] = "in"
  /\ agent' = [agent EXCEPT ![r] = a]
  /\ idle' = idle \ {r}
  /\ UNCHANGED phase

\* Nothing is promised of how long that takes: a role that its agent denies has been
\* disconnected since the tick that asked, somewhat longer than anyone knows.
Elapse(r) ==
  /\ phase[r] = "in" /\ agent[r] = None
  /\ idle' = idle \cup {r}
  /\ UNCHANGED <<phase, agent>>

Logout(r, why) ==
  /\ phase[r] = "in"
  /\ why = "silent" => agent[r] = None /\ r \in idle
  /\ phase' = [phase EXCEPT ![r] = why]
  /\ agent' = [agent EXCEPT ![r] = None]
  /\ idle' = idle \ {r}

\* The role has been written to Redis, or that has failed.
Left(r) ==
  /\ phase[r] \in {"asked", "silent"}
  /\ phase' = [phase EXCEPT ![r] = "out"]
  /\ UNCHANGED <<agent, idle>>

Next == \E r \in Roles :
  \/ \E a \in Agents : Login(r, a)
  \/ \E a \in Agents \cup {None} : Attach(r, a)
  \/ \E why \in {"asked", "silent"} : Logout(r, why)
  \/ Elapse(r) \/ Left(r)

Spec == Init /\ [][Next]_vars
=============================================================================
