------------------------------ MODULE AgentSlot ------------------------------
(***************************************************************************)
(* What the agent manager promises about one project, whatever clients,    *)
(* monitors and chains do: the project has one slot, a session enters it   *)
(* only when it is empty, a session that has left never comes back, and    *)
(* only a session whose process is dead gives the slot up.                 *)
(***************************************************************************)
CONSTANTS Sessions, None

VARIABLES
  holder,  \* the session in the slot, or None
  live,    \* the sessions whose process is running
  used     \* the sessions that were ever started

slotVars == <<holder, live, used>>

Init ==
  /\ holder = None
  /\ live = {}
  /\ used = {}

Acquire(s) ==
  /\ holder = None
  /\ s \notin used
  /\ holder' = s
  /\ live' = live \cup {s}
  /\ used' = used \cup {s}

Die(s) ==
  /\ s \in live
  /\ live' = live \ {s}
  /\ UNCHANGED <<holder, used>>

Release ==
  /\ holder # None
  /\ holder \notin live
  /\ holder' = None
  /\ UNCHANGED <<live, used>>

Next ==
  \/ \E s \in Sessions : Acquire(s) \/ Die(s)
  \/ Release

Spec == Init /\ [][Next]_slotVars
==============================================================================
