-------------------------- MODULE AgentEventsProofs --------------------------
(***************************************************************************)
(* The watcher, its handlers and the pollers add nothing to what the agent *)
(* manager can do: whatever is proved of the manager's specification holds *)
(* of the system they belong to.                                           *)
(***************************************************************************)
EXTENDS AgentEvents, AgentManagerProofs

(* A stop that was decided on finds a session or an empty slot. *)
LEMMA StopsAreStops ==
  ASSUME \/ \E s \in Sessions : Deliver(s)
         \/ \E k \in Tasks : DeliverTaskStop(k)
  PROVE  StopAgent \/ UNCHANGED vars
BY DEF Deliver, DeliverTaskStop, StopAgentForTask

(* What only decides, or writes signal files, leaves the manager alone. *)
LEMMA DecidingIsSilent ==
  ASSUME \/ \E s \in Sessions : AgentSignals(s) \/ PollSignal(s) \/ PollTask(s)
         \/ \E phase \in Signalling : PhaseEnded(phase)
         \/ \E k \in Tasks : SeesTaskDone(k)
  PROVE  UNCHANGED vars
<1>1. \A k : SeesTaskDone(k) => UNCHANGED vars
  BY DEF SeesTaskDone
<1> QED BY <1>1 DEF AgentSignals, PollSignal, PollTask, PhaseEnded

(* The system with its watcher and pollers is a behaviour of the manager:   *)
(* each of its steps is a step of the manager or none.                      *)
THEOREM EventsImplementManager == EvSpec => ImplementsManager
<1>1. EvInit => Init
  BY DEF EvInit
<1>2. [EvNext]_evVars => [Next]_vars
  <2> SUFFICES ASSUME [EvNext]_evVars PROVE Next \/ UNCHANGED vars
    OBVIOUS
  <2>1. CASE Manages /\ UNCHANGED files
    BY <2>1 DEF Manages, Next
  <2>2. CASE \E s \in Sessions : AgentSignals(s) \/ PollSignal(s) \/ PollTask(s) \/ Deliver(s)
    <3>1. PICK s \in Sessions : AgentSignals(s) \/ PollSignal(s) \/ PollTask(s) \/ Deliver(s)
      BY <2>2
    <3>2. CASE Deliver(s)
      BY <3>2, StopsAreStops DEF Next
    <3>3. CASE ~Deliver(s)
      BY <3>1, <3>3, DecidingIsSilent
    <3> QED BY <3>2, <3>3
  <2>3. CASE \E phase \in Signalling : PhaseEnded(phase)
    BY <2>3, DecidingIsSilent
  <2>4. CASE \E k \in Tasks : SeesTaskDone(k) \/ DeliverTaskStop(k)
    <3>1. PICK k \in Tasks : SeesTaskDone(k) \/ DeliverTaskStop(k)
      BY <2>4
    <3>2. CASE SeesTaskDone(k)
      BY <3>2, DecidingIsSilent
    <3>3. CASE DeliverTaskStop(k)
      BY <3>3, StopsAreStops DEF Next
    <3> QED BY <3>1, <3>2, <3>3
  <2>5. CASE UNCHANGED evVars
    BY <2>5 DEF evVars
  <2> QED BY <2>1, <2>2, <2>3, <2>4, <2>5 DEF EvNext
<1> QED BY <1>1, <1>2, PTL DEF EvSpec, Spec, ImplementsManager

(* So a late or misdirected stop never leaves an agent running outside the  *)
(* slot, never lets a run somebody stopped chain on, never restarts a task  *)
(* beyond the limit, and never has a run announced twice or not at all.     *)
COROLLARY EventsKeepRuns ==
  EvSpec => /\ OneSlot
            /\ [](LiveAgentOwnsSlot /\ SlotIsMonitored /\ StoppedRunEnds /\ ChatNeverKillsWork)
            /\ [](ReportedOnce /\ EndedRunReported /\ LoneRunRestartsBounded)
<1>1. Spec => [](LiveAgentOwnsSlot /\ SlotIsMonitored /\ StoppedRunEnds /\ ChatNeverKillsWork)
  BY LiveOwnsSlot, SlotMonitored, StoppedRunsEnd, ChatsKillNoWork, PTL
<1>2. Spec => [](ReportedOnce /\ EndedRunReported /\ LoneRunRestartsBounded)
  BY RunsReportedOnce, RunsReported, RestartsLimited, PTL
<1> QED BY EventsImplementManager, ImplementsOneSlot, <1>1, <1>2, PTL DEF ImplementsManager
===============================================================================
