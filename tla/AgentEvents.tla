----------------------------- MODULE AgentEvents -----------------------------
(***************************************************************************)
(* What makes a session stop when its work is done: the task files and the *)
(* phase signal files the agent writes, the file watcher's events with     *)
(* their handlers (server.go), and the pollers that back the watcher up    *)
(* (manager.go).  Handlers and pollers only decide; the stop itself runs   *)
(* in a goroutine of its own and may come much later.                      *)
(***************************************************************************)
EXTENDS AgentManager

VARIABLES
  signals,   \* phases whose signal file exists
  events,    \* phase events on their way from the watcher to its handler
  stops,     \* StopAgent calls under way, by the session they are meant for
  doneStops  \* tasks with a StopAgentForTask call under way

files  == <<signals, events, stops, doneStops>>
evVars == <<vars, files>>

Signalling == {"refine", "generate"}

EvInit ==
  /\ Init
  /\ signals = {} /\ events = {} /\ stops = {} /\ doneStops = {}

(* The agent ends a wildfire phase by creating its signal file.  The       *)
(* watcher notices the file or misses it.                                  *)
AgentSignals(s) ==
  /\ proc[s] = "running"
  /\ info[s].phase \in Signalling
  /\ signals' = signals \cup {info[s].phase}
  /\ \/ events' = events \cup {info[s].phase}
     \/ events' = events
  /\ UNCHANGED <<vars, stops, doneStops>>

(* handlePhaseEnded: the file is deleted in every case, and the session is *)
(* stopped if it is in the phase the event is about.                       *)
PhaseEnded(phase) ==
  /\ phase \in events
  /\ events' = events \ {phase}
  /\ signals' = signals \ {phase}
  /\ stops' = IF slot # None /\ info[slot].mode = "wildfire" /\ info[slot].phase = phase
              THEN stops \cup {slot}
              ELSE stops
  /\ UNCHANGED <<vars, doneStops>>

(* Mutant: the refine phase has no poller. *)
PollSignalGenerate(s) ==
  /\ proc[s] = "running"
  /\ info[s].phase = "generate" /\ "generate" \in signals
  /\ signals' = signals \ {"generate"}
  /\ stops' = stops \cup {s}
  /\ UNCHANGED <<vars, events, doneStops>>

(* pollSignalFile of session s, until its process is dead. *)
PollSignal(s) ==
  /\ proc[s] = "running"
  /\ info[s].mode = "wildfire"
  /\ info[s].phase \in signals
  /\ signals' = signals \ {info[s].phase}
  /\ stops' = stops \cup {s}
  /\ UNCHANGED <<vars, events, doneStops>>

(* Mutant: the call is StopAgentByUser, which marks the session as stopped. *)
DeliverByUser(s) ==
  /\ s \in stops
  /\ stops' = stops \ {s}
  /\ IF slot = None THEN UNCHANGED vars
     ELSE /\ stopped' = stopped \cup {slot} /\ term' = term \cup {slot}
          /\ UNCHANGED <<slot, proc, info, marks, pc, calling, board, reports, daemon, calls>>
  /\ UNCHANGED <<signals, events, doneStops>>

(* StopAgent(project) gets the lock.  It was decided on for session s, but *)
(* stops whatever session it finds.                                        *)
Deliver(s) ==
  /\ s \in stops
  /\ stops' = stops \ {s}
  /\ IF slot = None THEN UNCHANGED vars ELSE StopAgent
  /\ UNCHANGED <<signals, events, doneStops>>

(* handleTaskChanged or pollTaskStatus finds the task done. *)
SeesTaskDone(k) ==
  /\ board[k] = "done"
  /\ doneStops' = doneStops \cup {k}
  /\ UNCHANGED <<vars, signals, events, stops>>

(* Mutant: only single-task sessions are polled. *)
PollTaskSingle(s) ==
  /\ proc[s] = "running"
  /\ info[s].mode = "task"
  /\ SeesTaskDone(info[s].task)

(* The watcher tells of every write of the file; the poller looks only as  *)
(* long as its session's process lives.                                    *)
PollTask(s) ==
  /\ proc[s] = "running"
  /\ info[s].task > 0
  /\ SeesTaskDone(info[s].task)

DeliverTaskStop(k) ==
  /\ k \in doneStops
  /\ doneStops' = doneStops \ {k}
  /\ IF slot # None /\ info[slot].task = k THEN StopAgentForTask(k) ELSE UNCHANGED vars
  /\ UNCHANGED <<signals, events, stops>>

(* Steps of the manager, its clients and the agents. *)
Manages ==
  \/ \E t \in Threads : StartAgent(t)
  \/ \E c \in Clients :
       CallStart(c) \/ CallStop(c) \/ CallRetry(c) \/ CallShutdown(c)
  \/ \E s \in Sessions : Monitor(s) \/ Exit(s) \/ AgentWrites(s)
  \/ StopAllReturns

EvNext ==
  \/ Manages /\ UNCHANGED files
  \/ \E s \in Sessions :
       AgentSignals(s) \/ PollSignal(s) \/ PollTask(s) \/ Deliver(s)
  \/ \E phase \in Signalling : PhaseEnded(phase)
  \/ \E k \in Tasks : SeesTaskDone(k) \/ DeliverTaskStop(k)

EvSpec == EvInit /\ [][EvNext]_evVars

(* The pollers tick and the goroutines run; the watcher's events may stay  *)
(* away for ever.                                                          *)
EvFairness ==
  /\ \A t \in Threads : WF_evVars(StartAgent(t) /\ UNCHANGED files)
  /\ \A s \in Sessions :
       /\ WF_evVars(Monitor(s) /\ UNCHANGED files)
       /\ WF_evVars(s \in term /\ Exit(s) /\ UNCHANGED files)
       /\ WF_evVars(PollSignal(s)) /\ WF_evVars(PollTask(s))
       /\ WF_evVars(Deliver(s))
  /\ \A phase \in Signalling : WF_evVars(PhaseEnded(phase))
  /\ \A k \in Tasks : WF_evVars(DeliverTaskStop(k))

EvFairSpec == EvSpec /\ EvFairness

-------------------------------------------------------------------------------
EvTypeOK ==
  /\ TypeOK
  /\ signals \subseteq Signalling /\ events \subseteq Signalling
  /\ stops \subseteq Sessions /\ doneStops \subseteq Tasks

(* To the manager all of this is StopAgent at some time: what handlers and *)
(* pollers decide, however late it arrives, ends a session like an exit of *)
(* its own, so that a run chains on, and never marks it as stopped by a    *)
(* user (server.go calls StopAgent and StopAgentForTask alone).            *)
ImplementsManager == Spec

(* A session whose task is done is stopped even if the watcher misses it   *)
(* (unless the task is put back to work first).                            *)
OnDoneTask(s) == proc[s] = "running" /\ info[s].task \in With("done")
DoneTaskEndsSession == \A s \in Sessions : OnDoneTask(s) ~> ~OnDoneTask(s)

(* A wildfire session that signalled the end of its phase is stopped even  *)
(* if the watcher misses the file.                                         *)
SignalEndsPhase == \A s \in Sessions :
  proc[s] = "running" /\ info[s].mode = "wildfire" /\ info[s].phase \in signals
    ~> proc[s] # "running"
===============================================================================
