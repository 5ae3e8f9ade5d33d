-------------------------- MODULE AgentManagerProofs --------------------------
(***************************************************************************)
(* Theorems about AgentManager, for every number of clients, sessions,     *)
(* tasks and calls.                                                        *)
(***************************************************************************)
EXTENDS AgentManager, TLAPS

(* The options a StartAgent call can carry are StartOptions. *)
LEMMA OptsTyped ==
  ASSUME NEW mode \in Modes, NEW phase \in Phases, NEW task \in 0..NumTasks
  PROVE  Opts(mode, phase, task) \in Options
BY ConstantsOK DEF Opts, Options, None

LEMMA NoCallTyped == NoCall \in Options
BY OptsTyped, ConstantsOK DEF NoCall, Modes, Phases

LEMMA BoardOptsTyped ==
  /\ StartAllOpts \subseteq Options
  /\ WildfireOpts \subseteq Options
<1>1. ASSUME NEW status, NEW k \in Least(With(status)) PROVE k \in 0..NumTasks
  BY <1>1, ConstantsOK DEF Least, With, Tasks
<1>2. StartAllOpts \subseteq Options
  <2> SUFFICES ASSUME NEW k \in Least(With("ready"))
               PROVE  Opts("start-all", "none", k) \in Options
    BY DEF StartAllOpts
  <2> QED BY <1>1, OptsTyped DEF Modes, Phases
<1>3. WildfireOpts \subseteq Options
  <2>1. ASSUME NEW k \in Least(With("ready"))
        PROVE  Opts("wildfire", "execute", k) \in Options
    BY <1>1, OptsTyped DEF Modes, Phases
  <2>2. ASSUME NEW k \in Least(With("draft"))
        PROVE  Opts("wildfire", "refine", k) \in Options
    BY <1>1, OptsTyped DEF Modes, Phases
  <2>3. Opts("wildfire", "generate", 0) \in Options
    BY OptsTyped, ConstantsOK DEF Modes, Phases
  <2> QED BY <2>1, <2>2, <2>3 DEF WildfireOpts
<1> QED BY <1>2, <1>3

LEMMA RequestedTyped ==
  ASSUME NEW mode \in Modes PROVE Requested(mode) \subseteq Options
<1>1. {Opts("task", "none", k) : k \in With("ready") \cup With("draft")} \subseteq Options
  <2> SUFFICES ASSUME NEW k \in With("ready") \cup With("draft")
               PROVE  Opts("task", "none", k) \in Options
    OBVIOUS
  <2> k \in 0..NumTasks BY ConstantsOK DEF With, Tasks
  <2> QED BY OptsTyped DEF Modes, Phases
<1>2. Opts(mode, "none", 0) \in Options
  BY OptsTyped, ConstantsOK DEF Phases
<1>3. {Opts("chat", "none", k) : k \in 0..NumTasks} \subseteq Options
  BY OptsTyped DEF Modes, Phases
<1> QED BY <1>1, <1>2, <1>3, BoardOptsTyped DEF Requested

LEMMA NextTaskTyped == ASSUME NEW o PROVE NextTask(o) \subseteq Options
BY BoardOptsTyped, NoCallTyped DEF NextTask

-------------------------------------------------------------------------------
(* Type correctness. *)

LEMMA StartFailsTyped ==
  ASSUME TypeOK, NEW t \in Threads, StartFails(t)
  PROVE  /\ pc' \in [Threads -> PCs] /\ opts' \in [Threads -> Options]
         /\ victim' \in [Threads -> 0..MaxSessions]
         /\ reports' \in [Sessions -> 0..2]
         /\ slot' = slot /\ proc' = proc /\ info' = info /\ board' = board
<1>1. AfterStart(t) \in PCs BY DEF AfterStart, PCs
<1>2. pc' \in [Threads -> PCs] BY <1>1 DEF TypeOK, StartFails
<1>3. opts' \in [Threads -> Options] /\ victim' \in [Threads -> 0..MaxSessions]
  BY NoCallTyped, ConstantsOK DEF TypeOK, StartFails, Returns, None
<1>4. reports' \in [Sessions -> 0..2]
  BY DEF TypeOK, StartFails, Report
<1> QED BY <1>2, <1>3, <1>4 DEF StartFails

LEMMA RegisterTyped ==
  ASSUME TypeOK, NEW t \in Threads, Register(t)
  PROVE  /\ pc' \in [Threads -> PCs] /\ opts' \in [Threads -> Options]
         /\ victim' \in [Threads -> 0..MaxSessions]
         /\ reports' \in [Sessions -> 0..2]
         /\ slot' \in 0..MaxSessions
         /\ proc' \in [Sessions -> {"unborn", "running", "exited"}]
         /\ info' \in [Sessions -> Options]
         /\ board' \in [Tasks -> Statuses]
<1>1. PICK n \in Sessions :
        /\ slot' = n
        /\ proc' = [proc EXCEPT ![n] = "running"]
        /\ info' = [info EXCEPT ![n] =
             [opts[t] EXCEPT !.run = IF @ = None THEN n ELSE @]]
        /\ pc' = [pc EXCEPT ![t] = AfterStart(t), ![n] = "wait"]
        /\ board' = IF TaskScoped(opts[t]) /\ board[opts[t].task] = "draft"
                    THEN [board EXCEPT ![opts[t].task] = "ready"]
                    ELSE board
        /\ Returns(t)
        /\ UNCHANGED reports
  BY Zenon DEF Register
<1>2. pc' \in [Threads -> PCs]
  BY <1>1 DEF TypeOK, AfterStart, PCs
<1>3. opts' \in [Threads -> Options] /\ victim' \in [Threads -> 0..MaxSessions]
  BY <1>1, NoCallTyped, ConstantsOK DEF TypeOK, Returns, None
<1>4. [opts[t] EXCEPT !.run = IF @ = None THEN n ELSE @] \in Options
  <2>1. opts[t] \in Options
    BY DEF TypeOK
  <2>2. n \in 0..MaxSessions
    BY DEF Sessions
  <2>3. ASSUME NEW o \in Options
        PROVE  [o EXCEPT !.run = IF @ = None THEN n ELSE @] \in Options
    BY <2>2 DEF Options
  <2> QED BY <2>1, <2>3
<1>5. info' \in [Sessions -> Options]
  BY <1>1, <1>4 DEF TypeOK
<1>6. board' \in [Tasks -> Statuses]
  BY <1>1 DEF TypeOK, Statuses
<1>7. slot' \in 0..MaxSessions
  BY <1>1 DEF Sessions
<1>8. proc' \in [Sessions -> {"unborn", "running", "exited"}]
  BY <1>1 DEF TypeOK
<1>9. reports' \in [Sessions -> 0..2]
  BY <1>1 DEF TypeOK
<1> QED BY <1>2, <1>3, <1>5, <1>6, <1>7, <1>8, <1>9
LEMMA ReportTyped ==
  ASSUME TypeOK, NEW run \in 0..MaxSessions, NEW mode, Report(run, mode)
  PROVE  reports' \in [Sessions -> 0..2]
<1>1. CASE reports' = reports
  BY <1>1 DEF TypeOK
<1>2. CASE reports[run] < 2 /\ reports' = [reports EXCEPT ![run] = @ + 1]
  <2>1. ASSUME NEW s \in Sessions PROVE reports'[s] \in 0..2
    BY <1>2 DEF TypeOK
  <2>2. reports' = [s \in Sessions |-> reports'[s]]
    BY <1>2 DEF TypeOK
  <2> QED BY <2>1, <2>2
<1> QED BY <1>1, <1>2, Zenon DEF Report

LEMMA LaunchTyped ==
  ASSUME TypeOK, NEW t \in Threads, Launch(t) \/ StartFails(t)
  PROVE  /\ pc' \in [Threads -> PCs] /\ opts' \in [Threads -> Options]
         /\ victim' \in [Threads -> 0..MaxSessions]
         /\ reports' \in [Sessions -> 0..2]
         /\ slot' \in 0..MaxSessions
         /\ proc' \in [Sessions -> {"unborn", "running", "exited"}]
         /\ info' \in [Sessions -> Options]
         /\ board' \in [Tasks -> Statuses]
<1>1. CASE StartFails(t) BY <1>1, StartFailsTyped DEF TypeOK
<1>2. CASE Register(t) BY <1>2, RegisterTyped
<1> QED BY <1>1, <1>2, Zenon DEF Launch

LEMMA TypeInit == Init => TypeOK
<1> SUFFICES ASSUME Init PROVE TypeOK
  OBVIOUS
<1>1. info \in [Sessions -> Options] /\ opts \in [Threads -> Options]
  BY NoCallTyped DEF Init
<1>2. pc \in [Threads -> PCs]
  BY DEF Init, PCs
<1>3. board \in [Tasks -> Statuses]
  BY DEF Init, Statuses
<1>4. restarts \in Nat /\ calls \in 0..MaxCalls
  BY ConstantsOK DEF Init
<1>5. slot \in 0..MaxSessions /\ victim \in [Threads -> 0..MaxSessions]
  BY ConstantsOK DEF Init, None
<1>6. /\ proc \in [Sessions -> {"unborn", "running", "exited"}]
      /\ reports \in [Sessions -> 0..2]
  BY DEF Init
<1>7. /\ stopped \subseteq Sessions /\ term \subseteq Sessions
      /\ chaining \in BOOLEAN /\ replacing \in BOOLEAN /\ preflight \in BOOLEAN
      /\ shutdown \in {"up", "stopping", "down"} /\ collected \subseteq Sessions
  BY DEF Init
<1> QED BY <1>1, <1>2, <1>3, <1>4, <1>5, <1>6, <1>7 DEF TypeOK

LEMMA TypeStart ==
  ASSUME TypeOK, NEW t \in Threads, StartAgent(t) PROVE TypeOK'
<1>1. CASE PreflightDenies(t)
  BY <1>1, LaunchTyped DEF PreflightDenies, TypeOK, daemon
<1>2. CASE GateRefuses(t)
  BY <1>2, LaunchTyped DEF GateRefuses, PassesPreflight, TypeOK, daemon
<1>3. CASE GateLaunches(t)
  BY <1>3, LaunchTyped DEF GateLaunches, PassesPreflight, TypeOK, daemon
<1>4. CASE GateReplaces(t)
  <2>1. slot \in Sessions
    BY <1>4, ConstantsOK DEF GateReplaces, TypeOK, Sessions, None
  <2>2. pc' \in [Threads -> PCs]
    BY <1>4 DEF GateReplaces, TypeOK, PCs
  <2>3. victim' \in [Threads -> 0..MaxSessions]
    BY <1>4 DEF GateReplaces, TypeOK
  <2>4. stopped' \subseteq Sessions /\ term' \subseteq Sessions
    BY <1>4, <2>1 DEF GateReplaces, TypeOK
  <2>5. preflight' \in BOOLEAN /\ replacing' \in BOOLEAN
    BY <1>4 DEF GateReplaces, PassesPreflight
  <2> QED
    BY <1>4, <2>2, <2>3, <2>4, <2>5 DEF GateReplaces, TypeOK, daemon
<1>5. CASE VictimDead(t)
  BY <1>5 DEF VictimDead, TypeOK, agents, marks, calling, daemon, PCs
<1>6. CASE PollEnds(t)
  BY <1>6 DEF PollEnds, TypeOK, agents, marks, calling, daemon, PCs
<1>7. CASE Relock(t)
  <2>1. Launch(t) \/ StartFails(t)
    BY <1>7 DEF Relock
  <2> QED BY <1>7, <2>1, LaunchTyped DEF Relock, TypeOK, daemon
<1> QED BY <1>1, <1>2, <1>3, <1>4, <1>5, <1>6, <1>7 DEF StartAgent

LEMMA TypeCall ==
  ASSUME TypeOK, NEW c \in Clients,
         CallStart(c) \/ CallStop(c) \/ CallRetry(c) \/ CallShutdown(c)
  PROVE  TypeOK'
<1>1. ASSUME NEW request, MayCall(c, request) PROVE calls' \in 0..MaxCalls
  BY <1>1, ConstantsOK DEF MayCall, TypeOK
<1>2. slot # None => slot \in Sessions
  BY ConstantsOK DEF TypeOK, Sessions, None
<1>3. CASE CallStart(c)
  <2>1. PICK mode \in Modes, sandbox \in Sandboxes :
          /\ MayCall(c, mode)
          /\ \E o \in Requested(mode) :
               opts' = [opts EXCEPT ![c] = [o EXCEPT !.sandbox = sandbox]]
          /\ pc' = [pc EXCEPT ![c] = "gate"]
          /\ UNCHANGED <<agents, marks, victim, board, reports, daemon>>
    BY <1>3, Zenon DEF CallStart
  <2>2. PICK o \in Options :
          opts' = [opts EXCEPT ![c] = [o EXCEPT !.sandbox = sandbox]]
    BY <2>1, RequestedTyped
  <2>3. [o EXCEPT !.sandbox = sandbox] \in Options
    BY ConstantsOK DEF Options
  <2>4. calls' \in 0..MaxCalls
    BY <2>1, <1>1
  <2> QED
    BY <2>1, <2>2, <2>3, <2>4 DEF TypeOK, agents, marks, daemon, PCs
<1>4. CASE CallStop(c)
  BY <1>1, <1>2, <1>4 DEF CallStop, TypeOK, marks, calling, daemon
<1>5. CASE CallRetry(c)
  <2>1. board' \in [Tasks -> Statuses]
    BY <1>5 DEF CallRetry, TypeOK, Statuses
  <2>2. calls' \in 0..MaxCalls
    BY <1>1, <1>5 DEF CallRetry
  <2> QED
    BY <1>5, <2>1, <2>2 DEF CallRetry, TypeOK, agents, marks, calling, daemon
<1>6. CASE CallShutdown(c)
  <2>1. collected' \subseteq Sessions
    BY <1>2, <1>6 DEF CallShutdown
  <2>2. calls' \in 0..MaxCalls
    BY <1>1, <1>6 DEF CallShutdown
  <2> QED
    BY <1>6, <2>1, <2>2 DEF CallShutdown, TypeOK, marks, calling
<1> QED BY <1>3, <1>4, <1>5, <1>6

LEMMA TypeAgent ==
  ASSUME TypeOK, NEW s \in Sessions, Exit(s) \/ AgentWrites(s) PROVE TypeOK'
<1>1. CASE Exit(s)
  BY <1>1 DEF Exit, TypeOK, marks, calling, daemon
<1>2. CASE AgentWrites(s)
  <2>1. board' \in [Tasks -> Statuses]
    BY <1>2 DEF AgentWrites, TypeOK, Statuses
  <2> QED BY <1>2, <2>1 DEF AgentWrites, TypeOK, agents, marks, calling, daemon
<1> QED BY <1>1, <1>2

LEMMA TypeMonitor ==
  ASSUME TypeOK, NEW s \in Sessions, Monitor(s) PROVE TypeOK'
<1> s \in Threads
  BY DEF Threads
<1> USE DEF TypeOK, agents, marks, calling, daemon
<1>0. info[s] \in Options /\ info[s].run \in 0..MaxSessions
  BY DEF Options
<1>1. CASE Exited(s)
  BY <1>1 DEF Exited, PCs
<1>2. CASE TaskDone(s)
  BY <1>2 DEF TaskDone, PCs
<1>3. CASE DecideChain(s)
  BY <1>3, ConstantsOK DEF DecideChain, PCs, None
<1>4. CASE DecideEnd(s)
  <2>1. reports' \in [Sessions -> 0..2]
    BY <1>0, <1>4, ReportTyped DEF DecideEnd
  <2> QED BY <1>4, <2>1, ConstantsOK DEF DecideEnd, PCs, None
<1>5. CASE NextNone(s)
  <2>1. reports' \in [Sessions -> 0..2]
    BY <1>0, <1>5, ReportTyped DEF NextNone
  <2> QED BY <1>5, <2>1 DEF NextNone, PCs
<1>6. CASE NextSome(s)
  <2>1. PICK o \in NextTask(info[s]) : NextGivesUp(s, o) \/ NextContinues(s, o)
    BY <1>6 DEF NextSome
  <2>2. o \in Options
    BY <2>1, NextTaskTyped
  <2>3. restarts' \in Nat /\ opts' \in [Threads -> Options] /\ pc' \in [Threads -> PCs]
    <3>1. CASE NextGivesUp(s, o)
      BY <3>1 DEF NextGivesUp, PCs
    <3>2. CASE NextContinues(s, o)
      <4> DEFINE streak == IF SameTask(s, o) THEN info[s].streak + 1 ELSE 0
      <4>1. streak \in Nat
        BY <1>0 DEF Options
      <4>2. [o EXCEPT !.run = info[s].run, !.streak = streak] \in Options
        BY <1>0, <2>2, <4>1 DEF Options
      <4>3. opts' = [opts EXCEPT ![s] =
              [o EXCEPT !.run = info[s].run, !.streak = streak]]
        BY <3>2 DEF NextContinues
      <4>4. restarts' \in Nat /\ pc' \in [Threads -> PCs]
        BY <3>2 DEF NextContinues, PCs
      <4>5. opts' \in [Threads -> Options]
        BY <4>2, <4>3
      <4> QED BY <4>4, <4>5
    <3> QED BY <2>1, <3>1, <3>2
  <2> QED BY <1>6, <2>3 DEF NextSome
<1>9. CASE GivesUp(s)
  <2>1. reports' \in [Sessions -> 0..2]
    BY <1>0, <1>9, ReportTyped DEF GivesUp
  <2> QED BY <1>9, <2>1, NoCallTyped DEF GivesUp, PCs
<1>7. CASE Handoff(s)
  BY <1>7 DEF Handoff, PCs
<1>8. CASE Unchain(s)
  BY <1>8 DEF Unchain, PCs
<1> QED BY <1>1, <1>2, <1>3, <1>4, <1>5, <1>6, <1>7, <1>8, <1>9 DEF Monitor

LEMMA TypeStep == TypeOK /\ [Next]_vars => TypeOK'
<1> SUFFICES ASSUME TypeOK, [Next]_vars PROVE TypeOK'
  OBVIOUS
<1>1. CASE \E t \in Threads : StartAgent(t)
  BY <1>1, TypeStart
<1>2. CASE \E c \in Clients :
             CallStart(c) \/ CallStop(c) \/ CallRetry(c) \/ CallShutdown(c)
  BY <1>2, TypeCall
<1>3. CASE \E s \in Sessions : Monitor(s) \/ Exit(s) \/ AgentWrites(s)
  BY <1>3, TypeMonitor, TypeAgent
<1>4. CASE StopAgent
  BY <1>4, ConstantsOK
  DEF StopAgent, TypeOK, Sessions, None, marks, calling, daemon
<1>5. CASE StopAllReturns
  BY <1>5 DEF StopAllReturns, TypeOK, agents, marks, calling, daemon
<1>6. CASE UNCHANGED vars
  BY <1>6 DEF vars, TypeOK, agents, marks, calling, daemon
<1> QED BY <1>1, <1>2, <1>3, <1>4, <1>5, <1>6 DEF Next

(* Every variable keeps its type, whatever the goroutines of manager.go    *)
(* do: what the invariants below rest on.                                  *)
THEOREM TypeCorrect == Spec => []TypeOK
BY TypeInit, TypeStep, PTL DEF Spec

-------------------------------------------------------------------------------
(* The slot.  SlotIsMonitored is not inductive by itself: it needs to know  *)
(* where the goroutine of a session can be while its process lives, and    *)
(* that a StartAgent call only waits for a session that was started.       *)

ClientPCs  == {"idle", "gate", "stopping", "polling", "relock"}
SessionPCs == PCs \ {"idle"}

Lifecycle ==
  /\ \A c \in Clients : pc[c] \in ClientPCs
  /\ \A s \in Sessions :
       /\ pc[s] \in SessionPCs
       /\ pc[s] = "unborn" <=> proc[s] = "unborn"
       /\ proc[s] = "running" => pc[s] = "wait"

VictimsBorn ==
  \A t \in Threads :
    Switching(t) => victim[t] \in Sessions /\ proc[victim[t]] # "unborn"

SlotInv == TypeOK /\ Lifecycle /\ SlotIsMonitored

LEMMA SlotInit == Init => Lifecycle /\ SlotIsMonitored
<1> SUFFICES ASSUME Init PROVE Lifecycle /\ SlotIsMonitored
  OBVIOUS
<1>1. /\ \A c \in Clients : pc[c] = "idle"
      /\ \A s \in Sessions : pc[s] = "unborn" /\ proc[s] = "unborn" /\ slot # s
  <2>1. \A c \in Clients : pc[c] = "idle"
    BY DEF Init, Threads
  <2>2. \A s \in Sessions : s \in Threads /\ s \notin Clients
    BY ConstantsOK DEF Threads
  <2>3. \A s \in Sessions : pc[s] = "unborn" /\ proc[s] = "unborn"
    BY <2>2 DEF Init
  <2>4. \A s \in Sessions : slot # s
    BY DEF Init, Sessions, None
  <2> QED BY <2>1, <2>3, <2>4
<1>2. Lifecycle
  BY <1>1 DEF Lifecycle, ClientPCs, SessionPCs, PCs
<1>3. SlotIsMonitored
  BY <1>1 DEF SlotIsMonitored, Watching
<1> QED BY <1>2, <1>3

(* A goroutine moves on while the slot and the processes stay as they are. *)
LEMMA MoveKeepsSlot ==
  ASSUME SlotInv, NEW t \in Threads, NEW p,
         pc' = [pc EXCEPT ![t] = p],
         slot' = slot, proc' = proc,
         t \in Clients => p \in ClientPCs,
         t \in Sessions =>
           /\ p \in SessionPCs \ {"unborn"}
           /\ pc[t] # "unborn" /\ proc[t] # "running"
           /\ p \in Watching <=> pc[t] \in Watching
  PROVE  Lifecycle' /\ SlotIsMonitored'
<1>1. /\ DOMAIN pc = Threads
      /\ \A u \in Threads : pc'[u] = IF u = t THEN p ELSE pc[u]
  BY DEF SlotInv, TypeOK
<1>2. Lifecycle'
  BY <1>1 DEF SlotInv, Lifecycle, Threads
<1>3. SlotIsMonitored'
  BY <1>1 DEF SlotInv, SlotIsMonitored, Threads
<1> QED BY <1>2, <1>3

(* Steps that leave the slot, the processes and the goroutines alone. *)
LEMMA IdleKeepsSlot ==
  ASSUME SlotInv, UNCHANGED <<slot, proc, pc>>
  PROVE  Lifecycle' /\ SlotIsMonitored'
<1>1. Lifecycle'
  BY DEF SlotInv, Lifecycle
<1>2. SlotIsMonitored'
  BY DEF SlotInv, SlotIsMonitored
<1> QED BY <1>1, <1>2

(* A monitor whose process is dead gives the slot up. *)
LEMMA LeaveKeepsSlot ==
  ASSUME SlotInv, NEW s \in Sessions, NEW p \in SessionPCs \ (Watching \cup {"unborn"}),
         slot = s, proc[s] # "running", slot' = None, proc' = proc,
         pc' = [pc EXCEPT ![s] = p]
  PROVE  Lifecycle' /\ SlotIsMonitored'
<1>0. s \in Threads /\ s \notin Clients
  BY ConstantsOK DEF Threads
<1>1. \A u \in Threads : pc'[u] = IF u = s THEN p ELSE pc[u]
  BY <1>0 DEF SlotInv, TypeOK
<1>2. Lifecycle'
  <2>1. pc[s] # "unborn"
    BY DEF SlotInv, SlotIsMonitored, Watching
  <2> QED BY <1>0, <1>1, <2>1 DEF SlotInv, Lifecycle, Threads
<1>3. SlotIsMonitored'
  <2>1. None \notin Sessions
    BY DEF Sessions, None
  <2> QED BY <1>0, <1>1, <2>1 DEF SlotInv, SlotIsMonitored, Threads
<1> QED BY <1>2, <1>3

(* StartAgent fails: the caller goes on, nothing else moves. *)
LEMMA FailKeepsSlot ==
  ASSUME SlotInv, NEW t \in Threads, pc[t] \in {"gate", "relock"}, StartFails(t)
  PROVE  Lifecycle' /\ SlotIsMonitored'
<1>1. /\ pc' = [pc EXCEPT ![t] = AfterStart(t)]
      /\ slot' = slot /\ proc' = proc
  BY DEF StartFails
<1>2. t \in Clients => AfterStart(t) \in ClientPCs
  BY DEF AfterStart, ClientPCs
<1>3. t \in Sessions =>
        /\ AfterStart(t) \in SessionPCs \ {"unborn"}
        /\ pc[t] # "unborn" /\ proc[t] # "running"
        /\ AfterStart(t) \in Watching <=> pc[t] \in Watching
  BY ConstantsOK DEF AfterStart, SlotInv, Lifecycle, SessionPCs, PCs, Watching
<1> QED BY <1>1, <1>2, <1>3, MoveKeepsSlot

(* A session is registered in an empty slot. *)
LEMMA RegisterKeepsSlot ==
  ASSUME SlotInv, NEW t \in Threads, pc[t] \in {"gate", "relock"}, slot = None,
         Register(t)
  PROVE  Lifecycle' /\ SlotIsMonitored'
<1>1. PICK n \in Sessions :
        /\ proc[n] = "unborn" /\ slot' = n
        /\ proc' = [proc EXCEPT ![n] = "running"]
        /\ pc' = [pc EXCEPT ![t] = AfterStart(t), ![n] = "wait"]
  BY Zenon DEF Register
<1>2. n \in Threads /\ n \notin Clients /\ n # t
  BY <1>1, ConstantsOK DEF Threads, SlotInv, Lifecycle
<1>3. \A u \in Threads :
        pc'[u] = IF u = n THEN "wait" ELSE IF u = t THEN AfterStart(t) ELSE pc[u]
  BY <1>1, <1>2 DEF SlotInv, TypeOK
<1>4. \A s \in Sessions : proc'[s] = IF s = n THEN "running" ELSE proc[s]
  BY <1>1 DEF SlotInv, TypeOK
<1>5. \A s \in Sessions : pc[s] \notin Watching
  BY DEF SlotInv, SlotIsMonitored, Sessions, None
<1>6. AfterStart(t) = IF t \in Clients THEN "idle" ELSE "unchain"
  BY DEF AfterStart
<1>7. Lifecycle'
  <2>1. \A c \in Clients : pc'[c] \in ClientPCs
    BY <1>2, <1>3, <1>6 DEF SlotInv, Lifecycle, ClientPCs, Threads
  <2>2. ASSUME NEW s \in Sessions
        PROVE  /\ pc'[s] \in SessionPCs
               /\ pc'[s] = "unborn" <=> proc'[s] = "unborn"
               /\ proc'[s] = "running" => pc'[s] = "wait"
    <3>1. s \in Threads /\ s \notin Clients
      BY ConstantsOK DEF Threads
    <3>2. CASE s = n
      BY <1>3, <1>4, <3>1, <3>2 DEF SessionPCs, PCs
    <3>3. CASE s = t
      BY <1>2, <1>3, <1>4, <1>6, <3>1, <3>3 DEF SlotInv, Lifecycle, SessionPCs, PCs
    <3>4. CASE s # n /\ s # t
      BY <1>3, <1>4, <3>1, <3>4 DEF SlotInv, Lifecycle
    <3> QED BY <3>2, <3>3, <3>4
  <2> QED BY <2>1, <2>2 DEF Lifecycle
<1>8. SlotIsMonitored'
  <2> SUFFICES ASSUME NEW s \in Sessions
               PROVE  slot' = s <=> pc'[s] \in Watching
    BY DEF SlotIsMonitored
  <2>1. s \in Threads
    BY DEF Threads
  <2> QED BY <1>1, <1>3, <1>5, <1>6, <2>1 DEF Watching
<1> QED BY <1>7, <1>8

LEMMA LaunchKeepsSlot ==
  ASSUME SlotInv, NEW t \in Threads, pc[t] \in {"gate", "relock"}, slot = None,
         Launch(t)
  PROVE  Lifecycle' /\ SlotIsMonitored'
BY FailKeepsSlot, RegisterKeepsSlot DEF Launch

(* A start call that only moves from one of its places to the next. *)
LEMMA WaitKeepsSlot ==
  ASSUME SlotInv, NEW t \in Threads, NEW p \in {"stopping", "polling", "relock"},
         pc[t] \in {"gate", "stopping", "polling"},
         pc' = [pc EXCEPT ![t] = p], slot' = slot, proc' = proc
  PROVE  Lifecycle' /\ SlotIsMonitored'
<1>1. t \in Clients => p \in ClientPCs
  BY DEF ClientPCs
<1>2. t \in Sessions =>
        /\ p \in SessionPCs \ {"unborn"}
        /\ pc[t] # "unborn" /\ proc[t] # "running"
        /\ p \in Watching <=> pc[t] \in Watching
  BY DEF SlotInv, Lifecycle, SessionPCs, PCs, Watching
<1> QED BY <1>1, <1>2, MoveKeepsSlot

LEMMA StartKeepsSlot ==
  ASSUME SlotInv, NEW t \in Threads, StartAgent(t)
  PROVE  Lifecycle' /\ SlotIsMonitored'
<1>1. CASE PreflightDenies(t)
  BY <1>1, FailKeepsSlot DEF PreflightDenies
<1>2. CASE GateRefuses(t)
  BY <1>2, FailKeepsSlot DEF GateRefuses, PassesPreflight
<1>3. CASE GateLaunches(t)
  BY <1>3, LaunchKeepsSlot DEF GateLaunches, PassesPreflight
<1>4. CASE GateReplaces(t)
  BY <1>4, WaitKeepsSlot DEF GateReplaces, PassesPreflight
<1>5. CASE VictimDead(t)
  BY <1>5, WaitKeepsSlot DEF VictimDead, agents
<1>6. CASE PollEnds(t)
  BY <1>6, WaitKeepsSlot DEF PollEnds, agents
<1>7. CASE Relock(t)
  BY <1>7, FailKeepsSlot, LaunchKeepsSlot DEF Relock
<1> QED BY <1>1, <1>2, <1>3, <1>4, <1>5, <1>6, <1>7 DEF StartAgent

LEMMA CallKeepsSlot ==
  ASSUME SlotInv, NEW c \in Clients,
         CallStart(c) \/ CallStop(c) \/ CallRetry(c) \/ CallShutdown(c)
  PROVE  Lifecycle' /\ SlotIsMonitored'
<1>1. CASE CallStart(c)
  <2>1. c \in Threads /\ c \notin Sessions
    BY ConstantsOK DEF Threads
  <2>2. pc' = [pc EXCEPT ![c] = "gate"] /\ slot' = slot /\ proc' = proc
    BY <1>1 DEF CallStart, agents
  <2>3. "gate" \in ClientPCs
    BY DEF ClientPCs
  <2> QED BY <2>1, <2>2, <2>3, MoveKeepsSlot
<1>2. CASE CallStop(c) \/ CallRetry(c) \/ CallShutdown(c)
  BY <1>2, IdleKeepsSlot DEF CallStop, CallRetry, CallShutdown, agents
<1> QED BY <1>1, <1>2

LEMMA ExitKeepsSlot ==
  ASSUME SlotInv, NEW s \in Sessions, Exit(s)
  PROVE  Lifecycle' /\ SlotIsMonitored'
<1>1. \A r \in Sessions : proc'[r] = IF r = s THEN "exited" ELSE proc[r]
  BY DEF Exit, SlotInv, TypeOK
<1>2. Lifecycle'
  BY <1>1 DEF Exit, SlotInv, Lifecycle
<1> QED BY <1>2 DEF Exit, SlotInv, SlotIsMonitored

LEMMA MonitorKeepsSlot ==
  ASSUME SlotInv, NEW s \in Sessions, Monitor(s)
  PROVE  Lifecycle' /\ SlotIsMonitored'
<1> s \in Threads /\ s \notin Clients
  BY ConstantsOK DEF Threads
<1>0. proc[s] = "running" => pc[s] = "wait"
  BY DEF SlotInv, Lifecycle
<1>1. ASSUME NEW p \in SessionPCs \ {"unborn"}, pc' = [pc EXCEPT ![s] = p],
             slot' = slot, proc' = proc, pc[s] # "unborn", proc[s] # "running",
             p \in Watching <=> pc[s] \in Watching
      PROVE  Lifecycle' /\ SlotIsMonitored'
  BY <1>1, MoveKeepsSlot
<1>2. CASE Exited(s)
  BY <1>1, <1>2 DEF Exited, agents, SessionPCs, PCs, Watching
<1>3. CASE TaskDone(s)
  <2>1. PICK outcome \in {"decide", "mergefailed"} :
          pc' = [pc EXCEPT ![s] = outcome]
    BY <1>3 DEF TaskDone
  <2> QED BY <1>0, <1>1, <1>3, <2>1 DEF TaskDone, agents, SessionPCs, PCs, Watching
<1>4. CASE DecideChain(s)
  <2>1. slot = s /\ proc[s] # "running"
    BY <1>0, <1>4 DEF DecideChain, MayChain, Deciding
  <2> QED BY <1>4, <2>1, LeaveKeepsSlot DEF DecideChain, SessionPCs, PCs, Watching
<1>5. CASE DecideEnd(s)
  <2>1. slot = s /\ proc[s] # "running"
    BY <1>0, <1>5 DEF DecideEnd, Deciding
  <2> QED BY <1>5, <2>1, LeaveKeepsSlot DEF DecideEnd, SessionPCs, PCs, Watching
<1>6. CASE NextNone(s)
  BY <1>0, <1>1, <1>6 DEF NextNone, agents, SessionPCs, PCs, Watching
<1>7. CASE NextSome(s)
  BY <1>0, <1>1, <1>7
     DEF NextSome, NextGivesUp, NextContinues, agents, SessionPCs, PCs, Watching
<1>8. CASE Handoff(s)
  BY <1>0, <1>1, <1>8 DEF Handoff, agents, SessionPCs, PCs, Watching
<1>9. CASE Unchain(s)
  BY <1>0, <1>1, <1>9 DEF Unchain, agents, SessionPCs, PCs, Watching
<1>10. CASE GivesUp(s)
  BY <1>0, <1>1, <1>10 DEF GivesUp, agents, SessionPCs, PCs, Watching
<1> QED BY <1>2, <1>3, <1>4, <1>5, <1>6, <1>7, <1>8, <1>9, <1>10 DEF Monitor

LEMMA SlotStep == SlotInv /\ [Next]_vars => SlotInv'
<1> SUFFICES ASSUME SlotInv, [Next]_vars PROVE Lifecycle' /\ SlotIsMonitored'
  BY TypeStep DEF SlotInv
<1>1. CASE \E t \in Threads : StartAgent(t)
  BY <1>1, StartKeepsSlot
<1>2. CASE \E c \in Clients :
             CallStart(c) \/ CallStop(c) \/ CallRetry(c) \/ CallShutdown(c)
  BY <1>2, CallKeepsSlot
<1>3. CASE \E s \in Sessions : Monitor(s) \/ Exit(s) \/ AgentWrites(s)
  BY <1>3, MonitorKeepsSlot, ExitKeepsSlot, IdleKeepsSlot DEF AgentWrites, agents
<1>4. CASE StopAgent
  BY <1>4, IdleKeepsSlot DEF StopAgent
<1>5. CASE StopAllReturns
  BY <1>5, IdleKeepsSlot DEF StopAllReturns, agents
<1>6. CASE UNCHANGED vars
  BY <1>6, IdleKeepsSlot DEF vars, agents
<1> QED BY <1>1, <1>2, <1>3, <1>4, <1>5, <1>6 DEF Next

LEMMA SlotInvariant == Spec => []SlotInv
<1>1. Init => SlotInv
  BY TypeInit, SlotInit DEF SlotInv
<1> QED BY <1>1, SlotStep, PTL DEF Spec

(* The slot names exactly the session whose monitor is still at work, so   *)
(* the branches of monitorProcess for a displaced session are dead code.   *)
THEOREM SlotMonitored == Spec => []SlotIsMonitored
<1>1. SlotInv => SlotIsMonitored
  BY DEF SlotInv
<1> QED BY <1>1, SlotInvariant, PTL

(* A project never has a live agent that the manager has lost sight of,    *)
(* nor two live agents.                                                    *)
THEOREM LiveOwnsSlot == Spec => []LiveAgentOwnsSlot
<1>1. SlotInv => LiveAgentOwnsSlot
  BY DEF SlotInv, Lifecycle, SlotIsMonitored, LiveAgentOwnsSlot, Watching
<1> QED BY <1>1, SlotInvariant, PTL

-------------------------------------------------------------------------------
(* Stopped runs, victims and chats. *)

StartInv == VictimsBorn /\ ChatNeverKillsWork

(* Sessions whose monitor is at work or done are out of StartAgent's reach. *)
LEMMA StartSparesMonitors ==
  ASSUME SlotInv, NEW t \in Threads, StartAgent(t),
         NEW s \in Sessions, pc[s] \in Watching \cup {"done"}
  PROVE  pc'[s] = pc[s]
<1> s \in Threads
  BY DEF Threads
<1>1. pc[t] \in {"gate", "stopping", "polling", "relock"}
  BY DEF StartAgent, PreflightDenies, GateRefuses, GateLaunches, GateReplaces,
         PassesPreflight, VictimDead, PollEnds, Relock
<1>2. s # t /\ proc[s] # "unborn"
  BY <1>1 DEF Watching, SlotInv, Lifecycle
<1>3. ASSUME NEW p, pc' = [pc EXCEPT ![t] = p] PROVE pc'[s] = pc[s]
  BY <1>2, <1>3 DEF SlotInv, TypeOK
<1>4. ASSUME Launch(t) \/ StartFails(t) PROVE pc'[s] = pc[s]
  <2>1. CASE StartFails(t)
    BY <1>3, <2>1 DEF StartFails
  <2>2. CASE Register(t)
    <3>1. PICK n \in Sessions :
            /\ proc[n] = "unborn"
            /\ pc' = [pc EXCEPT ![t] = AfterStart(t), ![n] = "wait"]
      BY <2>2, Zenon DEF Register
    <3> QED BY <1>2, <3>1 DEF SlotInv, TypeOK
  <2> QED BY <1>4, <2>1, <2>2 DEF Launch
<1>5. CASE PreflightDenies(t)
  BY <1>4, <1>5 DEF PreflightDenies
<1>6. CASE GateRefuses(t)
  BY <1>4, <1>6 DEF GateRefuses
<1>7. CASE GateLaunches(t)
  BY <1>4, <1>7 DEF GateLaunches
<1>8. CASE GateReplaces(t)
  BY <1>3, <1>8 DEF GateReplaces
<1>9. CASE VictimDead(t) \/ PollEnds(t)
  BY <1>3, <1>9 DEF VictimDead, PollEnds
<1>10. CASE Relock(t)
  BY <1>4, <1>10 DEF Relock
<1> QED BY <1>5, <1>6, <1>7, <1>8, <1>9, <1>10 DEF StartAgent

(* Nobody marks a session as stopped but the one in the slot. *)
LEMMA StopsHitTheSlot ==
  ASSUME SlotInv, Next, NEW s \in stopped', s \notin stopped
  PROVE  s \in Sessions /\ pc[s] \in Watching
<1>1. stopped' \subseteq stopped \cup ({slot} \ {None})
  <2>1. ASSUME NEW t \in Threads, StartAgent(t)
        PROVE  stopped' \subseteq stopped \cup ({slot} \ {None})
    <3>1. CASE PreflightDenies(t) \/ GateRefuses(t) \/ GateLaunches(t) \/ Relock(t)
      <4>1. stopped' = stopped
        BY <3>1 DEF PreflightDenies, GateRefuses, GateLaunches, Relock
      <4> QED BY <4>1
    <3>2. CASE GateReplaces(t)
      <4>1. stopped' = stopped \cup {slot} /\ slot # None
        BY <3>2 DEF GateReplaces
      <4> QED BY <4>1
    <3>3. CASE VictimDead(t) \/ PollEnds(t)
      BY <3>3 DEF VictimDead, PollEnds, agents
    <3> QED BY <2>1, <3>1, <3>2, <3>3 DEF StartAgent
  <2>2. ASSUME NEW c \in Clients,
               CallStart(c) \/ CallStop(c) \/ CallRetry(c) \/ CallShutdown(c)
        PROVE  stopped' \subseteq stopped \cup ({slot} \ {None})
    BY <2>2 DEF CallStart, CallStop, CallRetry, CallShutdown, agents
  <2>3. ASSUME NEW r \in Sessions, Monitor(r) \/ Exit(r) \/ AgentWrites(r)
        PROVE  stopped' = stopped
    BY <2>3 DEF Monitor, Exited, TaskDone, DecideChain, DecideEnd, NextNone,
       NextSome, GivesUp, Handoff, Unchain, Exit, AgentWrites, agents
  <2> QED BY <2>1, <2>2, <2>3 DEF Next, StopAgent, StopAllReturns, agents
<1>2. s = slot /\ s # None
  BY <1>1
<1>3. s \in Sessions
  BY <1>2, ConstantsOK DEF SlotInv, TypeOK, Sessions, None
<1> QED BY <1>2, <1>3 DEF SlotInv, SlotIsMonitored

(* The monitor of a stopped session only ever ends. *)
LEMMA StoppedMonitorEnds ==
  ASSUME SlotInv, StoppedRunEnds, NEW s \in Sessions, Monitor(s),
         NEW r \in Sessions, pc[r] \in Watching \cup {"done"},
         r = s => s \in stopped
  PROVE  pc'[r] \in Watching \cup {"done"}
<1> r \in Threads /\ s \in Threads
  BY DEF Threads
<1>1. PICK p : pc' = [pc EXCEPT ![s] = p]
  BY DEF Monitor, Exited, TaskDone, DecideChain, DecideEnd, NextNone, NextSome,
         NextGivesUp, NextContinues, GivesUp, Handoff, Unchain
<1>2. CASE r # s
  BY <1>1, <1>2 DEF SlotInv, TypeOK
<1>3. CASE r = s
  <2>1. pc'[s] = p
    BY <1>1 DEF SlotInv, TypeOK
  <2>2. ~DecideChain(s)
    BY <1>3 DEF DecideChain, MayChain
  <2>3. ~NextNone(s) /\ ~NextSome(s) /\ ~GivesUp(s) /\ ~Handoff(s) /\ ~Unchain(s)
    BY <1>3 DEF NextNone, NextSome, GivesUp, Handoff, Unchain, Watching
  <2>4. CASE Exited(s)
    BY <1>3, <2>4 DEF Exited, Watching, SlotInv, TypeOK
  <2>5. CASE TaskDone(s)
    BY <1>3, <2>5 DEF TaskDone, Watching, SlotInv, TypeOK
  <2>6. CASE DecideEnd(s)
    BY <1>3, <2>6 DEF DecideEnd, SlotInv, TypeOK
  <2> QED BY <2>2, <2>3, <2>4, <2>5, <2>6 DEF Monitor
<1> QED BY <1>2, <1>3

(* Every other step leaves the monitors where they are. *)
LEMMA OthersSpareMonitors ==
  ASSUME SlotInv, NEW s \in Sessions,
         \/ \E c \in Clients :
              CallStart(c) \/ CallStop(c) \/ CallRetry(c) \/ CallShutdown(c)
         \/ \E r \in Sessions : Exit(r) \/ AgentWrites(r)
         \/ StopAgent \/ StopAllReturns
  PROVE  pc'[s] = pc[s]
<1>1. ASSUME NEW c \in Clients, CallStart(c) PROVE pc'[s] = pc[s]
  BY <1>1, ConstantsOK DEF CallStart, Threads, SlotInv, TypeOK
<1> QED BY <1>1 DEF CallStop, CallRetry, CallShutdown, Exit, AgentWrites, StopAgent,
     StopAllReturns

LEMMA StoppedStep ==
  ASSUME SlotInv, StoppedRunEnds, [Next]_vars PROVE StoppedRunEnds'
<1>1. CASE UNCHANGED vars
  BY <1>1 DEF vars, agents, StoppedRunEnds
<1>2. CASE Next
  <2> SUFFICES ASSUME NEW s \in stopped' PROVE pc'[s] \in Watching \cup {"done"}
    BY DEF StoppedRunEnds
  <2>1. s \in Sessions /\ pc[s] \in Watching \cup {"done"}
    BY <1>2, StopsHitTheSlot DEF SlotInv, TypeOK, StoppedRunEnds
  <2>2. CASE \E t \in Threads : StartAgent(t)
    BY <2>1, <2>2, StartSparesMonitors
  <2>3. CASE \E r \in Sessions : Monitor(r)
    <3>1. PICK r \in Sessions : Monitor(r)
      BY <2>3
    <3>2. stopped' = stopped
      BY <3>1 DEF Monitor, Exited, TaskDone, DecideChain, DecideEnd, NextNone,
         NextSome, GivesUp, Handoff, Unchain, agents
    <3> QED BY <2>1, <3>1, <3>2, StoppedMonitorEnds
  <2>4. CASE ~(\E t \in Threads : StartAgent(t)) /\ ~(\E r \in Sessions : Monitor(r))
    <3>1. pc'[s] = pc[s]
      BY <1>2, <2>1, <2>4, OthersSpareMonitors DEF Next
    <3> QED BY <2>1, <3>1
  <2> QED BY <2>2, <2>3, <2>4
<1> QED BY <1>1, <1>2

(* A run that somebody stopped does not chain to another session.          *)
THEOREM StoppedRunsEnd == Spec => []StoppedRunEnds
<1>1. Init => StoppedRunEnds
  BY DEF Init, StoppedRunEnds
<1> QED BY <1>1, SlotInvariant, StoppedStep, PTL DEF Spec

(* A StartAgent call waits for a session that was started; if it is a chat *)
(* start, for a chat.                                                      *)
LEMMA VictimsStep ==
  ASSUME SlotInv, StartInv, [Next]_vars PROVE StartInv'
<1> USE DEF StartInv
<1> DEFINE Safe(t) == /\ victim[t] \in Sessions /\ proc[victim[t]] # "unborn"
                      /\ opts[t].mode = "chat" => info[victim[t]].mode = "chat"
<1>1. SUFFICES ASSUME NEW t \in Threads, Switching(t)' PROVE Safe(t)'
  BY DEF VictimsBorn, ChatNeverKillsWork, Switching
<1>2. Switching(t) => Safe(t)
  BY DEF VictimsBorn, ChatNeverKillsWork, Switching
<1>3. ASSUME Switching(t), opts'[t] = opts[t], victim'[t] = victim[t],
             \A s \in Sessions : proc[s] # "unborn" =>
               proc'[s] # "unborn" /\ info'[s] = info[s]
      PROVE  Safe(t)'
  BY <1>2, <1>3
<1>4. CASE UNCHANGED vars
  BY <1>1, <1>2, <1>4 DEF vars, agents, calling, Switching
<1>5. ASSUME NEW u \in Threads, StartAgent(u) PROVE Safe(t)'
  <2>1. ASSUME StartFails(u) PROVE Safe(t)'
    <3>1. t # u
      BY <1>1, <2>1 DEF StartFails, AfterStart, Switching, SlotInv, TypeOK
    <3>2. Switching(t) /\ opts'[t] = opts[t] /\ victim'[t] = victim[t]
      BY <1>1, <2>1, <3>1 DEF StartFails, Returns, Switching, SlotInv, TypeOK
    <3> QED BY <1>3, <2>1, <3>2 DEF StartFails
  <2>2. ASSUME Register(u), pc[u] \in {"gate", "relock"} PROVE Safe(t)'
    <3>1. PICK n \in Sessions :
            /\ proc[n] = "unborn"
            /\ proc' = [proc EXCEPT ![n] = "running"]
            /\ info' = [info EXCEPT ![n] =
                 [opts[u] EXCEPT !.run = IF @ = None THEN n ELSE @]]
            /\ pc' = [pc EXCEPT ![u] = AfterStart(u), ![n] = "wait"]
            /\ Returns(u)
      BY <2>2, Zenon DEF Register
    <3>2. t # u /\ t # n
      BY <1>1, <2>2, <3>1 DEF AfterStart, Switching, SlotInv, TypeOK, Lifecycle, Threads
    <3>3. Switching(t) /\ opts'[t] = opts[t] /\ victim'[t] = victim[t]
      BY <1>1, <3>1, <3>2 DEF Returns, Switching, SlotInv, TypeOK
    <3>4. \A s \in Sessions : proc[s] # "unborn" =>
            proc'[s] # "unborn" /\ info'[s] = info[s]
      BY <3>1 DEF SlotInv, TypeOK
    <3> QED BY <1>3, <3>3, <3>4
  <2>3. ASSUME Launch(u), pc[u] \in {"gate", "relock"} PROVE Safe(t)'
    BY <2>1, <2>2, <2>3 DEF Launch
  <2>4. CASE GateReplaces(u)
    <3>1. slot \in Sessions /\ proc[slot] # "unborn"
      <4>1. slot \in Sessions
        BY <2>4, ConstantsOK DEF GateReplaces, SlotInv, TypeOK, Sessions, None
      <4> QED BY <4>1 DEF SlotInv, SlotIsMonitored, Lifecycle, Watching
    <3>2. CASE t = u
      <4>1. victim'[t] = slot /\ opts' = opts /\ proc' = proc /\ info' = info
        BY <2>4, <3>2 DEF GateReplaces, SlotInv, TypeOK
      <4>2. opts[t].mode = "chat" => info[slot].mode = "chat"
        BY <2>4, <3>2 DEF GateReplaces, RefuseChat
      <4> QED BY <3>1, <4>1, <4>2
    <3>3. CASE t # u
      <4>1. Switching(t) /\ victim'[t] = victim[t]
        BY <1>1, <2>4, <3>3 DEF GateReplaces, Switching, SlotInv, TypeOK
      <4> QED BY <1>3, <2>4, <4>1 DEF GateReplaces
    <3> QED BY <3>2, <3>3
  <2>5. CASE VictimDead(u) \/ PollEnds(u)
    <3>1. Switching(t)
      BY <1>1, <2>5 DEF VictimDead, PollEnds, Switching, SlotInv, TypeOK
    <3> QED BY <1>3, <2>5, <3>1 DEF VictimDead, PollEnds, agents, calling
  <2>6. CASE PreflightDenies(u) \/ GateRefuses(u)
    BY <2>1, <2>6 DEF PreflightDenies, GateRefuses
  <2>7. CASE GateLaunches(u)
    BY <2>3, <2>7 DEF GateLaunches, PassesPreflight
  <2>8. CASE Relock(u)
    BY <2>1, <2>3, <2>8 DEF Relock
  <2> QED BY <1>5, <2>4, <2>5, <2>6, <2>7, <2>8 DEF StartAgent
<1>6. ASSUME NEW c \in Clients,
             CallStart(c) \/ CallStop(c) \/ CallRetry(c) \/ CallShutdown(c)
      PROVE  Safe(t)'
  <2>1. CASE CallStart(c)
    <3>1. t # c /\ Switching(t)
      BY <1>1, <2>1 DEF CallStart, Switching, SlotInv, TypeOK
    <3>2. opts'[t] = opts[t] /\ victim' = victim /\ proc' = proc /\ info' = info
      <4>1. PICK o : opts' = [opts EXCEPT ![c] = o]
        BY <2>1 DEF CallStart
      <4> QED BY <2>1, <3>1, <4>1 DEF CallStart, agents, SlotInv, TypeOK
    <3> QED BY <1>3, <3>1, <3>2
  <2>2. CASE CallStop(c) \/ CallRetry(c) \/ CallShutdown(c)
    <3>1. UNCHANGED <<pc, proc, info, opts, victim>>
      BY <2>2 DEF CallStop, CallRetry, CallShutdown, agents, calling
    <3> QED BY <1>1, <1>3, <3>1 DEF Switching
  <2> QED BY <1>6, <2>1, <2>2
<1>7. ASSUME NEW s \in Sessions, Monitor(s) PROVE Safe(t)'
  <2>1. proc' = proc /\ info' = info /\ victim' = victim
    BY <1>7 DEF Monitor, Exited, TaskDone, DecideChain, DecideEnd, NextNone,
       NextSome, GivesUp, Handoff, Unchain, agents, calling
  <2>2. PICK p \in {"taskdone", "decide", "mergefailed", "next", "giveup", "done",
                    "handoff", "gate"} : pc' = [pc EXCEPT ![s] = p]
    BY <1>7 DEF Monitor, Exited, TaskDone, DecideChain, DecideEnd, NextNone,
       NextSome, NextGivesUp, NextContinues, GivesUp, Handoff, Unchain
  <2>3. t # s /\ Switching(t)
    BY <1>1, <2>2 DEF Switching, SlotInv, TypeOK
  <2>4. opts'[t] = opts[t]
    <3>1. CASE NextSome(s) \/ GivesUp(s)
      <4>1. CASE opts' = opts
        BY <4>1
      <4>2. CASE \E o : opts' = [opts EXCEPT ![s] = o]
        BY <2>3, <4>2 DEF SlotInv, TypeOK
      <4> QED BY <3>1, <4>1, <4>2 DEF NextSome, NextGivesUp, NextContinues, GivesUp
    <3>2. CASE ~NextSome(s) /\ ~GivesUp(s)
      BY <1>7, <3>2 DEF Monitor, Exited, TaskDone, DecideChain, DecideEnd,
         NextNone, Handoff, Unchain, calling
    <3> QED BY <3>1, <3>2
  <2> QED BY <1>3, <2>1, <2>3, <2>4
<1>8. ASSUME NEW s \in Sessions, Exit(s) \/ AgentWrites(s) PROVE Safe(t)'
  <2>1. UNCHANGED <<pc, info, opts, victim>>
    BY <1>8 DEF Exit, AgentWrites, agents, calling
  <2>2. \A r \in Sessions : proc[r] # "unborn" => proc'[r] # "unborn"
    BY <1>8 DEF Exit, AgentWrites, agents, SlotInv, TypeOK
  <2> QED BY <1>1, <1>3, <2>1, <2>2 DEF Switching
<1>9. CASE StopAgent \/ StopAllReturns
  <2>1. UNCHANGED <<pc, proc, info, opts, victim>>
    BY <1>9 DEF StopAgent, StopAllReturns, agents, calling
  <2> QED BY <1>1, <1>3, <2>1 DEF Switching
<1> QED BY <1>4, <1>5, <1>6, <1>7, <1>8, <1>9 DEF Next

(* However chat auto-starts, switches and chains interleave, no chat start *)
(* kills a session that is working on tasks.                               *)
THEOREM ChatsKillNoWork == Spec => []ChatNeverKillsWork
<1>1. Init => StartInv
  <2> SUFFICES ASSUME Init, NEW t \in Threads PROVE ~Switching(t)
    BY DEF StartInv, VictimsBorn, ChatNeverKillsWork, Switching
  <2> QED BY DEF Init, Switching
<1>2. StartInv => ChatNeverKillsWork
  BY DEF StartInv
<1> QED BY <1>1, <1>2, SlotInvariant, VictimsStep, PTL DEF Spec

-------------------------------------------------------------------------------
(* The refinement. *)

(* Steps that start and end no process and leave the slot alone. *)
LEMMA Stutters ==
  ASSUME UNCHANGED <<slot, proc>> PROVE UNCHANGED Promise!slotVars
BY DEF Promise!slotVars

LEMMA LaunchPromised ==
  ASSUME SlotInv, NEW t \in Threads, slot = None, Launch(t)
  PROVE  [Promise!Next]_(Promise!slotVars)
<1>1. CASE StartFails(t)
  BY <1>1, Stutters DEF StartFails
<1>2. CASE Register(t)
  <2>1. PICK n \in Sessions :
          /\ proc[n] = "unborn" /\ slot' = n
          /\ proc' = [proc EXCEPT ![n] = "running"]
    BY <1>2, Zenon DEF Register
  <2>2. \A s \in Sessions : proc'[s] = IF s = n THEN "running" ELSE proc[s]
    BY <2>1 DEF SlotInv, TypeOK
  <2>3. {s \in Sessions : proc'[s] = "running"}
          = {s \in Sessions : proc[s] = "running"} \cup {n}
    BY <2>2
  <2>4. {s \in Sessions : proc'[s] # "unborn"}
          = {s \in Sessions : proc[s] # "unborn"} \cup {n}
    BY <2>2
  <2>5. Promise!Acquire(n)
    BY <2>1, <2>3, <2>4 DEF Promise!Acquire
  <2> QED BY <2>5 DEF Promise!Next
<1> QED BY <1>1, <1>2 DEF Launch

LEMMA LeavePromised ==
  ASSUME SlotInv, NEW s \in Sessions, slot = s, proc[s] # "running",
         slot' = None, proc' = proc
  PROVE  [Promise!Next]_(Promise!slotVars)
<1>1. slot # None
  BY DEF Sessions, None
<1>2. Promise!Release
  BY <1>1 DEF Promise!Release
<1> QED BY <1>2 DEF Promise!Next

LEMMA ExitPromised ==
  ASSUME SlotInv, NEW s \in Sessions, Exit(s)
  PROVE  [Promise!Next]_(Promise!slotVars)
<1>1. \A r \in Sessions : proc'[r] = IF r = s THEN "exited" ELSE proc[r]
  BY DEF Exit, SlotInv, TypeOK
<1>2. {r \in Sessions : proc'[r] = "running"}
        = {r \in Sessions : proc[r] = "running"} \ {s}
  BY <1>1
<1>3. {r \in Sessions : proc'[r] # "unborn"} = {r \in Sessions : proc[r] # "unborn"}
  BY <1>1 DEF Exit
<1>4. Promise!Die(s)
  BY <1>2, <1>3 DEF Promise!Die, Exit
<1> QED BY <1>4 DEF Promise!Next

LEMMA PromiseStep ==
  ASSUME SlotInv, [Next]_vars PROVE [Promise!Next]_(Promise!slotVars)
<1>1. ASSUME NEW t \in Threads, StartAgent(t)
      PROVE  [Promise!Next]_(Promise!slotVars)
  <2>1. CASE PreflightDenies(t) \/ GateRefuses(t) \/ GateReplaces(t)
             \/ VictimDead(t) \/ PollEnds(t)
    BY <2>1, Stutters DEF PreflightDenies, GateRefuses, StartFails, GateReplaces,
       VictimDead, PollEnds, agents
  <2>2. CASE GateLaunches(t)
    BY <2>2, LaunchPromised DEF GateLaunches
  <2>3. CASE Relock(t)
    BY <2>3, LaunchPromised, Stutters DEF Relock, StartFails
  <2> QED BY <1>1, <2>1, <2>2, <2>3 DEF StartAgent
<1>2. ASSUME NEW c \in Clients,
             CallStart(c) \/ CallStop(c) \/ CallRetry(c) \/ CallShutdown(c)
      PROVE  [Promise!Next]_(Promise!slotVars)
  BY <1>2, Stutters DEF CallStart, CallStop, CallRetry, CallShutdown, agents
<1>3. ASSUME NEW s \in Sessions, Monitor(s)
      PROVE  [Promise!Next]_(Promise!slotVars)
  <2>1. CASE DecideChain(s) \/ DecideEnd(s)
    <3>1. slot = s /\ slot' = None /\ proc' = proc
      BY <2>1 DEF DecideChain, MayChain, DecideEnd, Deciding
    <3>2. proc[s] # "running"
      BY <2>1 DEF DecideChain, MayChain, DecideEnd, Deciding, SlotInv, Lifecycle
    <3> QED BY <3>1, <3>2, LeavePromised
  <2>2. CASE Exited(s) \/ TaskDone(s) \/ NextNone(s) \/ NextSome(s)
             \/ GivesUp(s) \/ Handoff(s) \/ Unchain(s)
    BY <2>2, Stutters DEF Exited, TaskDone, NextNone, NextSome, GivesUp, Handoff,
       Unchain, agents
  <2> QED BY <1>3, <2>1, <2>2 DEF Monitor
<1>4. ASSUME NEW s \in Sessions, AgentWrites(s)
      PROVE  [Promise!Next]_(Promise!slotVars)
  BY <1>4, Stutters DEF AgentWrites, agents
<1>5. CASE StopAgent \/ StopAllReturns \/ UNCHANGED vars
  BY <1>5, Stutters DEF StopAgent, StopAllReturns, vars, agents
<1> QED BY <1>1, <1>2, <1>3, <1>4, <1>5, ExitPromised DEF Next

(* The manager implements the one-slot promise of AgentSlot: a session     *)
(* enters an empty slot only, never comes back after it has left, and      *)
(* leaves only when its process is dead.                                   *)
THEOREM ImplementsOneSlot == Spec => OneSlot
<1>1. Init => Promise!Init
  BY DEF Init, Promise!Init
<1> QED BY <1>1, SlotInvariant, PromiseStep, PTL DEF Spec, OneSlot, Promise!Spec

-------------------------------------------------------------------------------
(* Runs.  A run is in the hands of one goroutine at a time: the monitor of *)
(* its last session, then the StartAgent call of that monitor, which gives *)
(* it to the next session or ends it.                                      *)

Born(s)   == proc[s] # "unborn"
Works(s)  == pc[s] \in Watching \cup {"next", "giveup"}
Starts(t) == pc[t] \in {"handoff", "gate", "stopping", "polling", "relock"}
Holds(s, r) ==
  \/ Works(s) /\ info[s].run = r
  \/ Starts(s) /\ opts[s].run = r

(* The modes whose chains keep to them. *)
Plain == {"task", "start-all"}
Keeps(o, r) == info[r].mode \in Plain => o.mode = info[r].mode

Fresh == \A s \in Sessions : ~Born(s) => info[s] = NoCall /\ reports[s] = 0

Lineage == \A s \in Sessions : Born(s) =>
  LET r == info[s].run
  IN  r \in Sessions /\ Born(r) /\ info[r].run = r /\ Keeps(info[s], r)

(* A call that carries a run on is the one of a monitor of that run. *)
CallsCarry == \A t \in Threads :
  IF opts[t].run = None THEN opts[t].streak = 0
  ELSE /\ t \in Sessions /\ Starts(t) /\ opts[t].run = info[t].run
       /\ Keeps(opts[t], opts[t].run)

OneHolder == \A r, s, t \in Sessions : Holds(s, r) /\ Holds(t, r) => s = t

Unreported == \A r, s \in Sessions : Holds(s, r) => reports[r] = 0

HeldUntilReported == \A r \in Sessions :
  Born(r) /\ info[r].run = r /\ info[r].mode \in Plain /\ reports[r] = 0
    => \E s \in Sessions : Holds(s, r)

(* The counter is the streak of a run that has the project to itself, and  *)
(* below its limit until that run gives up.                                *)
GivingUp(s) == pc[s] = "giveup"
Streak(s) == IF GivingUp(s) THEN info[s].streak + 1
             ELSE IF Works(s) THEN info[s].streak ELSE opts[s].streak
Counted ==
  /\ (\A s \in Sessions : ~Born(s)) => restarts = 0
  /\ \A r, s \in Sessions : Alone(r) /\ Holds(s, r) =>
       restarts = Streak(s) /\ (restarts < MaxRestarts \/ GivingUp(s))

RunInv == /\ Fresh /\ Lineage /\ CallsCarry
          /\ OneHolder /\ Unreported /\ HeldUntilReported
          /\ ReportedOnce /\ Counted /\ LoneRunRestartsBounded

LEMMA MonitorsBorn ==
  ASSUME SlotInv, NEW s \in Sessions
  PROVE  /\ s \in Threads /\ s \notin Clients
         /\ Works(s) \/ Starts(s) => Born(s)
         /\ ~(Works(s) /\ Starts(s))
         /\ GivingUp(s) => Works(s)
BY ConstantsOK DEF Threads, Works, Starts, GivingUp, Born, Watching, SlotInv, Lifecycle

LEMMA RunInit == Init => RunInv
<1> SUFFICES ASSUME Init PROVE RunInv
  OBVIOUS
<1>1. \A s \in Sessions : s \in Threads /\ s \notin Clients
  BY ConstantsOK DEF Threads
<1>2. \A s \in Sessions : ~Born(s) /\ ~Works(s) /\ ~Starts(s)
  BY <1>1 DEF Init, Born, Works, Starts, Watching
<1>3. NoCall.run = None /\ NoCall.streak = 0
  BY DEF NoCall, Opts
<1>4. Fresh /\ CallsCarry
  BY <1>3 DEF Init, Fresh, CallsCarry
<1>5. ReportedOnce
  BY DEF Init, ReportedOnce
<1>6. Counted /\ LoneRunRestartsBounded
  BY <1>2, <1>3, ConstantsOK DEF Init, Counted, Holds, LoneRunRestartsBounded
<1> QED BY <1>2, <1>4, <1>5, <1>6
        DEF RunInv, Lineage, OneHolder, Unreported, HeldUntilReported, Holds

(* Steps that leave every run in the hands it is in. *)
LEMMA RunFrame ==
  ASSUME RunInv, UNCHANGED <<info, reports, restarts>>,
         \A s \in Sessions : /\ Born(s)' <=> Born(s)
                             /\ Works(s)' <=> Works(s)
                             /\ Starts(s)' <=> Starts(s)
                             /\ GivingUp(s)' <=> GivingUp(s)
                             /\ opts'[s] = opts[s],
         \A c \in Clients : opts'[c].run = None /\ opts'[c].streak = 0
  PROVE  RunInv'
<1>1. \A s, r \in Sessions : Holds(s, r)' <=> Holds(s, r)
  BY DEF Holds
<1>2. \A s \in Sessions : Streak(s)' = Streak(s)
  BY DEF Streak
<1>3. \A r \in Sessions : Alone(r)' <=> Alone(r)
  BY DEF Alone, Born
<1>4. Fresh' /\ Lineage'
  BY DEF RunInv, Fresh, Lineage, Keeps
<1>5. CallsCarry'
  BY DEF RunInv, CallsCarry, Threads, Keeps
<1>6. OneHolder' /\ Unreported' /\ ReportedOnce'
  BY <1>1 DEF RunInv, OneHolder, Unreported, ReportedOnce
<1>7. HeldUntilReported'
  BY <1>1 DEF RunInv, HeldUntilReported
<1>8. Counted'
  BY <1>1, <1>2, <1>3 DEF RunInv, Counted
<1>9. LoneRunRestartsBounded'
  BY DEF RunInv, LoneRunRestartsBounded, Alone, Born
<1> QED BY <1>4, <1>5, <1>6, <1>7, <1>8, <1>9 DEF RunInv

(* The run s holds is announced, if it is of a kind that is, and over. *)
LEMMA RunEnds ==
  ASSUME SlotInv, RunInv, NEW s \in Sessions, NEW r \in Sessions, Holds(s, r),
         Report(r, info[s].mode), UNCHANGED <<proc, info>>, restarts' \in {0, restarts},
         ~Works(s)', opts'[s].run = None, opts'[s].streak = 0,
         \A t \in Sessions \ {s} : /\ Works(t)' <=> Works(t)
                                   /\ Starts(t)' <=> Starts(t),
         \A t \in Threads \ {s} : opts'[t] = opts[t]
  PROVE  RunInv'
<1>0. s \in Threads /\ Born(s) /\ info[s].run = r
  BY MonitorsBorn DEF Holds, RunInv, CallsCarry, None, Sessions
<1>1. \A t, q \in Sessions : Holds(t, q)' <=> Holds(t, q) /\ t # s
  BY <1>0 DEF Holds, Sessions, None, Threads
<1>2. /\ reports[r] = 0
      /\ reports'[r] = IF info[s].mode \in {"task", "start-all", "wildfire"} THEN 1 ELSE 0
      /\ \A q \in Sessions \ {r} : reports'[q] = reports[q]
  BY DEF RunInv, Unreported, Report, SlotInv, TypeOK
<1>3. \A t \in Sessions, q \in Sessions : Alone(q)' /\ Holds(t, q)' => q = r /\ FALSE
  <2> SUFFICES ASSUME NEW t \in Sessions, NEW q \in Sessions, Alone(q)', Holds(t, q)'
               PROVE  FALSE
    OBVIOUS
  <2>1. q = r
    BY <1>0 DEF Alone, Born
  <2> QED BY <1>1, <2>1 DEF RunInv, OneHolder
<1>4. Fresh'
  BY <1>0, <1>2 DEF RunInv, Fresh, Born, Lineage
<1>5. Lineage'
  BY DEF RunInv, Lineage, Born, Keeps
<1>6. CallsCarry'
  BY DEF RunInv, CallsCarry, Threads, Keeps
<1>7. OneHolder' /\ ReportedOnce' /\ Unreported'
  <2>1. Unreported'
    BY <1>1, <1>2 DEF RunInv, OneHolder, Unreported
  <2>2. ReportedOnce'
    BY <1>2 DEF RunInv, ReportedOnce
  <2> QED BY <1>1, <2>1, <2>2 DEF RunInv, OneHolder
<1>8. HeldUntilReported'
  <2> SUFFICES ASSUME NEW q \in Sessions, Born(q), info[q].run = q,
                      info[q].mode \in Plain, reports'[q] = 0
               PROVE  \E t \in Sessions : Holds(t, q)'
    BY DEF HeldUntilReported, Born
  <2>1. q # r
    BY <1>0, <1>2 DEF RunInv, Lineage, Keeps, Plain
  <2>2. PICK t \in Sessions : Holds(t, q)
    BY <1>2, <2>1 DEF RunInv, HeldUntilReported
  <2>3. t # s
    BY <2>1, <2>2, <1>0 DEF Holds, RunInv, CallsCarry, Sessions, None
  <2> QED BY <1>1, <2>2, <2>3
<1>9. Counted'
  BY <1>0, <1>3 DEF Counted, Born
<1>10. LoneRunRestartsBounded'
  BY DEF RunInv, LoneRunRestartsBounded, Alone
<1> QED BY <1>4, <1>5, <1>6, <1>7, <1>8, <1>9, <1>10 DEF RunInv

(* A call that carries no run fails. *)
LEMMA CallDropped ==
  ASSUME SlotInv, RunInv, NEW t \in Threads, Starts(t), opts[t].run = None,
         pc' = [pc EXCEPT ![t] = AfterStart(t)], Returns(t),
         UNCHANGED <<proc, info, reports, restarts>>
  PROVE  RunInv'
<1>1. NoCall.run = None /\ NoCall.streak = 0
  BY DEF NoCall, Opts
<1>2. \A u \in Threads : /\ pc'[u] = IF u = t THEN AfterStart(t) ELSE pc[u]
                         /\ opts'[u] = IF u = t THEN NoCall ELSE opts[u]
  BY DEF Returns, SlotInv, TypeOK
<1>3. \A s \in Sessions : s \in Threads /\ s \notin Clients
  BY MonitorsBorn
<1>4. \A s \in Sessions : /\ Works(s)' <=> Works(s)
                          /\ Starts(s)' <=> Starts(s) /\ s # t
  BY <1>2, <1>3, MonitorsBorn DEF Works, Starts, AfterStart, Watching
<1>5. \A s, r \in Sessions : Holds(s, r)' <=> Holds(s, r)
  BY <1>2, <1>3, <1>4 DEF Holds, Sessions, None
<1>6. \A s, r \in Sessions : Holds(s, r) =>
        Streak(s)' = Streak(s) /\ (GivingUp(s)' <=> GivingUp(s))
  <2>1. \A s \in Sessions : GivingUp(s)' <=> GivingUp(s)
    BY <1>2, <1>3 DEF GivingUp, AfterStart, Starts
  <2> QED BY <1>2, <1>3, <1>4, <2>1 DEF Streak, Holds, Sessions, None
<1>7. \A r \in Sessions : Alone(r)' <=> Alone(r)
  BY DEF Alone
<1>8. Fresh' /\ Lineage'
  BY DEF RunInv, Fresh, Lineage, Keeps, Born
<1>9. CallsCarry'
  BY <1>1, <1>2, <1>4 DEF RunInv, CallsCarry, Keeps
<1>10. OneHolder' /\ Unreported' /\ ReportedOnce' /\ HeldUntilReported'
  BY <1>5 DEF RunInv, OneHolder, Unreported, ReportedOnce, HeldUntilReported, Born
<1>11. Counted'
  BY <1>5, <1>6, <1>7 DEF RunInv, Counted, Born
<1>12. LoneRunRestartsBounded'
  BY DEF RunInv, LoneRunRestartsBounded, Alone
<1> QED BY <1>8, <1>9, <1>10, <1>11, <1>12 DEF RunInv

LEMMA FailKeepsRuns ==
  ASSUME SlotInv, RunInv, NEW t \in Threads, pc[t] \in {"gate", "relock"},
         StartFails(t), restarts' = restarts
  PROVE  RunInv'
<1>0. Starts(t)
  BY DEF Starts
<1>1. CASE opts[t].run = None
  BY <1>0, <1>1, CallDropped DEF StartFails
<1>2. CASE opts[t].run # None
  <2>1. t \in Sessions /\ Born(t) /\ opts[t].run = info[t].run
    BY <1>0, <1>2, MonitorsBorn DEF RunInv, CallsCarry
  <2>2. info[t].run \in Sessions /\ Holds(t, info[t].run)
    BY <1>0, <2>1 DEF RunInv, Lineage, Holds
  <2>3. Report(info[t].run, info[t].mode)
    BY <1>2, <2>1 DEF StartFails
  <2>4. \A u \in Threads : /\ pc'[u] = IF u = t THEN AfterStart(t) ELSE pc[u]
                           /\ opts'[u] = IF u = t THEN NoCall ELSE opts[u]
    BY DEF StartFails, Returns, SlotInv, TypeOK
  <2>5. opts'[t].run = None /\ opts'[t].streak = 0 /\ ~Works(t)'
    BY <2>4 DEF NoCall, Opts, AfterStart, Works, Watching
  <2>6. \A u \in Sessions \ {t} : /\ Works(u)' <=> Works(u)
                                  /\ Starts(u)' <=> Starts(u)
    BY <2>4, MonitorsBorn DEF Works, Starts
  <2> QED BY <2>1, <2>2, <2>3, <2>4, <2>5, <2>6, RunEnds DEF StartFails
<1> QED BY <1>1, <1>2

(* The chain goes on: the run passes from the monitor to its call. *)
LEMMA RunContinues ==
  ASSUME SlotInv, RunInv, NEW s \in Sessions, pc[s] = "next",
         NEW o \in NextTask(info[s]), NextContinues(s, o),
         UNCHANGED <<proc, info, reports>>
  PROVE  RunInv'
<1> DEFINE r == info[s].run
           n == IF SameTask(s, o) THEN info[s].streak + 1 ELSE 0
<1>0. s \in Threads /\ Works(s) /\ Born(s)
  BY MonitorsBorn DEF Works
<1>1. r \in Sessions /\ Born(r) /\ info[r].run = r /\ Keeps(info[s], r) /\ Holds(s, r)
  BY <1>0 DEF RunInv, Lineage, Holds
<1>2. o \in Options /\ (info[s].mode \in Plain => o.mode = info[s].mode)
  <2>1. o \in Options
    BY NextTaskTyped
  <2>2. ASSUME info[s].mode \in Plain PROVE o.mode = info[s].mode
    BY <2>2 DEF Plain, NextTask, StartAllOpts, Opts
  <2> QED BY <2>1, <2>2
<1>3. \A t \in Threads : opts'[t] = IF t = s THEN [o EXCEPT !.run = r, !.streak = n] ELSE opts[t]
  BY <1>0 DEF NextContinues, SlotInv, TypeOK
<1>4. /\ opts'[s].run = r /\ opts'[s].streak = n /\ opts'[s].mode = o.mode
      /\ \A t \in Threads \ {s} : opts'[t] = opts[t]
  BY <1>0, <1>2, <1>3 DEF Options
<1>5. \A t \in Threads : pc'[t] = IF t = s THEN "handoff" ELSE pc[t]
  BY DEF NextContinues, SlotInv, TypeOK
<1>6. /\ Starts(s)' /\ ~Works(s)' /\ ~Starts(s) /\ ~GivingUp(s) /\ ~GivingUp(s)'
      /\ \A t \in Threads \ {s} : (Works(t)' <=> Works(t)) /\ (Starts(t)' <=> Starts(t))
  BY <1>0, <1>5 DEF Starts, Works, GivingUp, Watching
<1>7. \A t, q \in Sessions : Holds(t, q)' <=> Holds(t, q)
  BY <1>0, <1>4, <1>6 DEF Holds, Threads
<1>8. \A q \in Sessions : Alone(q) <=> Alone(q)'
  BY DEF Alone
<1>9. Fresh' /\ Lineage'
  BY DEF RunInv, Fresh, Lineage, NextContinues, Keeps, Born
<1>10. CallsCarry'
  BY <1>0, <1>1, <1>2, <1>4, <1>6 DEF RunInv, CallsCarry, Keeps, Sessions, None
<1>11. OneHolder' /\ Unreported' /\ ReportedOnce' /\ HeldUntilReported'
  BY <1>7 DEF RunInv, OneHolder, Unreported, ReportedOnce, HeldUntilReported, Born, NextContinues
<1>12. Counted'
  <2>1. ~(\A t \in Sessions : ~Born(t))'
    BY <1>0 DEF Born
  <2>2. ASSUME NEW q \in Sessions, NEW t \in Sessions, Alone(q)', Holds(t, q)'
        PROVE  restarts' = Streak(t)' /\ restarts' < MaxRestarts
    <3>1. q = r /\ t = s
      BY <1>0, <1>1, <1>7, <2>2 DEF Alone, Born, RunInv, OneHolder
    <3>2. restarts = info[s].streak
      BY <1>0, <1>1, <1>6, <1>8, <2>2, <3>1 DEF RunInv, Counted, Streak
    <3>3. restarts' = n /\ restarts' < MaxRestarts
      BY <3>2, ConstantsOK DEF NextContinues
    <3> QED BY <1>4, <1>6, <3>1, <3>3 DEF Streak
  <2> QED BY <2>1, <2>2 DEF Counted
<1>13. LoneRunRestartsBounded'
  BY DEF RunInv, LoneRunRestartsBounded, Alone
<1> QED BY <1>9, <1>10, <1>11, <1>12, <1>13 DEF RunInv

(* The restart limit is reached: the run stays with its monitor, the count *)
(* is one above the streak until the lock is taken again.                  *)
LEMMA LimitReached ==
  ASSUME SlotInv, RunInv, NEW s \in Sessions, pc[s] = "next", NEW o, NextGivesUp(s, o),
         UNCHANGED <<proc, info, reports>>
  PROVE  RunInv'
<1>0. s \in Threads /\ Works(s) /\ Born(s) /\ ~Starts(s) /\ ~GivingUp(s)
  BY MonitorsBorn DEF Works, Starts, GivingUp
<1>1. \A t \in Threads : pc'[t] = IF t = s THEN "giveup" ELSE pc[t]
  BY DEF NextGivesUp, SlotInv, TypeOK
<1>2. opts' = opts
  BY DEF NextGivesUp
<1>3. \A t \in Sessions : (Works(t)' <=> Works(t)) /\ (Starts(t)' <=> Starts(t))
  BY <1>0, <1>1, MonitorsBorn DEF Works, Starts
<1>4. \A t, q \in Sessions : Holds(t, q)' <=> Holds(t, q)
  BY <1>2, <1>3 DEF Holds
<1>5. Fresh' /\ Lineage' /\ LoneRunRestartsBounded'
  BY DEF RunInv, Fresh, Lineage, Keeps, Born, LoneRunRestartsBounded, Alone
<1>6. CallsCarry'
  BY <1>2, <1>3 DEF RunInv, CallsCarry, Keeps
<1>7. OneHolder' /\ Unreported' /\ ReportedOnce' /\ HeldUntilReported'
  BY <1>4 DEF RunInv, OneHolder, Unreported, ReportedOnce, HeldUntilReported, Born
<1>8. Counted'
  <2>1. ~(\A t \in Sessions : ~Born(t))'
    BY <1>0 DEF Born
  <2>2. ASSUME NEW q \in Sessions, NEW t \in Sessions, Alone(q)', Holds(t, q)'
        PROVE  restarts' = Streak(t)' /\ GivingUp(t)'
    <3>1. Alone(q) /\ Holds(t, q) /\ info[s].run = q
      BY <1>0, <1>4, <2>2 DEF Alone, Born
    <3>2. t = s
      BY <1>0, <3>1 DEF RunInv, OneHolder, Holds
    <3>3. restarts = info[s].streak
      BY <1>0, <3>1, <3>2 DEF RunInv, Counted, Streak
    <3> QED BY <1>0, <1>1, <3>2, <3>3 DEF NextGivesUp, Streak, GivingUp
  <2> QED BY <2>1, <2>2 DEF Counted
<1> QED BY <1>5, <1>6, <1>7, <1>8 DEF RunInv

(* The monitor gives up: the run is announced and the call is one for a    *)
(* chat of its own.                                                        *)
LEMMA RunGivenUp ==
  ASSUME SlotInv, RunInv, NEW s \in Sessions, GivesUp(s)
  PROVE  RunInv'
<1>0. s \in Threads /\ Works(s) /\ Born(s)
  BY MonitorsBorn DEF GivesUp, Works
<1>1. info[s].run \in Sessions /\ Holds(s, info[s].run)
  BY <1>0 DEF RunInv, Lineage, Holds
<1>2. \A t \in Threads : opts'[t] = IF t = s THEN NoCall ELSE opts[t]
  BY DEF GivesUp, SlotInv, TypeOK
<1>3. \A t \in Threads : pc'[t] = IF t = s THEN "handoff" ELSE pc[t]
  BY DEF GivesUp, SlotInv, TypeOK
<1>4. opts'[s].run = None /\ opts'[s].streak = 0 /\ ~Works(s)'
  BY <1>0, <1>2, <1>3 DEF NoCall, Opts, Works, Watching
<1>5. \A t \in Sessions \ {s} : /\ Works(t)' <=> Works(t)
                                /\ Starts(t)' <=> Starts(t)
                                /\ GivingUp(t)' <=> GivingUp(t)
  BY <1>3, MonitorsBorn DEF Works, Starts, GivingUp
<1> QED BY <1>1, <1>2, <1>4, <1>5, RunEnds DEF GivesUp, agents

(* A session is registered: it founds a run or takes over the one of the *)
(* call.                                                                 *)
LEMMA RegisterKeepsRuns ==
  ASSUME SlotInv, RunInv, NEW t \in Threads, pc[t] \in {"gate", "relock"},
         Register(t), restarts' = restarts
  PROVE  RunInv'
<1>1. PICK n \in Sessions :
        /\ proc[n] = "unborn"
        /\ proc' = [proc EXCEPT ![n] = "running"]
        /\ info' = [info EXCEPT ![n] = [opts[t] EXCEPT !.run = IF @ = None THEN n ELSE @]]
        /\ pc' = [pc EXCEPT ![t] = AfterStart(t), ![n] = "wait"]
        /\ Returns(t) /\ reports' = reports
  BY Zenon DEF Register
<1> DEFINE r == IF opts[t].run = None THEN n ELSE opts[t].run
<1>2. n \in Threads /\ n # t /\ ~Born(n) /\ ~Works(n) /\ ~Starts(n) /\ Starts(t) /\ ~Works(t)
  BY <1>1, MonitorsBorn DEF Born, Starts, Works, Watching
<1>3. /\ info'[n].run = r /\ info'[n].mode = opts[t].mode /\ info'[n].streak = opts[t].streak
      /\ \A s \in Sessions \ {n} : info'[s] = info[s]
  BY <1>1 DEF SlotInv, TypeOK, Options
<1>4. \A s \in Sessions : Born(s)' <=> Born(s) \/ s = n
  BY <1>1 DEF Born, SlotInv, TypeOK
<1>5. \A u \in Threads : pc'[u] = IF u = n THEN "wait" ELSE IF u = t THEN AfterStart(t) ELSE pc[u]
  BY <1>1, <1>2 DEF SlotInv, TypeOK
<1>6. \A u \in Threads : opts'[u] = IF u = t THEN NoCall ELSE opts[u]
  BY <1>1 DEF Returns, SlotInv, TypeOK
<1>7. \A s \in Sessions : /\ Works(s)' <=> Works(s) \/ s = n
                          /\ Starts(s)' <=> Starts(s) /\ s # t
  BY <1>2, <1>5, MonitorsBorn DEF Works, Starts, AfterStart, Watching
<1>8. /\ r \in Sessions /\ (r = n \/ Born(r)) /\ info'[r].run = r
      /\ opts[t].run # None => t \in Sessions /\ Holds(t, r) /\ r # n /\ Born(r)
  <2>1. CASE opts[t].run = None
    BY <1>3, <2>1
  <2>2. CASE opts[t].run # None
    <3>1. t \in Sessions /\ Born(t) /\ r = info[t].run
      BY <1>2, <2>2, MonitorsBorn DEF RunInv, CallsCarry
    <3>2. r \in Sessions /\ Born(r) /\ info[r].run = r /\ r # n
      BY <1>2, <3>1 DEF RunInv, Lineage
    <3> QED BY <1>2, <1>3, <2>2, <3>1, <3>2 DEF Holds
  <2> QED BY <2>1, <2>2
<1>9. \A s, q \in Sessions : Holds(s, q) => Born(s) /\ Born(q) /\ q # n /\ s # n
  <2> SUFFICES ASSUME NEW s \in Sessions, NEW q \in Sessions, Holds(s, q)
               PROVE  Born(s) /\ Born(q)
    BY <1>2
  <2>1. Born(s)
    BY MonitorsBorn DEF Holds
  <2>2. info[s].run = q
    BY MonitorsBorn DEF Holds, RunInv, CallsCarry, Sessions, None
  <2> QED BY <2>1, <2>2 DEF RunInv, Lineage
<1>10. \A s, q \in Sessions : Holds(s, q)' <=> IF s = n THEN q = r ELSE Holds(s, q) /\ s # t
  <2> SUFFICES ASSUME NEW s \in Sessions, NEW q \in Sessions
               PROVE  Holds(s, q)' <=> IF s = n THEN q = r ELSE Holds(s, q) /\ s # t
    OBVIOUS
  <2>1. CASE s = n
    BY <1>2, <1>3, <1>7, <2>1 DEF Holds
  <2>2. CASE s # n
    <3>1. (Works(s)' <=> Works(s)) /\ (Starts(s)' <=> Starts(s) /\ s # t) /\ info'[s] = info[s]
      BY <1>3, <1>7, <2>2
    <3>2. s # t => opts'[s] = opts[s]
      BY <1>6, MonitorsBorn
    <3>3. s = t => ~Works(s)
      BY <1>2
    <3> QED BY <2>2, <3>1, <3>2, <3>3 DEF Holds
  <2> QED BY <2>1, <2>2
<1>11. Fresh'
  BY <1>1, <1>3, <1>4 DEF RunInv, Fresh
<1>12. info'[r].mode \in Plain => opts[t].mode = info'[r].mode
  <2>1. CASE r = n
    BY <1>3, <2>1
  <2>2. CASE r # n
    <3>1. opts[t].run = r
      BY <2>2
    <3>2. Keeps(opts[t], r)
      BY <1>1, <1>8, <2>2 DEF RunInv, CallsCarry
    <3> QED BY <1>3, <1>8, <2>2, <3>2 DEF Keeps
  <2> QED BY <2>1, <2>2
<1>13. Lineage'
  <2> SUFFICES ASSUME NEW s \in Sessions, Born(s)'
               PROVE  LET q == info[s].run
                      IN  (q \in Sessions /\ Born(q) /\ info[q].run = q /\ Keeps(info[s], q))'
    BY DEF Lineage
  <2>1. CASE s = n
    BY <1>3, <1>4, <1>8, <1>12, <2>1 DEF Keeps
  <2>2. CASE s # n
    <3>1. Born(s) /\ info'[s] = info[s]
      BY <1>3, <1>4, <2>2
    <3>2. info[s].run \in Sessions /\ Born(info[s].run)
          /\ info[info[s].run].run = info[s].run /\ Keeps(info[s], info[s].run)
      BY <3>1 DEF RunInv, Lineage
    <3>3. info[s].run # n
      BY <1>2, <3>2
    <3> QED BY <1>3, <1>4, <3>1, <3>2, <3>3 DEF Keeps
  <2> QED BY <2>1, <2>2
<1>14. CallsCarry'
  <2>1. NoCall.run = None /\ NoCall.streak = 0
    BY DEF NoCall, Opts
  <2>2. ASSUME NEW u \in Threads, u # t, opts[u].run # None
        PROVE  /\ u \in Sessions /\ Starts(u)' /\ opts[u].run = info'[u].run
               /\ Keeps(opts[u], opts[u].run)'
    <3>1. u \in Sessions /\ Starts(u) /\ opts[u].run = info[u].run /\ Keeps(opts[u], opts[u].run)
      BY <2>2 DEF RunInv, CallsCarry
    <3>2. Born(u) /\ u # n /\ opts[u].run \in Sessions /\ opts[u].run # n
      BY <1>2, <3>1, MonitorsBorn DEF RunInv, Lineage
    <3> QED BY <1>3, <1>6, <1>7, <2>2, <3>1, <3>2 DEF Keeps
  <2> QED BY <1>6, <2>1, <2>2 DEF RunInv, CallsCarry, Keeps
<1>15. \A s, q \in Sessions : opts[t].run # None /\ Holds(s, r) => s = t
  BY <1>8 DEF RunInv, OneHolder
<1>16. OneHolder'
  BY <1>8, <1>9, <1>10, <1>15 DEF RunInv, OneHolder
<1>17. Unreported' /\ ReportedOnce'
  <2>1. reports[r] = 0
    BY <1>2, <1>8 DEF RunInv, Fresh, Unreported
  <2> QED BY <1>1, <1>8, <1>10, <2>1 DEF RunInv, Unreported, ReportedOnce
<1>18. HeldUntilReported'
  <2> SUFFICES ASSUME NEW q \in Sessions, Born(q)', info'[q].run = q,
                      info'[q].mode \in Plain, reports'[q] = 0
               PROVE  \E s \in Sessions : Holds(s, q)'
    BY DEF HeldUntilReported
  <2>1. CASE q = r
    BY <1>10, <2>1
  <2>2. CASE q # r
    <3>1. q # n /\ Born(q)
      BY <1>3, <1>4, <2>2
    <3>2. PICK s \in Sessions : Holds(s, q)
      BY <1>1, <1>3, <3>1 DEF RunInv, HeldUntilReported
    <3>3. s # t
      BY <1>2, <2>2, <3>2 DEF Holds, Sessions, None
    <3> QED BY <1>9, <1>10, <3>2, <3>3
  <2> QED BY <2>1, <2>2
<1>19. ASSUME NEW q \in Sessions, Alone(q)'
       PROVE  q = r /\ restarts = opts[t].streak /\ restarts < MaxRestarts
  <2>1. q = r /\ \A s \in Sessions : Born(s) => info[s].run = r
    BY <1>2, <1>3, <1>4, <1>19 DEF Alone, Born
  <2>2. CASE opts[t].run = None
    <3>1. opts[t].streak = 0
      BY <2>2 DEF RunInv, CallsCarry
    <3>2. \A s \in Sessions : ~Born(s)
      BY <1>2, <2>1, <2>2 DEF RunInv, Lineage
    <3> QED BY <2>1, <3>1, <3>2, ConstantsOK DEF RunInv, Counted
  <2>3. CASE opts[t].run # None
    <3>1. Alone(r)
      BY <2>1 DEF Alone, Born
    <3>2. t \in Sessions => ~GivingUp(t)
      BY <1>2, MonitorsBorn
    <3> QED BY <1>2, <1>8, <2>1, <2>3, <3>1, <3>2 DEF RunInv, Counted, Streak
  <2> QED BY <2>2, <2>3
<1>20. Counted'
  <2>1. Born(n)'
    BY <1>4
  <2>2. ASSUME NEW q \in Sessions, NEW s \in Sessions, Alone(q)', Holds(s, q)'
        PROVE  restarts' = Streak(s)' /\ restarts' < MaxRestarts
    <3>1. q = r /\ restarts = opts[t].streak /\ restarts < MaxRestarts
      BY <1>19, <2>2
    <3>2. s = n
      BY <1>8, <1>10, <1>16, <2>2, <3>1 DEF OneHolder
    <3>3. ~GivingUp(n)'
      BY <1>2, <1>5 DEF GivingUp
    <3> QED BY <1>3, <1>7, <3>1, <3>2, <3>3 DEF Streak
  <2> QED BY <2>1, <2>2 DEF Counted
<1>21. LoneRunRestartsBounded'
  <2> SUFFICES ASSUME NEW s \in Sessions, Alone(info[s].run)'
               PROVE  info'[s].streak < MaxRestarts
    BY DEF LoneRunRestartsBounded
  <2>1. CASE s = n
    BY <1>3, <1>8, <1>19, <2>1
  <2>2. CASE s # n
    <3>1. Alone(info[s].run)
      BY <1>2, <1>3, <1>4, <2>2 DEF Alone, Born
    <3> QED BY <1>3, <2>2, <3>1 DEF RunInv, LoneRunRestartsBounded
  <2> QED BY <2>1, <2>2
<1> QED BY <1>11, <1>13, <1>14, <1>16, <1>17, <1>18, <1>20, <1>21 DEF RunInv

LEMMA LaunchKeepsRuns ==
  ASSUME SlotInv, RunInv, NEW t \in Threads, pc[t] \in {"gate", "relock"},
         Launch(t), restarts' = restarts
  PROVE  RunInv'
BY FailKeepsRuns, RegisterKeepsRuns DEF Launch

(* A start call that only waits, and a monitor that goes on with its work. *)
LEMMA MoveKeepsRuns ==
  ASSUME SlotInv, RunInv, NEW t \in Threads, NEW p, pc' = [pc EXCEPT ![t] = p],
         UNCHANGED <<proc, info, reports, restarts, opts>>,
         t \in Sessions =>
           /\ p \in Watching \cup {"next"} <=> Works(t)
           /\ p \in {"handoff", "gate", "stopping", "polling", "relock"} <=> Starts(t)
           /\ p # "giveup" /\ ~GivingUp(t)
  PROVE  RunInv'
<1>1. \A u \in Threads : pc'[u] = IF u = t THEN p ELSE pc[u]
  BY DEF SlotInv, TypeOK
<1>2. \A s \in Sessions : s \in Threads
  BY DEF Threads
<1>3. \A s \in Sessions : /\ Works(s)' <=> Works(s)
                          /\ Starts(s)' <=> Starts(s)
                          /\ GivingUp(s)' <=> GivingUp(s)
  BY <1>1, <1>2 DEF Works, Starts, GivingUp
<1>4. \A c \in Clients : opts[c].run = None /\ opts[c].streak = 0
  BY ConstantsOK DEF RunInv, CallsCarry, Threads
<1> QED BY <1>3, <1>4, RunFrame DEF Born

(* Steps that move nobody. *)
LEMMA IdleKeepsRuns ==
  ASSUME SlotInv, RunInv, UNCHANGED <<pc, info, reports, restarts, opts>>,
         \A s \in Sessions : Born(s)' <=> Born(s)
  PROVE  RunInv'
<1>1. \A s \in Sessions : /\ Works(s)' <=> Works(s)
                          /\ Starts(s)' <=> Starts(s)
                          /\ GivingUp(s)' <=> GivingUp(s)
  BY DEF Works, Starts, GivingUp
<1>2. \A c \in Clients : opts[c].run = None /\ opts[c].streak = 0
  BY ConstantsOK DEF RunInv, CallsCarry, Threads
<1> QED BY <1>1, <1>2, RunFrame

LEMMA StartKeepsRuns ==
  ASSUME SlotInv, RunInv, NEW t \in Threads, StartAgent(t)
  PROVE  RunInv'
<1>1. CASE PreflightDenies(t)
  BY <1>1, FailKeepsRuns DEF PreflightDenies
<1>2. CASE GateRefuses(t)
  BY <1>2, FailKeepsRuns DEF GateRefuses, PassesPreflight
<1>3. CASE GateLaunches(t)
  BY <1>3, LaunchKeepsRuns DEF GateLaunches, PassesPreflight
<1>4. CASE GateReplaces(t)
  BY <1>4, MoveKeepsRuns
     DEF GateReplaces, PassesPreflight, Works, Starts, GivingUp, Watching
<1>5. CASE VictimDead(t)
  BY <1>5, MoveKeepsRuns
     DEF VictimDead, agents, marks, calling, Works, Starts, GivingUp, Watching
<1>6. CASE PollEnds(t)
  BY <1>6, MoveKeepsRuns
     DEF PollEnds, agents, marks, calling, Works, Starts, GivingUp, Watching
<1>7. CASE Relock(t)
  BY <1>7, FailKeepsRuns, LaunchKeepsRuns DEF Relock
<1> QED BY <1>1, <1>2, <1>3, <1>4, <1>5, <1>6, <1>7 DEF StartAgent

(* What a client asks for belongs to no run yet. *)
LEMMA RequestedFresh ==
  ASSUME NEW mode \in Modes, NEW o \in Requested(mode)
  PROVE  o.run = None /\ o.streak = 0 /\ o \in Options
<1>1. o \in Options
  BY RequestedTyped
<1>2. o.run = None /\ o.streak = 0
  BY DEF Requested, StartAllOpts, WildfireOpts, Opts
<1> QED BY <1>1, <1>2

LEMMA CallKeepsRuns ==
  ASSUME SlotInv, RunInv, NEW c \in Clients,
         CallStart(c) \/ CallStop(c) \/ CallRetry(c) \/ CallShutdown(c)
  PROVE  RunInv'
<1> c \in Threads /\ c \notin Sessions
  BY ConstantsOK DEF Threads
<1>1. CASE CallStart(c)
  <2>1. PICK mode \in Modes, sandbox \in Sandboxes : \E o \in Requested(mode) :
          opts' = [opts EXCEPT ![c] = [o EXCEPT !.sandbox = sandbox]]
    BY <1>1 DEF CallStart
  <2>2. PICK o \in Requested(mode) : opts' = [opts EXCEPT ![c] = [o EXCEPT !.sandbox = sandbox]]
    BY <2>1
  <2>3. o.run = None /\ o.streak = 0 /\ o \in Options
    BY RequestedFresh
  <2>4. /\ opts'[c].run = None /\ opts'[c].streak = 0
        /\ \A u \in Threads \ {c} : opts'[u] = opts[u]
    BY <2>2, <2>3 DEF Options, SlotInv, TypeOK
  <2>5. \A u \in Threads \ {c} : pc'[u] = pc[u]
    BY <1>1 DEF CallStart, SlotInv, TypeOK
  <2>6. \A s \in Sessions : /\ opts'[s] = opts[s]
                            /\ (Works(s)' <=> Works(s)) /\ (Starts(s)' <=> Starts(s))
                            /\ GivingUp(s)' <=> GivingUp(s)
    BY <2>4, <2>5, MonitorsBorn DEF Works, Starts, GivingUp
  <2>7. \A d \in Clients : opts'[d].run = None /\ opts'[d].streak = 0
    BY <2>4, ConstantsOK DEF RunInv, CallsCarry, Threads
  <2> QED BY <1>1, <2>6, <2>7, RunFrame DEF CallStart, agents, marks, Born
<1>2. CASE CallStop(c) \/ CallRetry(c) \/ CallShutdown(c)
  BY <1>2, IdleKeepsRuns DEF CallStop, CallRetry, CallShutdown, agents, marks, calling, Born
<1> QED BY <1>1, <1>2

LEMMA MonitorKeepsRuns ==
  ASSUME SlotInv, RunInv, NEW s \in Sessions, Monitor(s)
  PROVE  RunInv'
<1> s \in Threads /\ s \notin Clients
  BY MonitorsBorn
<1>1. CASE Exited(s) \/ TaskDone(s) \/ DecideChain(s) \/ Handoff(s)
  <2>1. CASE Exited(s)
    BY <2>1, MoveKeepsRuns
       DEF Exited, agents, marks, calling, Works, Starts, GivingUp, Watching
  <2>2. CASE TaskDone(s)
    BY <2>2, MoveKeepsRuns
       DEF TaskDone, agents, marks, calling, Works, Starts, GivingUp, Watching
  <2>3. CASE DecideChain(s)
    BY <2>3, MoveKeepsRuns
       DEF DecideChain, MayChain, Deciding, calling, Works, Starts, GivingUp, Watching
  <2>4. CASE Handoff(s)
    BY <2>4, MoveKeepsRuns
       DEF Handoff, agents, calling, Works, Starts, GivingUp, Watching
  <2> QED BY <1>1, <2>1, <2>2, <2>3, <2>4
<1>2. CASE Unchain(s)
  BY <1>2, MoveKeepsRuns
     DEF Unchain, agents, calling, Works, Starts, GivingUp, Watching
<1>3. CASE DecideEnd(s) \/ NextNone(s)
  <2>1. Works(s) /\ pc' = [pc EXCEPT ![s] = "done"]
    BY <1>3 DEF DecideEnd, Deciding, NextNone, Works, Watching
  <2>2. info[s].run \in Sessions /\ Holds(s, info[s].run)
    BY <2>1, MonitorsBorn DEF RunInv, Lineage, Holds
  <2>3. \A u \in Threads : pc'[u] = IF u = s THEN "done" ELSE pc[u]
    BY <2>1 DEF SlotInv, TypeOK
  <2>4. ~Works(s)' /\ \A u \in Sessions \ {s} : (Works(u)' <=> Works(u)) /\ (Starts(u)' <=> Starts(u))
    BY <2>3, MonitorsBorn DEF Works, Starts, Watching
  <2>5. opts[s].run = None /\ opts[s].streak = 0
    BY <2>1, MonitorsBorn DEF RunInv, CallsCarry
  <2>6. /\ Report(info[s].run, info[s].mode) /\ UNCHANGED <<proc, info, opts>>
        /\ restarts' \in {0, restarts}
    BY <1>3 DEF DecideEnd, NextNone, agents, calling
  <2> QED BY <2>2, <2>4, <2>5, <2>6, RunEnds
<1>4. CASE NextSome(s)
  <2>1. PICK o \in NextTask(info[s]) : NextGivesUp(s, o) \/ NextContinues(s, o)
    BY <1>4 DEF NextSome
  <2> QED BY <1>4, <2>1, LimitReached, RunContinues DEF NextSome, agents
<1>5. CASE GivesUp(s)
  BY <1>5, RunGivenUp
<1> QED BY <1>1, <1>2, <1>3, <1>4, <1>5 DEF Monitor

LEMMA RunStep == SlotInv /\ RunInv /\ [Next]_vars => RunInv'
<1> SUFFICES ASSUME SlotInv, RunInv, [Next]_vars PROVE RunInv'
  OBVIOUS
<1>1. CASE \E t \in Threads : StartAgent(t)
  BY <1>1, StartKeepsRuns
<1>2. CASE \E c \in Clients :
             CallStart(c) \/ CallStop(c) \/ CallRetry(c) \/ CallShutdown(c)
  BY <1>2, CallKeepsRuns
<1>3. CASE \E s \in Sessions : Monitor(s)
  BY <1>3, MonitorKeepsRuns
<1>4. CASE \E s \in Sessions : Exit(s)
  <2>1. PICK s \in Sessions : Exit(s)
    BY <1>4
  <2>2. \A q \in Sessions : Born(q)' <=> Born(q)
    BY <2>1 DEF Exit, Born, SlotInv, TypeOK
  <2> QED BY <2>1, <2>2, IdleKeepsRuns DEF Exit, marks, calling
<1>5. CASE \E s \in Sessions : AgentWrites(s)
  BY <1>5, IdleKeepsRuns DEF AgentWrites, agents, marks, calling, Born
<1>6. CASE StopAgent \/ StopAllReturns \/ UNCHANGED vars
  BY <1>6, IdleKeepsRuns DEF StopAgent, StopAllReturns, vars, agents, marks, calling, Born
<1> QED BY <1>1, <1>2, <1>3, <1>4, <1>5, <1>6 DEF Next

LEMMA RunInvariant == Spec => []RunInv
BY RunInit, RunStep, SlotInvariant, PTL DEF Spec

(* run_complete.go: a run is announced once, whichever of its sessions or  *)
(* launches ends it, and not again by the chat that follows.               *)
THEOREM RunsReportedOnce == Spec => []ReportedOnce
<1>1. RunInv => ReportedOnce
  BY DEF RunInv
<1> QED BY <1>1, RunInvariant, PTL

(* ... and the run of a task or of start-all is announced whatever ends    *)
(* it: when its goroutines are done, so is its report.                     *)
THEOREM RunsReported == Spec => []EndedRunReported
<1>1. RunInv /\ SlotInv => EndedRunReported
  <2> SUFFICES ASSUME RunInv, SlotInv, NEW r \in Sessions, RunOver(r),
                      info[r].mode \in Plain
               PROVE  reports[r] = 1
    BY DEF EndedRunReported, Plain
  <2>1. ASSUME NEW s \in Sessions, Holds(s, r) PROVE FALSE
    <3>1. Born(s) /\ pc[s] # "done"
      BY <2>1, MonitorsBorn DEF Holds, Works, Starts, Watching
    <3>2. info[s].run = r
      BY <2>1, MonitorsBorn DEF Holds, RunInv, CallsCarry, Sessions, None
    <3> QED BY <3>1, <3>2 DEF RunOver, Born
  <2>2. reports[r] # 0
    BY <2>1 DEF RunOver, RunInv, HeldUntilReported, Born
  <2> QED BY <2>2 DEF RunInv, ReportedOnce, SlotInv, TypeOK
<1> QED BY <1>1, RunInvariant, SlotInvariant, PTL

(* manager.go, maxTaskRestarts: a run that has the project to itself does  *)
(* not start a task for the MaxRestarts-th time in a row after the first.  *)
THEOREM RestartsLimited == Spec => []LoneRunRestartsBounded
<1>1. RunInv => LoneRunRestartsBounded
  BY DEF RunInv
<1> QED BY <1>1, RunInvariant, PTL
===============================================================================
