----------------------------- MODULE AgentManager -----------------------------
(***************************************************************************)
(* The daemon's agent manager (internal/daemon/agent/manager.go) for one   *)
(* project: the slot m.agents[project], the goroutines that compete for it *)
(* (RPC handlers and one monitor per session) and the guards that keep a   *)
(* chat auto-start out of a run's way.  Every critical section of m.mu is  *)
(* one action.  A monitor that chains calls StartAgent itself, so clients  *)
(* and sessions are both threads.                                          *)
(***************************************************************************)
EXTENDS Integers

CONSTANTS
  Clients,      \* goroutines serving StartAgent / StopAgent RPCs
  MaxSessions,  \* bound: agent processes ever spawned
  NumTasks,     \* bound: task files of the project
  MaxCalls,     \* bound: RPCs the clients issue
  MaxRestarts,  \* maxTaskRestarts
  Requests,     \* the calls clients make: modes, "stop", "shutdown"
  Sandboxes,    \* the sandbox choices a request may carry
  PathDenied    \* what CheckProjectPath may answer: links may change

None     == 0
Sessions == 1..MaxSessions
Tasks    == 1..NumTasks
Threads  == Clients \cup Sessions

Modes    == {"chat", "task", "start-all", "wildfire", "generate"}
Chained  == {"start-all", "wildfire"}
Phases   == {"none", "execute", "refine", "generate"}
Statuses == {"absent", "draft", "ready", "done"}

ASSUME ConstantsOK ==
  /\ MaxSessions \in Nat /\ NumTasks \in Nat /\ MaxCalls \in Nat
  /\ MaxRestarts \in Nat \ {0}
  /\ Clients \cap Sessions = {}
  /\ Sandboxes \subseteq {"auto", "none"}
  /\ PathDenied \subseteq BOOLEAN

VARIABLES
  slot,       \* m.agents[project]: the registered session, or None
  proc,       \* per session: its process is "unborn", "running", "exited"
  info,       \* per session: the options it was started with
  stopped,    \* sessions with userStopped set
  term,       \* sessions whose process was sent Stop()
  chaining,   \* m.chaining[project]
  replacing,  \* m.replacing[project]
  restarts,   \* m.taskRestarts[project]
  preflight,  \* m.preflightIssues[project] is set
  pc,         \* where each goroutine is
  opts,       \* per goroutine: the StartOptions of its StartAgent call
  victim,     \* per goroutine: the session its StartAgent is replacing
  board,      \* status of each task file
  reports,    \* RUN_COMPLETE emissions per run (a run is its first session)
  shutdown,   \* "up", "stopping" (StopAll waits) or "down"
  collected,  \* the sessions StopAll is stopping
  calls       \* RPCs issued so far

marks  == <<chaining, replacing, restarts, preflight>>
agents == <<slot, proc, info, stopped, term>>
calling == <<opts, victim>>
daemon == <<shutdown, collected>>
vars   == <<agents, marks, pc, calling, board, reports, daemon, calls>>

-------------------------------------------------------------------------------
(* StartOptions.  "run" is the RunStartedAt anchor: the first session of   *)
(* the run, None for a fresh one.  "streak" is history: how many sessions  *)
(* of the run just before this one worked on the same task.                *)

Options == [mode : Modes, phase : Phases, task : 0..NumTasks,
            run : 0..MaxSessions, sandbox : {"auto", "none"}, streak : Nat]

Opts(mode, phase, task) ==
  [mode |-> mode, phase |-> phase, task |-> task,
   run |-> None, sandbox |-> "auto", streak |-> 0]

NoCall == Opts("chat", "none", 0)

With(status) == {k \in Tasks : board[k] = status}
Least(S) == {k \in S : \A l \in S : k <= l}

StartAllOpts == {Opts("start-all", "none", k) : k \in Least(With("ready"))}

(* The phase of wildfire the task files call for. *)
WildfireOpts ==
  IF With("ready") # {} THEN {Opts("wildfire", "execute", k) : k \in Least(With("ready"))}
  ELSE IF With("draft") # {} THEN {Opts("wildfire", "refine", k) : k \in Least(With("draft"))}
  ELSE {Opts("wildfire", "generate", 0)}

(* What an RPC of the given mode passes to StartAgent; empty: it errors. *)
Requested(mode) ==
  CASE mode = "task" -> {Opts("task", "none", k) : k \in With("ready") \cup With("draft")}
    [] mode = "start-all" -> StartAllOpts
    [] mode = "wildfire" -> WildfireOpts
    [] mode = "chat" -> {Opts("chat", "none", k) : k \in 0..NumTasks}
    [] OTHER -> {Opts(mode, "none", 0)}

(* nextTaskFn: the session that follows one with options o; empty: none. *)
NextTask(o) ==
  CASE o.mode = "start-all" -> StartAllOpts
    [] o.mode = "wildfire" ->
         IF o.phase = "generate" /\ With("ready") \cup With("draft") = {}
         THEN {NoCall}
         ELSE WildfireOpts
    [] OTHER -> {}

TaskScoped(o) ==
  /\ o.task > 0
  /\ \/ o.mode \in {"task", "start-all"}
     \/ o.mode = "wildfire" /\ o.phase = "execute"

-------------------------------------------------------------------------------
Init ==
  /\ slot = None
  /\ proc = [s \in Sessions |-> "unborn"]
  /\ info = [s \in Sessions |-> NoCall]
  /\ stopped = {} /\ term = {}
  /\ chaining = FALSE /\ replacing = FALSE /\ restarts = 0 /\ preflight = FALSE
  /\ pc = [t \in Threads |-> IF t \in Clients THEN "idle" ELSE "unborn"]
  /\ opts = [t \in Threads |-> NoCall]
  /\ victim = [t \in Threads |-> None]
  /\ board \in [Tasks -> {"absent", "draft", "ready"}]
  /\ reports = [s \in Sessions |-> 0]
  /\ shutdown = "up" /\ collected = {}
  /\ calls = 0

(* emitRunComplete: only task, start-all and wildfire runs are announced. *)
Report(run, mode) ==
  reports' = IF mode \in {"task", "start-all", "wildfire"} /\ reports[run] < 2
             THEN [reports EXCEPT ![run] = @ + 1]
             ELSE reports

-------------------------------------------------------------------------------
(* StartAgent.                                                             *)

AfterStart(t) == IF t \in Clients THEN "idle" ELSE "unchain"

(* The locals of the call die with it. *)
Returns(t) ==
  /\ opts' = [opts EXCEPT ![t] = NoCall]
  /\ victim' = [victim EXCEPT ![t] = None]

(* Mutant: a failed launch ends the run without a word. *)
StartFailsSilently(t) ==
  /\ pc' = [pc EXCEPT ![t] = AfterStart(t)]
  /\ Returns(t)
  /\ UNCHANGED <<slot, proc, info, board, reports>>

(* StartAgent returns an error.  A chain that cannot launch its next       *)
(* session ends its run there, unless it had ended it already.             *)
StartFails(t) ==
  /\ pc' = [pc EXCEPT ![t] = AfterStart(t)]
  /\ IF t \in Sessions /\ opts[t].run # None
     THEN Report(opts[t].run, info[t].mode)
     ELSE UNCHANGED reports
  /\ Returns(t)
  /\ UNCHANGED <<slot, proc, info, board>>

(* The process runs: stamp the task, register the session, start a monitor. *)
Register(t) ==
  \E n \in Sessions :
    /\ proc[n] = "unborn"
    /\ \A k \in Sessions : k < n => proc[k] # "unborn"
    /\ slot' = n
    /\ proc' = [proc EXCEPT ![n] = "running"]
    /\ info' = [info EXCEPT ![n] =
         [opts[t] EXCEPT !.run = IF @ = None THEN n ELSE @]]
    /\ pc' = [pc EXCEPT ![t] = AfterStart(t), ![n] = "wait"]
    /\ board' = IF TaskScoped(opts[t]) /\ board[opts[t].task] = "draft"
                THEN [board EXCEPT ![opts[t].task] = "ready"]
                ELSE board
    /\ Returns(t)
    /\ UNCHANGED reports

(* Worktree, prompt, command, sandbox or PTY may fail on the way. *)
Launch(t) == Register(t) \/ StartFails(t)

(* Under the lock: refused by the sandbox preflight. *)
PreflightDenies(t) ==
  /\ pc[t] = "gate"
  /\ TRUE \in PathDenied /\ opts[t].sandbox # "none"
  /\ preflight' = TRUE
  /\ StartFails(t)
  /\ UNCHANGED <<stopped, term, chaining, replacing, restarts, daemon, calls>>

PassesPreflight(t) ==
  /\ pc[t] = "gate"
  /\ FALSE \in PathDenied \/ opts[t].sandbox = "none"
  /\ preflight' = FALSE

(* Mutant: the gate looks at the marks only. *)
RefuseChatMidway(t) == opts[t].mode = "chat" /\ (chaining \/ replacing)

(* refuseChatStart: chat may only replace chat, and never mid-transition. *)
RefuseChat(t) ==
  /\ opts[t].mode = "chat"
  /\ \/ slot # None /\ info[slot].mode # "chat"
     \/ chaining
     \/ replacing

GateRefuses(t) ==
  /\ PassesPreflight(t)
  /\ RefuseChat(t)
  /\ StartFails(t)
  /\ UNCHANGED <<stopped, term, chaining, replacing, restarts, daemon, calls>>

(* Mutant: a session in the slot is no reason to wait. *)
GateLaunchesOver(t) ==
  /\ PassesPreflight(t)
  /\ ~RefuseChat(t)
  /\ Launch(t)
  /\ UNCHANGED <<stopped, term, chaining, replacing, restarts, daemon, calls>>

(* The slot is free: StartAgent launches without releasing the lock. *)
GateLaunches(t) ==
  /\ PassesPreflight(t)
  /\ ~RefuseChat(t)
  /\ slot = None
  /\ Launch(t)
  /\ UNCHANGED <<stopped, term, chaining, replacing, restarts, daemon, calls>>

(* Mutant: the victim is marked, but never killed. *)
GateReplacesPolitely(t) ==
  /\ PassesPreflight(t)
  /\ ~RefuseChat(t)
  /\ slot # None
  /\ stopped' = stopped \cup {slot}
  /\ replacing' = TRUE
  /\ victim' = [victim EXCEPT ![t] = slot]
  /\ pc' = [pc EXCEPT ![t] = "stopping"]
  /\ UNCHANGED <<slot, proc, info, term, chaining, restarts, opts, board, reports,
                 daemon, calls>>

(* The slot is taken: mark the replace window, release the lock, kill. *)
GateReplaces(t) ==
  /\ PassesPreflight(t)
  /\ ~RefuseChat(t)
  /\ slot # None
  /\ stopped' = stopped \cup {slot}
  /\ term' = term \cup {slot}
  /\ replacing' = TRUE
  /\ victim' = [victim EXCEPT ![t] = slot]
  /\ pc' = [pc EXCEPT ![t] = "stopping"]
  /\ UNCHANGED <<slot, proc, info, chaining, restarts, opts, board, reports,
                 daemon, calls>>

(* proc.Stop() returned: the victim is dead. *)
VictimDead(t) ==
  /\ pc[t] = "stopping"
  /\ proc[victim[t]] = "exited"
  /\ pc' = [pc EXCEPT ![t] = "polling"]
  /\ UNCHANGED <<agents, marks, calling, board, reports, daemon, calls>>

(* The poll saw an empty slot, or gave up after 100 rounds. *)
PollEnds(t) ==
  /\ pc[t] = "polling"
  /\ pc' = [pc EXCEPT ![t] = "relock"]
  /\ UNCHANGED <<agents, marks, calling, board, reports, daemon, calls>>

(* Mutant: the slot is not looked at again after the wait. *)
RelockBlindly(t) ==
  /\ pc[t] = "relock"
  /\ replacing' = FALSE
  /\ Launch(t)
  /\ UNCHANGED <<stopped, term, chaining, restarts, preflight, daemon, calls>>

(* The lock is held again: any session in the slot now is an error. *)
Relock(t) ==
  /\ pc[t] = "relock"
  /\ replacing' = FALSE
  /\ IF slot # None THEN StartFails(t) ELSE Launch(t)
  /\ UNCHANGED <<stopped, term, chaining, restarts, preflight, daemon, calls>>

StartAgent(t) ==
  \/ PreflightDenies(t) \/ GateRefuses(t) \/ GateLaunches(t) \/ GateReplaces(t)
  \/ VictimDead(t) \/ PollEnds(t) \/ Relock(t)

-------------------------------------------------------------------------------
(* RPC handlers.                                                           *)

MayCall(c, request) ==
  /\ pc[c] = "idle"
  /\ request \in Requests
  /\ calls < MaxCalls
  /\ calls' = calls + 1

(* The handler reads the task files, then calls StartAgent. *)
CallStart(c) ==
  \E mode \in Modes, sandbox \in Sandboxes :
    /\ MayCall(c, mode)
    /\ \E o \in Requested(mode) :
         opts' = [opts EXCEPT ![c] = [o EXCEPT !.sandbox = sandbox]]
    /\ pc' = [pc EXCEPT ![c] = "gate"]
    /\ UNCHANGED <<agents, marks, victim, board, reports, daemon>>

(* StopAgentByUser: an error when the slot is empty. *)
CallStop(c) ==
  /\ MayCall(c, "stop")
  /\ slot # None
  /\ stopped' = stopped \cup {slot}
  /\ term' = term \cup {slot}
  /\ UNCHANGED <<slot, proc, info, marks, pc, calling, board, reports, daemon>>

(* StopAll, on the way out of the daemon. *)
CallShutdown(c) ==
  /\ MayCall(c, "shutdown")
  /\ shutdown = "up"
  /\ shutdown' = "stopping"
  /\ collected' = {slot} \ {None}
  /\ stopped' = stopped \cup collected'
  /\ term' = term \cup collected'
  /\ UNCHANGED <<slot, proc, info, marks, pc, calling, board, reports>>

StopAllReturns ==
  /\ shutdown = "stopping"
  /\ \A s \in collected : proc[s] = "exited"
  /\ shutdown' = "down"
  /\ UNCHANGED <<agents, marks, pc, calling, board, reports, collected, calls>>

(* A user sends a finished task back to the queue. *)
CallRetry(c) ==
  /\ MayCall(c, "retry")
  /\ \E k \in With("done") : board' = [board EXCEPT ![k] = "ready"]
  /\ UNCHANGED <<agents, marks, pc, calling, reports, daemon>>

(* StopAgent: the project's session, whatever it works on.  Watcher and    *)
(* pollers call it (module AgentEvents says when); here, at any time.      *)
StopAgent ==
  /\ slot # None
  /\ term' = term \cup {slot}
  /\ UNCHANGED <<slot, proc, info, stopped, marks, pc, calling, board, reports,
                 daemon, calls>>

(* StopAgentForTask: only if the session still works on that task. *)
StopAgentForTask(k) ==
  /\ slot # None
  /\ info[slot].task = k
  /\ StopAgent

-------------------------------------------------------------------------------
(* The agent process and the task files.                                   *)

(* A process exits of its own accord or because it was stopped. *)
Exit(s) ==
  /\ proc[s] = "running"
  /\ proc' = [proc EXCEPT ![s] = "exited"]
  /\ UNCHANGED <<slot, info, stopped, term, marks, pc, calling, board, reports,
                 daemon, calls>>

(* What a running agent writes: it completes its task, refines a draft, or *)
(* generates tasks.                                                        *)
AgentWrites(s) ==
  /\ proc[s] = "running"
  /\ \E k \in Tasks :
       \/ /\ TaskScoped(info[s]) /\ k = info[s].task /\ board[k] = "ready"
          /\ board' = [board EXCEPT ![k] = "done"]
       \/ /\ info[s].phase = "refine" /\ k = info[s].task /\ board[k] = "draft"
          /\ board' = [board EXCEPT ![k] = "ready"]
       \/ /\ "generate" \in {info[s].mode, info[s].phase} /\ board[k] = "absent"
          /\ \E status \in {"draft", "ready"} : board' = [board EXCEPT ![k] = status]
  /\ UNCHANGED <<agents, marks, pc, calling, reports, daemon, calls>>

-------------------------------------------------------------------------------
(* monitorProcess of session s.                                            *)

(* The lock is released around onTaskDoneFn when the session had a task.   *)
(* (The code also returns when the slot no longer holds s: SlotIsMonitored *)
(* says why that never happens.)                                           *)
Exited(s) ==
  /\ pc[s] = "wait"
  /\ proc[s] = "exited"
  /\ slot = s
  /\ info[s].task > 0
  /\ pc' = [pc EXCEPT ![s] = "taskdone"]
  /\ UNCHANGED <<agents, marks, calling, board, reports, daemon, calls>>

(* onTaskDoneFn, outside the lock: merge and clean up.  Only a session     *)
(* with a worktree can fail there, at the merge or at reading its files.   *)
TaskDone(s) ==
  /\ pc[s] = "taskdone"
  /\ \E outcome \in {"decide", "mergefailed"} :
       /\ outcome = "mergefailed" => TaskScoped(info[s])
       /\ pc' = [pc EXCEPT ![s] = outcome]
  /\ UNCHANGED <<agents, marks, calling, board, reports, daemon, calls>>

(* Mutant: nobody cleans up after a failed merge. *)
DecidingMergedOnly(s) ==
  /\ slot = s
  /\ \/ pc[s] = "decide"
     \/ pc[s] = "wait" /\ proc[s] = "exited" /\ info[s].task = 0

(* The chain decision, under the lock; at once for a session with no task. *)
Deciding(s) ==
  /\ slot = s
  /\ \/ pc[s] \in {"decide", "mergefailed"}
     \/ pc[s] = "wait" /\ proc[s] = "exited" /\ info[s].task = 0

(* Mutant: a stopped session chains like any other. *)
MayChainStopped(s) ==
  /\ Deciding(s)
  /\ pc[s] # "mergefailed"
  /\ info[s].mode \in Chained

MayChain(s) ==
  /\ Deciding(s)
  /\ pc[s] # "mergefailed"
  /\ s \notin stopped
  /\ info[s].mode \in Chained

(* Mutant: the session is not removed before the chain goes on. *)
DecideChainInPlace(s) ==
  /\ MayChain(s)
  /\ chaining' = TRUE
  /\ pc' = [pc EXCEPT ![s] = "next"]
  /\ UNCHANGED <<slot, proc, info, stopped, term, replacing, restarts, preflight,
                 calling, board, reports, daemon, calls>>

DecideChain(s) ==
  /\ MayChain(s)
  /\ slot' = None
  /\ chaining' = TRUE
  /\ pc' = [pc EXCEPT ![s] = "next"]
  /\ UNCHANGED <<proc, info, stopped, term, replacing, restarts, preflight,
                 calling, board, reports, daemon, calls>>

(* A process with an open issue (rate limit, auth) ends the run as well: *)
(* whether it had one when it died is the process's choice.              *)
DecideEnd(s) ==
  /\ Deciding(s)
  /\ slot' = None
  /\ restarts' = 0
  /\ Report(info[s].run, info[s].mode)
  /\ pc' = [pc EXCEPT ![s] = "done"]
  /\ UNCHANGED <<proc, info, stopped, term, chaining, replacing, preflight,
                 calling, board, daemon, calls>>

(* nextTaskFn errs or has nothing left: the run is over. *)
NextNone(s) ==
  /\ pc[s] = "next"
  /\ Report(info[s].run, info[s].mode)
  /\ chaining' = FALSE
  /\ pc' = [pc EXCEPT ![s] = "done"]
  /\ UNCHANGED <<agents, replacing, restarts, preflight, calling, board, daemon,
                 calls>>

SameTask(s, o) == o.task = info[s].task /\ info[s].task > 0

(* The same task again, too often: the count is stored, the lock released. *)
NextGivesUp(s, o) ==
  /\ SameTask(s, o)
  /\ restarts + 1 >= MaxRestarts
  /\ restarts' = restarts + 1
  /\ pc' = [pc EXCEPT ![s] = "giveup"]
  /\ UNCHANGED opts

(* Mutant: restarts are not counted. *)
NextContinuesUncounted(s, o) ==
  /\ SameTask(s, o) => restarts + 1 < MaxRestarts
  /\ restarts' = IF SameTask(s, o) THEN restarts ELSE 0
  /\ opts' = [opts EXCEPT ![s] =
       [o EXCEPT !.run = info[s].run,
                 !.streak = IF SameTask(s, o) THEN info[s].streak + 1 ELSE 0]]
  /\ pc' = [pc EXCEPT ![s] = "handoff"]

NextContinues(s, o) ==
  /\ SameTask(s, o) => restarts + 1 < MaxRestarts
  /\ restarts' = IF SameTask(s, o) THEN restarts + 1 ELSE 0
  /\ opts' = [opts EXCEPT ![s] =
       [o EXCEPT !.run = info[s].run,
                 !.streak = IF SameTask(s, o) THEN info[s].streak + 1 ELSE 0]]
  /\ pc' = [pc EXCEPT ![s] = "handoff"]

NextSome(s) ==
  /\ pc[s] = "next"
  /\ \E o \in NextTask(info[s]) : NextGivesUp(s, o) \/ NextContinues(s, o)
  /\ UNCHANGED <<agents, chaining, replacing, preflight, victim, board, reports,
                 daemon, calls>>

(* Mutant: the chat that follows the run counts as a part of it. *)
GivesUpInRun(s) ==
  /\ pc[s] = "giveup"
  /\ restarts' = 0
  /\ Report(info[s].run, info[s].mode)
  /\ opts' = [opts EXCEPT ![s] = [NoCall EXCEPT !.run = info[s].run]]
  /\ pc' = [pc EXCEPT ![s] = "handoff"]
  /\ UNCHANGED <<agents, chaining, replacing, preflight, victim, board, daemon,
                 calls>>

(* The lock again: the counter, which another chain may have moved since,  *)
(* is deleted, the run is over and its slot goes to a chat.                *)
GivesUp(s) ==
  /\ pc[s] = "giveup"
  /\ restarts' = 0
  /\ Report(info[s].run, info[s].mode)
  /\ opts' = [opts EXCEPT ![s] = NoCall]
  /\ pc' = [pc EXCEPT ![s] = "handoff"]
  /\ UNCHANGED <<agents, chaining, replacing, preflight, victim, board, daemon,
                 calls>>

(* Clear the mark, then call StartAgent: it must pass its own chat gate. *)
Handoff(s) ==
  /\ pc[s] = "handoff"
  /\ chaining' = FALSE
  /\ pc' = [pc EXCEPT ![s] = "gate"]
  /\ UNCHANGED <<agents, replacing, restarts, preflight, calling, board, reports,
                 daemon, calls>>

(* The deferred setChaining(false), after StartAgent returned. *)
Unchain(s) ==
  /\ pc[s] = "unchain"
  /\ chaining' = FALSE
  /\ pc' = [pc EXCEPT ![s] = "done"]
  /\ UNCHANGED <<agents, replacing, restarts, preflight, calling, board, reports,
                 daemon, calls>>

Monitor(s) ==
  \/ Exited(s) \/ TaskDone(s) \/ DecideChain(s) \/ DecideEnd(s)
  \/ NextNone(s) \/ NextSome(s) \/ GivesUp(s) \/ Handoff(s) \/ Unchain(s)

-------------------------------------------------------------------------------
Next ==
  \/ \E t \in Threads : StartAgent(t)
  \/ \E c \in Clients :
       CallStart(c) \/ CallStop(c) \/ CallRetry(c) \/ CallShutdown(c)
  \/ \E s \in Sessions : Monitor(s) \/ Exit(s) \/ AgentWrites(s)
  \/ StopAgent
  \/ StopAllReturns

Spec == Init /\ [][Next]_vars

(* Goroutines run; Stop() kills what does not exit within five seconds; git *)
(* and the task files answer.  Nothing obliges a client to call, an agent  *)
(* to work, or a process that was not stopped to exit.                     *)
Fairness ==
  /\ \A t \in Threads : WF_vars(StartAgent(t))
  /\ \A s \in Sessions : WF_vars(Monitor(s)) /\ WF_vars(s \in term /\ Exit(s))
  /\ WF_vars(StopAllReturns)

FairSpec == Spec /\ Fairness

-------------------------------------------------------------------------------
(* Properties.                                                             *)

PCs == {"idle", "unborn", "gate", "stopping", "polling", "relock", "wait",
        "taskdone", "decide", "mergefailed", "next", "giveup", "handoff",
        "unchain", "done"}

(* The restart counter has no bound of its own: between the two sections  *)
(* in which a run gives up, other chains count on.                         *)
TypeOK ==
  /\ slot \in 0..MaxSessions
  /\ proc \in [Sessions -> {"unborn", "running", "exited"}]
  /\ info \in [Sessions -> Options]
  /\ stopped \subseteq Sessions /\ term \subseteq Sessions
  /\ chaining \in BOOLEAN /\ replacing \in BOOLEAN /\ preflight \in BOOLEAN
  /\ restarts \in Nat
  /\ pc \in [Threads -> PCs]
  /\ opts \in [Threads -> Options]
  /\ victim \in [Threads -> 0..MaxSessions]
  /\ board \in [Tasks -> Statuses]
  /\ reports \in [Sessions -> 0..2]
  /\ shutdown \in {"up", "stopping", "down"} /\ collected \subseteq Sessions
  /\ calls \in 0..MaxCalls

(* An agent that runs is the one in the slot: however many clients replace *)
(* it and however its monitor chains, a project never has two live agents  *)
(* nor one the manager has lost sight of.                                  *)
LiveAgentOwnsSlot == \A s \in Sessions : proc[s] = "running" => slot = s

(* A registered session has a monitor that has not cleaned up yet, so the  *)
(* slot is given up some day and nobody else gives it up: the branches of  *)
(* monitorProcess for a session that is no longer in the slot are dead.    *)
Watching == {"wait", "taskdone", "decide", "mergefailed"}
SlotIsMonitored == \A s \in Sessions : slot = s <=> pc[s] \in Watching

(* A run somebody stopped (StopAgentByUser, StopAll or a replacement) does *)
(* not chain: its monitor never gets to ask for a next task.               *)
StoppedRunEnds ==
  \A s \in stopped : pc[s] \in Watching \cup {"done"}

(* A run is announced as complete at most once, by whichever session ends  *)
(* it: not again by the chat that follows nor by a launch that fails.      *)
ReportedOnce == \A s \in Sessions : reports[s] <= 1

(* Restart protection: a run that has the project to itself, whatever its  *)
(* launches, merges and retries come to, never starts a task for the       *)
(* MaxRestarts-th time in a row after the first.  (The counter belongs to  *)
(* the project: with a second run about, see RestartsBounded below.)       *)
Alone(r) == \A s \in Sessions : proc[s] # "unborn" => info[s].run = r
LoneRunRestartsBounded == \A s \in Sessions :
  Alone(info[s].run) => info[s].streak < MaxRestarts

(* No chat start reaches its kill with a working agent as its victim. *)
ChatNeverKillsWork ==
  \A t \in Threads :
    pc[t] \in {"stopping", "polling", "relock"} /\ opts[t].mode = "chat"
      => info[victim[t]].mode = "chat"

(* The manager implements the one-slot promise. *)
Promise == INSTANCE AgentSlot WITH
  holder <- slot,
  live   <- {s \in Sessions : proc[s] = "running"},
  used   <- {s \in Sessions : proc[s] # "unborn"}
OneSlot == Promise!Spec

(* Every StartAgent call returns, whoever it has to kill on the way. *)
StartReturns == \A t \in Threads :
  pc[t] = "gate" ~> pc[t] \in {"idle", "unchain"}

(* A session that was sent Stop leaves the slot. *)
StopFreesSlot == \A s \in Sessions : s \in term ~> slot # s

(* Whoever ends a run of tasks announces it: when all its sessions are     *)
(* over, the run has been reported.                                        *)
RunOver(r) ==
  /\ proc[r] # "unborn" /\ info[r].run = r
  /\ \A s \in Sessions : proc[s] # "unborn" /\ info[s].run = r => pc[s] = "done"
EndedRunReported == \A r \in Sessions :
  RunOver(r) /\ info[r].mode \in {"task", "start-all"} => reports[r] = 1

-------------------------------------------------------------------------------
(* What the comments and architecture.md say beyond that.  The code does   *)
(* not keep these in every interleaving: README, Observations.             *)

Switching(t) == pc[t] \in {"stopping", "polling", "relock"}

(* While a deliberate (non-chat) start is between its kill and its         *)
(* registration, no chat takes the slot ahead of it.                       *)
SwitchTakesEffect == \A t \in Clients :
  Switching(t) /\ opts[t].mode # "chat" /\ slot \notin {None, victim[t]}
    => info[slot].mode # "chat"

(* Every session of a run has the sandbox the run was started with. *)
RunKeepsSandbox == \A s \in Sessions :
  proc[s] # "unborn" => info[s].sandbox = info[info[s].run].sandbox

(* A wildfire is announced like any other run. *)
WildfireReported == \A r \in Sessions :
  RunOver(r) /\ info[r].mode = "wildfire" => reports[r] = 1

(* However a chain goes, no task is started for the MaxRestarts-th time in *)
(* a row after the first.                                                  *)
RestartsBounded == \A s \in Sessions : info[s].streak < MaxRestarts

(* When StopAll has returned, no agent of the project is running. *)
NoneOutlivesStopAll ==
  shutdown = "down" => \A s \in Sessions : proc[s] # "running"
===============================================================================
