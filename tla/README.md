# Watchfire in TLA+

Watchfire's daemon (`watchfired`) runs one coding agent per project, chains
agents through the project's task files and reports on the way. These modules
model the daemon's concurrent core and the parts that talk to it from outside (the
Telegram bridge, the inbound webhooks, the desktop terminal), check it with TLC and
prove the main safety results with TLAPS. Line numbers refer to the sources beside this directory
(`src/`).

## Inventory

| Component | State it keeps | Operations | How it meets the others |
|---|---|---|---|
| Agent manager (`internal/daemon/agent/manager.go`, `run_complete.go`, `server/agent_service.go`) | `agents` (one session per project), `chaining`, `replacing`, `taskRestarts`, `preflightIssues`, all under `m.mu` | `StartAgent`, `StopAgent`, `StopAgentByUser`, `StopAgentForTask`, `StopAll`, `monitorProcess`, the pollers | Called by RPC goroutines, the event loop's stop goroutines, Telegram, the tray and its own monitors; asks `nextTaskFn` (`server.go`) for the next session; announces `RUN_COMPLETE` on the bus |
| Watcher (`watcher/watcher.go`) | `w.projects` under `w.mu`, a debounce timer per path, a channel of 100 events | `WatchProject`, `debounceEvent`, `processFileChange` | `StartAgent` re-watches the project while it holds `m.mu`; the server's event loop drains the channel |
| Event loop and handlers (`server/server.go`) | the event at hand | `handleTaskChanged`, `handlePhaseEnded`, generate, retrofit and settings handlers | Read task and signal files, ask the manager for the agent (`m.mu`), stop it in a goroutine of their own, reload the relay |
| Process streams (`agent/process.go`, `process_unix.go`; in the GUI `useAgentTerminal.ts`, `agent-store.ts`) | the PTY's rolling buffer, its byte count, subscribers; in the client a cursor, the last status, timers | `Stop`, subscriptions, issue detection; the hook's effect, `fetchStatus`, `startAgent` | The manager waits for `Done()`; raw output streams to the GUI, the terminal UI and the CLI |
| Task-done handling and worktrees (`agent/taskdone.go`, `worktree.go`, `git/pr.go`, `server/branch_service.go`) | a git worktree and branch per task, the checkout in the project's root | capture of dirty files, `EnsureWorktree`, merge, pull request, removal; merge and delete by hand | Called by `StartAgent` and by `monitorProcess` with the lock released; RPCs run the same git commands with no lock at all |
| Task manager (`task/manager.go`, `config/tasks.go`) | task files, `next_task_number` | create, update, bulk update, reorder, trash, sync | No lock: RPC goroutines, the event loop and the agents write the same files |
| Relay dispatcher (`relay/dispatcher.go`), notification bus (`notify/bus.go`) | subscription, adapters, breaker records | `Emit`, `Run`, `Reload`, `Stop` | Emitted to by the manager, the event loop and the digest; reloaded by the event loop |
| Echo inbound (`echo/`, `server/echo_taskflush.go`, `command_context.go`, `integrations_inbound.go`) | the listener, token buckets per caller, caches of delivery ids | webhooks of three Git hosts, Slack and Discord commands; `restartEchoServer` | One goroutine per request; writes task files, stops agents; replaced when the configuration is saved |
| Telegram bridge (`telegram/bridge.go`, `commands.go`, `runcontrol.go`, `pairing.go`, `login.go`, `server/telegram_*.go`) | poll offset, paired chats (in memory and in `integrations.yaml`), the pairing code, queued texts | long poll, pairing, settings, run control, words for the agent | Starts and stops agents, types into the PTY; replaced by a config save |
| Live relay (`telegram/watch.go`) | a relay per watched session: transcript file, position, batch, the message that grows | watch loop, tailer, sender | Reads the agent's transcript, posts beside the bridge's replies |
| Daemon lifecycle (`cmd/root.go`, `config/lock*.go`) | singleton flock, `daemon.yaml` | start, shut down | Stops the relay, the watcher and then all agents |

The rest (project and settings files, insights, metrics, digest, OAuth, Discord
and Slack clients, tray, command line, terminal UI, MCP server, GUI, generated
code) is I/O, presentation or a client of the RPCs above; `PROJECT.json` lists
each part with the reason it is left out.

What is hard here: many goroutines compete for a project's one slot and release
`m.mu` in the middle of what they do (the wait for a victim, the merge, the
choice of the next task); checks are made before such a gap and used after it;
a run can end in seven ways; file events are debounced, bounded and can be
missed; three locks and a channel form a ring. Outside the manager: bridges and
listeners are replaced while the old ones still work; Telegram sends an update
again until it is acknowledged, Git hosts send a delivery again until it is
answered; an edit of a message may have been made although it failed; git
commands in the user's checkout fail one by one; a terminal resumes a stream by
a count of bytes that is only good for one process. `hazards` in `PROJECT.json`
names each of these at its line with the property that watches it.

What makes each component correct: *manager*: one live agent per project,
watched by a monitor; a stopped run stays stopped; chats never displace work;
restarts are bounded; every run is announced once; calls return. *Watcher and
loop*: the last change of a file is handled, finished work ends its session even
without events, no ring of waits. *Relay dispatcher*: bounded failures, order,
shutdown. *Worktrees*: committed work survives, a merge reported fine is one, and
one left open in the checkout is not passed over in silence. *Echo*: a delivery is worked once and its
retries cost nothing. *Telegram*: every update is handled, once by a bridge; a
code pairs one chat; who is admitted is on disk; a queued text is typed or its
sender sent word. *Live relay*: the transcript in order, completely, answers below
their questions. *Terminal*: nothing twice, nothing out of order, in the end
everything.

## Modules

| Module | Models | Source |
|---|---|---|
| `AgentSlot` | the abstract promise: a session enters an empty slot, never returns, and only a dead one gives the slot up | what the manager is for |
| `AgentManager` | one project of the agent manager | `manager.go`, `agent_service.go`, `run_complete.go`, `nextTaskFn` |
| `…Proofs` | the theorems about the module that the name begins with: `AgentManager`, `AgentEvents`, `RelayDispatcher`, `EchoInbound`, `TelegramBridge`, `WatchRelay`, `Worktree` (`Worktrees`), `TerminalStream` | |
| `AgentEvents` | what stops a finished session: task files, signal files, watcher events, pollers. Extends `AgentManager` | `server.go`, `manager.go` |
| `EventPipeline` | the way of a file change to its handler, with `w.mu`, `m.mu` and the channel | `watcher.go`, `server.go`, `manager.go` |
| `RelayDispatcher` | bus subscription, dispatch, retries, breaker, reload, stop | `dispatcher.go`, `bus.go` |
| `TelegramBridge` | long poll, pairing, settings, commands, conversation, replacement of bridges | `telegram/` but `watch.go`, `server/telegram_*.go` |
| `WatchRelay` | watch loop, tailer and sender of the live relay | `telegram/watch.go` |
| `EchoInbound` | listeners, token bucket, delivery caches, the six handlers, task flush, commands | `echo/`, `server/echo_taskflush.go`, `command_context.go` |
| `Worktrees` | the git commands around a task's session and those of the branch service | `taskdone.go`, `worktree.go`, `branch_service.go`, `pr.go` |
| `TerminalStream` | the daemon's raw output, a subscription, the GUI's terminal hook and store | `process.go`, `agent_service.go`, `useAgentTerminal.ts`, `agent-store.ts` |
| `MC…` | the same for TLC, with symmetry where it is used | |

### AgentManager

Threads are the clients (RPC goroutines) and the sessions, because the monitor
of a session that chains calls `StartAgent` itself. `pc` says where a thread is;
each critical section of `m.mu` is one action, with the `StartAgent` steps
`gate` (preflight, chat gate, take the free slot or mark the victim),
`stopping` (`proc.Stop()`), `polling` and `relock`, and the monitor steps
`wait`, `taskdone` (lock released around the merge), `decide` or
`mergefailed`, `next` (lock released around `nextTaskFn`), `giveup` (the restart
that reaches the limit has been counted and the lock released; the counter is
deleted in another lock section) or `handoff`, then its
own `StartAgent`, and `unchain` (the deferred `setChaining(false)`).

`slot` is `m.agents[project]`; `proc`, `info`, `stopped`, `term` are a session's
process, its `StartOptions`, `userStopped`, and whether `Stop()` was called;
`marks` are the manager's other maps. `board` is the status of each task file.
Three things are history for properties: `reports`, `info[s].run` (the code's
`RunStartedAt` anchor, here the first session of the run) and `info[s].streak`.

Abstracted: task order (`Least`: lowest position first), everything between the
decision to launch and registration that only fails or succeeds (worktree,
prompt, sandbox, PTY: `StartFails` may always happen instead), the merge (it
succeeds or fails), an issue open at exit (`DecideEnd` is always possible),
whether preferences or an empty window suppress `RUN_COMPLETE` (it is counted as
emitted), persistence of `agents.yaml`. The preflight record is set in the same
step as the gate; the code writes it under a lock of its own just before, and
nothing reads it in between. Modes `generate-definition`, `generate-tasks` and
`retrofit-definition` behave alike for the manager and are one mode, `generate`.

### AgentEvents

Adds signal files, phase events on their way to the handler, and the stop calls
that handlers and pollers have decided on but not made yet (the code makes them
in goroutines). The watcher may miss any event. `ImplementsManager` says that all this
is nothing the manager may not do of its own: with the new variables hidden, the
system is a behaviour of `AgentManager`. In `Manages` the free `StopAgent`
of `AgentManager` is left out: here it happens only where the code calls it.

### EventPipeline

`Write` arms a timer per file and stops an earlier one that is listed and has not
fired. A timer fires with no lock (`Fire`), takes whatever is listed for its file off
the list (`Unlist`), which may be a later timer that no write will find then, takes
`w.mu` for reading (`LookUp`), and releases it when there is room in the channel
(`Send`). The worst that follows from a timer which fires beside another is that a
change is told of twice. `WatchProject` needs `w.mu` for writing, and a waiting writer
keeps new readers out, as Go's `RWMutex` does. The handler of a signal file needs `m.mu`.

### RelayDispatcher

One goroutine, one adapter at a time (`Turn`), a snapshot of the adapters per
notification. `Cancelled` stands for an error that answers to
`context.Canceled` or `DeadlineExceeded`, whether it comes from `Run`'s context
or from the HTTP client's own time-out. A failure is a pair of notification and
time. A Send that reports an error may have been taken by the endpoint all the same
(`Unanswered`: the answer was lost) and is tried again. `accepted`, what an endpoint
took and whether Send said so, and `hard` are history.

### TelegramBridge

`br[b]` is a bridge with its `pc`: it polls (`GetUpdates`, answers may be lost in
`PollFails`), takes the next update of its batch (`HandleUpdate`: the offset moves
first) and runs its handler. A handler that loads, changes and saves
`integrations.yaml` takes three steps with a fourth for the copy in memory
(`Load`, `Save`, `Mirror`). The RPCs of the settings dialog load (`RpcLoads`), save,
which may fail (`RpcFails`), and then turn to the bridge: a revocation is passed on to
it (`BridgeRevoke`), a changed integration replaces it. `live` is
the bridge the server uses; `RestartTelegramBridge` cancels it, reads the file again and
starts another with an offset of zero, or none when the file configures none (`Off`);
`DaemonRestarts` does the same and drops everything in memory. `Session` is the rest of the daemon: agents start, paint their screen and
end. The goroutine that waits for a starting chat agent is `Delivering`. Commands
are modelled by the start, stop, setting or typing they lead to; texts, keyboards
and the contents of replies are not. A sender is *told* when a reply is attempted: the
code only logs one that fails (`bridge.go:429`). Left out: the deletion of an integration.

### WatchRelay

A transcript is a sequence of lines (`text`, `break` of a turn, a question's
number) whose last one may be half written. A relay finds the transcript (its
own, or the one of the session before when its own does not exist yet), tails
it, batches lines, and posts them as a new message or as an edit of the message
that grows; sends and edits fail, and a failed edit may have been made: `lost` notes
the places it filled. (A failed send that was made is `SendMessage` without growth: either way
the relay forgets the message.) The file may vanish or be rewritten under the tailer, which then
begins again from its top (`Restarts`, and the third disjunct of `TailEnds`); `again` counts that. Replies
of the bridge break the growth first and are sent afterwards. Left out: the
flood cap's numbers (when a batch is sent is open; `WithoutBreaks` is what is left of it
without its turn breaks), splitting of long messages,
the typing indicator, the login hint, the screen fall-back of agents without a
transcript; the outcomes "failed" and "not done" are one.

### EchoInbound

One action per step of a request goroutine (`w`): admission by the bucket, the
cache (`Deliver`), the handler's read of the task file, its question for the agent's task,
the stop of the agent and the save. The stop takes the manager's lock, which a launch holds
(`agent = "launching"`), kills whatever agent runs by then (`"doomed"`) and waits until its
process has ended. A handler of a host or chat service is the disjunct of `ServeHTTP` with
its name. `Run` binds a listener's address, `Shutdown` frees it, both in
goroutines of their own. Left out: signatures (a request that fails one changes
nothing), texts, which project a delivery is about, the record of last
deliveries, the announcement of a merge. One caller, so one bucket per listener;
it is refilled when it is next used.

### Worktrees

A piece of work is a number; a branch is the set of those committed on it, a
working tree the set of those that are not. Each git command is an action of one
of two threads, a session (`StartAgent`'s preparation, the agent, task-done
handling) and a call of the branch service, and may fail; the user edits the
root at any time. `conflict` is the merge that is open in the root, if any. The abort of
one that stopped may fail, too, which the code only logs, and the merge stays open; `told`
says whether a failure has been reported since it stopped. `landed` records what a
clean-up without a recorded failure claims to have merged; with `auto_merge` off a
clean-up claims nothing. `discarded` is what the user's deletion of a branch
threw away, or the redoing of a task (the stale branch's `-D`, a forced push). Left out: `worktree prune` always succeeds, a user who
settles an open merge by hand, the root stays on one branch, code statistics and notifications.

### TerminalStream

Output is counted in chunks. `stream` is the subscription the hook's `abortRef`
stands for: asked for, open (with the snapshot and the channel), ended, or
`forgotten`, which is an ended one that the hook takes for a live one. `Effect`
and `After` are the hook's effect, run in the same step as the status change or
timer that triggers it; `fetch` holds the answers of status calls under way, one
of the poll and one of an ended stream. Left out: the handler of an aborted
subscription and what it may still send, the request leg of a status call,
several ended streams that wait (they ask once), the terminal client's own
subscription, screen and issue streams, a call of `stopAgent` that fails. An automatic start of a chat is a start
like any other.

## Runs

Clients, sessions, calls, tasks, writes, updates, requests, processes, faults and
ticks are bounded by constants of the modules (`Max…`, `NumTasks`), in the guards
of the actions; there is no other bound but this: in `TerminalStream` a process
writes nothing more once the screen has missed a chunk, because no property says
anything about it from there on. `CHECK_DEADLOCK FALSE` everywhere: with these
bounds used up, and with idle users in the code, the system may stop.

| Run | Instance | Shows |
|---|---|---|
| `manager_slot` | 2 clients (symmetric), 3 calls, 3 sessions, restart limit 2; chat, wildfire, stop | `LiveAgentOwnsSlot`, `SlotIsMonitored`, `StoppedRunEnds`, `ReportedOnce`, `ChatNeverKillsWork`, and the refinement `OneSlot` |
| `manager_runs` | 2 clients, 2 calls, 3 sessions, 2 tasks, limit 2, a path that may be denied; start-all, chat, retry, shutdown; fair | `EndedRunReported`, `LoneRunRestartsBounded`, `StartReturns`, `StopFreesSlot` |
| `agent_events` | 1 client, 1 call, 2 sessions; wildfire, task; fair | `DoneTaskEndsSession`, `SignalEndsPhase` although every event may be missed, and the refinement `ImplementsManager` |
| `event_pipeline` | channel of 2, 3 writes to a task and a signal file, 2 starts; fair | `EveryChangeHandled`, `StartsReturn`, `LoopNotBlocked` |
| `relay_dispatcher` | 2 adapters, 2 notifications, buffer 1, 1 retry, limit 1, window 2; fair | `BreakerHolds`, `DeliveredInOrder`, `DispatchEnds`, `StopEnds` |
| `telegram_bridge` | 1 chat, 2 bridges or none, 1 settings RPC, 2 sessions, conversations of one or two messages; fair | `NothingForgotten`, `CodeRedeemedOnce`, `AdmittedWasSaved`, `HandledOnce`, `EveryUpdateHandled`, `QueuedTextSettled` |
| `watch_relay` | a session that is over and a task or planning session, 2 lines each, 1 question or 1 file begun again, 1 relay; fair | `RelayedInOrder`, `AnswerBelowQuestion`, `NothingSkipped`, `OwnLinesRelayed`, `RelayEnds` |
| `echo_inbound` | 2 deliveries of one or two providers, 3 requests of webhooks or 2 of commands, 2 goroutines, 2 listeners, a cache of one, 2 tokens; fair | `WorkedOnce`, `RetriesAreFree`, `RequestAnswered` |
| `worktrees` | 2 tasks (symmetric), 2 sessions, 2 pieces of work, 1 call of the branch service | `CommittedWorkKept`, `ReportedWorkLanded`, `OpenMergeTold` |
| `terminal_stream` | 2 processes of 2 chunks, a buffer and a channel of one, 1 fault; fair | `NothingRepeated`, `EventuallyShown` |
| `finding_loop_blocked` | channel of 1, 3 writes, 1 start | `LoopNotBlocked` is violated |
| `finding_lost_edits` | the instance of `worktrees` | `UncommittedCaptured` is violated |

Why the bounds are enough. Two clients and a chaining session are three threads
in `StartAgent`: one that holds a victim, one that waits for the same victim and
one that comes after. Three sessions are a victim, its successor and a chained
one, and with a limit of two a third session of one task is the one that must
not be started. `manager_runs` leaves wildfire out of its requests to stay
small: a wildfire run ends unannounced (observation 4 below), `EndedRunReported`
speaks of task and start-all runs, and `manager_slot` runs wildfire. The pipeline blocks exactly when one more change than
the channel, the loop and one timer can hold is under way together with a start:
with a channel of `Cap` the runs with `MaxWrites` = `Cap` + 1 pass and
`MaxWrites` = `Cap` + 2 fails, so `event_pipeline` and `finding_loop_blocked`
are the two sides of that boundary; in the code `Cap` is 100.

Two bridges are the old one and its successor, which work through the same
updates; two messages are one that waits and one that overtakes it. In
`watch_relay` the first session has left its transcript when the second starts,
and two lines are one before and one after a question; a message of
the user and a file that is begun again share a bound (`MoreEvents`) to stay small. Three requests are a
delivery, its retry and another one that pushes it out of a cache of one; two commands
are one that stops an agent and one that meets it. Two
tasks are enough for a merge to meet another task's branch, two sessions for a
task to be done again, and the call runs against both. Two processes are one
whose cursor is carried over and one it is carried to, with a chunk before and a
chunk after it.

Every property of a passing run has a mutant: a definition beside the one it
replaces, with a comment that starts with "Mutant", that breaks the property.
No run repeats a type invariant: those of `AgentManager`, `Worktrees`,
`RelayDispatcher`, `EchoInbound` and `WatchRelay` are proved, a stronger one of the same
module is for `TelegramBridge` and `TerminalStream`, and that of `EventPipeline` is for
the reader.

### Fairness

Goroutines run (`StartAgent`, `Monitor`, the loop, timers, the relay's `Run`, a
bridge, a live relay and its sender, an HTTP handler), the 100 polls end, git and
the file system answer, `Stop()` kills after five seconds what does not exit
(`process_unix.go:10`), pollers tick, and an HTTP client's time-out ends every
send. Nothing obliges a client to call, an agent to work or to exit unasked, the
watcher to notice a file, a file to vanish, or the clock to tick. This is weak fairness.
Locks mostly need no strong one: the number of calls and writes is bounded, so nobody
waits behind an endless queue. `EveryUpdateHandled` supposes that the server has a
bridge that runs again and again: it may be configured to have none for good.

Two properties are written `[]<>` where a leads-to says the same (`RelayEnds`,
`OwnLinesRelayed`: what they suppose is stable until they hold), because TLC checks it faster.

`EchoInbound` has strong fairness for its handlers, because agents may be launched
again and again there and each launch holds the manager's lock: Go's `RWMutex` hands the
lock over to those who wait. Launches end and so does a killed process.

`TerminalStream` has strong fairness in three places. `Poll` is suppressed while
a start is in flight, and the user may start again and again: a poll every two
seconds falls between two starts at some time. `SubscribeRawOutput` and `Deliver`
may be interrupted by the next reconnection, which is 200 ms away at least: a
subscription that is asked for again and again is answered at some time.

## Findings

Disagreements of the code with what it or its documents say, each with a run; the
`findings` of `PROJECT.json` quote the lines.

1. **The event loop can block for ever** (`watcher.go:296`, run
   `finding_loop_blocked`). A timer sends to a full channel under `w.mu`,
   `StartAgent` waits for `w.mu` under `m.mu`, and the loop waits for `m.mu`.
2. **Uncommitted edits of a finished task are dropped** (`taskdone.go:299`, run
   `finding_lost_edits`). Only `MergeWorktree` commits what the agent left
   uncommitted; with `auto_merge` off, and after a pull request, the worktree is
   removed with `--force` without it.

## Observations

Met on the same models. Where a property is named, it is defined in the module
and TLC refutes it with the constants in brackets; it is not part of a run.

Agent manager:

1. A deliberate switch can lose to a chat (`manager.go:276`). The chat gate is
   tested on entry only: a chat restart that waits for the same victim re-locks
   first and takes the slot, although `architecture.md:239` says that a switch
   always takes effect. `SwitchTakesEffect` [2 clients, 3 calls].
2. An agent can outlive `StopAll` (`manager.go:856`): a chain between two
   sessions, or a start that has released the lock, registers one after the list
   of sessions to stop was taken. `NoneOutlivesStopAll` [start-all, shutdown].
3. A run forgets its sandbox (`server.go:163`): the options of the following
   sessions carry none. `RunKeepsSandbox` [start-all without sandbox].
4. A wildfire that completes is not announced (`server.go:218`): its end is a
   chained chat, and no branch emits `RUN_COMPLETE`. `WildfireReported`
   [wildfire].
5. Another session's end resets the restart counter (`manager.go:738`), so that
   the run it interrupted restarts its task once more than the limit.
   `RestartsBounded` [1 client, 2 start-alls, 4 sessions]. A run that has the
   project to itself keeps the limit (`LoneRunRestartsBounded`).
6. A mode started while the slot is empty between two sessions of a chain is
   admitted and then replaced by the chain's own `StartAgent` (`manager.go:709`);
   a chat that passed its gate earlier can register there (`manager.go:305`).
7. `taskRestarts` survives a run that ends after its chain decision; a later run
   inherits the count and gives up early (`manager.go:658`).
8. The stop after a phase signal may hit the next session of the chain
   (`server.go:885`); `StopAgentForTask` guards only tasks against this.

Relay dispatcher:

9. A send that times out is not retried (`dispatcher.go:282`) and never trips the
   breaker: the client's time-out is taken for a cancelled context.
   `GivesUpAfterRetries` [1 adapter, 3 retries]. An adapter removed while it is
   being sent to can leave a failure behind for its return (`dispatcher.go:328`).

Telegram:

10. Texts for a starting chat agent can be typed out of order
    (`runcontrol.go:498`): one that arrives once the session runs goes straight
    into it, ahead of the text that waits for the screen. `TextsInOrder` [two texts]. The goroutine that waits
    may type into a session that has replaced the chat, and a replaced bridge
    loses its queue.
11. An update may be handled by the old bridge and by its successor, which starts
    from offset zero. A login code is pasted into whatever session runs.
12. `integrations.yaml` is loaded, changed and saved by RPCs and by the bridge
    with no lock over the three (`integrations_telegram.go:86`).
13. A chat is told that a task was merged before the merge has run
    (`watch.go:1155`). `MergedWasMerged` [one task session]. Watching again
    replays the whole transcript; the outcome is lost when a relay is cancelled
    for a change of its key; the lines of a new transcript are lost when the
    session ends before the tailer has given up the old file.

Echo inbound:

14. After a save of the configuration the new listener may find its address taken
    by the old one and stays down (`server.go:599`): the old one is cancelled, not
    awaited. `SavedConfigListens` [2 listeners].
15. The id of a delivery is remembered before the work is done: when the work
    fails, the host's retry is answered as a replay. Two deliveries of different
    ids for one merge may both announce it. A cancel saves the task as it was read
    before its agent was stopped, and its stop hits whatever session runs by then,
    not only the one it was told of (`command_context.go:264`).

Worktrees and tasks:

16. A branch that an earlier session of the task left is deleted with `-D`
    (`worktree.go:41`), as `architecture.md:85` says. `reset --hard` after a merge
    drops what the user edited in the root since the session began
    (`worktree.go:133`). `CommitDirtyMain` would commit the conflict markers of a
    merge that a call of the branch service is about to abort, or of one whose abort
    failed (`worktree.go:119`) and that has stayed open since. `MergeBranch` may
    merge and delete the branch of a task an agent works on. A recorded merge
    failure is never cleared.
17. Calls that create tasks take the next number with no lock over load and save
    (`task/manager.go:118`): two of them can write the same file.

Clients:

18. The desktop terminal can stay frozen: a stream that breaks while the store
    says that nothing runs and a start is in flight gets no reconnection
    (`useAgentTerminal.ts:269`: `fetchStatus` returns at once), and a later status
    of the same process finds what looks like a live subscription. This is the
    exception in `EventuallyShown`.
19. An aborted stream's `onEnd` asks for the status, too, and then reconnects: the
    reconnection aborts the healthy stream, whose `onEnd` reconnects again, five
    times a second (`useAgentTerminal.ts:214`). The output stays right
    (`NothingRepeated`), the subscription never settles: `StreamSettles`
    [the instance of `terminal_stream`].
20. Chunks that a slow subscriber missed are not counted by its cursor, so that a
    later resumption repeats output (`process.go:368`).
21. The terminal interface counts a subscription per start message and polls per
    connection; several disconnections lead to several reconnections. Read, not
    modelled.

## Proofs

Every safety invariant that a passing run checks, the action property `HandledOnce` and
both refinements are proved for every value of the constants, from the constants'
assumptions alone. TLC checked each inductive invariant, or its conjuncts, on the
instance of the run first. The proofs have a step per action; an action that leaves a
conjunct's variables alone is dealt with by a frame lemma or in one step with others.

### The agent manager

`AgentManagerProofs`, for any number of clients, sessions, tasks and calls, from
`ConstantsOK` alone (in particular session numbers are not client names, and the
restart limit is positive):

| Theorem | Statement |
|---|---|
| `TypeCorrect` | `Spec => []TypeOK` |
| `SlotMonitored` | `Spec => []SlotIsMonitored` |
| `LiveOwnsSlot` | `Spec => []LiveAgentOwnsSlot` |
| `StoppedRunsEnd` | `Spec => []StoppedRunEnds` |
| `ChatsKillNoWork` | `Spec => []ChatNeverKillsWork` |
| `ImplementsOneSlot` | `Spec => OneSlot` |
| `RunsReportedOnce` | `Spec => []ReportedOnce` |
| `RunsReported` | `Spec => []EndedRunReported` |
| `RestartsLimited` | `Spec => []LoneRunRestartsBounded` |

The first inductive invariant is `SlotInv == TypeOK /\ Lifecycle /\ SlotIsMonitored`.
`SlotIsMonitored` alone is not inductive: that registering session `n` does not
put a second monitor to work needs `n` to be unborn exactly when its monitor is,
and that a monitor which has cleaned up belongs to a dead process is what makes
a release safe. `Lifecycle` says that: clients and monitors are at stages of
their own, and the stage of a process goes with the stage of its monitor.
`LiveAgentOwnsSlot` and the refinement
follow from it: an empty slot means that no monitor is watching, so
no process is running, and each action maps to `Acquire`, `Die`, `Release` or a
stutter. `StoppedRunEnds` and `ChatNeverKillsWork` have a strengthening of their
own; the latter is `StartInv`, which adds that victims were born, because the
options of a session never change once it is.

The announcements and the restart counter rest on `RunInv`. A run is a chain of
sessions, and at any time at most one thread *holds* it: the monitor of its latest
session, from registration to its chain decision, or the same monitor inside the
`StartAgent` it makes for the next session (`Holds`, `OneHolder`). Who holds a run
knows it from its session or its call (`Lineage`, `CallsCarry`). A run that is held
has not been announced (`Unreported`), and one that has not been announced is held
(`HeldUntilReported`, for task and start-all runs): giving up the hold and
announcing are the same step in every branch, which is the substance of
`ReportedOnce` and of `EndedRunReported`. `Counted` says that the manager's counter is the length
of the streak of a run that has the project to itself, and that it reaches the limit
only while that run is giving up (`giveup`).

### Events and pollers

`AgentEventsProofs` proves `EventsImplementManager`: `EvSpec => ImplementsManager`.
The steps are those of `AgentManager` on the manager's variables, or none of its; a
stop that a handler or a poller decided on long ago is a `StopAgent` of whatever runs,
or finds nothing. The corollary `EventsKeepRuns` carries the one-slot
promise and every invariant of the manager over: late and misdirected stops (observation 8) end
the wrong phase, but break none of these.

### The relay dispatcher

`RelayDispatcherProofs`, from `RelayConstants`:

| Theorem | Statement |
|---|---|
| `TypeCorrect` | `Spec => []TypeOK` |
| `OrderKept` | `Spec => []DeliveredInOrder` |
| `BreakerLimits` | `Spec => []BreakerHolds` |

`OrderInv` orders the notifications on their whole way: those that wait are later than
the one at hand (`Waiting`), which is later than what any endpoint still to be served
has taken (`Got`). Only the adapter whose turn it is may have got the one at hand
already, in attempts that all reported an error and are fewer than those made; so
`DeliveredInOrder` has a notification twice only behind an error. `BreakerInv` needs that the breaker knows every hard failure of the window
(`Known`, although records are pruned and adapters reloaded) and that while an
adapter is being tried fewer failures than the limit are recent (`Tried`): time that
passes during a send only makes them fewer. That no *other* window exceeds the limit then
follows because failures are not in the future (`Past`).

### Echo inbound

`EchoInboundProofs`, from `EchoAssumption`:

| Theorem | Statement |
|---|---|
| `TypeCorrect` | `Spec => []TypeOK` |
| `DeliveriesWorkedOnce` | `Spec => []WorkedOnce` |
| `ReplaysAreFree` | `Spec => []RetriesAreFree` |

`DedupInv`: a cache holds an id once and within its size (`CachesBounded`), and what
a listener has worked it knows or has let go of (`WorkedIsKnown`); the lemmas about
removal from a sequence and moving to its front say that a hit loses no other id.
`ChargeInv`: requests that were charged and may still turn out to be replays are no
more than the bucket was charged for (`PendingCharged`), so that a refund is covered.

### The Telegram bridge

`TelegramBridgeProofs`, from `TelegramAssumption`:

| Theorem | Statement |
|---|---|
| `BridgesStayTyped` | `Spec => []Typed` |
| `NoUpdateLost` | `Spec => []NothingForgotten` |
| `UpdatesHandledOnce` | `Spec => HandledOnce` |
| `OneRedemption` | `Spec => []CodeRedeemedOnce` |
| `AdmittedOnRecord` | `Spec => []AdmittedWasSaved` |

`PollInv` is about all bridges at once: everything before a bridge's offset has been
handled by some bridge, a batch begins there or earlier and has no gaps (`Batched`), and a
bridge that runs has handled nothing from its offset on (`Behind`). The successor of
a cancelled bridge starts from offset zero, and its first batch begins after what was
acknowledged, which `NothingForgotten` itself says was handled. `CodeInv`: the
redeemed codes are issued ones and not the one that is good. `AdmitInv`: every copy
of the records, on disk, in memory, or loaded by a handler or an RPC that has yet to
save it, names only chats that were saved, whichever of its steps an RPC is at.

### The live relay

`WatchRelayProofs`, from `WatchAssumption`:

| Theorem | Statement |
|---|---|
| `RelaysStayTyped` | `Spec => []Typed` |
| `TypeCorrect` | `Spec => []TypeOK` |
| `AnswersBelow` | `Spec => []AnswerBelowQuestion` |
| `PostedInOrder` | `Spec => []RelayedInOrder` |
| `NothingLeftOut` | `Spec => []NothingSkipped` |

`Typed` already says that what waits and what was posted are whole lines, and that
the message a relay edits is the last it posted. `AnswerInv` adds that
between lines of different questions the transcript has a turn break (`Noted`) and that
what a relay may still append to the message it grows was asked above it, unless a turn
break waits in the batch (`Anchored`). `OrderInv` speaks of a relay that
has begun no file again. `Arranged` puts in one order what has been posted, the batch under way, what
is pending and what is still to be read, `Neat` says of the posts what `RelayedInOrder`
does, for a given set of lost edits, and `Fits` that the batch at hand goes
on from there or repeats what such an edit has posted: it is then sent again whole. `SkipInv` accounts for every line up to
the tailer's position: shown, dropped, or waiting (`Accounted`).

### The terminal

`TerminalStreamProofs`, from `StreamAssumption`: `ShownOnce`, `Spec => []NothingRepeated`.
`StreamInv` speaks of the screen together with what the subscription still holds
(`Coming`). A chunk never stands above its own number, because a subscription
resumes at the length of all that is shown, and the chunks of the process shown
first stand exactly there (`Sound`); a subscription that was asked for asks from the end of the screen, and
an open one of the last process misses nothing that is written (`Good`). So the cursor, a
count of bytes that is only good for one process, repeats nothing even when it is used
for the next one before a status tells them apart.

### Worktrees

`WorktreeProofs`, for any number of tasks, pieces of work, sessions and calls,
from `WorktreeAssumption` (the bounds are natural numbers):

| Theorem | Statement |
|---|---|
| `TypeCorrect` | `Spec => []TypeOK` |
| `WorkKept` | `Spec => []CommittedWorkKept` |
| `ReportTrue` | `Spec => []ReportedWorkLanded` |
| `OpenMergesReported` | `Spec => []OpenMergeTold` |

The inductive invariant is `IInv == Types /\ Kept /\ OpenMergeTold` with
`Kept == CommittedWorkKept /\ ReportedWorkLanded /\ SessionInv`. `Types` adds to
`TypeOK` the threads and the history variables. The two promises alone are not
inductive: that a session may delete its branch, and may report its task as
landed, rests on what the session did several commands earlier. `SessionInv` says
that: once a session has merged or opened a pull request, what its task's agents
committed is in the root's branch or on the remote; and a session whose agent may
still commit has not merged. `OpenMergeTold` is inductive
given the types: a thread that is about to abort or to report is not disturbed by the
other one, since a merge does not start in a root that is in the middle of one,
and whatever settles the open merge also clears `told`. The proof has a step per action;
`GitKeeps` and its lemmas treat the commands that both threads run once.

### Only model-checked

The liveness properties (fairness and `ENABLED` are out of the prover's reach):
`StartReturns`, `StopFreesSlot`, `DoneTaskEndsSession`, `SignalEndsPhase`,
`DispatchEnds`, `StopEnds`, `EveryUpdateHandled`, `QueuedTextSettled`,
`OwnLinesRelayed`, `RelayEnds`, `RequestAnswered`, `EventuallyShown`, and those of
`EventPipeline` (`EveryChangeHandled`, `StartsReturn`, `LoopNotBlocked`), which has
no other.

## Not modelled

`PROJECT.json` lists every component with its status. Of the manager: other
projects (its maps are per project, the lock is shared but never held while
waiting for another project's agent), agents found running after a daemon restart
(the daemon adopts none), the wording of prompts and messages. Of the watcher: the
events it sends without `w.mu` (daemon, settings and integrations files).

Whole components: the *task manager* and the *project and settings files* load,
change and save whole files with no lock, so that a model of two calls says only
that they may disagree (observation 17); the states of a task are those of
`AgentManager`, `Worktrees` and `EchoInbound`. The *terminal interface*, the
*desktop client* apart from its terminal, the *command line* and the *web site* are
forms, lists, cursors and layout over the RPCs. *Insights*, metrics, diffs and
exports compute numbers for display. *Discord's* gateway client, *Slack* and *OAuth*
wrap protocols of third parties. *Backends and sandbox profiles* are command lines
and policy texts. The *generated* protocol code is a sixth of the implementation's
lines; together these parts are most of it, which is why the map covers about a
tenth of the lines.

## Plan

Done, most important first: the agent manager, its promise and its theorems;
events and pollers and that they add nothing to the manager; the event pipeline; the
relay dispatcher; the Telegram bridge
and its live relay; the inbound webhooks; worktrees; the terminal stream; the
safety theorems of all of them. Left:

1. Abstract promises like `AgentSlot` for the relay dispatcher (an adapter is given a
   subsequence of what was emitted) and the bridges (an update is handled, then
   forgotten), with the refinements proved.
2. Composition of `Worktrees` with `AgentManager` through `TaskDone`.
3. Discord's gateway and registrar: a guild that is joined is registered in the
   end, through lost connections and a bounded channel.
