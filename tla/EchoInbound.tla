---------------------------- MODULE EchoInbound ----------------------------
(***************************************************************************)
(* The inbound listener: webhooks of Git hosts and commands of chat        *)
(* services, admitted by a token bucket, recognised by a cache of delivery *)
(* ids, and turned into writes of task files, while agents work on the     *)
(* same tasks and saving the configuration replaces the listener.          *)
(***************************************************************************)
EXTENDS Integers, Sequences, FiniteSets, SequencesExt

CONSTANTS Deliveries,   \* delivery ids
          Tasks,        \* tasks of the project
          Workers,      \* request goroutines
          Rate,         \* tokens of one caller's bucket
          MaxEntries,   \* entries of an idempotency cache
          MaxServers,   \* bound: listeners
          Traffic       \* what the deliveries may be, and a bound: how many requests they make

GitHosts == {"github", "gitlab", "bitbucket"}
Chats == {"slack", "button", "discord"}
Providers == GitHosts \cup Chats
Calls == [from : Providers, kind : {"merged", "closed", "retry", "cancel", "status"}, task : Tasks]

ASSUME EchoAssumption ==
    /\ {Rate, MaxEntries, MaxServers} \subseteq Nat \ {0}
    /\ DOMAIN Traffic \subseteq [Deliveries -> Calls]
    /\ \A c \in DOMAIN Traffic : Traffic[c] \in Nat

VARIABLES
    call,      \* what each delivery is
    sent,      \* how many requests have been sent
    server,    \* the listener in use
    srv,       \* what has become of each listener
    cache,     \* per listener and provider: remembered ids, the latest first
    tokens,    \* per listener: what the caller's bucket holds
    w,         \* the request goroutines
    task,      \* the task files
    running,   \* what the project's agent works on: a task, or no task at all
    agent,     \* that agent; while it is launched the manager's lock is held
    worked,    \* history: per listener and id, how often it was worked
    forgot,    \* history: per listener, ids that were evicted or expired
    charged    \* history: per listener, requests admitted and not found to be replays

vars == <<call, sent, server, srv, cache, tokens, w, task, running, agent, worked, forgot, charged>>
provider == <<call, sent>>
listener == <<server, srv>>
bucket == <<tokens, charged>>
dedup == <<cache, forgot, worked>>
tasks == <<task, running, agent>>

Servers == 1..MaxServers
Ready == [status |-> "ready", success |-> FALSE]
Done(ok) == [status |-> "done", success |-> ok]
IdleW == [pc |-> "idle", id |-> CHOOSE d \in Deliveries : TRUE, srv |-> 1, snap |-> Ready]

Init ==
    /\ call \in DOMAIN Traffic /\ sent = 0
    /\ server = 1 /\ srv = [s \in Servers |-> IF s = 1 THEN "new" ELSE "off"]
    /\ cache = [s \in Servers |-> [p \in Providers |-> <<>>]]
    /\ tokens = [s \in Servers |-> Rate]
    /\ w = [x \in Workers |-> IdleW]
    /\ task \in [Tasks -> {Ready, Done(TRUE)}] /\ running = "none" /\ agent = "none"
    /\ worked = [s \in Servers |-> [d \in Deliveries |-> 0]]
    /\ forgot = [s \in Servers |-> {}] /\ charged = [s \in Servers |-> 0]

At(x, pc) == w[x].pc = pc
Id(x) == w[x].id
Call(x) == call[Id(x)]
Goto(x, pc) == w' = [w EXCEPT ![x].pc = pc]
Answers(x) == w' = [w EXCEPT ![x] = IdleW]
Smaller(a, b) == IF a < b THEN a ELSE b

----------------------------------------------------------------------------
(* Listeners.  Run binds in a goroutine of its own; the one that was       *)
(* cancelled closes in another.                                            *)

\* The address is taken while any other listener holds it; nothing tries again.
Run(s) ==
    /\ srv[s] = "new"
    /\ srv' = [srv EXCEPT ![s] = IF \E r \in Servers : srv[r] = "listening" THEN "failed" ELSE "listening"]
    /\ UNCHANGED <<provider, server, dedup, bucket, w, tasks>>

\* Shutdown closes the socket; requests under way are not interrupted.
Shutdown(s) ==
    /\ s < server /\ srv[s] = "listening" /\ srv' = [srv EXCEPT ![s] = "stopped"]
    /\ UNCHANGED <<provider, server, dedup, bucket, w, tasks>>

\* SaveInboundConfig: the old context is cancelled, a listener with new caches
\* and buckets starts.
RestartEchoServer ==
    /\ server < MaxServers /\ server' = server + 1
    /\ srv' = [srv EXCEPT ![server + 1] = "new"]
    /\ UNCHANGED <<provider, dedup, bucket, w, tasks>>

----------------------------------------------------------------------------
(* wrap: the rate limiter comes before the handler.                        *)

Arrives(x, s) ==
    /\ srv[s] = "listening" /\ At(x, "idle") /\ sent < Traffic[call]
    /\ sent' = sent + 1

\* refillLocked: what the bucket may hold by now.
Refilled(s) == tokens[s]..Rate

Allow(x, d, s) ==
    /\ Arrives(x, s)
    /\ \E have \in Refilled(s) \ {0} : tokens' = [tokens EXCEPT ![s] = have - 1]
    /\ charged' = [charged EXCEPT ![s] = @ + 1]
    /\ w' = [w EXCEPT ![x] = [IdleW EXCEPT !.pc = "verify", !.id = d, !.srv = s]]
    /\ UNCHANGED <<call, listener, dedup, tasks>>

TooManyRequests(x, s) ==
    /\ Arrives(x, s) /\ tokens[s] = 0
    /\ UNCHANGED <<call, listener, dedup, bucket, w, tasks>>

----------------------------------------------------------------------------
(* What the handlers share: body, signature and event, then the id.        *)

Quiet == UNCHANGED <<provider, listener, dedup, bucket, tasks>>

\* A bad body, secret or signature, or an event nobody waits for.
Rejects(x) == At(x, "verify") /\ Answers(x) /\ Quiet

Verified(x) == At(x, "verify") /\ Goto(x, "check") /\ Quiet

Remembered(x) == Id(x) \in ToSet(cache[w[x].srv][Call(x).from])
\* MoveToFront for an id that is in the list, PushFront for another.
Place(d, ids) == CHOOSE i \in DOMAIN ids : ids[i] = d
InFront(d, ids) == <<d>> \o (IF d \in ToSet(ids) THEN RemoveAt(ids, Place(d, ids)) ELSE ids)

\* Mutant: a replay is charged like a delivery.
NoRefund(s) == \E have \in Refilled(s) : tokens' = [tokens EXCEPT ![s] = have]

\* RefundRateLimit: one token back, up to the bucket's size.
Refund(s) == \E have \in Refilled(s) : tokens' = [tokens EXCEPT ![s] = Smaller(have + 1, Rate)]

\* Cache.Seen, a hit: the id is renewed, the token returned.
Replay(x) ==
    /\ At(x, "check") /\ Remembered(x)
    /\ cache' = [cache EXCEPT ![w[x].srv][Call(x).from] = InFront(Id(x), @)]
    /\ Refund(w[x].srv) /\ charged' = [charged EXCEPT ![w[x].srv] = @ - 1]
    /\ Answers(x)
    /\ UNCHANGED <<provider, listener, forgot, worked, tasks>>

Kept(ids) == SubSeq(ids, 1, Smaller(Len(ids), MaxEntries))

\* Mutant: the id is looked up here and not inserted.
DeliverNotKept(x) ==
    /\ At(x, "check") /\ ~Remembered(x)
    /\ worked' = [worked EXCEPT ![w[x].srv][Id(x)] = @ + 1]
    /\ Goto(x, IF Call(x).kind = "status" THEN "reply" ELSE "load")
    /\ UNCHANGED <<provider, listener, cache, forgot, bucket, tasks>>

\* Cache.Seen, a miss: the id is remembered before the work, the oldest falls
\* out.  An id that was remembered for a day is a miss too.
Deliver(x) ==
    /\ At(x, "check")
    /\ LET s == w[x].srv
           ids == InFront(Id(x), cache[s][Call(x).from])
           expired == IF Remembered(x) THEN {Id(x)} ELSE {}
       IN /\ cache' = [cache EXCEPT ![s][Call(x).from] = Kept(ids)]
          /\ forgot' = [forgot EXCEPT ![s] = @ \cup expired \cup (ToSet(ids) \ ToSet(Kept(ids)))]
          /\ worked' = [worked EXCEPT ![s][Id(x)] = @ + 1]
    /\ Goto(x, IF Call(x).kind = "status" THEN "reply" ELSE "load")
    /\ UNCHANGED <<provider, listener, bucket, tasks>>

Admits(x) == Rejects(x) \/ Verified(x) \/ Replay(x) \/ Deliver(x)

----------------------------------------------------------------------------
(* The work.  The task's file is loaded, then saved; nothing locks it.     *)

File(x) == task[Call(x).task]
Saves(x, file) == w' = [w EXCEPT ![x].pc = "save", ![x].snap = file]

\* Nothing to do: a payload that cannot be read or is not about a pull request
\* that ended, no such project or task, a file that cannot be read or written.
NoWork(x) == w[x].pc \in {"load", "requeue", "save"} /\ Answers(x) /\ Quiet

\* makeTaskFlusher: a task that is done stays as it is.
FlushTask(x, kinds) ==
    /\ At(x, "load") /\ Call(x).kind \in kinds
    /\ IF File(x).status = "done" THEN Goto(x, "reply") ELSE Saves(x, Done(Call(x).kind = "merged"))
    /\ Quiet

\* Retry and Cancel read the task's file first ...
Load(x) ==
    /\ At(x, "load") /\ Call(x).kind \in {"retry", "cancel"}
    /\ IF Call(x).kind = "cancel" /\ File(x).status = "done" THEN Goto(x, "reply")
       ELSE w' = [w EXCEPT ![x].pc = "ask", ![x].snap = File(x)]
    /\ Quiet

\* ... and ask for the agent's task then.  Manager.mu is held while an agent
\* is launched.
Asks(x, kind) == At(x, "ask") /\ Call(x).kind = kind /\ agent # "launching"

\* A task that is worked on is refused, one that waited already left alone.
Retry(x) ==
    /\ Asks(x, "retry")
    /\ Goto(x, IF running = Call(x).task \/ w[x].snap.status = "ready" THEN "reply" ELSE "requeue")
    /\ Quiet

\* BulkUpdateStatus loads the file once more and saves it at once.
Requeue(x) ==
    /\ At(x, "requeue")
    /\ task' = [task EXCEPT ![Call(x).task] = Ready] /\ Goto(x, "reply")
    /\ UNCHANGED <<provider, listener, dedup, bucket, running, agent>>

\* What will be saved is what was read, marked as cancelled.
Cancel(x) ==
    /\ Asks(x, "cancel")
    /\ w' = [w EXCEPT ![x].pc = IF running = Call(x).task THEN "stop" ELSE "save", ![x].snap = Done(FALSE)]
    /\ Quiet

\* Mutant: the agent is waited for, but not killed.
AwaitAgent(x) ==
    /\ At(x, "stop") /\ agent # "launching"
    /\ Goto(x, CASE agent = "none" -> "reply" [] agent = "dead" -> "save" [] OTHER -> "await")
    /\ Quiet

\* The agent there is by now, if any, whatever it works on, is killed and
\* waited for: Agents, below, lets go of those who wait.
StopAgentByUser(x) ==
    /\ At(x, "stop") /\ agent # "launching"
    /\ Goto(x, CASE agent = "none" -> "reply" [] agent = "dead" -> "save" [] OTHER -> "await")
    /\ agent' = IF agent = "live" THEN "doomed" ELSE agent
    /\ UNCHANGED <<provider, listener, dedup, bucket, task, running>>

SaveTask(x) ==
    /\ At(x, "save") /\ Goto(x, "reply")
    /\ task' = [task EXCEPT ![Call(x).task] = w[x].snap]
    /\ UNCHANGED <<provider, listener, dedup, bucket, running, agent>>

Reply(x) == At(x, "reply") /\ Answers(x) /\ Quiet

\* Route, for the chat services.
Route(x) ==
    \/ Load(x) \/ Retry(x) \/ Requeue(x) \/ Cancel(x) \/ StopAgentByUser(x) \/ SaveTask(x)
    \/ NoWork(x) \/ Reply(x)

Flushes(x, kinds) == FlushTask(x, kinds) \/ SaveTask(x) \/ NoWork(x) \/ Reply(x)

\* The handlers.  GitHub tells a pull request that was closed from one
\* that was merged only by ignoring it.
GithubWebhook(x) == Call(x).from = "github" /\ (Admits(x) \/ Flushes(x, {"merged"}))
GitlabWebhook(x) == Call(x).from = "gitlab" /\ (Admits(x) \/ Flushes(x, {"merged", "closed"}))
BitbucketWebhook(x) == Call(x).from = "bitbucket" /\ (Admits(x) \/ Flushes(x, {"merged", "closed"}))
SlackCommand(x) == Call(x).from = "slack" /\ (Admits(x) \/ Route(x))
SlackInteraction(x) == Call(x).from = "button" /\ (Admits(x) \/ Route(x))
DiscordInteraction(x) == Call(x).from = "discord" /\ (Admits(x) \/ Route(x))

ServeHTTP(x) ==
    \/ GithubWebhook(x) \/ GitlabWebhook(x) \/ BitbucketWebhook(x)
    \/ SlackCommand(x) \/ SlackInteraction(x) \/ DiscordInteraction(x)

----------------------------------------------------------------------------
(* Agents: the project has one at a time, for a task or for none.          *)

AgentStarts(t) ==
    /\ agent = "none" /\ agent' = "launching" /\ running' = t
    /\ t \in Tasks => task[t].status = "ready"
    /\ UNCHANGED <<provider, listener, dedup, bucket, w, task>>

\* A launch may fail.
AgentStarted ==
    /\ agent = "launching"
    /\ \/ agent' = "live" /\ UNCHANGED running
       \/ agent' = "none" /\ running' = "none"
    /\ UNCHANGED <<provider, listener, dedup, bucket, w, task>>

\* The process ends by itself or by a signal; whoever waited for it goes on.
AgentEnds ==
    /\ agent \in {"live", "doomed"} /\ agent' = "dead"
    /\ \/ UNCHANGED task
       \/ running \in Tasks /\ \E ok \in BOOLEAN : task' = [task EXCEPT ![running] = Done(ok)]
    /\ w' = [x \in Workers |-> IF At(x, "await") THEN [w[x] EXCEPT !.pc = "save"] ELSE w[x]]
    /\ UNCHANGED <<provider, listener, dedup, bucket, running>>

\* Its monitor is through with it.
AgentLeaves ==
    /\ agent = "dead" /\ agent' = "none" /\ running' = "none"
    /\ UNCHANGED <<provider, listener, dedup, bucket, w, task>>

Next ==
    \/ \E x \in Workers, d \in Deliveries, s \in Servers : Allow(x, d, s) \/ TooManyRequests(x, s)
    \/ \E x \in Workers : ServeHTTP(x)
    \/ \E s \in Servers : Run(s) \/ Shutdown(s)
    \/ \E t \in Tasks \cup {"none"} : AgentStarts(t)
    \/ AgentStarted \/ AgentEnds \/ AgentLeaves \/ RestartEchoServer

Spec == Init /\ [][Next]_vars

(* Goroutines run, and a lock that is free again and again is had some day *)
(* (sync.RWMutex hands over to those who wait); launches end, and so does  *)
(* a process that was killed.  Nothing obliges another agent to end.       *)
FairSpec ==
    /\ Spec /\ \A x \in Workers : SF_w(ServeHTTP(x))
    /\ WF_vars(AgentStarted) /\ WF_vars(agent = "doomed" /\ AgentEnds)

----------------------------------------------------------------------------
(* Properties.                                                             *)

\* Types, and the bounds of the buckets and of the caches.
TypeOK ==
    /\ server \in Servers /\ running \in Tasks \cup {"none"}
    /\ agent \in {"none", "launching", "live", "doomed", "dead"}
    /\ srv \in [Servers -> {"off", "new", "listening", "stopped", "failed"}]
    /\ \A s \in Servers : tokens[s] \in 0..Rate
    /\ \A s \in Servers, p \in Providers :
        /\ Len(cache[s][p]) <= MaxEntries
        /\ ToSet(cache[s][p]) \subseteq Deliveries /\ IsInjective(cache[s][p])

\* Copies of one delivery that are handled at the same time, or come again
\* later, are worked once by a listener, unless its cache let go of the id.
WorkedOnce == \A s \in Servers, d \in Deliveries : worked[s][d] > 1 => d \in forgot[s]

\* Retries are free: whatever the bucket lacks was taken by requests that were
\* not replays, however replays, refills and refusals interleave.
RetriesAreFree == \A s \in Servers : Rate - tokens[s] <= charged[s]

\* Every request goroutine is done again and again: a delivery that was
\* admitted is answered. its handler gets through the
\* manager's lock, whatever launches hold it, and through the end of the agent
\* it stops, which need not be the one it asked for.
RequestAnswered == \A x \in Workers : []<>At(x, "idle")

\* integrations_inbound.go:52: a restart, so that the new bind address takes
\* effect immediately.  The listener of the latest configuration gets its
\* address.
SavedConfigListens == srv[server] # "failed"

=============================================================================
