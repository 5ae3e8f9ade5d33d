--------------------------- MODULE TerminalStream ---------------------------
(***************************************************************************)
(* What the desktop client's terminal shows of an agent: the output of one *)
(* process after another, kept by the daemon in a rolling buffer and sent  *)
(* to whoever subscribes, and the hook that subscribes, resumes after a    *)
(* stream has ended and starts over when it learns of another process.     *)
(*                                                                         *)
(* Output is counted in chunks.  The hook's count of received bytes is the *)
(* length of what it has written since the terminal was last reset.        *)
(***************************************************************************)
EXTENDS Integers, Sequences

CONSTANTS MaxProcesses, \* bound: processes started in the project
          MaxChunks,    \* bound: chunks a process writes
          Kept,         \* maxRawBufferSize
          Room,         \* rawSubsChannelSize
          MaxFaults     \* bound: streams and replies that the network breaks

ASSUME StreamAssumption ==
    /\ {MaxProcesses, MaxChunks, MaxFaults} \subseteq Nat
    /\ {Kept, Room} \subseteq Nat \ {0}

VARIABLES
    process,    \* the number of the last process
    alive,      \* has it not exited
    registered, \* is it in the manager's slot
    total,      \* rawTotalBytes
    stream,     \* the subscription abortRef stands for, with its handler in the daemon
    status,     \* the store's last status: the number of the running process, or Nobody
    startedAt,  \* prevStartedAtKeyRef
    screen,     \* what was written to the terminal since its last reset
    retry,      \* is the reconnect timer set
    closing,    \* is the delayed unsubscription set
    ended,      \* is an onEnd still to run; several that wait ask once
    fetch,      \* per origin: the answer of a fetchStatus under way, or Never
    start,      \* the last process when the startAgent in flight was called, or Never
    gap,        \* history: has the screen missed a chunk
    faults      \* history: faults

daemon == <<process, alive, registered, total>>
client == <<status, startedAt, screen, retry, closing, ended>>
calls == <<fetch, start>>
history == <<gap, faults>>
vars == <<daemon, stream, client, calls, history>>

Nobody == 0
Never == -1
Origins == {"poll", "end"}
NoStream == [pc |-> "none", of |-> Nobody, from |-> 0, first |-> <<>>, queue |-> <<>>]

Chunks(p, from, to) == [i \in 1..(to - from) |-> <<p, from + i>>]
Live(s) == s.pc \in {"asked", "open"}

Init ==
    /\ process = 0 /\ alive = FALSE /\ registered = FALSE /\ total = 0
    /\ stream = NoStream
    /\ status = Nobody /\ startedAt = Nobody /\ screen = <<>>
    /\ retry = FALSE /\ closing = FALSE /\ ended = FALSE
    /\ fetch = [x \in Origins |-> Never] /\ start = Never
    /\ gap = FALSE /\ faults = 0

----------------------------------------------------------------------------
(* The daemon's processes.                                                 *)

Launch ==
    /\ ~registered /\ process < MaxProcesses
    /\ process' = process + 1 /\ alive' = TRUE /\ registered' = TRUE /\ total' = 0
    /\ UNCHANGED <<stream, client, calls, history>>

\* broadcastRaw: to the buffer and to the channel, unless that is full.
\* Bound: nothing more is written once the screen has missed a chunk.
BroadcastRaw ==
    /\ alive /\ total < MaxChunks /\ ~gap /\ total' = total + 1
    /\ LET here == stream.pc = "open" /\ stream.of = process
           drops == here /\ Len(stream.queue) = Room
       IN /\ stream' = IF here /\ ~drops THEN [stream EXCEPT !.queue = Append(@, <<process, total + 1>>)] ELSE stream
          /\ gap' = drops
    /\ UNCHANGED <<process, alive, registered, client, calls, faults>>

Exits == alive /\ alive' = FALSE /\ UNCHANGED <<process, registered, total, stream, client, calls, history>>

LeavesSlot ==
    /\ registered /\ ~alive /\ registered' = FALSE
    /\ UNCHANGED <<process, alive, total, stream, client, calls, history>>

----------------------------------------------------------------------------
(* One subscription: the handler in the daemon and the client's loop.      *)

Missed == IF total > Kept THEN total - Kept ELSE 0

\* SubscribeRawFrom: registered, and what the client has not got, in one step.
SubscribeRawOutput ==
    /\ stream.pc = "asked" /\ registered
    /\ LET from == IF stream.from > Missed THEN stream.from ELSE Missed
       IN stream' = [stream EXCEPT !.pc = "open", !.of = process,
                                   !.first = IF from < total THEN Chunks(process, from, total) ELSE <<>>]
    /\ gap' = (gap \/ stream.from < Missed)
    /\ UNCHANGED <<daemon, client, calls, faults>>

\* What is sent reaches the terminal.
Deliver ==
    /\ stream.pc = "open" /\ stream.first \o stream.queue # <<>>
    /\ IF stream.first # <<>>
       THEN screen' = screen \o stream.first /\ stream' = [stream EXCEPT !.first = <<>>]
       ELSE screen' = Append(screen, Head(stream.queue)) /\ stream' = [stream EXCEPT !.queue = Tail(@)]
    /\ UNCHANGED <<daemon, status, startedAt, retry, closing, ended, calls, history>>

Ends == stream' = [NoStream EXCEPT !.pc = "ended"] /\ ended' = TRUE

\* No agent, or one whose process is done, whatever the channel still holds.
HandlerReturns ==
    /\ \/ stream.pc = "asked" /\ ~registered
       \/ stream.pc = "open" /\ stream.first = <<>> /\ (stream.of # process \/ ~alive)
    /\ Ends
    /\ UNCHANGED <<daemon, status, startedAt, screen, retry, closing, calls, history>>

StreamBreaks ==
    /\ Live(stream) /\ faults < MaxFaults /\ faults' = faults + 1 /\ Ends
    /\ UNCHANGED <<daemon, status, startedAt, screen, retry, closing, calls, gap>>

----------------------------------------------------------------------------
(* The hook's effect, run when the status changed or the timer fired.      *)

\* Mutant: the count of received bytes survives the reset.
ResetKeepsCount(old) == [NoStream EXCEPT !.pc = "asked", !.from = Len(screen)]

Subscribed(written) == [NoStream EXCEPT !.pc = "asked", !.from = Len(written)]

GenerationChanged(now) == startedAt # Nobody /\ now # Nobody /\ now # startedAt

Wiped(now) == IF GenerationChanged(now) THEN <<>> ELSE screen
Drops(now, again) == GenerationChanged(now) \/ again
Runs(now, again) == now # status \/ again
Left(now, again) == IF Drops(now, again) THEN NoStream ELSE stream

\* The subscription the effect leaves behind.
After(now, again) ==
    LET left == Left(now, again)
    IN IF Runs(now, again) /\ now # Nobody /\ left = NoStream THEN Subscribed(Wiped(now)) ELSE left

\* The rest of what it does; an aborted stream's onEnd is still to come.
Effect(now, again) ==
    /\ status' = now
    /\ startedAt' = IF now # Nobody THEN now ELSE startedAt
    /\ screen' = Wiped(now)
    /\ gap' = (gap /\ ~GenerationChanged(now))
    /\ ended' = (ended \/ (Drops(now, again) /\ Live(stream)))
    /\ closing' = IF Runs(now, again) THEN now = Nobody /\ Left(now, again) # NoStream ELSE closing

ReconnectTimer ==
    /\ retry /\ retry' = FALSE /\ Effect(status, TRUE) /\ stream' = After(status, TRUE)
    /\ UNCHANGED <<daemon, calls, faults>>

UnsubDelay ==
    /\ closing /\ closing' = FALSE /\ stream' = NoStream
    /\ ended' = (ended \/ Live(stream))
    /\ UNCHANGED <<daemon, status, startedAt, screen, retry, calls, history>>

----------------------------------------------------------------------------
(* The store's calls.                                                      *)

\* The daemon answers as it finds its slot; the answer is under way.
GetAgentStatus(x) == fetch' = [fetch EXCEPT ![x] = IF registered THEN process ELSE Nobody]

\* The finally block of onEnd: with the agent still running the timer is set,
\* else the hook goes on believing that it is subscribed.
Finally(now, then) ==
    /\ retry' = (retry \/ now # Nobody)
    /\ stream' = IF now = Nobody /\ then.pc = "ended" THEN [then EXCEPT !.pc = "forgotten"] ELSE then

\* Mutant: a stream that ends is not asked after.
OnEndSilent ==
    /\ ended /\ ended' = FALSE
    /\ UNCHANGED <<daemon, stream, status, startedAt, screen, retry, closing, calls, history>>

\* onEnd, of an aborted stream too: fetchStatus returns at once while an agent
\* is being started.
OnEnd ==
    /\ ended /\ ended' = FALSE /\ fetch["end"] = Never
    /\ IF start # Never THEN Finally(status, stream) /\ UNCHANGED fetch
       ELSE GetAgentStatus("end") /\ UNCHANGED <<retry, stream>>
    /\ UNCHANGED <<daemon, status, startedAt, screen, closing, start, history>>

Poll ==
    /\ fetch["poll"] = Never /\ start = Never /\ GetAgentStatus("poll")
    /\ UNCHANGED <<daemon, stream, client, start, history>>

\* onEnd's finally block runs after a failure, too.
Returns(x, now) ==
    /\ fetch[x] # Never /\ fetch' = [fetch EXCEPT ![x] = Never] /\ Effect(now, FALSE)
    /\ IF x = "end" THEN Finally(now, After(now, FALSE))
       ELSE stream' = After(now, FALSE) /\ UNCHANGED retry
    /\ UNCHANGED <<daemon, start>>

FetchReturns(x) == Returns(x, fetch[x]) /\ UNCHANGED faults

FetchFails(x) == Returns(x, status) /\ faults < MaxFaults /\ faults' = faults + 1

StartAgent ==
    /\ start = Never /\ start' = process
    /\ UNCHANGED <<daemon, stream, client, fetch, history>>

StartReturns ==
    /\ start # Never /\ start' = Never
    /\ \E p \in (start + 1)..process : Effect(p, FALSE) /\ stream' = After(p, FALSE)
    /\ UNCHANGED <<daemon, retry, fetch, faults>>

StartFails ==
    /\ start # Never /\ start' = Never
    /\ UNCHANGED <<daemon, stream, client, fetch, history>>

\* Once the daemon has stopped the process the status is forgotten.
StopAgent ==
    /\ status # Nobody /\ Effect(Nobody, FALSE) /\ stream' = After(Nobody, FALSE)
    /\ ~alive
    /\ UNCHANGED <<daemon, retry, calls, faults>>

----------------------------------------------------------------------------
Daemon == Launch \/ BroadcastRaw \/ Exits \/ LeavesSlot
Handler == SubscribeRawOutput \/ Deliver \/ HandlerReturns \/ StreamBreaks
Store ==
    \/ OnEnd \/ Poll \/ \E x \in Origins : FetchReturns(x) \/ FetchFails(x)
    \/ StartAgent \/ StartReturns \/ StartFails \/ StopAgent
Next == Daemon \/ Handler \/ ReconnectTimer \/ UnsubDelay \/ Store

\* Timers fire, calls are answered; a subscription is given the fifth of a
\* second before the next one to make progress: strong fairness.
Fairness ==
    /\ WF_vars(HandlerReturns) /\ WF_vars(ReconnectTimer) /\ WF_vars(UnsubDelay)
    /\ WF_vars(OnEnd) /\ WF_vars(StartReturns \/ StartFails)
    /\ \A x \in Origins : WF_vars(FetchReturns(x))
    /\ SF_vars(Poll) /\ SF_vars(SubscribeRawOutput) /\ SF_vars(Deliver)

Spec == Init /\ [][Next]_vars /\ Fairness

----------------------------------------------------------------------------
(* Properties.                                                             *)

TypeOK ==
    /\ process \in 0..MaxProcesses /\ total \in 0..MaxChunks
    /\ {alive, registered, retry, closing, ended, gap} \subseteq BOOLEAN
    /\ stream.pc \in {"none", "asked", "open", "ended", "forgotten"} /\ Len(stream.queue) <= Room
    /\ {status, startedAt} \subseteq 0..process /\ start \in Never..process
    /\ fetch \in [Origins -> Never..process]

\* useAgentTerminal.ts:210: no replay on a stale screen.  What the terminal
\* shows is in the order it was written, nothing of it twice, and the whole
\* beginning of it when it is of one process, as long as no chunk was missed:
\* whichever process a subscription or a stale status turns out to be of.
NothingRepeated ==
    ~gap => /\ \A i, j \in DOMAIN screen : i < j =>
                 \/ screen[i][1] < screen[j][1]
                 \/ screen[i][1] = screen[j][1] /\ screen[i][2] < screen[j][2]
            /\ screen # <<>> /\ screen[1][1] = screen[Len(screen)][1]
                 => screen = Chunks(screen[1][1], 0, Len(screen))

\* An agent that goes on running is shown from its first line to its last,
\* though the client may have resumed at the place of another process, unless
\* the hook was told that nothing runs when its stream had ended.
EventuallyShown ==
    <>[](alive /\ registered) =>
        <>[](gap \/ stream.pc = "forgotten" \/ screen = Chunks(process, 0, total))

\* A subscription to an agent that goes on running settles.
StreamSettles == <>[](alive /\ registered) => <>[](stream.pc = "open")

=============================================================================
