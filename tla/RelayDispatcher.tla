--------------------------- MODULE RelayDispatcher ---------------------------
(***************************************************************************)
(* Outbound delivery (internal/daemon/relay/dispatcher.go): one goroutine  *)
(* takes notifications from its bounded subscription to the bus and sends  *)
(* each to every adapter that wants it, with retries and a circuit breaker *)
(* per adapter.  The event loop reloads the adapters meanwhile, and the    *)
(* server stops the dispatcher on its way out.                             *)
(***************************************************************************)
EXTENDS Naturals, Sequences, FiniteSets

CONSTANTS
  NumAdapters, \* adapters in the order of integrations.yaml
  Cap,         \* capacity of a bus subscription (16 in the code)
  Retries,     \* len(d.retry), 3 in the code
  Limit,       \* cbLimit, 3 in the code
  Window,      \* cbWindow, in ticks of the clock
  MaxNotes,    \* bound: notifications emitted
  MaxTime,     \* bound: ticks of the clock
  MaxReloads   \* bound: edits of integrations.yaml

Adapters == 1..NumAdapters
Notes    == 1..MaxNotes
Times    == 0..MaxTime
Attempts == 1 + Retries

ASSUME RelayConstants ==
  /\ NumAdapters \in Nat /\ Cap \in Nat \ {0} /\ Retries \in Nat
  /\ Limit \in Nat \ {0} /\ Window \in Nat \ {0}
  /\ MaxNotes \in Nat /\ MaxTime \in Nat /\ MaxReloads \in Nat

VARIABLES
  queue,    \* d.subCh
  list,     \* d.adapters: each absent, on, or muted for these notes
  failures, \* d.cbState: the hard failures (note, time) the breaker knows
  pc,       \* the Run goroutine: "select", "dispatch", "send", "backoff", "done"
  note,     \* the notification being dispatched
  todo,     \* the adapters of the snapshot it has not been sent to yet
  attempt,  \* attempts made on the adapter at hand
  now,      \* the clock
  server,   \* "up", "stopping" (in Dispatcher.Stop) or "down"
  emitted, reloads,  \* counters of the bounds
  accepted, \* history: the notes each endpoint has taken, and whether Send said so
  hard      \* history: all hard failures of an adapter since it was added

run     == <<pc, note, todo, attempt>>
history == <<accepted, hard>>
vars    == <<queue, list, failures, run, now, server, emitted, reloads, history>>

Init ==
  /\ queue = <<>>
  /\ list \in [Adapters -> {"absent", "on"}]
  /\ failures = [a \in Adapters |-> {}]
  /\ pc = "select" /\ note = 0 /\ todo = {} /\ attempt = 0
  /\ now = 0 /\ server = "up" /\ emitted = 0 /\ reloads = 0
  /\ accepted = [a \in Adapters |-> <<>>]
  /\ hard = [a \in Adapters |-> {}]

-------------------------------------------------------------------------------
(* The bus: a full subscription loses the notification, the emitter never  *)
(* waits.  Run has unsubscribed when it is done.                           *)
Emit ==
  /\ emitted < MaxNotes
  /\ emitted' = emitted + 1
  /\ queue' = IF Len(queue) < Cap /\ pc # "done" THEN Append(queue, emitted') ELSE queue
  /\ UNCHANGED <<list, failures, run, now, server, reloads, history>>

Tick ==
  /\ now < MaxTime
  /\ now' = now + 1
  /\ UNCHANGED <<queue, list, failures, run, server, emitted, reloads, history>>

(* Reload swaps the adapters and forgets the failures of those that left.  *)
(* A factory that fails leaves everything as it is.                        *)
Reload ==
  /\ reloads < MaxReloads
  /\ reloads' = reloads + 1
  /\ list' \in [Adapters -> {"absent", "on", "muted"}]
  /\ failures' = [a \in Adapters |-> IF list'[a] = "absent" THEN {} ELSE failures[a]]
  /\ hard' = [a \in Adapters |-> IF list'[a] = "absent" THEN {} ELSE hard[a]]
  /\ UNCHANGED <<queue, run, now, server, emitted, accepted>>

-------------------------------------------------------------------------------
(* Run. *)

(* The next notification, for the adapters there are now; none if its      *)
(* payload cannot be resolved.                                             *)
Take ==
  /\ pc = "select"
  /\ queue # <<>>
  /\ note' = Head(queue)
  /\ queue' = Tail(queue)
  /\ \/ pc' = "dispatch" /\ todo' = {a \in Adapters : list[a] = "on"}
     \/ UNCHANGED <<pc, todo>>
  /\ UNCHANGED <<list, failures, attempt, now, server, emitted, reloads, history>>

Dispatched ==
  /\ pc = "dispatch"
  /\ todo = {}
  /\ pc' = "select"
  /\ UNCHANGED <<queue, list, failures, note, todo, attempt, now, server, emitted,
                 reloads, history>>

(* The adapter at hand: they are served in order. *)
Turn(a) == a \in todo /\ \A b \in todo : a <= b

Recent(fs) == {f \in fs : f[2] + Window > now}

(* Mutant: the breaker opens one failure late. *)
BreakerOpenLate(a) == Cardinality(Recent(failures[a])) > Limit

(* breakerOpen: prune what is older than the window, then count. *)
BreakerOpen(a) == Cardinality(Recent(failures[a])) >= Limit

(* sendWithRetry begins. *)
Begin(a) ==
  /\ pc = "dispatch"
  /\ Turn(a)
  /\ failures' = [failures EXCEPT ![a] = Recent(@)]
  /\ IF BreakerOpen(a)
     THEN todo' = todo \ {a} /\ UNCHANGED <<pc, attempt>>
     ELSE pc' = "send" /\ attempt' = 1 /\ UNCHANGED todo
  /\ UNCHANGED <<queue, list, note, now, server, emitted, reloads, history>>

(* sendWithRetry returns: on to the next adapter. *)
Leave(a) ==
  /\ todo' = todo \ {a}
  /\ pc' = "dispatch"
  /\ UNCHANGED <<note, attempt>>

(* The endpoint takes the notification; Send reports success (ok) or not.  *)
Taken(a, ok) == accepted' = [accepted EXCEPT ![a] = Append(@, <<note, ok>>)]

(* A Send that reports an error: the endpoint may have taken it, the       *)
(* answer being what was lost.                                             *)
Unanswered(a) == Taken(a, FALSE) \/ UNCHANGED accepted

Accepted(a) ==
  /\ pc = "send"
  /\ Turn(a)
  /\ Taken(a, TRUE)
  /\ Leave(a)
  /\ UNCHANGED <<queue, list, failures, now, server, emitted, reloads, hard>>

(* Send reports a cancelled context or a deadline that passed: the context *)
(* of Run, or the time-out of the HTTP client, whose error answers to      *)
(* context.DeadlineExceeded as well.  No retry, and no failure to count.   *)
Cancelled(a) ==
  /\ pc = "send"
  /\ Turn(a)
  /\ Unanswered(a)
  /\ Leave(a)
  /\ UNCHANGED <<queue, list, failures, now, server, emitted, reloads, hard>>

(* Mutant: a send that failed goes to the end of the queue. *)
Requeued(a) ==
  /\ pc = "send"
  /\ Turn(a)
  /\ attempt < Attempts
  /\ Unanswered(a)
  /\ queue' = IF Len(queue) < Cap THEN Append(queue, note) ELSE queue
  /\ Leave(a)
  /\ UNCHANGED <<list, failures, now, server, emitted, reloads, hard>>

Refused(a) ==
  /\ pc = "send"
  /\ Turn(a)
  /\ attempt < Attempts
  /\ Unanswered(a)
  /\ pc' = "backoff"
  /\ UNCHANGED <<queue, list, failures, note, todo, attempt, now, server, emitted,
                 reloads, hard>>

(* The last attempt failed: recordFailure. *)
Exhausted(a) ==
  /\ pc = "send"
  /\ Turn(a)
  /\ attempt = Attempts
  /\ Unanswered(a)
  /\ failures' = [failures EXCEPT ![a] = Recent(@ \cup {<<note, now>>})]
  /\ hard' = [hard EXCEPT ![a] = @ \cup {<<note, now>>}]
  /\ Leave(a)
  /\ UNCHANGED <<queue, list, now, server, emitted, reloads>>

(* Mutant: the attempts are not counted. *)
RetryForEver(a) ==
  /\ pc = "backoff"
  /\ Turn(a)
  /\ pc' = "send"
  /\ UNCHANGED <<queue, list, failures, note, todo, attempt, now, server, emitted,
                 reloads, history>>

Retry(a) ==
  /\ pc = "backoff"
  /\ Turn(a)
  /\ pc' = "send"
  /\ attempt' = attempt + 1
  /\ UNCHANGED <<queue, list, failures, note, todo, now, server, emitted, reloads,
                 history>>

(* The back-off is cut short when the dispatcher is being stopped. *)
BackoffStopped(a) ==
  /\ pc = "backoff"
  /\ Turn(a)
  /\ server # "up"
  /\ Leave(a)
  /\ UNCHANGED <<queue, list, failures, now, server, emitted, reloads, history>>

(* select may also choose another notification while both are ready. *)
RunReturns ==
  /\ pc = "select"
  /\ server # "up"
  /\ pc' = "done"
  /\ UNCHANGED <<queue, list, failures, note, todo, attempt, now, server, emitted,
                 reloads, history>>

Run ==
  \/ Take \/ Dispatched \/ RunReturns
  \/ \E a \in Adapters :
       \/ Begin(a) \/ Accepted(a) \/ Cancelled(a) \/ Refused(a) \/ Exhausted(a)
       \/ Retry(a) \/ BackoffStopped(a)

(* Server.Stop cancels the context and calls Dispatcher.Stop, which waits. *)
StopCalled ==
  /\ server = "up"
  /\ server' = "stopping"
  /\ UNCHANGED <<queue, list, failures, run, now, emitted, reloads, history>>

StopReturns ==
  /\ server = "stopping"
  /\ pc = "done"
  /\ server' = "down"
  /\ UNCHANGED <<queue, list, failures, run, now, emitted, reloads, history>>

Next == Emit \/ Tick \/ Reload \/ Run \/ StopCalled \/ StopReturns

Spec == Init /\ [][Next]_vars

(* The goroutines run; every Send returns, at its client's time-out at the *)
(* latest.                                                                 *)
FairSpec == Spec /\ WF_vars(Run) /\ WF_vars(StopReturns)

-------------------------------------------------------------------------------
TypeOK ==
  /\ queue \in Seq(Notes) /\ Len(queue) <= Cap
  /\ list \in [Adapters -> {"absent", "on", "muted"}]
  /\ failures \in [Adapters -> SUBSET (Notes \X Times)]
  /\ pc \in {"select", "dispatch", "send", "backoff", "done"}
  /\ note \in 0..MaxNotes /\ todo \subseteq Adapters /\ attempt \in 0..Attempts
  /\ now \in Times /\ server \in {"up", "stopping", "down"}
  /\ emitted \in 0..MaxNotes /\ reloads \in 0..MaxReloads
  /\ accepted \in [Adapters -> Seq(Notes \X BOOLEAN)]
  /\ hard \in [Adapters -> SUBSET (Notes \X Times)]

(* The breaker: however slow the sends and whatever is reloaded meanwhile, *)
(* no window of time sees more than Limit sends to an adapter exhaust      *)
(* their retries.                                                          *)
BreakerHolds == \A a \in Adapters, t \in Times :
  Cardinality({f \in hard[a] : f[2] \in t..(t + Window - 1)}) <= Limit

(* An endpoint gets the notifications in the order of their emission, and  *)
(* one of them again only when the Send before reported an error, at most  *)
(* as often as there are attempts.                                         *)
DeliveredInOrder == \A a \in Adapters : \A i, j \in DOMAIN accepted[a] :
  i < j => \/ accepted[a][i][1] < accepted[a][j][1]
           \/ /\ accepted[a][i][1] = accepted[a][j][1]
              /\ ~accepted[a][i][2]
              /\ j < i + Attempts

(* A notification does not hold the dispatcher for ever, however often its *)
(* adapters refuse it.                                                     *)
DispatchEnds == pc = "dispatch" ~> pc = "select"

(* The server is not held up by a dispatcher in the middle of a retry. *)
StopEnds == server = "stopping" ~> server = "down"

-------------------------------------------------------------------------------
(* What comments say beyond that. *)

(* DefaultRetryDelays: a delivery is given up only after all its attempts. *)
GivesUpAfterRetries ==
  [][\A a \in Adapters :
       pc = "send" /\ Turn(a) /\ a \notin todo' /\ server = "up"
         => attempt = Attempts \/ Taken(a, TRUE)]_vars
===============================================================================
