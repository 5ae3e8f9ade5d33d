---------------------------- MODULE EventPipeline ----------------------------
(***************************************************************************)
(* The path of a file change to its handler, with the locks on the way:    *)
(* debounce timers and the watcher's w.mu (watcher.go), the bounded events *)
(* channel, the one goroutine that handles events (processWatcherEvents in *)
(* server.go), and StartAgent, which holds the manager's m.mu while it     *)
(* re-watches the project (manager.go).  Handlers of signal files ask the  *)
(* manager for the running agent, so they need m.mu too.                   *)
(***************************************************************************)
EXTENDS Naturals, Sequences, FiniteSets

CONSTANTS
  Starters,   \* goroutines that call StartAgent
  Files,      \* watched files
  Signals,    \* those whose handler takes m.mu: phase and mode signal files
  Cap,        \* capacity of the events channel (100 in the code)
  MaxWrites,  \* bound: writes to watched files
  MaxStarts   \* bound: StartAgent calls

Timers == 1..MaxWrites
None   == 0

ASSUME PipelineConstants ==
  /\ Signals \subseteq Files
  /\ Cap \in Nat \ {0} /\ MaxWrites \in Nat /\ MaxStarts \in Nat
  /\ None \notin Starters \cup Files

VARIABLES
  timer,    \* per write: the debounce timer it armed and how far that got
  file,     \* per write: the file written
  channel,  \* eventsChan
  loop,     \* the event loop: "receive", "handle" or "getagent"
  event,    \* the file whose event the loop is handling
  mMu,      \* the starter that holds m.mu, or None
  start,    \* where each starter is
  writes, starts  \* counters of the bounds

vars == <<timer, file, channel, loop, event, mMu, start, writes, starts>>

Init ==
  /\ timer = [i \in Timers |-> "off"]
  /\ file \in [Timers -> Files]
  /\ channel = <<>>
  /\ loop = "receive" /\ event = None
  /\ mMu = None
  /\ start = [t \in Starters |-> "idle"]
  /\ writes = 0 /\ starts = 0

-------------------------------------------------------------------------------
(* The watcher. *)

(* Mutant: a second write stops the timer and arms no other. *)
WriteOnce ==
  /\ writes < MaxWrites
  /\ writes' = writes + 1
  /\ timer' = [i \in Timers |->
       CASE i = writes' -> IF \E j \in Timers : timer[j] = "armed" /\ file[j] = file[i]
                           THEN "stopped" ELSE "armed"
         [] timer[i] = "armed" /\ file[i] = file[writes'] -> "stopped"
         [] OTHER -> timer[i]]
  /\ UNCHANGED <<file, channel, loop, event, mMu, start, starts>>

(* debounceEvent: a write stops the timer that is listed for its file, if   *)
(* that has not fired yet, and lists and arms a new one.                   *)
Write ==
  /\ writes < MaxWrites
  /\ writes' = writes + 1
  /\ timer' = [i \in Timers |->
       CASE i = writes' -> "armed"
         [] timer[i] = "armed" /\ file[i] = file[writes'] -> "stopped"
         [] OTHER -> timer[i]]
  /\ UNCHANGED <<file, channel, loop, event, mMu, start, starts>>

(* A writer waits for w.mu: Go lets no new reader in before it. *)
WriterWaits == \E t \in Starters : start[t] \in {"watch", "rewatch"}

Fire(i) ==
  /\ timer[i] \in {"armed", "unlisted"}
  /\ timer' = [timer EXCEPT ![i] = "fired"]
  /\ UNCHANGED <<file, channel, loop, event, mMu, start, writes, starts>>

(* What is listed for the file by then may be a later timer: it is not     *)
(* found, nor stopped, by a write after that.                              *)
Unlist(i) ==
  /\ timer[i] = "fired"
  /\ timer' = [j \in Timers |->
       CASE j = i -> "unlocked"
         [] timer[j] = "armed" /\ file[j] = file[i] -> "unlisted"
         [] OTHER -> timer[j]]
  /\ UNCHANGED <<file, channel, loop, event, mMu, start, writes, starts>>

(* processFileChange: the lock is held from the look-up to the send. *)
LookUp(i) ==
  /\ timer[i] = "unlocked"
  /\ ~WriterWaits
  /\ timer' = [timer EXCEPT ![i] = "sending"]
  /\ UNCHANGED <<file, channel, loop, event, mMu, start, writes, starts>>

Send(i) ==
  /\ timer[i] = "sending"
  /\ Len(channel) < Cap
  /\ channel' = Append(channel, i)
  /\ timer' = [timer EXCEPT ![i] = "sent"]
  /\ UNCHANGED <<file, loop, event, mMu, start, writes, starts>>

-------------------------------------------------------------------------------
(* processWatcherEvents. *)

Receive ==
  /\ loop = "receive"
  /\ channel # <<>>
  /\ channel' = Tail(channel)
  /\ event' = file[Head(channel)]
  /\ loop' = IF event' \in Signals THEN "getagent" ELSE "handle"
  /\ timer' = [timer EXCEPT ![Head(channel)] = "handled"]
  /\ UNCHANGED <<file, mMu, start, writes, starts>>

(* handleTaskChanged touches files only; its stop is another goroutine's. *)
HandleTask ==
  /\ loop = "handle"
  /\ loop' = "receive"
  /\ UNCHANGED <<timer, file, channel, event, mMu, start, writes, starts>>

(* handlePhaseEnded and its like begin with GetAgent, a read of m.agents. *)
HandleSignal ==
  /\ loop = "getagent"
  /\ mMu = None
  /\ loop' = "receive"
  /\ UNCHANGED <<timer, file, channel, event, mMu, start, writes, starts>>

-------------------------------------------------------------------------------
(* StartAgent. *)

CallStart(t) ==
  /\ start[t] = "idle"
  /\ starts < MaxStarts
  /\ starts' = starts + 1
  /\ start' = [start EXCEPT ![t] = "lock"]
  /\ UNCHANGED <<timer, file, channel, loop, event, mMu, writes>>

Lock(t) ==
  /\ start[t] = "lock"
  /\ mMu = None
  /\ mMu' = t
  /\ start' = [start EXCEPT ![t] = "watch"]
  /\ UNCHANGED <<timer, file, channel, loop, event, writes, starts>>

(* Mutant: the RPC handler does not come back from watching. *)
WatchProjectOnce(t) ==
  /\ start[t] = "watch"
  /\ \A i \in Timers : timer[i] # "sending"
  /\ start' = [start EXCEPT ![t] = "launch"]
  /\ UNCHANGED <<timer, file, channel, loop, event, mMu, writes, starts>>

(* WatchProject writes the project table: no timer may be reading it. *)
WatchProject(t) ==
  /\ start[t] \in {"watch", "rewatch"}
  /\ \A i \in Timers : timer[i] # "sending"
  /\ start' = [start EXCEPT ![t] = IF @ = "watch" THEN "launch" ELSE "idle"]
  /\ UNCHANGED <<timer, file, channel, loop, event, mMu, writes, starts>>

(* Mutant: a launch that fails returns with the lock held. *)
LaunchKeepsLock(t) ==
  /\ start[t] = "launch"
  /\ \/ mMu' = None /\ start' = [start EXCEPT ![t] = "rewatch"]
     \/ mMu' = mMu /\ start' = [start EXCEPT ![t] = "idle"]
  /\ UNCHANGED <<timer, file, channel, loop, event, writes, starts>>

(* The session is launched and registered, or fails; the RPC handler of a  *)
(* started one watches the project again.                                  *)
Launch(t) ==
  /\ start[t] = "launch"
  /\ mMu' = None
  /\ start' \in {[start EXCEPT ![t] = "rewatch"], [start EXCEPT ![t] = "idle"]}
  /\ UNCHANGED <<timer, file, channel, loop, event, writes, starts>>

-------------------------------------------------------------------------------
Timer(i)   == Fire(i) \/ Unlist(i) \/ LookUp(i) \/ Send(i)
Loop       == Receive \/ HandleTask \/ HandleSignal
Starting(t) == Lock(t) \/ WatchProject(t) \/ Launch(t)

Next ==
  \/ Write \/ Loop
  \/ \E i \in Timers : Timer(i)
  \/ \E t \in Starters : CallStart(t) \/ Starting(t)

(* Timers fire and goroutines run.  Writes and starts are bounded, so no    *)
(* lock is contended for ever and weak fairness is enough.                 *)
Fairness ==
  /\ WF_vars(Loop)
  /\ \A i \in Timers : WF_vars(Timer(i))
  /\ \A t \in Starters : WF_vars(Starting(t))

Spec == Init /\ [][Next]_vars
FairSpec == Spec /\ Fairness

-------------------------------------------------------------------------------
TypeOK ==
  /\ timer \in [Timers -> {"off", "armed", "unlisted", "stopped", "fired", "unlocked", "sending", "sent", "handled"}]
  /\ file \in [Timers -> Files]
  /\ channel \in Seq(Timers) /\ Len(channel) <= Cap
  /\ loop \in {"receive", "handle", "getagent"} /\ event \in Files \cup {None}
  /\ mMu \in Starters \cup {None}
  /\ start \in [Starters -> {"idle", "lock", "watch", "launch", "rewatch"}]
  /\ writes \in 0..MaxWrites /\ starts \in 0..MaxStarts

(* The last write of a file is handled: debouncing drops an earlier one    *)
(* only because a later one will be told of.                               *)
EveryChangeHandled == \A i \in Timers :
  timer[i] \in {"armed", "stopped"} ~>
    \E j \in i..MaxWrites : file[j] = file[i] /\ timer[j] = "handled"

(* Every StartAgent call gets through the locks. *)
StartsReturn == \A t \in Starters : start[t] # "idle" ~> start[t] = "idle"

(* The event loop is not blocked: the handlers leave the slow stop to a    *)
(* goroutine of its own, and what they do themselves comes to an end.      *)
LoopNotBlocked == loop # "receive" ~> loop = "receive"
===============================================================================
