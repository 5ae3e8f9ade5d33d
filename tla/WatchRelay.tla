----------------------------- MODULE WatchRelay -----------------------------
(***************************************************************************)
(* The live relay of the Telegram bridge: what an agent session writes to  *)
(* its transcript is tailed, batched and posted to one watching chat, by a *)
(* goroutine per session that the watch loop starts and cancels, while the *)
(* users write to the same chat and the bridge replies.  The transcript    *)
(* tier only; the screen fall-back of other agents is left out.            *)
(***************************************************************************)
EXTENDS Integers, Sequences, FiniteSets, SequencesExt

CONSTANTS Kinds,        \* kinds of sessions: a chat, a task, a planning phase of wildfire
          MaxSessions,  \* bound: agent sessions
          MaxRelays,    \* bound: relays
          MaxLines,     \* bound: lines of one transcript
          MaxEvents     \* bound: messages of the users and files begun again

ASSUME WatchAssumption ==
    /\ {MaxSessions, MaxRelays, MaxLines} \subseteq Nat \ {0}
    /\ MaxEvents \in Nat
    /\ Kinds \subseteq {"chat", "task", "plan"}

VARIABLES
    sess,     \* the sessions: kind, running, result on disk, merge
    count,    \* sessions started; the last one is the project's
    lines,    \* their transcripts
    half,     \* the last line of the running session's transcript is half written
    chat,     \* the messages of the chat, in the order Telegram shows them
    posts,    \* messages of the users
    asked,    \* the users' messages up to this place have been handled
    reply,    \* a reply of the bridge is about to be sent
    watching, \* the chat watches
    up,       \* the bridge runs
    relay,    \* the relays
    cur,      \* the relay in the bridge's map, 0 when there is none
    made,     \* relays started
    dropped,  \* history: what a failed send has lost
    said      \* history: the outcomes announced for a session

vars == <<sess, count, lines, half, chat, posts, asked, reply, watching, up, relay, cur, made, dropped, said>>
agent == <<sess, count, lines, half>>
user == <<posts, asked, reply, watching, up>>

Sessions == 1..MaxSessions
Relays == 1..MaxRelays
Absent == [kind |-> "none", live |-> FALSE, result |-> "open", merge |-> "none"]
Idle == [s |-> 0, pc |-> "off", cancelled |-> FALSE, file |-> 0, pos |-> 0, part |-> FALSE, pend |-> <<>>,
         batch |-> <<>>, edit |-> FALSE, grow |-> 0,
         lost |-> {}, again |-> 0]  \* history: edits whose answer was lost; files begun again

\* What is relayed: line i of session s; its start marker; its last marker.
Start(s) == <<s, 0>>
Outcome(s) == <<s, MaxLines + 1>>
IsLine(e) == e[1] \in Sessions /\ e[2] \in DOMAIN lines[e[1]]
KindOf(e) == IF IsLine(e) THEN lines[e[1]][e[2]].kind ELSE "marker"
AllText(es) == \A i \in DOMAIN es : KindOf(es[i]) = "text"
HasTurnBreak(es) == \E i \in DOMAIN es : KindOf(es[i]) = "break"

\* The batch without its turn breaks, in the same order: one sequence.
Kept(es) == {i \in DOMAIN es : KindOf(es[i]) # "break"}
Increasing(f) == \A i, j \in DOMAIN f : i < j => f[i] < f[j]
Listings(S) == {f \in [1..Cardinality(S) -> S] : Increasing(f) /\ \A k \in S : \E i \in DOMAIN f : f[i] = k}
WithoutBreaks(es) == {[i \in DOMAIN f |-> es[f[i]]] : f \in Listings(Kept(es))}

Live == count > 0 /\ sess[count].live
Message(from, r, es) == [from |-> from, by |-> r, items |-> es]

\* The first session is over when the bridge starts; it may have left a
\* transcript.
Init ==
    /\ sess = [s \in Sessions |-> IF s = 1 THEN [Absent EXCEPT !.kind = "chat"] ELSE Absent] /\ count = 1
    /\ \E ls \in {<<>>, <<[kind |-> "text", q |-> 0]>>} :
          lines = [s \in Sessions |-> IF s = 1 THEN ls ELSE <<>>]
    /\ half = FALSE
    /\ chat = <<>> /\ posts = 0 /\ asked = 0 /\ reply = FALSE
    /\ watching \in BOOLEAN /\ up = TRUE
    /\ relay = [r \in Relays |-> Idle] /\ cur = 0 /\ made = 0
    /\ dropped = {} /\ said = [s \in Sessions |-> {}]

----------------------------------------------------------------------------
(* The agent: it starts, writes whole lines or half of one, ends with a     *)
(* result in its task's file; the merge runs after that.                   *)

Starts(k) ==
    /\ up /\ ~Live /\ count < MaxSessions
    /\ count' = count + 1
    /\ sess' = [sess EXCEPT ![count + 1] = [Absent EXCEPT !.kind = k, !.live = TRUE]]
    /\ UNCHANGED <<lines, half, chat, user, relay, cur, made, dropped, said>>

LastQuestion(s) == LET ls == lines[s] IN IF ls = <<>> THEN 0 ELSE ls[Len(ls)].q

AgentWrites(h) ==
    /\ up /\ Live /\ ~half /\ sess[count].kind # "plan" /\ Len(lines[count]) < MaxLines
    /\ lines' = [lines EXCEPT ![count] = Append(@, [kind |-> "text", q |-> LastQuestion(count)])]
    /\ half' = h
    /\ UNCHANGED <<sess, count, chat, user, relay, cur, made, dropped, said>>

EndsLine ==
    /\ up /\ half /\ half' = FALSE
    /\ UNCHANGED <<sess, count, lines, chat, user, relay, cur, made, dropped, said>>

\* Half a line that will never be whole is no line.
SessionEnds(x) ==
    /\ up /\ Live /\ (sess[count].kind # "task" => x = "open")
    /\ sess' = [sess EXCEPT ![count].live = FALSE, ![count].result = x,
                            ![count].merge = IF x = "done" THEN "pending" ELSE @]
    /\ half' = FALSE
    /\ lines' = IF half THEN [lines EXCEPT ![count] = Front(@)] ELSE lines
    /\ UNCHANGED <<count, chat, user, relay, cur, made, dropped, said>>

Merges(s, x) ==
    /\ up /\ sess[s].merge = "pending"
    /\ sess' = [sess EXCEPT ![s].merge = x]
    /\ UNCHANGED <<count, lines, half, chat, user, relay, cur, made, dropped, said>>

----------------------------------------------------------------------------
(* The users and the bridge.  A message is typed into the session, where   *)
(* the agent notes it as a turn, or answered.                              *)

\* A bound, and no part of the program.
MoreEvents == posts < MaxEvents /\ \A r \in Relays : posts + relay[r].again < MaxEvents

UserPosts ==
    /\ up /\ MoreEvents /\ posts' = posts + 1
    /\ chat' = Append(chat, Message("user", 0, <<>>))
    /\ UNCHANGED <<agent, asked, reply, watching, up, relay, cur, made, dropped, said>>

Unhandled == {i \in DOMAIN chat : chat[i].from = "user" /\ i > asked}
IsNext(i) == i \in Unhandled /\ \A j \in Unhandled : i <= j

BridgeTypes ==
    /\ up /\ ~reply
    /\ Live /\ ~half /\ sess[count].kind # "plan" /\ Len(lines[count]) < MaxLines
    /\ \E i \in DOMAIN chat :
          /\ IsNext(i) /\ asked' = i
          /\ lines' = [lines EXCEPT ![count] = Append(@, [kind |-> "break", q |-> i])]
    /\ UNCHANGED <<sess, count, half, chat, posts, reply, watching, up, relay, cur, made, dropped, said>>

Locked(r) == relay[r].batch # <<>>

\* Bridge.reply: the relay stops growing its message, then the reply is sent.
\* /watch switches the relay on and off and replies.
BreakGrowth ==
    /\ up /\ ~reply /\ reply' = TRUE
    /\ \E i \in DOMAIN chat : IsNext(i) /\ asked' = i
    /\ watching' \in BOOLEAN
    /\ cur # 0 => ~Locked(cur)
    /\ relay' = IF cur = 0 THEN relay ELSE [relay EXCEPT ![cur].grow = 0]
    /\ UNCHANGED <<agent, chat, posts, up, cur, made, dropped, said>>

SendsReply ==
    /\ reply /\ reply' = FALSE
    /\ chat' = Append(chat, Message("bridge", 0, <<>>))
    /\ UNCHANGED <<agent, posts, asked, watching, up, relay, cur, made, dropped, said>>

----------------------------------------------------------------------------
(* The watch loop.                                                         *)

\* What is on its way to Telegram can still arrive.
Cancelled(r) == [r EXCEPT !.cancelled = TRUE]

NewRelay ==
    [Idle EXCEPT !.s = count, !.pc = "tail",
                 !.pend = IF sess[count].kind = "chat" THEN <<>> ELSE <<Start(count)>>]

StartRelay(rs) ==
    /\ made < MaxRelays /\ made' = made + 1 /\ cur' = made + 1
    /\ relay' = [rs EXCEPT ![made + 1] = NewRelay]

Over(r) == relay[r].pc = "over"

Reconcile ==
    /\ up
    /\ LET stale == cur # 0 /\ (~watching \/ (Live /\ relay[cur].s # count))
           gone == cur # 0 /\ watching /\ ~Live /\ Over(cur)
           kept == cur # 0 /\ ~stale /\ ~gone
           rs == IF stale THEN [relay EXCEPT ![cur] = Cancelled(@)] ELSE relay IN
       IF watching /\ Live /\ ~kept THEN StartRelay(rs)
       ELSE /\ relay' = rs /\ cur' = IF kept THEN cur ELSE 0
            /\ UNCHANGED made
    /\ UNCHANGED <<agent, chat, user, dropped, said>>

\* watchLoop returns when the bridge is cancelled: stopAllRelays.
BridgeStops ==
    /\ up /\ ~reply /\ up' = FALSE
    /\ relay' = IF cur = 0 THEN relay ELSE [relay EXCEPT ![cur] = Cancelled(@)]
    /\ cur' = 0
    /\ UNCHANGED <<agent, chat, posts, asked, reply, watching, made, dropped, said>>

----------------------------------------------------------------------------
(* The tailer.  Before the session's own transcript exists its predecessor's *)
(* is the freshest match.                                                  *)

Exists(s) == s \in Sessions /\ lines[s] # <<>>
Freshest(s) == IF Exists(s) THEN s ELSE IF Exists(s - 1) THEN s - 1 ELSE 0
Whole(f) == Len(lines[f]) - (IF half /\ f = count THEN 1 ELSE 0)
HalfRead(f) == half /\ f = count
Unread(p) == p.file # 0 /\ (p.pos < Whole(p.file) \/ (HalfRead(p.file) /\ ~p.part))
Tails(r) == relay[r].pc = "tail" /\ sess[relay[r].s].kind # "plan"

\* A line is relayed when it is whole; half a line is kept for the next time.
Drained(p) ==
    [p EXCEPT !.pend = @ \o [i \in 1..(Whole(p.file) - p.pos) |-> <<p.file, p.pos + i>>],
              !.pos = Whole(p.file), !.part = HalfRead(p.file)]

Switched(p) == [p EXCEPT !.file = Freshest(p.s), !.pos = 0, !.part = FALSE]
Located(p) == IF p.file = 0 THEN Switched(p) ELSE p

Drain(r) ==
    /\ Tails(r) /\ ~Locked(r) /\ Unread(Located(relay[r]))
    /\ relay' = [relay EXCEPT ![r] = Drained(Located(@))]
    /\ UNCHANGED <<agent, chat, user, cur, made, dropped, said>>

\* Mutant: the tailer stays with the file it found first.
RelocateNever(r) == FALSE /\ UNCHANGED vars

\* The file has not grown for a while and another one is fresher.
Relocate(r) ==
    /\ Tails(r) /\ relay[r].file # 0 /\ ~Unread(relay[r])
    /\ Freshest(relay[r].s) # relay[r].file
    /\ relay' = [relay EXCEPT ![r] = Switched(@)]
    /\ UNCHANGED <<agent, chat, user, cur, made, dropped, said>>

\* Mutant: the session's end is not followed by a last drain.
LastDrainSkipped(p) == p

LastDrain(p) ==
    IF sess[p.s].kind = "plan" \/ Located(p).file = 0 THEN p ELSE Drained(Located(p))

\* The file has vanished, to be looked for again, or is shorter than what was
\* read of it: it is read from its top.  What was written stays in it, or is
\* written again.
Anew(p, f) == [p EXCEPT !.file = f, !.pos = 0, !.part = FALSE, !.again = @ + 1]

Restarts(r, f) ==
    /\ Tails(r) /\ ~Locked(r) /\ MoreEvents
    /\ relay[r].file # 0 /\ f \in {0, relay[r].file}
    /\ relay' = [relay EXCEPT ![r] = Anew(@, f)]
    /\ UNCHANGED <<agent, chat, user, cur, made, dropped, said>>

\* The last drain may find that the file has vanished; it is not looked for again.
TailEnds(r) ==
    /\ relay[r].pc = "tail" /\ ~Locked(r)
    /\ \/ relay[r].cancelled /\ relay' = [relay EXCEPT ![r].pc = "over"]
       \/ ~sess[relay[r].s].live /\ relay' = [relay EXCEPT ![r] = [LastDrain(@) EXCEPT !.pc = "outcome"]]
       \/ /\ ~sess[relay[r].s].live /\ relay[r].file # 0 /\ MoreEvents
          /\ relay' = [relay EXCEPT ![r] = [Anew(@, 0) EXCEPT !.pc = "outcome"]]
    /\ UNCHANGED <<agent, chat, user, cur, made, dropped, said>>

----------------------------------------------------------------------------
(* The end of a relay: what the chat is told of a task.                    *)

\* TaskOutcome reads the task file alone; a failed merge is written there
\* when it has happened.  A task that is not done, or done without success,
\* has its own words; they are one here.
Told(s) ==
    CASE sess[s].kind # "task"    -> {}
      [] sess[s].result = "open"  -> {"ended"}
      [] sess[s].merge = "failed" -> {"mergefailed"}
      [] OTHER                    -> {"merged"}

OutcomeMarker(r) ==
    LET s == relay[r].s IN
    /\ relay[r].pc = "outcome" /\ ~relay[r].cancelled
    /\ relay' = [relay EXCEPT ![r].pc = "final", ![r].pend = @ \o (IF sess[s].kind = "chat" THEN <<>> ELSE <<Outcome(s)>>)]
    /\ said' = [said EXCEPT ![s] = @ \cup Told(s)]
    /\ UNCHANGED <<agent, chat, user, cur, made, dropped>>

\* Mutant: a cancelled relay still waits for an empty queue.
RelayReturnsUncancelled(r) ==
    /\ relay[r].pc = "final" /\ ~Locked(r) /\ relay[r].pend = <<>>
    /\ relay' = [relay EXCEPT ![r].pc = "over"]
    /\ UNCHANGED <<agent, chat, user, cur, made, dropped, said>>

\* Cancelled, every send fails.
RelayReturns(r) ==
    /\ \/ relay[r].pc = "outcome" /\ relay[r].cancelled
       \/ relay[r].pc = "final" /\ ~Locked(r) /\ (relay[r].cancelled \/ relay[r].pend = <<>>)
    /\ relay' = [relay EXCEPT ![r].pc = "over"]
    /\ UNCHANGED <<agent, chat, user, cur, made, dropped, said>>

----------------------------------------------------------------------------
(* The sender.  It holds its lock while it sends.  That the interval has   *)
(* passed (with the flood cap a longer one) and that a batch is text alone  *)
(* and fits are left open; a batch too long for a message is one entry.    *)

\* Mutant: a turn break does not end the message that grows.
AnchorKept(p) == p.grow

Anchor(p) == IF HasTurnBreak(p.pend) THEN 0 ELSE p.grow

Flush(r) ==
    LET p == relay[r] IN
    /\ p.pc \in {"tail", "final"} /\ ~p.cancelled /\ ~Locked(r) /\ p.pend # <<>>
    /\ \E batch \in WithoutBreaks(p.pend), edit \in BOOLEAN :
          /\ edit => Anchor(p) # 0 /\ batch # <<>> /\ AllText(batch)
          /\ relay' = [relay EXCEPT ![r] = [p EXCEPT !.pend = <<>>, !.batch = batch, !.edit = edit,
                                                     !.grow = IF edit THEN Anchor(p) ELSE 0]]
    /\ UNCHANGED <<agent, chat, user, cur, made, dropped, said>>

Edited(r) == [chat EXCEPT ![relay[r].grow].items = @ \o relay[r].batch]

EditMessage(r) ==
    /\ Locked(r) /\ relay[r].edit
    /\ chat' = Edited(r)
    /\ relay' = [relay EXCEPT ![r] = [@ EXCEPT !.batch = <<>>, !.edit = FALSE]]
    /\ UNCHANGED <<agent, user, cur, made, dropped, said>>

\* The places an edit fills.
Added(r) ==
    LET p == relay[r]
        n == Len(chat[p.grow].items) IN
    {p.grow} \X {n + i : i \in DOMAIN p.batch}

\* Mutant: the new message also says what the old one says already.
AllAgain(r) ==
    /\ Locked(r) /\ relay[r].edit
    /\ UNCHANGED chat
    /\ relay' = [relay EXCEPT ![r] = [@ EXCEPT !.edit = FALSE, !.grow = 0, !.batch = chat[relay[r].grow].items \o @]]
    /\ UNCHANGED <<agent, user, cur, made, dropped, said>>

\* The edit failed, or only its answer was lost: a new message instead.
EditFails(r) ==
    /\ Locked(r) /\ relay[r].edit
    /\ \/ UNCHANGED chat /\ relay' = [relay EXCEPT ![r] = [@ EXCEPT !.edit = FALSE, !.grow = 0]]
       \/ /\ chat' = Edited(r)
          /\ relay' = [relay EXCEPT ![r] = [@ EXCEPT !.edit = FALSE, !.grow = 0,
                                                      !.lost = relay[r].lost \cup Added(r)]]
    /\ UNCHANGED <<agent, user, cur, made, dropped, said>>

SendMessage(r) ==
    /\ Locked(r) /\ ~relay[r].edit
    /\ chat' = Append(chat, Message("relay", r, relay[r].batch))
    /\ \E g \in IF AllText(relay[r].batch) THEN {0, Len(chat) + 1} ELSE {0} :
          relay' = [relay EXCEPT ![r] = [@ EXCEPT !.batch = <<>>, !.grow = g]]
    /\ UNCHANGED <<agent, user, cur, made, dropped, said>>

\* Logged, never repeated.  (Posted all the same, it is SendMessage with g = 0.)
SendFails(r) ==
    /\ Locked(r) /\ ~relay[r].edit
    /\ dropped' = dropped \cup ToSet(relay[r].batch)
    /\ relay' = [relay EXCEPT ![r] = [@ EXCEPT !.batch = <<>>]]
    /\ UNCHANGED <<agent, chat, user, cur, made, said>>

Tailing(r) ==
    \/ Drain(r) \/ Relocate(r) \/ TailEnds(r) \/ OutcomeMarker(r) \/ RelayReturns(r)
Sender(r) == Flush(r) \/ EditMessage(r) \/ EditFails(r) \/ SendMessage(r) \/ SendFails(r)

Next ==
    \/ \E k \in Kinds : Starts(k)
    \/ \E h \in BOOLEAN : AgentWrites(h)
    \/ EndsLine
    \/ \E x \in {"open", "done"} : SessionEnds(x)
    \/ \E s \in Sessions, x \in {"merged", "failed"} : Merges(s, x)
    \/ UserPosts \/ BridgeTypes \/ BreakGrowth \/ SendsReply
    \/ Reconcile \/ BridgeStops
    \/ \E r \in Relays : Tailing(r) \/ Sender(r)
    \/ \E r \in Relays, f \in 0..MaxSessions : Restarts(r, f)

Spec == Init /\ [][Next]_vars

(* Relays and their senders run, and a request to Telegram ends.           *)
FairSpec == Spec /\ \A r \in Relays : WF_vars(Tailing(r)) /\ WF_vars(Sender(r))

----------------------------------------------------------------------------
(* Properties.                                                             *)

\* Types, and the bounds of the instance.
TypeOK ==
    /\ count \in 0..MaxSessions /\ cur \in 0..MaxRelays /\ made \in 0..MaxRelays /\ posts \in 0..MaxEvents
    /\ \A s \in Sessions : Len(lines[s]) <= MaxLines /\ sess[s].kind \in Kinds \cup {"chat", "none"}
    /\ half \in BOOLEAN /\ (half => lines[count] # <<>>)
    /\ \A r \in Relays :
          /\ relay[r].s \in 0..count /\ relay[r].file \in 0..count /\ relay[r].grow \in 0..Len(chat)
          /\ relay[r].grow # 0 => chat[relay[r].grow].by = r
          /\ relay[r].edit => Locked(r) /\ relay[r].grow # 0

Posts(r) == {m \in DOMAIN chat : chat[m].by = r}
Shown(r) == UNION {ToSet(chat[m].items) : m \in Posts(r)}
Places(r) == UNION {{m} \X DOMAIN chat[m].items : m \in Posts(r)}
ItemAt(p) == chat[p[1]].items[p[2]]
Before(p, q) == p[1] < q[1] \/ (p[1] = q[1] /\ p[2] < q[2])

\* What a relay has posted reads in the order of the transcript, through half
\* lines, failed sends and edits, and messages that grow.  A line stands twice
\* only if the edit that posted it first was made and its answer was lost, or
\* if the tailer had to begin a file again.
RelayedInOrder ==
    \A r \in Relays : \A p, q \in Places(r) :
        /\ relay[r].again = 0 /\ Before(p, q)
        /\ ItemAt(p)[1] = relay[r].s /\ ItemAt(q)[1] = relay[r].s
        => \/ ItemAt(p)[2] < ItemAt(q)[2]
           \/ p \in relay[r].lost /\ \E o \in relay[r].lost : Before(o, q) /\ ItemAt(o) = ItemAt(q)

\* The answer to a question stands below the question, although the relay
\* appends to messages it has posted before.
AnswerBelowQuestion ==
    \A i \in DOMAIN chat : \A j \in DOMAIN chat[i].items :
        LET e == chat[i].items[j] IN IsLine(e) => lines[e[1]][e[2]].q < i

\* A relay that was not cancelled ends with the whole transcript it read in the
\* chat, but for failed sends; lines written just before the end included.
NothingSkipped ==
    \A r \in Relays :
        Over(r) /\ ~relay[r].cancelled =>
            \A i \in 1..(IF relay[r].file = 0 THEN 0 ELSE Whole(relay[r].file)) :
                LET e == <<relay[r].file, i>> IN
                KindOf(e) = "break" \/ e \in dropped \/ e \in Shown(r)

\* What the running session writes reaches the chat although the tailer had
\* found the file of the session before, unless the session ends first.  Until
\* then the line stays one.
OwnLinesRelayed ==
    \A r \in Relays, i \in 1..MaxLines :
        LET e == <<relay[r].s, i>> IN
        []<>(relay[r].pc = "tail" /\ IsLine(e) =>
            \/ relay[r].cancelled \/ ~(Live /\ relay[r].s = count) \/ half \/ KindOf(e) = "break"
            \/ e \in Shown(r) \cup dropped)

\* The goroutine of a relay ends after its session, or when it is cancelled;
\* both are for good.
RelayEnds ==
    \A r \in Relays :
        []<>(made >= r /\ (relay[r].cancelled \/ ~(Live /\ relay[r].s = count)) => Over(r))

\* watch.go:63: the relay waits for the task file to reach its final state,
\* because the merge runs after the process exits.
MergedWasMerged == \A s \in Sessions : "merged" \in said[s] => sess[s].merge = "merged"

=============================================================================
