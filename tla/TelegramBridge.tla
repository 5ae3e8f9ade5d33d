--------------------------- MODULE TelegramBridge ---------------------------
(***************************************************************************)
(* The Telegram bridge: the long poll, pairing, the commands of a paired   *)
(* chat, conversation with a chat agent, and what a new bridge does to an  *)
(* old one.  One project; the agent manager appears as the one session     *)
(* that is running and what StartAgent answers.                            *)
(***************************************************************************)
EXTENDS Integers, Sequences, FiniteSets

CONSTANTS Chats,        \* Telegram chats
          MaxUpdates,   \* bound: messages the users send
          MaxRpcs,      \* bound: settings RPCs
          MaxBridges,   \* bound: bridges started by config saves and daemon restarts
          MaxCodes,     \* bound: pairing codes
          MaxSessions,  \* bound: agent sessions
          Scripts       \* the sequences of kinds of messages that users send

Kinds == {"pair", "text", "say", "start", "stop", "new", "use", "mute", "watch", "login", "query"}

ASSUME TelegramAssumption ==
    /\ Chats # {} /\ Scripts \subseteq Seq(Kinds)
    /\ {MaxUpdates, MaxRpcs, MaxBridges, MaxCodes, MaxSessions} \subseteq Nat
    /\ MaxBridges > 0


VARIABLES
    inbox,     \* the messages to the bot; an update's id is its place here
    sent,      \* how many of them have been sent
    acked,     \* Telegram has forgotten the updates up to this one
    br,        \* the bridges
    live,      \* the bridge the server uses; it is off when the server has none
    code,      \* the pairing code that can be redeemed, 0 when there is none
    issued,    \* pairing codes issued so far
    disk,      \* paired chats in integrations.yaml
    rpc,       \* the settings RPC under way
    sess,      \* the project's running session
    handled,   \* history: which bridge handled which update
    redeemed,  \* history: which bridge redeemed which code for which update
    saved,     \* history: chats that were on disk at some time
    typed,     \* history: messages typed into a session, in order
    told       \* history: messages whose sender was sent word that they were not delivered

vars == <<inbox, sent, acked, br, live, code, issued, disk, rpc, sess, handled, redeemed, saved, typed, told>>
env == <<inbox, sent, acked, live, issued, rpc, handled, redeemed>>

Bridges == 1..MaxBridges
Ids == 1..MaxUpdates
Record == [paired: BOOLEAN, selected: BOOLEAN, muted: BOOLEAN, watching: BOOLEAN]
Unpaired == [paired |-> FALSE, selected |-> FALSE, muted |-> FALSE, watching |-> FALSE]
NewlyPaired == [Unpaired EXCEPT !.paired = TRUE, !.watching = TRUE]
NoSession == [n |-> 0, mode |-> "none", painted |-> FALSE]
Off == [on |-> FALSE, cancelled |-> FALSE, pc |-> "poll", offset |-> 0, batch |-> <<>>, upd |-> 0,
        paired |-> [c \in Chats |-> Unpaired], snap |-> [c \in Chats |-> Unpaired], want |-> Unpaired,
        armed |-> {}, queued |-> <<>>, boot |-> FALSE, out |-> {}]
Quiet(n) == [pc |-> "idle", left |-> n, chat |-> CHOOSE c \in Chats : TRUE, snap |-> Off.snap]

Running == sess.mode # "none"
Msg(b) == inbox[br[b].upd]
Chat(b) == Msg(b).chat
At(b, pc) == br[b].on /\ br[b].pc = pc
Goto(b, pc) == br' = [br EXCEPT ![b].pc = pc]
Done(r) == [r EXCEPT !.pc = "poll", !.upd = 0, !.snap = Off.snap, !.want = Unpaired]
Finishes(b) == br' = [br EXCEPT ![b] = Done(@)]
Replies(b) == Finishes(b) /\ UNCHANGED <<env, code, disk, sess, saved, typed, told>>

NewBridge(chats) == [Off EXCEPT !.on = TRUE, !.paired = chats]

\* A bridge, or none: Telegram is off, has no token, or the file cannot be read.
Configured(chats) == {NewBridge(chats), Off}

\* Users follow one of the scripts; for a pairing they may guess.
Messages ==
    {m \in UNION {[1..Len(s) -> [chat : Chats, kind : Kinds, code : 0..MaxCodes]] : s \in Scripts} :
        /\ \E s \in Scripts : Len(s) = Len(m) /\ \A i \in 1..Len(s) : m[i].kind = s[i]
        /\ \A i \in 1..Len(m) : m[i].kind # "pair" => m[i].code = 0}

Init ==
    /\ inbox \in Messages
    /\ disk \in [Chats -> {Unpaired, [NewlyPaired EXCEPT !.selected = TRUE]}]
    /\ \E r \in Configured(disk) : br = [b \in Bridges |-> IF b = 1 THEN r ELSE Off]
    /\ live = 1 /\ sent = 0 /\ acked = 0 /\ code = 0 /\ issued = 0
    /\ rpc = Quiet(MaxRpcs)
    /\ sess = NoSession
    /\ handled = {} /\ redeemed = {} /\ saved = {c \in Chats : disk[c].paired} /\ typed = <<>> /\ told = {}

----------------------------------------------------------------------------
(* The users, and the pairing codes the daemon hands out.                  *)

Send ==
    /\ sent < Len(inbox) /\ sent' = sent + 1
    /\ UNCHANGED <<inbox, acked, br, live, code, issued, disk, rpc, sess, handled, redeemed, saved, typed, told>>

\* A new code takes the place of the one before.
BeginPairing ==
    /\ issued < MaxCodes /\ \E u \in DOMAIN inbox : inbox[u].kind = "pair"
    /\ issued' = issued + 1 /\ code' = issued + 1
    /\ UNCHANGED <<inbox, sent, acked, br, live, disk, rpc, sess, handled, redeemed, saved, typed, told>>

CodeExpires ==
    /\ code # 0 /\ code' = 0
    /\ UNCHANGED <<env, br, disk, sess, saved, typed, told>>

----------------------------------------------------------------------------
(* The long poll.  A request with an offset makes Telegram forget what is   *)
(* below it, whether or not the answer arrives.                            *)

Larger(x, y) == IF x > y THEN x ELSE y
Forgotten(b) == Larger(acked, br[b].offset - 1)
Fetched(b) == [i \in 1..(sent - Forgotten(b)) |-> Forgotten(b) + i]

\* Mutant: the fetched batch is acknowledged with the request that fetches it.
GetUpdatesEagerly(b) ==
    /\ At(b, "poll") /\ ~br[b].cancelled /\ br[b].batch = <<>>
    /\ acked' = sent
    /\ br' = [br EXCEPT ![b].batch = Fetched(b)]
    /\ UNCHANGED <<inbox, sent, live, code, issued, disk, rpc, sess, handled, redeemed, saved, typed, told>>

GetUpdates(b) ==
    /\ At(b, "poll") /\ ~br[b].cancelled /\ br[b].batch = <<>>
    /\ acked' = Forgotten(b)
    /\ br' = [br EXCEPT ![b].batch = Fetched(b)]
    /\ UNCHANGED <<inbox, sent, live, code, issued, disk, rpc, sess, handled, redeemed, saved, typed, told>>

\* Mutant: a failed poll ends Run, and the server keeps the bridge.
PollFailsForGood(b) ==
    /\ At(b, "poll") /\ ~br[b].cancelled /\ br[b].batch = <<>>
    /\ acked' = Forgotten(b)
    /\ Goto(b, "ended")
    /\ UNCHANGED <<inbox, sent, live, code, issued, disk, rpc, sess, handled, redeemed, saved, typed, told>>

\* The answer is lost: Run backs off and asks again.
PollFails(b) ==
    /\ At(b, "poll") /\ ~br[b].cancelled /\ br[b].batch = <<>>
    /\ acked' = Forgotten(b)
    /\ UNCHANGED <<inbox, sent, br, live, code, issued, disk, rpc, sess, handled, redeemed, saved, typed, told>>

\* Mutant: the offset is the update's own id.
HandleUpdateOffByOne(b) ==
    /\ At(b, "poll") /\ br[b].batch # <<>>
    /\ LET u == Head(br[b].batch)
           known == inbox[u].kind = "pair" \/ br[b].paired[inbox[u].chat].paired IN
       /\ br' = [br EXCEPT ![b].batch = Tail(@), ![b].upd = u,
                           ![b].offset = Larger(@, u),
                           ![b].pc = IF known THEN inbox[u].kind ELSE "poll"]
       /\ handled' = handled \cup {<<b, u>>}
    /\ UNCHANGED <<inbox, sent, acked, live, code, issued, disk, rpc, sess, redeemed, saved, typed, told>>

\* The offset moves before the update is handled.  A chat that is not paired
\* can only pair.  The batch is worked off even when the bridge is cancelled.
HandleUpdate(b) ==
    /\ At(b, "poll") /\ br[b].batch # <<>>
    /\ LET u == Head(br[b].batch)
           known == inbox[u].kind = "pair" \/ br[b].paired[inbox[u].chat].paired IN
       /\ br' = [br EXCEPT ![b].batch = Tail(@), ![b].upd = u,
                           ![b].offset = Larger(@, u + 1),
                           ![b].pc = IF known THEN inbox[u].kind ELSE "poll"]
       /\ handled' = handled \cup {<<b, u>>}
    /\ UNCHANGED <<inbox, sent, acked, live, code, issued, disk, rpc, sess, redeemed, saved, typed, told>>

RunReturns(b) ==
    /\ At(b, "poll") /\ br[b].cancelled /\ br[b].batch = <<>>
    /\ br' = [br EXCEPT ![b] = IF ~@.boot /\ @.out = {} THEN [Off EXCEPT !.cancelled = TRUE] ELSE [@ EXCEPT !.on = FALSE]]
    /\ UNCHANGED <<env, code, disk, sess, saved, typed, told>>

----------------------------------------------------------------------------
(* Pairing, and the settings that are kept per chat: load the file, change  *)
(* it, save it, then do the same to the bridge's own list.                  *)

\* Mutant: a redeemed code stays good.
ConsumeAndKeep(b) == code # 0 /\ Msg(b).code = code /\ UNCHANGED code

Consume(b) == code # 0 /\ Msg(b).code = code /\ code' = 0
Refused(b) == ~(code # 0 /\ Msg(b).code = code) /\ UNCHANGED code

HandlePairing(b) ==
    /\ At(b, "pair")
    /\ \/ /\ Consume(b)
          /\ redeemed' = redeemed \cup {<<Msg(b).code, b, br[b].upd>>}
          /\ br' = [br EXCEPT ![b].pc = "load",
                              ![b].want = IF br[b].paired[Chat(b)].paired THEN br[b].paired[Chat(b)] ELSE NewlyPaired]
       \/ Refused(b) /\ Finishes(b) /\ UNCHANGED redeemed
    /\ UNCHANGED <<inbox, sent, acked, live, issued, disk, rpc, sess, handled, saved, typed, told>>

\* /use (and the button for it), /mute and /watch: the user's argument.
Wants(b, r) == br' = [br EXCEPT ![b].pc = "load", ![b].want = r]
CmdUse(b) == At(b, "use") /\ Wants(b, [Unpaired EXCEPT !.selected = TRUE])
CmdMute(b) == \E on \in BOOLEAN : At(b, "mute") /\ Wants(b, [Unpaired EXCEPT !.muted = on])
CmdWatch(b) == \E on \in BOOLEAN : At(b, "watch") /\ Wants(b, [Unpaired EXCEPT !.watching = on])
Setting(b) == (CmdUse(b) \/ CmdMute(b) \/ CmdWatch(b)) /\ UNCHANGED <<env, code, disk, sess, saved, typed, told>>

Load(b) ==
    /\ At(b, "load")
    /\ br' = [br EXCEPT ![b].pc = "save", ![b].snap = disk]
    /\ UNCHANGED <<env, code, disk, sess, saved, typed, told>>

\* What a handler does to the record of its chat; pairing keeps the choices of
\* a chat that was paired before.
Changed(b, r) ==
    CASE Msg(b).kind = "pair"  -> IF r.paired THEN r ELSE NewlyPaired
      [] Msg(b).kind = "use"   -> [r EXCEPT !.selected = br[b].want.selected]
      [] Msg(b).kind = "mute"  -> [r EXCEPT !.muted = br[b].want.muted]
      [] Msg(b).kind = "watch" -> [r EXCEPT !.watching = br[b].want.watching]

Save(b) ==
    /\ At(b, "save")
    /\ Msg(b).kind = "pair" \/ br[b].snap[Chat(b)].paired
    /\ disk' = [br[b].snap EXCEPT ![Chat(b)] = Changed(b, @)]
    /\ saved' = saved \cup {Chat(b)}
    /\ Goto(b, "mirror")
    /\ UNCHANGED <<env, code, sess, typed, told>>

\* Mutant: the chat is admitted although it could not be saved.
SaveFailsOpen(b) == At(b, "save") /\ Goto(b, "mirror") /\ UNCHANGED <<env, code, disk, sess, saved, typed, told>>

\* The file cannot be written, or the chat is no longer in it: nothing is
\* changed, and a redeemed code stays redeemed.
SaveFails(b) == At(b, "save") /\ Replies(b)

Mirror(b) ==
    /\ At(b, "mirror")
    /\ br' = [br EXCEPT ![b] = [Done(br[b]) EXCEPT !.paired[Chat(b)] =
                                   IF Msg(b).kind = "pair" THEN br[b].want
                                   ELSE IF @.paired THEN Changed(b, @) ELSE @]]
    /\ UNCHANGED <<env, code, disk, sess, saved, typed, told>>

----------------------------------------------------------------------------
(* Commands that start and stop agents.  Every start but a chat replaces    *)
(* what runs; a chat start is refused while a working agent runs.           *)

Selected(b) == br[b].paired[Chat(b)].selected
Launched(m) == sess' = [n |-> sess.n + 1, mode |-> m, painted |-> FALSE]
Ended == sess' = [sess EXCEPT !.mode = "none", !.painted = FALSE]
Acts(b) == Finishes(b) /\ UNCHANGED <<env, code, disk, saved, typed, told>>

StartAgent(m) ==
    /\ sess.n < MaxSessions
    /\ m = "chat" => sess.mode \in {"none", "chat"}
    /\ Launched(m)

Starts(b, m) == Selected(b) /\ StartAgent(m) /\ Acts(b)
CmdRun(b) == At(b, "start") /\ Starts(b, "work")
CmdRunAll(b) == At(b, "start") /\ Starts(b, "work")
CmdSimpleMode(b) == At(b, "start") /\ Starts(b, "work")
CmdWildfire(b) ==
    \/ At(b, "start") /\ sess.mode # "wildfire" /\ Starts(b, "wildfire")
    \/ At(b, "stop") /\ Selected(b) /\ sess.mode = "wildfire" /\ Ended /\ Acts(b)
CmdNew(b) == At(b, "new") /\ Starts(b, "chat")
CmdStop(b) == At(b, "stop") /\ Selected(b) /\ Running /\ Ended /\ Acts(b)

\* No project selected, nothing to stop, a refusal, an error: a reply only.
\* /status, /tasks, /projects, /screen, /agent, /help never do more here.
ReplyOnly(b) == (\E k \in {"start", "stop", "new", "query"} : At(b, k)) /\ Replies(b)

----------------------------------------------------------------------------
(* Typing into the session: the text and, after a beat, Enter.              *)

Types(m) == typed' = Append(typed, m)

\* The sender is sent word: a reply that fails is logged and not repeated.
Undelivered(ms) == told' = told \cup ms

CmdSay(b) ==
    /\ At(b, "say")
    /\ IF Selected(b) /\ Running THEN Goto(b, "type") ELSE Finishes(b)
    /\ UNCHANGED <<env, code, disk, sess, saved, typed, told>>

\* injectSay by the bridge's own goroutine.
TypeText(b) ==
    /\ At(b, "type")
    /\ \/ Running /\ Types(br[b].upd) /\ Goto(b, "enter") /\ UNCHANGED told
       \/ ~Running /\ Undelivered({br[b].upd}) /\ Finishes(b) /\ UNCHANGED typed
    /\ UNCHANGED <<env, code, disk, sess, saved>>

TypeEnter(b) ==
    /\ At(b, "enter")
    /\ Finishes(b)
    /\ told' = IF Running THEN told ELSE told \cup {br[b].upd}
    /\ UNCHANGED <<env, code, disk, sess, saved, typed>>

\* The message waits for the chat agent; the first of those that wait starts it.
Queues(r) ==
    IF r.queued = <<>> THEN [r EXCEPT !.queued = <<r.upd>>, !.pc = "startchat"]
    ELSE [Done(r) EXCEPT !.queued = Append(@, r.upd)]

\* Plain text: the code of a login under way, else words for a live chat; a
\* working agent is left alone; with nothing running a chat is started.
HandlePlainText(b) ==
    /\ At(b, "text")
    /\ \/ /\ Chat(b) \in br[b].armed
          /\ br' = [br EXCEPT ![b].armed = @ \ {Chat(b)}, ![b].pc = "type"]
       \/ /\ Chat(b) \notin br[b].armed
          /\ \/ sess.mode = "chat" /\ Goto(b, "type")
             \/ sess.mode \notin {"none", "chat"} /\ Finishes(b)
             \/ ~Running /\ ~Selected(b) /\ Finishes(b)
             \/ /\ ~Running /\ Selected(b)
                /\ br' = [br EXCEPT ![b] = Queues(@)]
    /\ UNCHANGED <<env, code, disk, sess, saved, typed, told>>

QueuedIds(b) == {br[b].queued[i] : i \in DOMAIN br[b].queued}

\* StartChat refuses while anything runs.
QueueChatStart(b) ==
    /\ At(b, "startchat")
    /\ \/ /\ ~Running /\ StartAgent("chat")
          /\ br' = [br EXCEPT ![b] = [Done(@) EXCEPT !.boot = TRUE]]
          /\ UNCHANGED told
       \/ /\ br' = [br EXCEPT ![b] = [Done(@) EXCEPT !.queued = <<>>]]
          /\ Undelivered(QueuedIds(b))
          /\ UNCHANGED sess
    /\ UNCHANGED <<env, code, disk, saved, typed>>

\* deliverWhenReady, a goroutine beside the loop: it takes what is queued when
\* the chat's screen shows something, or gives up.
ChatReady(b) ==
    /\ br[b].boot /\ sess.mode = "chat" /\ sess.painted
    /\ br' = [br EXCEPT ![b].boot = FALSE, ![b].out = @ \cup {br[b].queued}, ![b].queued = <<>>]
    /\ UNCHANGED <<env, code, disk, sess, saved, typed, told>>

\* Mutant: the wait is given up without a word.
ChatNotReadySilent(b) ==
    /\ br[b].boot
    /\ br' = [br EXCEPT ![b].boot = FALSE, ![b].queued = <<>>]
    /\ UNCHANGED <<env, code, disk, sess, saved, typed, told>>

ChatNotReady(b) ==
    /\ br[b].boot
    /\ br' = [br EXCEPT ![b].boot = FALSE, ![b].queued = <<>>]
    /\ told' = IF br[b].cancelled THEN told ELSE told \cup QueuedIds(b)
    /\ UNCHANGED <<env, code, disk, sess, saved, typed>>

DeliverNext(b) ==
    /\ \E ms \in br[b].out :
          \/ /\ Running /\ Types(Head(ms))
             /\ br' = [br EXCEPT ![b].out = (@ \ {ms}) \cup ({Tail(ms)} \ {<<>>})]
             /\ UNCHANGED told
          \/ /\ ~Running /\ Undelivered({ms[i] : i \in DOMAIN ms})
             /\ br' = [br EXCEPT ![b].out = @ \ {ms}]
             /\ UNCHANGED typed
    /\ UNCHANGED <<env, code, disk, sess, saved>>

\* /login types into the session, waits for the link and arms the chat: its
\* next text is the code.
CmdLogin(b) ==
    /\ At(b, "login")
    /\ \/ Selected(b) /\ Running /\ br' = [br EXCEPT ![b] = [Done(br[b]) EXCEPT !.armed = @ \cup {Chat(b)}]]
       \/ Finishes(b)
    /\ UNCHANGED <<env, code, disk, sess, saved, typed, told>>

----------------------------------------------------------------------------
(* The rest of the daemon.                                                  *)

Paints == sess.mode = "chat" /\ sess' = [sess EXCEPT !.painted = TRUE]
SessionEnds == Running /\ Ended
OtherStarts == \E m \in {"chat", "work"} : StartAgent(m)
Session ==
    /\ Paints \/ SessionEnds \/ OtherStarts
    /\ UNCHANGED <<env, br, code, disk, saved, typed, told>>

\* A settings RPC loads the file, saves it, and then turns to the bridge.
RpcLoads(k, c) ==
    /\ rpc.pc = "idle" /\ rpc.left > 0 /\ (k = "save" => live < MaxBridges) /\ (k = "revoke" => disk[c].paired)
    /\ rpc' = [pc |-> k, left |-> rpc.left - 1, chat |-> c, snap |-> disk]
    /\ UNCHANGED <<inbox, sent, acked, br, live, code, issued, disk, sess, handled, redeemed, saved, typed, told>>

Stored(pc) ==
    /\ rpc' = [rpc EXCEPT !.pc = pc, !.snap = Off.snap]
    /\ UNCHANGED <<inbox, sent, acked, br, live, code, issued, sess, handled, redeemed, saved, typed, told>>

RevokeTelegramChat == rpc.pc = "revoke" /\ disk' = [rpc.snap EXCEPT ![rpc.chat] = Unpaired] /\ Stored("drop")
SaveIntegration == rpc.pc = "save" /\ disk' = rpc.snap /\ Stored("restart")

\* The file cannot be written: the call fails, and the bridge is left alone.
RpcFails == rpc.pc \in {"revoke", "save"} /\ UNCHANGED disk /\ Stored("idle")

\* The bridge the server has by then; one that is off knows nobody.
BridgeRevoke ==
    /\ rpc.pc = "drop"
    /\ br' = [br EXCEPT ![live].paired[rpc.chat] = Unpaired]
    /\ rpc' = Quiet(rpc.left)
    /\ UNCHANGED <<inbox, sent, acked, live, code, issued, disk, sess, handled, redeemed, saved, typed, told>>

\* The bridge is cancelled and not waited for; the file is read again, and the
\* bridge made of it, if one is, polls from offset zero.
RestartTelegramBridge ==
    /\ rpc.pc = "restart"
    /\ \E r \in Configured(disk) : br' = [br EXCEPT ![live].cancelled = TRUE, ![live + 1] = r]
    /\ live' = live + 1
    /\ rpc' = Quiet(rpc.left)
    /\ UNCHANGED <<inbox, sent, acked, code, issued, disk, sess, handled, redeemed, saved, typed, told>>

\* The daemon dies and comes back: only the file and Telegram remember.
DaemonRestarts ==
    /\ live < MaxBridges
    /\ \E r \in Configured(disk) :
          br' = [b \in Bridges |-> IF b = live + 1 THEN r
                                   ELSE IF b <= live THEN [Off EXCEPT !.cancelled = TRUE] ELSE Off]
    /\ live' = live + 1 /\ code' = 0 /\ Ended
    /\ rpc' = Quiet(rpc.left)
    /\ UNCHANGED <<inbox, sent, acked, issued, disk, handled, redeemed, saved, typed, told>>

Settling == RevokeTelegramChat \/ SaveIntegration \/ RpcFails \/ BridgeRevoke \/ RestartTelegramBridge

Polling(b) == GetUpdates(b) \/ HandleUpdate(b) \/ RunReturns(b)
Commands(b) ==
    \/ HandlePairing(b) \/ Setting(b) \/ Load(b) \/ Save(b) \/ SaveFails(b) \/ Mirror(b)
    \/ CmdRun(b) \/ CmdRunAll(b) \/ CmdSimpleMode(b) \/ CmdWildfire(b) \/ CmdNew(b) \/ CmdStop(b)
    \/ ReplyOnly(b) \/ CmdSay(b) \/ TypeText(b) \/ TypeEnter(b)
    \/ HandlePlainText(b) \/ QueueChatStart(b) \/ CmdLogin(b)
Delivering(b) == ChatReady(b) \/ ChatNotReady(b) \/ DeliverNext(b)

Next ==
    \/ Send
    \/ BeginPairing \/ CodeExpires \/ Session
    \/ \E b \in Bridges : Polling(b) \/ PollFails(b) \/ Commands(b) \/ Delivering(b)
    \/ \E k \in {"revoke", "save"}, c \in Chats : RpcLoads(k, c)
    \/ Settling \/ DaemonRestarts

Spec == Init /\ [][Next]_vars

(* The bridge's goroutines run, and a poll is answered in the end.           *)
FairSpec ==
    /\ Spec
    /\ \A b \in Bridges : WF_vars(Polling(b) \/ Commands(b)) /\ WF_vars(Delivering(b))

----------------------------------------------------------------------------
(* Properties.                                                              *)

\* Types, and the bounds of the instance.
TypeOK ==
    /\ inbox \in Seq([chat : Chats, kind : Kinds, code : 0..MaxCodes]) /\ acked \in 0..MaxUpdates
    /\ live \in Bridges /\ code \in 0..issued /\ issued \in 0..MaxCodes
    /\ disk \in [Chats -> Record]
    /\ sess.n \in 0..MaxSessions /\ sess.mode \in {"none", "chat", "work", "wildfire"}
    /\ \A b \in Bridges : /\ br[b].offset \in 0..(MaxUpdates + 1) /\ br[b].upd \in 0..MaxUpdates
                          /\ br[b].paired \in [Chats -> Record] /\ br[b].armed \subseteq Chats
    /\ handled \subseteq Bridges \X Ids /\ told \subseteq Ids /\ saved \subseteq Chats

\* A bridge never handles an update a second time, however often its polls
\* fail and updates are sent again (Run: the offset moves before the handler).
HandledOnce == [][\A b \in Bridges : br'[b].upd \notin {0, br[b].upd} => <<b, br'[b].upd>> \notin handled]_vars

\* What Telegram forgets has been handled by some bridge: a lost answer, a
\* cancelled bridge or a daemon restart in the middle of a batch loses nothing.
NothingForgotten == \A u \in 1..acked : \E b \in Bridges : <<b, u>> \in handled

\* A pairing code is redeemed once, although an old bridge and its successor
\* work through the same updates (Pairing belongs to the server).
CodeRedeemedOnce == \A x, y \in redeemed : x[1] = y[1] => x = y

\* A chat a bridge talks to has been saved: a pairing whose save failed leaves
\* nothing behind but the spent code.
AdmittedWasSaved == \A b \in Bridges, c \in Chats : br[b].paired[c].paired => c \in saved

\* Every message reaches a handler, through lost polls, replaced bridges and
\* daemon restarts, unless from some time on the server has no bridge.
EveryUpdateHandled ==
    []<>br[live].on => \A u \in Ids : sent >= u ~> \E b \in Bridges : <<b, u>> \in handled

\* A message queued for a chat agent that is starting is typed, or its sender
\* sent word that it was not, unless the bridge was replaced meanwhile.
QueuedTextSettled ==
    \A u \in Ids :
        (\E b \in Bridges : u \in QueuedIds(b)) ~>
            \/ u \in told \/ (\E i \in DOMAIN typed : typed[i] = u)
            \/ \E b \in Bridges : <<b, u>> \in handled /\ br[b].cancelled

\* runcontrol.go:496: messages that come while the chat agent boots just queue,
\* and deliverWhenReady injects them in order.
TextsInOrder ==
    \A i, j \in DOMAIN typed :
        i < j /\ inbox[typed[i]].chat = inbox[typed[j]].chat => typed[i] <= typed[j]

=============================================================================
