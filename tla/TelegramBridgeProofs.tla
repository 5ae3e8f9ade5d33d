------------------------- MODULE TelegramBridgeProofs -------------------------
(***************************************************************************)
(* What the bridges of the daemon promise together, for any number of      *)
(* chats, messages, bridges, pairing codes and calls.                      *)
(***************************************************************************)
EXTENDS TelegramBridge, TLAPS

Message  == [chat : Chats, kind : Kinds, code : 0..MaxCodes]
Settings == {"pair", "use", "mute", "watch"}
Between  == {"load", "save", "mirror"}
Pcs      == {"poll", "type", "enter", "startchat"} \cup Between \cup Kinds
Records  == [Chats -> Record]
Bridge   == [on : BOOLEAN, cancelled : BOOLEAN, pc : Pcs, offset : Nat, batch : Seq(Nat), upd : Nat,
             paired : Records, snap : Records, want : Record, armed : SUBSET Chats,
             queued : Seq(Nat), boot : BOOLEAN, out : SUBSET (Seq(Nat) \ {<<>>})]
Rpc      == [pc : {"idle", "revoke", "drop", "save", "restart"}, left : Nat, chat : Chats, snap : Records]

(* Who waits for a chat agent has something to tell it, and only one waits. *)
Waits(r) ==
  /\ r.boot => r.queued # <<>>
  /\ r.pc = "startchat" => r.queued # <<>> /\ ~r.boot

(* A bridge at work has a message in hand, of the kind its pc says, and     *)
(* has been given messages that were sent.                                  *)
InHand(r) ==
  /\ \A i \in DOMAIN r.batch : r.batch[i] \in 1..sent
  /\ r.pc # "poll" => r.upd \in 1..sent
  /\ r.pc \in Kinds => inbox[r.upd].kind = r.pc
  /\ r.pc \in Between => inbox[r.upd].kind \in Settings

BridgesTyped == br \in [Bridges -> Bridge] /\ \A b \in Bridges : Waits(br[b]) /\ InHand(br[b])

Typed ==
  /\ inbox \in Seq(Message) /\ sent \in 0..Len(inbox) /\ acked \in Nat
  /\ BridgesTyped
  /\ live \in Bridges /\ disk \in Records
  /\ code \in Nat /\ issued \in Nat
  /\ rpc \in Rpc /\ (rpc.pc \in {"save", "restart"} => live < MaxBridges)

(* The updates up to n have been handled, each by some bridge. *)
HandledTo(n) == \A u \in 1..n : \E b \in Bridges : <<b, u>> \in handled

(* A batch begins where the handled updates end, or earlier, and has no    *)
(* gaps; a bridge that runs has handled nothing from its offset on, and     *)
(* one that is still to come has handled nothing at all.                    *)
Batched(r) ==
  /\ HandledTo(r.offset - 1)
  /\ r.batch # <<>> => /\ r.batch[1] >= r.offset
                       /\ HandledTo(r.batch[1] - 1)
                       /\ \A i \in DOMAIN r.batch : r.batch[i] = r.batch[1] + i - 1
Behind(b, r) ==
  /\ r.on => b <= live
  /\ \A u \in Nat : <<b, u>> \in handled => b <= live /\ (r.on => u < r.offset)
Polls == \A b \in Bridges : Batched(br[b]) /\ Behind(b, br[b])
PollInv == Typed /\ handled \subseteq Bridges \X Nat /\ Polls /\ NothingForgotten

(* The code that is good has not been redeemed. *)
Spent == \A x \in redeemed : x[1] \in 1..issued /\ x[1] # code
CodeInv == code \in 0..issued /\ issued \in Nat /\ Spent /\ CodeRedeemedOnce

(* Whoever is paired anywhere has been on disk: in the file, in the copies  *)
(* of it that handlers and calls hold, and in the bridges' own lists.       *)
Known(chats) == \A c \in Chats : chats[c].paired => c \in saved
Vouched(r) ==
  /\ Known(r.paired) /\ Known(r.snap)
  /\ r.pc = "mirror" => inbox[r.upd].chat \in saved
AdmitInv == Typed /\ Known(disk) /\ Known(rpc.snap) /\ \A b \in Bridges : Vouched(br[b])

-----------------------------------------------------------------------------
(* What bridges look like.                                                  *)

LEMMA RecordTyped ==
  /\ Unpaired \in Record /\ NewlyPaired \in Record /\ ~Unpaired.paired
  /\ \A r \in Record : \A v \in BOOLEAN : /\ [r EXCEPT !.selected = v] \in Record
                                          /\ [r EXCEPT !.muted = v] \in Record
                                          /\ [r EXCEPT !.watching = v] \in Record
BY DEF Unpaired, NewlyPaired, Record

LEMMA OffTyped ==
  /\ Off \in Bridge /\ Waits(Off) /\ InHand(Off)
  /\ ~Off.on /\ Off.pc = "poll" /\ Off.offset = 0 /\ Off.batch = <<>> /\ Off.upd = 0
  /\ Off.paired = [c \in Chats |-> Unpaired] /\ Off.snap = [c \in Chats |-> Unpaired]
  /\ Off.snap \in Records
  /\ \A v \in BOOLEAN : LET r == [Off EXCEPT !.cancelled = v]
                        IN  /\ r \in Bridge /\ Waits(r) /\ InHand(r) /\ ~r.on /\ r.pc = "poll"
                            /\ r.offset = 0 /\ r.batch = <<>> /\ r.upd = 0
                            /\ r.paired = Off.paired /\ r.snap = Off.snap
<1>1. [c \in Chats |-> Unpaired] \in Records
  BY RecordTyped DEF Records
<1>2. /\ Off \in Bridge
      /\ ~Off.on /\ Off.pc = "poll" /\ Off.offset = 0 /\ Off.batch = <<>> /\ Off.upd = 0
      /\ Off.paired = [c \in Chats |-> Unpaired] /\ Off.snap = [c \in Chats |-> Unpaired]
      /\ ~Off.boot
  BY <1>1, RecordTyped DEF Off, Bridge, Pcs
<1>3. Waits(Off) /\ InHand(Off)
  BY <1>2 DEF Waits, InHand, Kinds, Between
<1>4. ASSUME NEW v \in BOOLEAN
      PROVE  LET r == [Off EXCEPT !.cancelled = v]
             IN  /\ r \in Bridge /\ Waits(r) /\ InHand(r) /\ ~r.on /\ r.pc = "poll"
                 /\ r.offset = 0 /\ r.batch = <<>> /\ r.upd = 0
                 /\ r.paired = Off.paired /\ r.snap = Off.snap
  <2> DEFINE r == [Off EXCEPT !.cancelled = v]
  <2>1. /\ r \in Bridge /\ ~r.on /\ r.pc = "poll" /\ r.offset = 0 /\ r.batch = <<>> /\ r.upd = 0
        /\ r.paired = Off.paired /\ r.snap = Off.snap /\ ~r.boot
    BY <1>2 DEF Bridge
  <2> HIDE DEF r
  <2>2. Waits(r) /\ InHand(r)
    BY <2>1 DEF Waits, InHand, Kinds, Between
  <2> QED BY <2>1, <2>2 DEF r
<1> QED BY <1>1, <1>2, <1>3, <1>4

LEMMA NewBridgeTyped ==
  ASSUME NEW chats \in Records
  PROVE  LET r == NewBridge(chats)
         IN  /\ r \in Bridge /\ Waits(r) /\ InHand(r) /\ r.pc = "poll"
             /\ r.offset = 0 /\ r.batch = <<>> /\ r.upd = 0
             /\ r.paired = chats /\ r.snap = Off.snap
<1> DEFINE r == NewBridge(chats)
<1>1. /\ r \in Bridge /\ r.pc = "poll" /\ r.offset = 0 /\ r.batch = <<>> /\ r.upd = 0
      /\ r.paired = chats /\ r.snap = Off.snap /\ ~r.boot
  <2>1. Off.boot = FALSE
    BY DEF Off
  <2> QED BY <2>1, OffTyped DEF NewBridge, Bridge
<1> HIDE DEF r
<1>2. Waits(r) /\ InHand(r)
  BY <1>1 DEF Waits, InHand, Kinds, Between
<1> QED BY <1>1, <1>2 DEF r

LEMMA ConfiguredTyped ==
  ASSUME NEW chats \in Records, NEW r \in Configured(chats)
  PROVE  /\ r \in Bridge /\ Waits(r) /\ InHand(r) /\ r.pc = "poll"
         /\ r.offset = 0 /\ r.batch = <<>> /\ r.upd = 0
         /\ r.paired \in {chats, Off.paired} /\ r.snap = Off.snap
BY OffTyped, NewBridgeTyped DEF Configured

LEMMA DoneTyped ==
  ASSUME NEW r \in Bridge
  PROVE  /\ Done(r) \in Bridge /\ Done(r).pc = "poll" /\ Done(r).upd = 0 /\ Done(r).snap = Off.snap
         /\ Done(r).on = r.on /\ Done(r).offset = r.offset /\ Done(r).batch = r.batch
         /\ Done(r).paired = r.paired /\ Done(r).boot = r.boot /\ Done(r).queued = r.queued
         /\ Done(r).out = r.out /\ Done(r).armed = r.armed
BY OffTyped, RecordTyped DEF Done, Bridge, Pcs

(* A bridge goes on with what it does: the updates it has and has had, and  *)
(* the chats it knows, stay as they are; it finishes with a message or      *)
(* takes the next step with it.                                             *)
Goes(b, r) ==
  /\ r \in Bridge /\ Waits(r)
  /\ r.on = br[b].on /\ r.offset = br[b].offset /\ r.batch = br[b].batch /\ r.paired = br[b].paired
  /\ r.snap \in {br[b].snap, Off.snap, disk}
  /\ \/ r.pc = "poll" /\ r.upd = 0
     \/ r.pc = br[b].pc /\ r.upd = br[b].upd
     \/ /\ br[b].pc # "poll" /\ r.upd = br[b].upd /\ r.pc \in Pcs \ Kinds
        /\ r.pc \in Between => Msg(b).kind \in Settings
        /\ r.pc = "mirror" => Chat(b) \in saved'
OwnStep(b) == \E r : Goes(b, r) /\ br' = [br EXCEPT ![b] = r]

LEMMA BridgeTyped ==
  ASSUME Typed, NEW b \in Bridges
  PROVE  br[b] \in Bridge /\ Waits(br[b]) /\ InHand(br[b]) /\ br \in [Bridges -> Bridge]
BY DEF Typed, BridgesTyped

LEMMA FinishesOwn ==
  ASSUME Typed, NEW b \in Bridges, Finishes(b)
  PROVE  OwnStep(b)
<1>1. Goes(b, Done(br[b]))
  BY BridgeTyped, DoneTyped DEF Goes, Waits
<1> QED BY <1>1 DEF Finishes, OwnStep

(* Another step with the message at hand. *)
LEMMA GotoOwn ==
  ASSUME Typed, NEW b \in Bridges, br[b].pc # "poll", NEW pc \in {"type", "enter"} \cup Between, Goto(b, pc),
         pc \in Between => Msg(b).kind \in Settings, pc = "mirror" => Chat(b) \in saved'
  PROVE  OwnStep(b)
<1> DEFINE r == [br[b] EXCEPT !.pc = pc]
<1>1. /\ r \in Bridge /\ r.pc = pc /\ r.on = br[b].on /\ r.offset = br[b].offset /\ r.batch = br[b].batch
      /\ r.paired = br[b].paired /\ r.snap = br[b].snap /\ r.upd = br[b].upd
      /\ r.boot = br[b].boot /\ r.queued = br[b].queued
  BY BridgeTyped DEF Bridge, Pcs, Between
<1>2. pc \in Pcs \ Kinds
  BY DEF Pcs, Kinds, Between
<1> HIDE DEF r
<1>3. Goes(b, r)
  BY <1>1, <1>2, BridgeTyped DEF Goes, Waits, Between
<1> QED BY <1>3 DEF Goto, OwnStep, r

-----------------------------------------------------------------------------
(* The commands: a step of a bridge with its own message.                   *)

LEMMA SettingOwn ==
  ASSUME Typed, NEW b \in Bridges, Setting(b)
  PROVE  OwnStep(b)
<1>1. PICK want \in Record : br[b].pc \in {"use", "mute", "watch"} /\ Wants(b, want)
  BY RecordTyped DEF Setting, CmdUse, CmdMute, CmdWatch, At
<1> DEFINE r == [br[b] EXCEPT !.pc = "load", !.want = want]
<1>2. /\ r \in Bridge /\ r.pc = "load" /\ r.on = br[b].on /\ r.offset = br[b].offset /\ r.batch = br[b].batch
      /\ r.paired = br[b].paired /\ r.snap = br[b].snap /\ r.upd = br[b].upd
      /\ r.boot = br[b].boot /\ r.queued = br[b].queued
  BY BridgeTyped DEF Bridge, Pcs, Between
<1>3. Msg(b).kind \in Settings
  BY <1>1, BridgeTyped DEF InHand, Msg, Kinds, Settings
<1>4. br' = [br EXCEPT ![b] = r]
  BY <1>1, BridgeTyped DEF Wants, Bridge
<1> HIDE DEF r
<1>5. "load" \in Pcs \ Kinds
  BY DEF Pcs, Kinds, Between
<1>6. Goes(b, r)
  BY <1>1, <1>2, <1>3, <1>5, BridgeTyped DEF Goes, Waits
<1> QED BY <1>4, <1>6 DEF OwnStep

LEMMA PairingOwn ==
  ASSUME Typed, NEW b \in Bridges, HandlePairing(b)
  PROVE  OwnStep(b)
<1>1. CASE Consume(b)
  <2> DEFINE want == IF br[b].paired[Chat(b)].paired THEN br[b].paired[Chat(b)] ELSE NewlyPaired
             r == [br[b] EXCEPT !.pc = "load", !.want = want]
  <2>1. br[b].pc = "pair" /\ Msg(b).kind \in Settings /\ Chat(b) \in Chats
    <3>1. br[b].pc = "pair" /\ br[b].upd \in 1..sent /\ Msg(b).kind = "pair"
      BY BridgeTyped DEF HandlePairing, At, InHand, Msg, Kinds
    <3>2. Msg(b) \in Message
      BY <3>1 DEF Msg, Typed
    <3> QED BY <3>1, <3>2 DEF Settings, Chat, Message
  <2>2. want \in Record
    BY <2>1, BridgeTyped, RecordTyped DEF Bridge, Records
  <2>3. br' = [br EXCEPT ![b] = r]
    BY <1>1, BridgeTyped DEF HandlePairing, Bridge, Consume, Refused
  <2> HIDE DEF want
  <2>4. /\ r \in Bridge /\ r.pc = "load" /\ r.on = br[b].on /\ r.offset = br[b].offset /\ r.batch = br[b].batch
        /\ r.paired = br[b].paired /\ r.snap = br[b].snap /\ r.upd = br[b].upd
        /\ r.boot = br[b].boot /\ r.queued = br[b].queued
    BY <2>2, BridgeTyped DEF Bridge, Pcs, Between
  <2> HIDE DEF r
  <2>5. "load" \in Pcs \ Kinds
    BY DEF Pcs, Kinds, Between
  <2>6. Goes(b, r)
    BY <2>1, <2>4, <2>5, BridgeTyped DEF Goes, Waits
  <2> QED BY <2>3, <2>6 DEF OwnStep
<1>2. CASE Refused(b)
  BY <1>2, FinishesOwn DEF HandlePairing, Consume, Refused
<1> QED BY <1>1, <1>2 DEF HandlePairing

LEMMA LoadOwn ==
  ASSUME Typed, NEW b \in Bridges, Load(b)
  PROVE  OwnStep(b)
<1> DEFINE r == [br[b] EXCEPT !.pc = "save", !.snap = disk]
<1>1. br[b].pc = "load" /\ Msg(b).kind \in Settings
  BY BridgeTyped DEF Load, At, InHand, Between, Msg
<1>2. br' = [br EXCEPT ![b] = r]
  BY BridgeTyped DEF Load, Bridge
<1>3. /\ r \in Bridge /\ r.pc = "save" /\ r.on = br[b].on /\ r.offset = br[b].offset /\ r.batch = br[b].batch
      /\ r.paired = br[b].paired /\ r.snap = disk /\ r.upd = br[b].upd
      /\ r.boot = br[b].boot /\ r.queued = br[b].queued
  BY BridgeTyped DEF Typed, Bridge, Pcs, Between
<1> HIDE DEF r
<1>4. "save" \in Pcs \ Kinds
  BY DEF Pcs, Kinds, Between
<1>5. Goes(b, r)
  BY <1>1, <1>3, <1>4, BridgeTyped DEF Goes, Waits
<1> QED BY <1>2, <1>5 DEF OwnStep

LEMMA SaveOwn ==
  ASSUME Typed, NEW b \in Bridges, Save(b)
  PROVE  OwnStep(b) /\ Chat(b) \in Chats /\ Changed(b, br[b].snap[Chat(b)]) \in Record
<1>1. /\ br[b].pc = "save" /\ Goto(b, "mirror") /\ Chat(b) \in saved'
      /\ Msg(b).kind \in Settings /\ br[b].upd \in 1..sent
  BY BridgeTyped DEF Save, At, InHand, Between, Msg
<1>2. OwnStep(b)
  BY <1>1, GotoOwn DEF Between
<1>3. Chat(b) \in Chats
  <2>1. Msg(b) \in Message
    BY <1>1 DEF Msg, Typed
  <2> QED BY <2>1 DEF Chat, Message
<1>4. br[b].snap[Chat(b)] \in Record /\ br[b].want \in Record
  BY <1>3, BridgeTyped DEF Bridge, Records
<1>5. Changed(b, br[b].snap[Chat(b)]) \in Record
  BY <1>1, <1>4, RecordTyped DEF Changed, Settings, Record
<1> QED BY <1>2, <1>3, <1>5

LEMMA PlainTextOwn ==
  ASSUME Typed, NEW b \in Bridges, HandlePlainText(b)
  PROVE  OwnStep(b)
<1>0. /\ br[b].pc = "text" /\ br \in [Bridges -> Bridge] /\ br[b] \in Bridge
      /\ Waits(br[b]) /\ br[b].upd \in Nat
  BY BridgeTyped DEF HandlePlainText, At, Bridge
<1>1. CASE Goto(b, "type") \/ Finishes(b)
  BY <1>0, <1>1, GotoOwn, FinishesOwn DEF Between
<1>2. CASE br' = [br EXCEPT ![b].armed = @ \ {Chat(b)}, ![b].pc = "type"]
  <2> DEFINE r == [br[b] EXCEPT !.armed = @ \ {Chat(b)}, !.pc = "type"]
  <2>1. br' = [br EXCEPT ![b] = r]
    BY <1>0, <1>2 DEF Bridge
  <2>2. /\ r \in Bridge /\ r.pc = "type" /\ r.on = br[b].on /\ r.offset = br[b].offset /\ r.batch = br[b].batch
        /\ r.paired = br[b].paired /\ r.snap = br[b].snap /\ r.upd = br[b].upd
        /\ r.boot = br[b].boot /\ r.queued = br[b].queued
    BY <1>0 DEF Bridge, Pcs
  <2> HIDE DEF r
  <2>3. "type" \in Pcs \ Kinds
    BY DEF Pcs, Kinds
  <2>4. Goes(b, r)
    BY <1>0, <2>2, <2>3 DEF Goes, Waits, Between
  <2> QED BY <2>1, <2>4 DEF OwnStep
<1>3. CASE br' = [br EXCEPT ![b] = Queues(br[b])]
  <2> DEFINE r == Queues(br[b])
  <2>1. CASE br[b].queued = <<>>
    <3>1. r = [br[b] EXCEPT !.queued = <<br[b].upd>>, !.pc = "startchat"]
      BY <2>1 DEF Queues
    <3>2. /\ r \in Bridge /\ r.pc = "startchat" /\ r.on = br[b].on /\ r.offset = br[b].offset
          /\ r.batch = br[b].batch /\ r.paired = br[b].paired /\ r.snap = br[b].snap /\ r.upd = br[b].upd
          /\ r.boot = br[b].boot /\ r.queued = <<br[b].upd>>
      <4>1. <<br[b].upd>> \in Seq(Nat) /\ "startchat" \in Pcs
        BY <1>0 DEF Pcs
      <4> HIDE DEF r
      <4> QED BY <1>0, <3>1, <4>1 DEF Bridge
    <3> HIDE DEF r
    <3>3. "startchat" \in Pcs \ Kinds
      BY DEF Pcs, Kinds
    <3>4. <<br[b].upd>> # <<>>
      OBVIOUS
    <3>5. Goes(b, r)
      BY <1>0, <2>1, <3>2, <3>3, <3>4 DEF Goes, Waits, Between
    <3> QED BY <1>3, <3>5 DEF OwnStep, r
  <2>2. CASE br[b].queued # <<>>
    <3> DEFINE d == Done(br[b])
               q == Append(br[b].queued, br[b].upd)
    <3>1. q \in Seq(Nat) /\ q # <<>>
      BY <1>0 DEF Bridge
    <3>2. /\ d \in Bridge /\ d.pc = "poll" /\ d.on = br[b].on /\ d.offset = br[b].offset
          /\ d.batch = br[b].batch /\ d.paired = br[b].paired /\ d.snap = Off.snap /\ d.upd = 0
          /\ d.queued = br[b].queued
      BY <1>0, DoneTyped
    <3>3. r = [d EXCEPT !.queued = q]
      BY <2>2, <3>2 DEF Queues
    <3> HIDE DEF d, q, r
    <3>4. /\ r \in Bridge /\ r.pc = "poll" /\ r.on = br[b].on /\ r.offset = br[b].offset
          /\ r.batch = br[b].batch /\ r.paired = br[b].paired /\ r.snap = Off.snap /\ r.upd = 0
          /\ r.queued = q
      BY <3>1, <3>2, <3>3 DEF Bridge
    <3>5. Goes(b, r)
      BY <3>1, <3>4 DEF Goes, Waits
    <3> QED BY <1>3, <3>5 DEF OwnStep, r
  <2> QED BY <2>1, <2>2
<1> QED BY <1>1, <1>2, <1>3 DEF HandlePlainText

LEMMA ChatStartOwn ==
  ASSUME Typed, NEW b \in Bridges, QueueChatStart(b)
  PROVE  OwnStep(b)
<1> DEFINE d == Done(br[b])
<1>1. /\ d \in Bridge /\ d.pc = "poll" /\ d.upd = 0 /\ d.snap = Off.snap
      /\ d.on = br[b].on /\ d.offset = br[b].offset /\ d.batch = br[b].batch
      /\ d.paired = br[b].paired /\ d.boot = br[b].boot /\ d.queued = br[b].queued
  BY BridgeTyped, DoneTyped
<1>2. br[b].queued # <<>> /\ ~br[b].boot
  BY BridgeTyped DEF QueueChatStart, At, Waits
<1>3. PICK r : /\ br' = [br EXCEPT ![b] = r]
               /\ r = [d EXCEPT !.boot = TRUE] \/ r = [d EXCEPT !.queued = <<>>]
  BY DEF QueueChatStart
<1> HIDE DEF d
<1>4. Goes(b, r)
  <2>1. CASE r = [d EXCEPT !.boot = TRUE]
    <3>1. /\ r \in Bridge /\ r.pc = "poll" /\ r.upd = 0 /\ r.snap = Off.snap
          /\ r.on = br[b].on /\ r.offset = br[b].offset /\ r.batch = br[b].batch
          /\ r.paired = br[b].paired /\ r.queued = br[b].queued
      BY <1>1, <2>1 DEF Bridge
    <3> QED BY <1>2, <3>1 DEF Goes, Waits
  <2>2. CASE r = [d EXCEPT !.queued = <<>>]
    <3>1. /\ r \in Bridge /\ r.pc = "poll" /\ r.upd = 0 /\ r.snap = Off.snap
          /\ r.on = br[b].on /\ r.offset = br[b].offset /\ r.batch = br[b].batch
          /\ r.paired = br[b].paired /\ r.boot = br[b].boot
      <4>1. <<>> \in Seq(Nat)
        OBVIOUS
      <4> QED BY <1>1, <2>2, <4>1 DEF Bridge
    <3> QED BY <1>2, <3>1 DEF Goes, Waits
  <2> QED BY <1>3, <2>1, <2>2
<1> QED BY <1>3, <1>4 DEF OwnStep

(* The goroutine beside the loop leaves the message at hand alone. *)
LEMMA DeliveringOwn ==
  ASSUME Typed, NEW b \in Bridges, Delivering(b)
  PROVE  OwnStep(b)
<1>0. br[b] \in Bridge /\ Waits(br[b])
  BY BridgeTyped
<1>1. CASE ChatReady(b) \/ ChatNotReady(b)
  <2>1. br[b].boot /\ br[b].queued # <<>> /\ br[b].pc # "startchat"
    BY <1>0, <1>1 DEF ChatReady, ChatNotReady, Waits
  <2>2. PICK out \in SUBSET (Seq(Nat) \ {<<>>}) :
          br' = [br EXCEPT ![b].boot = FALSE, ![b].out = out, ![b].queued = <<>>]
    <3>1. CASE ChatReady(b)
      <4>1. br[b].out \cup {br[b].queued} \in SUBSET (Seq(Nat) \ {<<>>})
        BY <1>0, <2>1 DEF Bridge
      <4>2. br' = [br EXCEPT ![b].boot = FALSE, ![b].out = br[b].out \cup {br[b].queued}, ![b].queued = <<>>]
        BY <3>1, BridgeTyped DEF ChatReady, Bridge
      <4> QED BY <4>1, <4>2
    <3>2. CASE ChatNotReady(b)
      <4>1. br[b].out \in SUBSET (Seq(Nat) \ {<<>>})
        BY <1>0 DEF Bridge
      <4>2. br' = [br EXCEPT ![b].boot = FALSE, ![b].out = br[b].out, ![b].queued = <<>>]
        BY <1>0, <3>2, BridgeTyped DEF ChatNotReady, Bridge
      <4> QED BY <4>1, <4>2
    <3> QED BY <1>1, <3>1, <3>2
  <2> DEFINE r == [br[b] EXCEPT !.boot = FALSE, !.out = out, !.queued = <<>>]
  <2>3. br' = [br EXCEPT ![b] = r]
    BY <2>2, BridgeTyped DEF Bridge
  <2>4. /\ r \in Bridge /\ r.pc = br[b].pc /\ r.upd = br[b].upd /\ r.snap = br[b].snap
        /\ r.on = br[b].on /\ r.offset = br[b].offset /\ r.batch = br[b].batch
        /\ r.paired = br[b].paired /\ ~r.boot
    <3>1. <<>> \in Seq(Nat)
      OBVIOUS
    <3> QED BY <1>0, <3>1 DEF Bridge
  <2> HIDE DEF r
  <2>5. Goes(b, r)
    BY <2>1, <2>4 DEF Goes, Waits
  <2> QED BY <2>3, <2>5 DEF OwnStep
<1>2. CASE DeliverNext(b)
  <2>1. PICK ms \in br[b].out : \/ br' = [br EXCEPT ![b].out = (@ \ {ms}) \cup ({Tail(ms)} \ {<<>>})]
                                \/ br' = [br EXCEPT ![b].out = @ \ {ms}]
    BY <1>2 DEF DeliverNext
  <2>2. Tail(ms) \in Seq(Nat)
    BY <1>0 DEF Bridge
  <2>3. PICK out \in SUBSET (Seq(Nat) \ {<<>>}) : br' = [br EXCEPT ![b].out = out]
    <3>1. (br[b].out \ {ms}) \cup ({Tail(ms)} \ {<<>>}) \in SUBSET (Seq(Nat) \ {<<>>})
      BY <1>0, <2>2 DEF Bridge
    <3>2. br[b].out \ {ms} \in SUBSET (Seq(Nat) \ {<<>>})
      BY <1>0 DEF Bridge
    <3> QED BY <2>1, <3>1, <3>2
  <2> DEFINE r == [br[b] EXCEPT !.out = out]
  <2>4. br' = [br EXCEPT ![b] = r]
    BY <2>3, BridgeTyped DEF Bridge
  <2>5. /\ r \in Bridge /\ r.pc = br[b].pc /\ r.upd = br[b].upd /\ r.snap = br[b].snap
        /\ r.on = br[b].on /\ r.offset = br[b].offset /\ r.batch = br[b].batch
        /\ r.paired = br[b].paired /\ r.boot = br[b].boot /\ r.queued = br[b].queued
    BY <1>0 DEF Bridge
  <2> HIDE DEF r
  <2>6. Goes(b, r)
    BY <1>0, <2>5 DEF Goes, Waits
  <2> QED BY <2>4, <2>6 DEF OwnStep
<1> QED BY <1>1, <1>2 DEF Delivering

LEMMA LoginOwn ==
  ASSUME Typed, NEW b \in Bridges, CmdLogin(b)
  PROVE  OwnStep(b)
<1>1. CASE Finishes(b)
  BY <1>1, FinishesOwn
<1>2. CASE br' = [br EXCEPT ![b] = [Done(br[b]) EXCEPT !.armed = @ \cup {Chat(b)}]]
  <2> DEFINE d == Done(br[b])
             r == [d EXCEPT !.armed = d.armed \cup {Chat(b)}]
  <2>1. br' = [br EXCEPT ![b] = r]
    BY <1>2
  <2>2. Chat(b) \in Chats
    <3>1. br[b].pc = "login" /\ br[b].upd \in 1..sent
      BY BridgeTyped DEF CmdLogin, At, InHand
    <3>2. Msg(b) \in Message
      BY <3>1 DEF Msg, Typed
    <3> QED BY <3>2 DEF Chat, Message
  <2>3. /\ d \in Bridge /\ d.pc = "poll" /\ d.upd = 0 /\ d.snap = Off.snap
        /\ d.on = br[b].on /\ d.offset = br[b].offset /\ d.batch = br[b].batch
        /\ d.paired = br[b].paired /\ d.boot = br[b].boot /\ d.queued = br[b].queued
    BY BridgeTyped, DoneTyped
  <2> HIDE DEF d
  <2>4. /\ r \in Bridge /\ r.pc = "poll" /\ r.upd = 0 /\ r.snap = Off.snap
        /\ r.on = br[b].on /\ r.offset = br[b].offset /\ r.batch = br[b].batch
        /\ r.paired = br[b].paired /\ r.boot = br[b].boot /\ r.queued = br[b].queued
    BY <2>2, <2>3 DEF Bridge
  <2> HIDE DEF r
  <2>5. Goes(b, r)
    BY <2>4, BridgeTyped DEF Goes, Waits
  <2> QED BY <2>1, <2>5 DEF OwnStep
<1> QED BY <1>1, <1>2 DEF CmdLogin

LEMMA CommandsOwn ==
  ASSUME Typed, NEW b \in Bridges, Commands(b) \/ Delivering(b)
  PROVE  OwnStep(b) \/ Mirror(b)
<1>1. CASE Setting(b) \/ HandlePairing(b) \/ Load(b) \/ Save(b)
  BY <1>1, SettingOwn, PairingOwn, LoadOwn, SaveOwn
<1>2. CASE HandlePlainText(b) \/ QueueChatStart(b) \/ CmdLogin(b) \/ Delivering(b)
  BY <1>2, PlainTextOwn, ChatStartOwn, LoginOwn, DeliveringOwn
<1>3. CASE SaveFails(b) \/ ReplyOnly(b)
  BY <1>3, FinishesOwn DEF SaveFails, ReplyOnly, Replies
<1>4. CASE CmdRun(b) \/ CmdRunAll(b) \/ CmdSimpleMode(b) \/ CmdWildfire(b) \/ CmdNew(b) \/ CmdStop(b)
  BY <1>4, FinishesOwn DEF CmdRun, CmdRunAll, CmdSimpleMode, CmdWildfire, CmdNew, CmdStop, Starts, Acts
<1>5. CASE CmdSay(b) \/ TypeText(b)
  <2>1. br[b].pc # "poll"
    BY <1>5 DEF CmdSay, TypeText, At
  <2> QED BY <1>5, <2>1, FinishesOwn, GotoOwn DEF CmdSay, TypeText, Between
<1>6. CASE TypeEnter(b)
  BY <1>6, FinishesOwn DEF TypeEnter
<1> QED BY <1>1, <1>2, <1>3, <1>4, <1>5, <1>6 DEF Commands

(* What the bridge and the file remember of a chat, brought in line. *)
LEMMA MirrorEffect ==
  ASSUME Typed, NEW b \in Bridges, Mirror(b)
  PROVE  \E r : /\ br' = [br EXCEPT ![b] = r]
                /\ r \in Bridge /\ Waits(r) /\ r.pc = "poll" /\ r.upd = 0 /\ r.snap = Off.snap
                /\ r.on = br[b].on /\ r.offset = br[b].offset /\ r.batch = br[b].batch
                /\ \A c \in Chats : r.paired[c].paired => br[b].paired[c].paired \/ c = Chat(b)
<1> DEFINE d == Done(br[b])
           c0 == Chat(b)
           e == IF Msg(b).kind = "pair" THEN br[b].want
                ELSE IF d.paired[c0].paired THEN Changed(b, d.paired[c0]) ELSE d.paired[c0]
           r == [d EXCEPT !.paired[c0] = e]
<1>1. /\ d \in Bridge /\ d.pc = "poll" /\ d.upd = 0 /\ d.snap = Off.snap
      /\ d.on = br[b].on /\ d.offset = br[b].offset /\ d.batch = br[b].batch
      /\ d.paired = br[b].paired /\ d.boot = br[b].boot /\ d.queued = br[b].queued
  BY BridgeTyped, DoneTyped
<1>2. /\ br[b].pc = "mirror" /\ br[b].upd \in 1..sent /\ Msg(b).kind \in Settings
  BY BridgeTyped DEF Mirror, At, InHand, Between, Msg
<1>3. c0 \in Chats
  <2>1. Msg(b) \in Message
    BY <1>2 DEF Msg, Typed
  <2> QED BY <2>1 DEF Chat, Message
<1>4. d.paired \in Records /\ d.paired[c0] \in Record /\ br[b].want \in Record
  <2>1. d.paired \in Records
    BY <1>1 DEF Bridge
  <2> QED BY <1>3, <2>1, BridgeTyped DEF Bridge, Records
<1>5. e \in Record
  <2>1. Changed(b, d.paired[c0]) \in Record
    <3> DEFINE p == d.paired[c0]
    <3> HIDE DEF d, c0
    <3>1. p \in Record /\ br[b].want \in Record
      BY <1>4
    <3> HIDE DEF p
    <3>2. br[b].want.selected \in BOOLEAN /\ br[b].want.muted \in BOOLEAN /\ br[b].want.watching \in BOOLEAN
      BY <3>1 DEF Record
    <3>3. Changed(b, p) \in Record
      BY <1>2, <3>1, <3>2, RecordTyped DEF Changed, Settings
    <3> QED BY <3>3 DEF p
  <2> QED BY <1>4, <2>1
<1>6. br' = [br EXCEPT ![b] = r]
  BY DEF Mirror
<1> HIDE DEF d, c0, e
<1>7. /\ r.pc = "poll" /\ r.upd = 0 /\ r.snap = Off.snap
      /\ r.on = br[b].on /\ r.offset = br[b].offset /\ r.batch = br[b].batch
      /\ r.boot = br[b].boot /\ r.queued = br[b].queued
      /\ r.paired = [d.paired EXCEPT ![c0] = e]
  BY <1>1 DEF Bridge
<1>8. [d.paired EXCEPT ![c0] = e] \in Records
  BY <1>4, <1>5 DEF Records
<1>9. r \in Bridge
  <2>1. r = [d EXCEPT !.paired = [d.paired EXCEPT ![c0] = e]]
    BY <1>1 DEF Bridge
  <2> QED BY <1>1, <1>8, <2>1 DEF Bridge
<1> HIDE DEF r
<1>10. Waits(r)
  BY <1>7, BridgeTyped DEF Waits
<1>11. \A c \in Chats : r.paired[c].paired => br[b].paired[c].paired \/ c = c0
  BY <1>1, <1>4, <1>7 DEF Records
<1> QED BY <1>6, <1>7, <1>9, <1>10, <1>11 DEF c0

-----------------------------------------------------------------------------
(* Types.                                                                   *)

LEMMA ForgottenTyped ==
  ASSUME Typed, NEW b \in Bridges
  PROVE  /\ Forgotten(b) \in Nat /\ Forgotten(b) >= acked /\ Forgotten(b) >= br[b].offset - 1
         /\ Forgotten(b) = acked \/ Forgotten(b) = br[b].offset - 1
         /\ Fetched(b) \in Seq(Nat)
         /\ \A i \in DOMAIN Fetched(b) : Fetched(b)[i] = Forgotten(b) + i /\ Fetched(b)[i] \in 1..sent
<1>1. acked \in Nat /\ br[b].offset \in Nat /\ sent \in Nat
  BY BridgeTyped DEF Typed, Bridge
<1>2. /\ Forgotten(b) \in Nat /\ Forgotten(b) >= acked /\ Forgotten(b) >= br[b].offset - 1
      /\ Forgotten(b) = acked \/ Forgotten(b) = br[b].offset - 1
  BY <1>1 DEF Forgotten, Larger
<1> DEFINE F == Forgotten(b)
           n == IF sent >= F THEN sent - F ELSE 0
           f == [i \in 1..(sent - F) |-> F + i]
<1> HIDE DEF F
<1>3. n \in Nat /\ f = [i \in 1..n |-> F + i]
  BY <1>1, <1>2 DEF F
<1>4. f \in Seq(Nat) /\ \A i \in DOMAIN f : f[i] = F + i /\ f[i] \in 1..sent
  BY <1>1, <1>2, <1>3 DEF F
<1> QED BY <1>2, <1>4 DEF F, Fetched

LEMMA GetUpdatesEffect ==
  ASSUME Typed, NEW b \in Bridges, GetUpdates(b)
  PROVE  \E r : /\ br' = [br EXCEPT ![b] = r]
                /\ r \in Bridge /\ Waits(r) /\ r.pc = "poll" /\ r.upd = br[b].upd /\ r.snap = br[b].snap
                /\ r.on = br[b].on /\ r.offset = br[b].offset /\ r.batch = Fetched(b)
                /\ r.paired = br[b].paired
<1> DEFINE r == [br[b] EXCEPT !.batch = Fetched(b)]
<1>1. br' = [br EXCEPT ![b] = r] /\ br[b].pc = "poll"
  BY BridgeTyped DEF GetUpdates, Bridge, At
<1>2. Fetched(b) \in Seq(Nat)
  BY ForgottenTyped
<1>3. /\ r \in Bridge /\ r.pc = br[b].pc /\ r.upd = br[b].upd /\ r.snap = br[b].snap
      /\ r.on = br[b].on /\ r.offset = br[b].offset /\ r.batch = Fetched(b)
      /\ r.paired = br[b].paired /\ r.boot = br[b].boot /\ r.queued = br[b].queued
  BY <1>2, BridgeTyped DEF Bridge
<1> HIDE DEF r
<1>4. Waits(r)
  BY <1>3, BridgeTyped DEF Waits
<1> QED BY <1>1, <1>3, <1>4

LEMMA HandleUpdateEffect ==
  ASSUME Typed, NEW b \in Bridges, HandleUpdate(b)
  PROVE  LET u == br[b].batch[1]
         IN  /\ br[b].on /\ br[b].batch # <<>> /\ u \in 1..sent
             /\ handled' = handled \cup {<<b, u>>}
             /\ \E r : /\ br' = [br EXCEPT ![b] = r]
                       /\ r \in Bridge /\ Waits(r) /\ r.upd = u /\ r.snap = br[b].snap
                       /\ r.pc = "poll" \/ (r.pc \in Kinds /\ r.pc = inbox[u].kind)
                       /\ r.on /\ r.offset = Larger(br[b].offset, u + 1) /\ r.batch = Tail(br[b].batch)
                       /\ r.paired = br[b].paired
<1> DEFINE u == br[b].batch[1]
           pc == IF inbox[u].kind = "pair" \/ br[b].paired[inbox[u].chat].paired THEN inbox[u].kind ELSE "poll"
           r == [br[b] EXCEPT !.batch = Tail(br[b].batch), !.upd = u, !.offset = Larger(br[b].offset, u + 1), !.pc = pc]
<1>1. br[b].on /\ br[b].pc = "poll" /\ br[b].batch # <<>> /\ br[b].batch \in Seq(Nat)
  BY BridgeTyped DEF HandleUpdate, At, Bridge
<1>2. u \in 1..sent /\ u \in Nat /\ Head(br[b].batch) = u /\ Tail(br[b].batch) \in Seq(Nat)
  <2>1. 1 \in DOMAIN br[b].batch /\ Head(br[b].batch) = u /\ Tail(br[b].batch) \in Seq(Nat)
    BY <1>1
  <2>2. u \in 1..sent
    BY <2>1, BridgeTyped DEF InHand
  <2> QED BY <1>1, <2>1, <2>2
<1>3. handled' = handled \cup {<<b, u>>}
  BY <1>2 DEF HandleUpdate
<1>4. br' = [br EXCEPT ![b] = r]
  BY <1>2, BridgeTyped DEF HandleUpdate, Bridge
<1>5. pc = "poll" \/ (pc \in Kinds /\ pc = inbox[u].kind)
  <2>1. inbox[u] \in Message
    BY <1>2 DEF Typed
  <2> QED BY <2>1 DEF Message
<1>6. Larger(br[b].offset, u + 1) \in Nat /\ pc \in Pcs
  <2>1. br[b].offset \in Nat
    BY BridgeTyped DEF Bridge
  <2> HIDE DEF u, pc
  <2> QED BY <1>2, <1>5, <2>1 DEF Larger, Pcs
<1> HIDE DEF u, pc
<1>7. /\ r \in Bridge /\ r.pc = pc /\ r.upd = u /\ r.snap = br[b].snap
      /\ r.on = br[b].on /\ r.offset = Larger(br[b].offset, u + 1) /\ r.batch = Tail(br[b].batch)
      /\ r.paired = br[b].paired /\ r.boot = br[b].boot /\ r.queued = br[b].queued
  BY <1>2, <1>6, BridgeTyped DEF Bridge
<1> HIDE DEF r
<1>8. Waits(r)
  BY <1>5, <1>7, BridgeTyped DEF Waits, Kinds
<1> QED BY <1>1, <1>2, <1>3, <1>4, <1>5, <1>7, <1>8 DEF u

LEMMA RunReturnsEffect ==
  ASSUME Typed, NEW b \in Bridges, RunReturns(b)
  PROVE  \E r : /\ br' = [br EXCEPT ![b] = r]
                /\ r \in Bridge /\ Waits(r) /\ r.pc = "poll" /\ ~r.on /\ r.batch = <<>>
                /\ r.upd \in {0, br[b].upd} /\ r.snap \in {Off.snap, br[b].snap}
                /\ r.offset \in {0, br[b].offset} /\ r.paired \in {Off.paired, br[b].paired}
<1>0. br[b].pc = "poll" /\ br[b].batch = <<>>
  BY DEF RunReturns, At
<1>1. CASE br' = [br EXCEPT ![b] = [Off EXCEPT !.cancelled = TRUE]]
  BY <1>1, OffTyped
<1>2. CASE br' = [br EXCEPT ![b] = [br[b] EXCEPT !.on = FALSE]]
  <2> DEFINE r == [br[b] EXCEPT !.on = FALSE]
  <2>1. /\ r \in Bridge /\ r.pc = "poll" /\ ~r.on /\ r.batch = <<>>
        /\ r.upd = br[b].upd /\ r.snap = br[b].snap /\ r.offset = br[b].offset
        /\ r.paired = br[b].paired /\ r.boot = br[b].boot /\ r.queued = br[b].queued
    BY <1>0, BridgeTyped DEF Bridge
  <2> HIDE DEF r
  <2>2. Waits(r)
    BY <2>1, BridgeTyped DEF Waits
  <2> QED BY <1>2, <2>1, <2>2 DEF r
<1> QED BY <1>1, <1>2 DEF RunReturns

(* One bridge moves: the others are as they were. *)
LEMMA OneBridge ==
  ASSUME Typed, NEW b \in Bridges, NEW r, br' = [br EXCEPT ![b] = r], r \in Bridge
  PROVE  /\ br' \in [Bridges -> Bridge] /\ br'[b] = r
         /\ \A c \in Bridges \ {b} : br'[c] = br[c]
BY DEF Typed, BridgesTyped

LEMMA OneBridgeTyped ==
  ASSUME Typed, NEW b \in Bridges, NEW r, br' = [br EXCEPT ![b] = r], r \in Bridge, Waits(r),
         UNCHANGED <<inbox, sent>>, InHand(r)
  PROVE  BridgesTyped'
<1>1. /\ br' \in [Bridges -> Bridge] /\ br'[b] = r
      /\ \A c \in Bridges \ {b} : br'[c] = br[c]
  BY OneBridge
<1> QED BY <1>1, BridgeTyped DEF BridgesTyped, InHand

LEMMA OwnTyped ==
  ASSUME Typed, NEW b \in Bridges, OwnStep(b), UNCHANGED <<inbox, sent>>
  PROVE  BridgesTyped'
<1>1. PICK r : Goes(b, r) /\ br' = [br EXCEPT ![b] = r]
  BY DEF OwnStep
<1>2. r \in Bridge /\ Waits(r) /\ \A i \in DOMAIN r.batch : r.batch[i] \in 1..sent
  BY <1>1, BridgeTyped DEF Goes, InHand
<1>3. InHand(r)
  <2>1. CASE r.pc = "poll" /\ r.upd = 0
    BY <1>2, <2>1 DEF InHand, Kinds, Between
  <2>2. CASE r.pc = br[b].pc /\ r.upd = br[b].upd
    BY <1>2, <2>2, BridgeTyped DEF InHand
  <2>3. CASE /\ br[b].pc # "poll" /\ r.upd = br[b].upd /\ r.pc \in Pcs \ Kinds
             /\ r.pc \in Between => Msg(b).kind \in Settings
    <3>1. br[b].upd \in 1..sent
      BY <2>3, BridgeTyped DEF InHand
    <3> QED BY <1>2, <2>3, <3>1 DEF InHand, Msg
  <2> QED BY <1>1, <2>1, <2>2, <2>3 DEF Goes
<1> QED BY <1>1, <1>2, <1>3, OneBridgeTyped

(* What a command, or a delivery, leaves alone. *)
LEMMA CommandsFrame ==
  ASSUME NEW b \in Bridges, Commands(b) \/ Delivering(b)
  PROVE  /\ UNCHANGED <<inbox, sent, acked, live, issued, rpc, handled>>
         /\ HandlePairing(b) \/ UNCHANGED <<code, redeemed>>
         /\ Save(b) \/ UNCHANGED <<disk, saved>>
<1>1. CASE HandlePairing(b) \/ Setting(b) \/ Load(b) \/ Save(b) \/ SaveFails(b) \/ Mirror(b)
  BY <1>1 DEF HandlePairing, Setting, Load, Save, SaveFails, Mirror, Replies, env
<1>2. CASE CmdRun(b) \/ CmdRunAll(b) \/ CmdSimpleMode(b) \/ CmdWildfire(b) \/ CmdNew(b) \/ CmdStop(b)
  BY <1>2 DEF CmdRun, CmdRunAll, CmdSimpleMode, CmdWildfire, CmdNew, CmdStop, Starts, Acts, env
<1>3. CASE ReplyOnly(b) \/ CmdSay(b) \/ TypeText(b) \/ TypeEnter(b)
  BY <1>3 DEF ReplyOnly, Replies, CmdSay, TypeText, TypeEnter, env
<1>4. CASE HandlePlainText(b) \/ QueueChatStart(b) \/ CmdLogin(b)
  BY <1>4 DEF HandlePlainText, QueueChatStart, CmdLogin, env
<1>5. CASE Delivering(b)
  BY <1>5 DEF Delivering, ChatReady, ChatNotReady, DeliverNext, env
<1> QED BY <1>1, <1>2, <1>3, <1>4, <1>5 DEF Commands

LEMMA QuietTyped ==
  ASSUME NEW n \in Nat
  PROVE  Quiet(n) \in Rpc /\ Quiet(n).pc = "idle" /\ Quiet(n).snap = Off.snap
BY TelegramAssumption, OffTyped DEF Quiet, Rpc

LEMMA TypedInit == Init => Typed
<1> SUFFICES ASSUME Init PROVE Typed
  OBVIOUS
<1>1. MaxBridges \in Nat /\ MaxRpcs \in Nat /\ 1 \in Bridges
  BY TelegramAssumption DEF Bridges
<1>2. inbox \in Seq(Message)
  <2>1. PICK s \in Scripts : inbox \in [1..Len(s) -> Message]
    BY DEF Init, Messages, Message
  <2>2. Len(s) \in Nat
    BY <2>1, TelegramAssumption
  <2> QED BY <2>1, <2>2
<1>3. disk \in Records
  <2>1. Unpaired \in Record /\ [NewlyPaired EXCEPT !.selected = TRUE] \in Record
    BY RecordTyped
  <2> QED BY <2>1 DEF Init, Records
<1>4. rpc \in Rpc /\ rpc.pc = "idle"
  BY <1>1, QuietTyped DEF Init
<1>5. BridgesTyped
  <2>1. PICK r \in Configured(disk) : br = [b \in Bridges |-> IF b = 1 THEN r ELSE Off]
    BY DEF Init
  <2>2. /\ r \in Bridge /\ Waits(r) /\ InHand(r)
        /\ Off \in Bridge /\ Waits(Off) /\ InHand(Off)
    BY <1>3, OffTyped, ConfiguredTyped
  <2> QED BY <2>1, <2>2 DEF BridgesTyped
<1> QED BY <1>1, <1>2, <1>3, <1>4, <1>5 DEF Init, Typed

LEMMA SendTyped ==
  ASSUME Typed, Send
  PROVE  Typed'
<1>1. sent' \in 0..Len(inbox') /\ sent' = sent + 1 /\ sent \in Nat
  BY DEF Send, Typed
<1>2. ASSUME NEW b \in Bridges PROVE InHand(br[b])'
  BY <1>1, BridgeTyped DEF Send, InHand
<1> QED BY <1>1, <1>2 DEF Send, Typed, BridgesTyped

LEMMA PollingTyped ==
  ASSUME Typed, NEW b \in Bridges, Polling(b) \/ PollFails(b)
  PROVE  Typed'
<1>1. CASE GetUpdates(b)
  <2>1. PICK r : /\ br' = [br EXCEPT ![b] = r]
                 /\ r \in Bridge /\ Waits(r) /\ r.pc = "poll" /\ r.batch = Fetched(b)
    BY <1>1, GetUpdatesEffect
  <2>2. InHand(r)
    BY <2>1, ForgottenTyped DEF InHand, Kinds, Between
  <2>3. BridgesTyped'
    BY <1>1, <2>1, <2>2, OneBridgeTyped DEF GetUpdates
  <2>4. acked' \in Nat
    BY <1>1, ForgottenTyped DEF GetUpdates
  <2> QED BY <1>1, <2>3, <2>4 DEF GetUpdates, Typed
<1>2. CASE PollFails(b)
  <2>1. acked' \in Nat
    BY <1>2, ForgottenTyped DEF PollFails
  <2> QED BY <1>2, <2>1 DEF PollFails, Typed, BridgesTyped, InHand
<1>3. CASE HandleUpdate(b)
  <2> DEFINE u == br[b].batch[1]
  <2>1. u \in 1..sent /\ br[b].batch # <<>>
    BY <1>3, HandleUpdateEffect
  <2>2. PICK r : /\ br' = [br EXCEPT ![b] = r]
                 /\ r \in Bridge /\ Waits(r) /\ r.upd = u
                 /\ r.pc = "poll" \/ (r.pc \in Kinds /\ r.pc = inbox[u].kind)
                 /\ r.batch = Tail(br[b].batch)
    BY <1>3, HandleUpdateEffect
  <2> HIDE DEF u
  <2>3. \A i \in DOMAIN r.batch : r.batch[i] \in 1..sent
    <3>1. br[b].batch \in Seq(Nat) /\ \A i \in DOMAIN br[b].batch : br[b].batch[i] \in 1..sent
      BY BridgeTyped DEF Bridge, InHand
    <3> QED BY <2>1, <2>2, <3>1
  <2>4. InHand(r)
    BY <2>1, <2>2, <2>3 DEF InHand, Kinds, Between
  <2>5. BridgesTyped'
    BY <1>3, <2>2, <2>4, OneBridgeTyped DEF HandleUpdate
  <2> QED BY <1>3, <2>5 DEF HandleUpdate, Typed
<1>4. CASE RunReturns(b)
  <2>1. PICK r : /\ br' = [br EXCEPT ![b] = r]
                 /\ r \in Bridge /\ Waits(r) /\ r.pc = "poll" /\ r.batch = <<>>
    BY <1>4, RunReturnsEffect
  <2>2. InHand(r)
    BY <2>1 DEF InHand, Kinds, Between
  <2>3. BridgesTyped'
    BY <1>4, <2>1, <2>2, OneBridgeTyped DEF RunReturns, env
  <2> QED BY <1>4, <2>3 DEF RunReturns, env, Typed
<1> QED BY <1>1, <1>2, <1>3, <1>4 DEF Polling

LEMMA CommandsTyped ==
  ASSUME Typed, NEW b \in Bridges, Commands(b) \/ Delivering(b)
  PROVE  Typed'
<1>1. UNCHANGED <<inbox, sent, acked, live, issued, rpc>>
  BY CommandsFrame
<1>2. BridgesTyped'
  <2>1. CASE OwnStep(b)
    BY <1>1, <2>1, OwnTyped
  <2>2. CASE Mirror(b)
    <3>1. PICK r : /\ br' = [br EXCEPT ![b] = r]
                   /\ r \in Bridge /\ Waits(r) /\ r.pc = "poll" /\ r.batch = br[b].batch
      BY <2>2, MirrorEffect
    <3>2. InHand(r)
      BY <3>1, BridgeTyped DEF InHand, Kinds, Between
    <3> QED BY <1>1, <3>1, <3>2, OneBridgeTyped
  <2> QED BY <2>1, <2>2, CommandsOwn
<1>3. disk' \in Records
  <2>1. CASE Save(b)
    <3>1. /\ br[b].snap \in Records /\ Chat(b) \in Chats /\ Changed(b, br[b].snap[Chat(b)]) \in Record
      BY <2>1, SaveOwn, BridgeTyped DEF Bridge
    <3> QED BY <2>1, <3>1 DEF Save, Records
  <2> QED BY <2>1, CommandsFrame DEF Typed
<1>4. code' \in Nat
  <2>1. CASE HandlePairing(b)
    BY <2>1 DEF HandlePairing, Consume, Refused, Typed
  <2> QED BY <2>1, CommandsFrame DEF Typed
<1> QED BY <1>1, <1>2, <1>3, <1>4 DEF Typed

(* The settings calls and the daemon: the bridges they start are new, the   *)
(* others keep what they have, or everything but that.                      *)
LEMMA RestartEffect ==
  ASSUME Typed, RestartTelegramBridge
  PROVE  /\ live + 1 \in Bridges /\ live + 1 # live /\ br' \in [Bridges -> Bridge]
         /\ br'[live + 1] \in Configured(disk)
         /\ \A b \in Bridges \ {live + 1} : br'[b] = br[b] \/ br'[b] = [br[b] EXCEPT !.cancelled = TRUE]
<1>1. live + 1 \in Bridges /\ live + 1 # live /\ live \in Bridges
  BY TelegramAssumption DEF RestartTelegramBridge, Typed, Bridges
<1>2. PICK r \in Configured(disk) : br' = [br EXCEPT ![live].cancelled = TRUE, ![live + 1] = r]
  BY DEF RestartTelegramBridge
<1>3. r \in Bridge /\ [br[live] EXCEPT !.cancelled = TRUE] \in Bridge
  <2>1. br[live] \in Bridge /\ r \in Bridge
    BY <1>1, ConfiguredTyped, BridgeTyped DEF Typed
  <2> QED BY <2>1 DEF Bridge
<1>4. br' = [br EXCEPT ![live] = [br[live] EXCEPT !.cancelled = TRUE], ![live + 1] = r]
  BY BridgeTyped, <1>1, <1>2 DEF Bridge
<1> QED BY <1>1, <1>3, <1>4, BridgeTyped

LEMMA DaemonEffect ==
  ASSUME Typed, DaemonRestarts
  PROVE  /\ live + 1 \in Bridges /\ br' \in [Bridges -> Bridge]
         /\ br'[live + 1] \in Configured(disk)
         /\ \A b \in Bridges \ {live + 1} : br'[b] \in {Off, [Off EXCEPT !.cancelled = TRUE]}
<1>1. live + 1 \in Bridges
  BY TelegramAssumption DEF DaemonRestarts, Typed, Bridges
<1>2. PICK r \in Configured(disk) :
        br' = [b \in Bridges |-> IF b = live + 1 THEN r
                                 ELSE IF b <= live THEN [Off EXCEPT !.cancelled = TRUE] ELSE Off]
  BY DEF DaemonRestarts
<1>3. r \in Bridge /\ Off \in Bridge /\ [Off EXCEPT !.cancelled = TRUE] \in Bridge
  BY ConfiguredTyped, OffTyped DEF Typed
<1> QED BY <1>1, <1>2, <1>3

LEMMA RevokeEffect ==
  ASSUME Typed, BridgeRevoke
  PROVE  \E r : /\ br' = [br EXCEPT ![live] = r] /\ live \in Bridges
                /\ r \in Bridge /\ Waits(r) /\ r.pc = br[live].pc /\ r.upd = br[live].upd
                /\ r.snap = br[live].snap /\ r.on = br[live].on /\ r.offset = br[live].offset
                /\ r.batch = br[live].batch /\ r.paired = [br[live].paired EXCEPT ![rpc.chat] = Unpaired]
<1> DEFINE p == [br[live].paired EXCEPT ![rpc.chat] = Unpaired]
           r == [br[live] EXCEPT !.paired = p]
<1>1. live \in Bridges /\ br[live] \in Bridge
  BY BridgeTyped DEF Typed
<1>2. p \in Records
  BY <1>1, RecordTyped DEF Bridge, Records
<1>3. br' = [br EXCEPT ![live] = r]
  BY <1>1, BridgeTyped DEF BridgeRevoke, Bridge
<1> HIDE DEF p
<1>4. /\ r \in Bridge /\ r.pc = br[live].pc /\ r.upd = br[live].upd
      /\ r.snap = br[live].snap /\ r.on = br[live].on /\ r.offset = br[live].offset
      /\ r.batch = br[live].batch /\ r.paired = p /\ r.boot = br[live].boot /\ r.queued = br[live].queued
  BY <1>1, <1>2 DEF Bridge
<1> HIDE DEF r
<1>5. Waits(r)
  BY <1>1, <1>4, BridgeTyped DEF Waits
<1> QED BY <1>1, <1>3, <1>4, <1>5 DEF p

(* A call that stores, or fails to: the bridges do not see it yet.          *)
Stores == RevokeTelegramChat \/ SaveIntegration \/ RpcFails

LEMMA StoresEffect ==
  ASSUME Typed, Stores
  PROVE  /\ UNCHANGED <<inbox, sent, acked, br, live, code, issued, handled, redeemed, saved>>
         /\ rpc' \in Rpc /\ rpc'.snap = Off.snap /\ (rpc'.pc = "restart" => live < MaxBridges) /\ rpc'.pc # "save"
         /\ disk' \in Records
         /\ \A c \in Chats : disk'[c].paired => disk[c].paired \/ rpc.snap[c].paired
<1>1. rpc \in Rpc /\ rpc.snap \in Records /\ disk \in Records /\ rpc.chat \in Chats
      /\ (rpc.pc = "save" => live < MaxBridges)
  BY DEF Typed, Rpc
<1>2. PICK pc \in {"idle", "drop", "restart"} : Stored(pc) /\ (pc = "restart" => rpc.pc = "save")
  BY DEF Stores, RevokeTelegramChat, SaveIntegration, RpcFails
<1>3. rpc' \in Rpc /\ rpc'.snap = Off.snap /\ rpc'.pc = pc
  BY <1>1, <1>2, OffTyped DEF Stored, Rpc
<1>4. disk' \in {disk, rpc.snap, [rpc.snap EXCEPT ![rpc.chat] = Unpaired]}
  BY DEF Stores, RevokeTelegramChat, SaveIntegration, RpcFails
<1>5. disk' \in Records /\ \A c \in Chats : disk'[c].paired => disk[c].paired \/ rpc.snap[c].paired
  BY <1>1, <1>4, RecordTyped DEF Records
<1> QED BY <1>1, <1>2, <1>3, <1>5 DEF Stored

LEMMA DaemonTyped ==
  ASSUME Typed,
         (\E k \in {"revoke", "save"}, c \in Chats : RpcLoads(k, c)) \/ Settling \/ DaemonRestarts
  PROVE  Typed'
<1>0. rpc.left \in Nat /\ rpc.snap \in Records /\ disk \in Records
  BY DEF Typed, Rpc
<1>1. CASE \E k \in {"revoke", "save"}, c \in Chats : RpcLoads(k, c)
  <2>1. PICK k \in {"revoke", "save"}, c \in Chats : RpcLoads(k, c)
    BY <1>1
  <2>2. /\ rpc' \in Rpc
        /\ rpc'.pc \in {"save", "restart"} => live' < MaxBridges
    BY <1>0, <2>1 DEF RpcLoads, Typed, Rpc
  <2> QED BY <2>1, <2>2 DEF RpcLoads, Typed, BridgesTyped, InHand
<1>2. CASE Stores
  BY <1>2, StoresEffect DEF Typed, BridgesTyped, InHand
<1>3. CASE BridgeRevoke
  <2>1. PICK r : /\ br' = [br EXCEPT ![live] = r] /\ live \in Bridges
                 /\ r \in Bridge /\ Waits(r) /\ r.pc = br[live].pc /\ r.upd = br[live].upd
                 /\ r.batch = br[live].batch
    BY <1>3, RevokeEffect
  <2>2. InHand(r)
    BY <2>1, BridgeTyped DEF InHand
  <2>3. BridgesTyped'
    BY <1>3, <2>1, <2>2, OneBridgeTyped DEF BridgeRevoke
  <2> QED BY <1>0, <1>3, <2>3, QuietTyped DEF BridgeRevoke, Typed
<1>4. CASE RestartTelegramBridge
  <2>1. /\ live + 1 \in Bridges /\ br' \in [Bridges -> Bridge]
        /\ br'[live + 1] \in Configured(disk)
        /\ \A b \in Bridges \ {live + 1} : br'[b] = br[b] \/ br'[b] = [br[b] EXCEPT !.cancelled = TRUE]
    BY <1>4, RestartEffect
  <2>2. \A b \in Bridges : LET r == [br[b] EXCEPT !.cancelled = TRUE]
                           IN  r.pc = br[b].pc /\ r.upd = br[b].upd /\ r.batch = br[b].batch
                               /\ r.boot = br[b].boot /\ r.queued = br[b].queued
    BY BridgeTyped DEF Bridge
  <2>3. \A b \in Bridges : Waits(br'[b]) /\ InHand(br'[b])
    <3> TAKE b \in Bridges
    <3>1. CASE b = live + 1
      BY <1>0, <2>1, <3>1, ConfiguredTyped
    <3>2. CASE br'[b] = br[b]
      BY <3>2, BridgeTyped
    <3>3. CASE br'[b] = [br[b] EXCEPT !.cancelled = TRUE]
      <4> DEFINE r == br'[b]
      <4>1. /\ r.pc = br[b].pc /\ r.upd = br[b].upd /\ r.batch = br[b].batch
            /\ r.boot = br[b].boot /\ r.queued = br[b].queued
        BY <2>2, <3>3
      <4> HIDE DEF r
      <4>2. Waits(r) /\ InHand(r)
        BY <4>1, BridgeTyped DEF Waits, InHand
      <4> QED BY <4>2 DEF r
    <3> QED BY <2>1, <3>1, <3>2, <3>3
  <2> QED BY <1>0, <1>4, <2>1, <2>3, QuietTyped DEF RestartTelegramBridge, Typed, BridgesTyped, InHand
<1>5. CASE DaemonRestarts
  <2>1. /\ live + 1 \in Bridges /\ br' \in [Bridges -> Bridge]
        /\ br'[live + 1] \in Configured(disk)
        /\ \A b \in Bridges \ {live + 1} : br'[b] \in {Off, [Off EXCEPT !.cancelled = TRUE]}
    BY <1>5, DaemonEffect
  <2>2. \A b \in Bridges : Waits(br'[b]) /\ InHand(br'[b])
    BY <1>0, <2>1, OffTyped, ConfiguredTyped
  <2> QED BY <1>0, <1>5, <2>1, <2>2, QuietTyped DEF DaemonRestarts, Typed, BridgesTyped, InHand
<1> QED BY <1>1, <1>2, <1>3, <1>4, <1>5 DEF Settling, Stores

LEMMA TypedStep == Typed /\ [Next]_vars => Typed'
<1> SUFFICES ASSUME Typed, [Next]_vars PROVE Typed'
  OBVIOUS
<1>1. CASE Send
  BY <1>1, SendTyped
<1>2. CASE BeginPairing \/ CodeExpires \/ Session \/ UNCHANGED vars
  BY <1>2 DEF BeginPairing, CodeExpires, Session, vars, env, Typed, BridgesTyped, InHand
<1>3. CASE \E b \in Bridges : Polling(b) \/ PollFails(b)
  BY <1>3, PollingTyped
<1>4. CASE \E b \in Bridges : Commands(b) \/ Delivering(b)
  BY <1>4, CommandsTyped
<1>5. CASE (\E k \in {"revoke", "save"}, c \in Chats : RpcLoads(k, c)) \/ Settling \/ DaemonRestarts
  BY <1>5, DaemonTyped
<1> QED BY <1>1, <1>2, <1>3, <1>4, <1>5 DEF Next
(* What the bridges hold stays well formed: a command always has a message  *)
(* of its own kind in hand, and every fetched update is one that was sent.  *)
THEOREM BridgesStayTyped == Spec => []Typed
BY TypedInit, TypedStep, PTL DEF Spec

-----------------------------------------------------------------------------
(* The long poll.                                                           *)

(* What a step may do to a bridge other than fetch or handle an update.     *)
Steady(b) == /\ br'[b].on = br[b].on /\ br'[b].offset = br[b].offset /\ br'[b].batch = br[b].batch
             /\ br'[b].upd \in {0, br[b].upd}
Stops(b) == /\ ~br'[b].on /\ br'[b].offset \in {0, br[b].offset} /\ br'[b].batch = <<>>
            /\ br'[b].upd \in {0, br[b].upd}
Begins(b) == /\ b = live + 1 /\ live' = live + 1
             /\ br'[b].offset = 0 /\ br'[b].batch = <<>> /\ br'[b].upd = 0
Idles == \A b \in Bridges : Steady(b) \/ Stops(b) \/ Begins(b)

LEMMA CommandsSteady ==
  ASSUME Typed, NEW b \in Bridges, Commands(b) \/ Delivering(b)
  PROVE  \A c \in Bridges : Steady(c)
<1>1. PICK r : /\ br' = [br EXCEPT ![b] = r] /\ r \in Bridge
               /\ r.on = br[b].on /\ r.offset = br[b].offset /\ r.batch = br[b].batch
               /\ r.upd \in {0, br[b].upd}
  <2>1. CASE OwnStep(b)
    BY <2>1 DEF OwnStep, Goes
  <2>2. CASE Mirror(b)
    BY <2>2, MirrorEffect
  <2> QED BY <2>1, <2>2, CommandsOwn
<1>2. br'[b] = r /\ \A c \in Bridges \ {b} : br'[c] = br[c]
  BY <1>1, OneBridge
<1> QED BY <1>1, <1>2 DEF Steady

LEMMA RunReturnsIdles ==
  ASSUME Typed, NEW b \in Bridges, RunReturns(b)
  PROVE  Idles
<1>1. PICK r : /\ br' = [br EXCEPT ![b] = r]
               /\ r \in Bridge /\ ~r.on /\ r.batch = <<>>
               /\ r.upd \in {0, br[b].upd} /\ r.offset \in {0, br[b].offset}
  BY RunReturnsEffect
<1>2. br'[b] = r /\ \A c \in Bridges \ {b} : br'[c] = br[c]
  BY <1>1, OneBridge
<1> QED BY <1>1, <1>2 DEF Idles, Steady, Stops

LEMMA DaemonIdles ==
  ASSUME Typed, Settling \/ DaemonRestarts
  PROVE  Idles /\ live' \in {live, live + 1}
<1>0. disk \in Records
  BY DEF Typed
<1>1. CASE Stores
  BY <1>1, StoresEffect DEF Idles, Steady
<1>2. CASE BridgeRevoke
  <2>1. PICK r : /\ br' = [br EXCEPT ![live] = r] /\ live \in Bridges
                 /\ r \in Bridge /\ r.upd = br[live].upd
                 /\ r.on = br[live].on /\ r.offset = br[live].offset /\ r.batch = br[live].batch
    BY <1>2, RevokeEffect
  <2>2. br'[live] = r /\ \A c \in Bridges \ {live} : br'[c] = br[c]
    BY <2>1, OneBridge
  <2> QED BY <1>2, <2>1, <2>2 DEF Idles, Steady, BridgeRevoke
<1>3. CASE RestartTelegramBridge
  <2>1. /\ live + 1 \in Bridges /\ br'[live + 1] \in Configured(disk)
        /\ \A b \in Bridges \ {live + 1} : br'[b] = br[b] \/ br'[b] = [br[b] EXCEPT !.cancelled = TRUE]
    BY <1>3, RestartEffect
  <2>2. ASSUME NEW b \in Bridges PROVE Steady(b) \/ Begins(b)
    <3>1. CASE b = live + 1
      BY <1>0, <1>3, <2>1, <3>1, ConfiguredTyped DEF RestartTelegramBridge, Begins
    <3>2. CASE br'[b] = br[b]
      BY <3>2 DEF Steady
    <3>3. CASE br'[b] = [br[b] EXCEPT !.cancelled = TRUE]
      BY <3>3, BridgeTyped DEF Steady, Bridge
    <3> QED BY <2>1, <3>1, <3>2, <3>3
  <2> QED BY <1>3, <2>2 DEF RestartTelegramBridge, Idles
<1>4. CASE DaemonRestarts
  <2>1. /\ live + 1 \in Bridges /\ br'[live + 1] \in Configured(disk)
        /\ \A b \in Bridges \ {live + 1} : br'[b] \in {Off, [Off EXCEPT !.cancelled = TRUE]}
    BY <1>4, DaemonEffect
  <2>2. ASSUME NEW b \in Bridges PROVE Stops(b) \/ Begins(b)
    <3>1. CASE b = live + 1
      BY <1>0, <1>4, <2>1, <3>1, ConfiguredTyped DEF DaemonRestarts, Begins
    <3>2. CASE b # live + 1
      BY <2>1, <3>2, OffTyped DEF Stops
    <3> QED BY <3>1, <3>2
  <2> QED BY <1>4, <2>2 DEF DaemonRestarts, Idles
<1> QED BY <1>1, <1>2, <1>3, <1>4 DEF Settling, Stores

(* While no bridge fetches or handles, nothing is forgotten that was not.   *)
LEMMA IdlesKeepPolls ==
  ASSUME PollInv, Idles, live' \in {live, live + 1}, UNCHANGED handled
  PROVE  Polls'
<1> USE DEF PollInv
<1>1. ASSUME NEW b \in Bridges PROVE Batched(br[b])' /\ Behind(b, br[b])'
  <2>0. live \in Nat /\ b \in Nat /\ Batched(br[b]) /\ Behind(b, br[b]) /\ br[b].offset \in Nat
    BY BridgeTyped DEF Polls, Typed, Bridges, Bridge
  <2>1. CASE Steady(b)
    BY <2>0, <2>1 DEF Steady, Batched, Behind, HandledTo
  <2>2. CASE Stops(b)
    BY <2>0, <2>2 DEF Stops, Batched, Behind, HandledTo
  <2>3. CASE Begins(b)
    BY <2>0, <2>3 DEF Begins, Batched, Behind, HandledTo
  <2> QED BY <2>1, <2>2, <2>3 DEF Idles
<1> QED BY <1>1 DEF Polls

LEMMA ForgottenHandled ==
  ASSUME PollInv, NEW b \in Bridges
  PROVE  HandledTo(Forgotten(b))
<1>1. HandledTo(acked) /\ HandledTo(br[b].offset - 1)
  BY DEF PollInv, NothingForgotten, HandledTo, Polls, Batched
<1> QED BY <1>1, ForgottenTyped DEF PollInv

LEMMA GetUpdatesPolls ==
  ASSUME PollInv, NEW b \in Bridges, GetUpdates(b)
  PROVE  Polls'
<1> USE DEF PollInv
<1>1. PICK r : /\ br' = [br EXCEPT ![b] = r] /\ r \in Bridge
               /\ r.on = br[b].on /\ r.offset = br[b].offset /\ r.batch = Fetched(b)
  BY GetUpdatesEffect
<1>2. br'[b] = r /\ (\A c \in Bridges \ {b} : br'[c] = br[c]) /\ UNCHANGED <<live, handled>>
  BY <1>1, OneBridge DEF GetUpdates
<1>3. /\ Batched(br[b]) /\ Behind(b, br[b]) /\ br[b].offset \in Nat
      /\ HandledTo(Forgotten(b)) /\ Forgotten(b) \in Nat /\ Forgotten(b) >= br[b].offset - 1
      /\ Fetched(b) \in Seq(Nat) /\ \A i \in DOMAIN Fetched(b) : Fetched(b)[i] = Forgotten(b) + i
  BY BridgeTyped, ForgottenTyped, ForgottenHandled DEF Polls, Bridge
<1>4. Batched(r)
  <2>1. HandledTo(r.offset - 1)
    BY <1>1, <1>3 DEF Batched
  <2>2. ASSUME r.batch # <<>>
        PROVE  /\ r.batch[1] >= r.offset /\ HandledTo(r.batch[1] - 1)
               /\ \A i \in DOMAIN r.batch : r.batch[i] = r.batch[1] + i - 1
    <3>1. 1 \in DOMAIN r.batch /\ DOMAIN r.batch \subseteq Nat
      BY <1>1, <1>3, <2>2
    <3>2. r.batch[1] = Forgotten(b) + 1 /\ \A i \in DOMAIN r.batch : r.batch[i] = Forgotten(b) + i
      BY <1>1, <1>3, <3>1
    <3>3. r.batch[1] - 1 = Forgotten(b)
      BY <1>3, <3>2
    <3> QED BY <1>1, <1>3, <3>1, <3>2, <3>3
  <2> QED BY <2>1, <2>2 DEF Batched
<1>5. ASSUME NEW c \in Bridges PROVE Batched(br[c])' /\ Behind(c, br[c])'
  <2>1. Batched(br'[c]) /\ Behind(c, br'[c])
    <3>1. CASE c = b
      BY <1>1, <1>2, <1>3, <1>4, <3>1 DEF Behind
    <3>2. CASE c # b
      BY <1>2, <3>2 DEF Polls
    <3> QED BY <3>1, <3>2
  <2> QED BY <1>2, <2>1 DEF Batched, Behind, HandledTo
<1> QED BY <1>5 DEF Polls

(* The update a bridge takes up is the next after those it has handled.     *)
LEMMA HandlesNext ==
  ASSUME PollInv, NEW b \in Bridges, HandleUpdate(b)
  PROVE  LET u == br[b].batch[1]
         IN  /\ u \in 1..sent /\ u >= br[b].offset /\ br[b].on /\ HandledTo(u - 1)
             /\ <<b, u>> \notin handled
<1> USE DEF PollInv
<1>1. br[b].on /\ br[b].batch # <<>> /\ br[b].batch[1] \in 1..sent /\ br[b].offset \in Nat
  BY HandleUpdateEffect, BridgeTyped DEF Bridge
<1> QED BY <1>1 DEF Polls, Batched, Behind

LEMMA HandleUpdatePolls ==
  ASSUME PollInv, NEW b \in Bridges, HandleUpdate(b)
  PROVE  Polls' /\ handled' \subseteq Bridges \X Nat
<1> USE DEF PollInv
<1>0. PICK u : u = br[b].batch[1]
  OBVIOUS
<1>1. /\ u \in 1..sent /\ u >= br[b].offset /\ br[b].on /\ HandledTo(u - 1) /\ br[b].batch # <<>>
      /\ handled' = handled \cup {<<b, u>>} /\ UNCHANGED live
  BY <1>0, HandlesNext, HandleUpdateEffect DEF HandleUpdate
<1>2. PICK r : /\ br' = [br EXCEPT ![b] = r] /\ r \in Bridge
               /\ r.on /\ r.offset = Larger(br[b].offset, u + 1) /\ r.batch = Tail(br[b].batch)
  BY <1>0, HandleUpdateEffect
<1>3. /\ Batched(br[b]) /\ Behind(b, br[b]) /\ br[b].offset \in Nat /\ br[b].batch \in Seq(Nat)
      /\ \A i \in DOMAIN br[b].batch : br[b].batch[i] = u + i - 1
  BY <1>0, <1>1, BridgeTyped DEF Polls, Bridge, Batched
<1>4. br'[b] = r /\ (\A c \in Bridges \ {b} : br'[c] = br[c])
  BY <1>2, OneBridge
<1>5. u \in Nat /\ r.offset = u + 1
  BY <1>1, <1>2, <1>3 DEF Larger
<1>6. \A n \in Int : HandledTo(n) => HandledTo(n)'
  BY <1>1 DEF HandledTo
<1>7. HandledTo(u)'
  <2>1. \A v \in 1..u : v = u \/ v \in 1..(u - 1)
    BY <1>5
  <2> QED BY <1>1, <2>1 DEF HandledTo
<1>8. Batched(r)'
  <2>1. HandledTo(r.offset - 1)'
    <3>1. r.offset - 1 = u
      BY <1>5
    <3> QED BY <1>7, <3>1 DEF HandledTo
  <2>2. ASSUME r.batch # <<>>
        PROVE  /\ r.batch[1] >= r.offset /\ HandledTo(r.batch[1] - 1)'
               /\ \A i \in DOMAIN r.batch : r.batch[i] = r.batch[1] + i - 1
    <3>1. /\ 1 \in DOMAIN r.batch /\ DOMAIN r.batch \subseteq Nat
          /\ \A i \in DOMAIN r.batch : i + 1 \in DOMAIN br[b].batch /\ r.batch[i] = br[b].batch[i + 1]
      <4> DEFINE s == br[b].batch
      <4>1. s \in Seq(Nat) /\ s # <<>> /\ r.batch = Tail(s) /\ Tail(s) # <<>>
        BY <1>1, <1>2, <1>3, <2>2
      <4> HIDE DEF s
      <4>2. /\ Tail(s) \in Seq(Nat) /\ Len(Tail(s)) = Len(s) - 1 /\ Len(s) \in Nat
            /\ \A i \in 1..(Len(s) - 1) : Tail(s)[i] = s[i + 1]
        BY <4>1
      <4> QED BY <4>1, <4>2 DEF s
    <3>2. \A i \in DOMAIN r.batch : r.batch[i] = u + i
      BY <1>3, <1>5, <3>1
    <3>3. r.batch[1] = u + 1 /\ r.batch[1] - 1 = u
      BY <1>5, <3>1, <3>2
    <3>4. HandledTo(r.batch[1] - 1)'
      BY <1>7, <3>3 DEF HandledTo
    <3> QED BY <1>5, <3>1, <3>2, <3>3, <3>4
  <2> QED BY <2>1, <2>2 DEF Batched
<1>9. ASSUME NEW c \in Bridges PROVE Batched(br[c])' /\ Behind(c, br[c])'
  <2>1. CASE c = b
    <3>1. b <= live /\ \A v \in Nat : <<b, v>> \in handled' => v < r.offset
      BY <1>1, <1>3, <1>5 DEF Behind
    <3> QED BY <1>1, <1>4, <1>8, <2>1, <3>1 DEF Batched, Behind
  <2>2. CASE c # b
    <3>1. br'[c] = br[c] /\ \A v : <<c, v>> \in handled' => <<c, v>> \in handled
      BY <1>1, <1>4, <2>2
    <3>2. br[c].offset - 1 \in Int /\ (br[c].batch # <<>> => br[c].batch[1] - 1 \in Int)
      <4>1. br[c].batch \in Seq(Nat) /\ br[c].offset \in Nat
        BY BridgeTyped DEF Bridge
      <4> QED BY <4>1
    <3> QED BY <1>1, <1>6, <3>1, <3>2 DEF Polls, Batched, Behind, HandledTo
  <2> QED BY <2>1, <2>2
<1> QED BY <1>1, <1>5, <1>9 DEF Polls

LEMMA PollInit == Init => PollInv
<1> SUFFICES ASSUME Init PROVE PollInv
  OBVIOUS
<1>1. Typed /\ disk \in Records
  BY TypedInit DEF Typed
<1>2. ASSUME NEW b \in Bridges PROVE Batched(br[b]) /\ Behind(b, br[b])
  <2>1. br[b].offset = 0 /\ br[b].batch = <<>> /\ (b # 1 => ~br[b].on)
    BY <1>1, OffTyped, ConfiguredTyped DEF Init
  <2> QED BY <2>1 DEF Init, Batched, Behind, HandledTo, Bridges
<1> QED BY <1>1, <1>2 DEF Init, PollInv, Polls, NothingForgotten

(* Which steps fetch, which handle, and which do neither. *)
LEMMA PollingOrIdle ==
  ASSUME Typed, [Next]_vars
  PROVE  \/ \E b \in Bridges : GetUpdates(b) \/ PollFails(b) \/ HandleUpdate(b)
         \/ (Idles /\ live' \in {live, live + 1} /\ UNCHANGED <<handled, acked>>)
<1>1. CASE Send \/ BeginPairing \/ CodeExpires \/ Session \/ UNCHANGED vars
           \/ \E k \in {"revoke", "save"}, c \in Chats : RpcLoads(k, c)
  BY <1>1 DEF Send, BeginPairing, CodeExpires, Session, RpcLoads, vars, env, Idles, Steady
<1>2. CASE \E b \in Bridges : Commands(b) \/ Delivering(b)
  BY <1>2, CommandsSteady, CommandsFrame DEF Idles
<1>3. CASE \E b \in Bridges : RunReturns(b)
  BY <1>3, RunReturnsIdles DEF RunReturns, env
<1>4. CASE Settling \/ DaemonRestarts
  <2>1. UNCHANGED <<handled, acked>>
    BY <1>4 DEF Settling, RevokeTelegramChat, SaveIntegration, RpcFails, Stored, BridgeRevoke,
                RestartTelegramBridge, DaemonRestarts
  <2> QED BY <1>4, <2>1, DaemonIdles
<1> QED BY <1>1, <1>2, <1>3, <1>4 DEF Next, Polling

LEMMA PollStep == PollInv /\ [Next]_vars => PollInv'
<1> SUFFICES ASSUME PollInv, [Next]_vars PROVE PollInv'
  OBVIOUS
<1>1. Typed'
  BY TypedStep DEF PollInv
<1>2. CASE \E b \in Bridges : GetUpdates(b)
  <2>1. PICK b \in Bridges : GetUpdates(b)
    BY <1>2
  <2>2. HandledTo(Forgotten(b)) /\ acked' = Forgotten(b) /\ UNCHANGED handled
    BY <2>1, ForgottenHandled DEF GetUpdates
  <2> QED BY <1>1, <2>1, <2>2, GetUpdatesPolls DEF PollInv, NothingForgotten, HandledTo
<1>3. CASE \E b \in Bridges : PollFails(b)
  <2>1. PICK b \in Bridges : PollFails(b)
    BY <1>3
  <2>2. HandledTo(Forgotten(b)) /\ acked' = Forgotten(b) /\ UNCHANGED <<br, live, handled>>
    BY <2>1, ForgottenHandled DEF PollFails
  <2>3. Polls'
    BY <2>2 DEF PollInv, Polls, Batched, Behind, HandledTo
  <2> QED BY <1>1, <2>2, <2>3 DEF PollInv, NothingForgotten, HandledTo
<1>4. CASE \E b \in Bridges : HandleUpdate(b)
  <2>1. PICK b \in Bridges : HandleUpdate(b)
    BY <1>4
  <2>2. Polls' /\ handled' \subseteq Bridges \X Nat /\ handled \subseteq handled' /\ UNCHANGED acked
    BY <2>1, HandleUpdatePolls, HandleUpdateEffect DEF HandleUpdate, PollInv
  <2> QED BY <1>1, <2>2 DEF PollInv, NothingForgotten
<1>5. CASE Idles /\ live' \in {live, live + 1} /\ UNCHANGED <<handled, acked>>
  BY <1>1, <1>5, IdlesKeepPolls DEF PollInv, NothingForgotten
<1> QED BY <1>2, <1>3, <1>4, <1>5, PollingOrIdle DEF PollInv

(* A lost answer, a bridge replaced in the middle of a batch, a daemon that *)
(* restarts: what Telegram no longer has, a bridge has handled.             *)
THEOREM NoUpdateLost == Spec => []NothingForgotten
<1>1. PollInv => NothingForgotten
  BY DEF PollInv
<1> QED BY PollInit, PollStep, <1>1, PTL DEF Spec

(* However often a poll is repeated, a bridge takes up each update once.    *)
LEMMA HandledOnceStep ==
  ASSUME PollInv, [Next]_vars, NEW b \in Bridges, br'[b].upd \notin {0, br[b].upd}
  PROVE  <<b, br'[b].upd>> \notin handled
<1>1. CASE \E c \in Bridges : HandleUpdate(c)
  <2>1. PICK c \in Bridges : HandleUpdate(c)
    BY <1>1
  <2>2. PICK r : br' = [br EXCEPT ![c] = r] /\ r \in Bridge /\ r.upd = br[c].batch[1]
    BY <2>1, HandleUpdateEffect DEF PollInv
  <2>3. br'[c] = r /\ \A d \in Bridges \ {c} : br'[d] = br[d]
    BY <2>2, OneBridge DEF PollInv
  <2>4. c = b
    BY <2>3
  <2> QED BY <2>1, <2>2, <2>3, <2>4, HandlesNext
<1>2. CASE \E c \in Bridges : GetUpdates(c)
  <2>1. PICK c \in Bridges : GetUpdates(c)
    BY <1>2
  <2>2. PICK r : br' = [br EXCEPT ![c] = r] /\ r \in Bridge /\ r.upd = br[c].upd
    BY <2>1, GetUpdatesEffect DEF PollInv
  <2>3. br'[b].upd = br[b].upd
    BY <2>2, OneBridge DEF PollInv
  <2> QED BY <2>3
<1>3. CASE \E c \in Bridges : PollFails(c)
  BY <1>3 DEF PollFails
<1>4. CASE Idles
  BY <1>4 DEF Idles, Steady, Stops, Begins
<1> QED BY <1>1, <1>2, <1>3, <1>4, PollingOrIdle DEF PollInv

THEOREM UpdatesHandledOnce == Spec => HandledOnce
<1>1. PollInv /\ [Next]_vars =>
        [\A b \in Bridges : br'[b].upd \notin {0, br[b].upd} => <<b, br'[b].upd>> \notin handled]_vars
  BY HandledOnceStep
<1> QED BY PollInit, PollStep, <1>1, PTL DEF Spec, HandledOnce

-----------------------------------------------------------------------------
(* Pairing codes.                                                           *)

LEMMA CodeInit == Init => CodeInv
BY DEF Init, CodeInv, Spent, CodeRedeemedOnce

LEMMA CodeStep == CodeInv /\ [Next]_vars => CodeInv'
<1> SUFFICES ASSUME CodeInv, [Next]_vars PROVE CodeInv'
  OBVIOUS
<1> USE DEF CodeInv, Spent, CodeRedeemedOnce
<1>1. CASE \E b \in Bridges : HandlePairing(b)
  <2>1. PICK b \in Bridges : HandlePairing(b)
    BY <1>1
  <2>2. CASE Refused(b)
    <3>1. UNCHANGED <<code, issued, redeemed>>
      BY <2>1, <2>2 DEF HandlePairing, Consume, Refused
    <3> QED BY <3>1
  <2>3. CASE Consume(b)
    <3>1. /\ code # 0 /\ code' = 0 /\ UNCHANGED issued
          /\ redeemed' = redeemed \cup {<<code, b, br[b].upd>>}
      BY <2>1, <2>3 DEF HandlePairing, Consume, Refused
    <3>2. \A x \in redeemed' : x \in redeemed \/ x = <<code, b, br[b].upd>>
      BY <3>1
    <3>3. code \in 1..issued /\ 0 \notin 1..issued
      BY <3>1
    <3> QED BY <3>1, <3>2, <3>3
  <2> QED BY <2>1, <2>2, <2>3 DEF HandlePairing
<1>2. CASE BeginPairing
  BY <1>2 DEF BeginPairing
<1>3. CASE UNCHANGED <<issued, redeemed>> /\ code' \in {code, 0}
  BY <1>3
<1>4. ASSUME \A b \in Bridges : ~HandlePairing(b), ~BeginPairing
      PROVE  UNCHANGED <<issued, redeemed>> /\ code' \in {code, 0}
  <2>1. CASE \E b \in Bridges : Commands(b) \/ Delivering(b)
    BY <1>4, <2>1, CommandsFrame
  <2>2. CASE \E b \in Bridges : Polling(b) \/ PollFails(b)
    BY <2>2 DEF Polling, GetUpdates, HandleUpdate, RunReturns, PollFails, env
  <2>3. CASE Send \/ CodeExpires \/ Session \/ UNCHANGED vars
             \/ \E k \in {"revoke", "save"}, c \in Chats : RpcLoads(k, c)
    BY <2>3 DEF Send, CodeExpires, Session, RpcLoads, vars, env
  <2>4. CASE Settling \/ DaemonRestarts
    BY <2>4 DEF Settling, RevokeTelegramChat, SaveIntegration, RpcFails, Stored, BridgeRevoke,
                RestartTelegramBridge, DaemonRestarts
  <2> QED BY <1>4, <2>1, <2>2, <2>3, <2>4 DEF Next
<1> QED BY <1>1, <1>2, <1>3, <1>4

(* Two bridges that work through the same updates do not both redeem a code. *)
THEOREM OneRedemption == Spec => []CodeRedeemedOnce
<1>1. CodeInv => CodeRedeemedOnce
  BY DEF CodeInv
<1> QED BY CodeInit, CodeStep, <1>1, PTL DEF Spec

-----------------------------------------------------------------------------
(* Who is admitted.                                                         *)

LEMMA StrangersKnown ==
  /\ Known(Off.paired) /\ Known(Off.snap)
  /\ \A r \in {Off, [Off EXCEPT !.cancelled = TRUE]} : Vouched(r)
  /\ \A chats \in Records : Known(chats) => \A r \in Configured(chats) : Vouched(r)
<1>1. Known(Off.paired) /\ Known(Off.snap)
  BY OffTyped, RecordTyped DEF Known
<1>2. \A r \in {Off, [Off EXCEPT !.cancelled = TRUE]} : Vouched(r)
  BY <1>1, OffTyped DEF Vouched
<1>3. ASSUME NEW chats \in Records, Known(chats), NEW r \in Configured(chats) PROVE Vouched(r)
  BY <1>1, <1>3, ConfiguredTyped DEF Vouched
<1> QED BY <1>1, <1>2, <1>3

(* One bridge moves, and who has been on disk has been. *)
LEMMA OneVouched ==
  ASSUME AdmitInv, NEW b \in Bridges, NEW r, br' = [br EXCEPT ![b] = r], r \in Bridge,
         saved \subseteq saved', UNCHANGED inbox, Vouched(r)'
  PROVE  \A c \in Bridges : Vouched(br[c])'
<1>1. br'[b] = r /\ \A c \in Bridges \ {b} : br'[c] = br[c]
  BY OneBridge DEF AdmitInv
<1>2. ASSUME NEW c \in Bridges PROVE Vouched(br[c])'
  <2>1. CASE c = b
    BY <1>1, <2>1 DEF Vouched, Known
  <2>2. CASE c # b
    <3>1. Vouched(br[c])
      BY DEF AdmitInv
    <3> QED BY <1>1, <2>2, <3>1 DEF Vouched, Known
  <2> QED BY <2>1, <2>2
<1> QED BY <1>2

LEMMA AdmitInit == Init => AdmitInv
<1> SUFFICES ASSUME Init PROVE AdmitInv
  OBVIOUS
<1>1. Typed /\ disk \in Records
  BY TypedInit DEF Typed
<1>2. Known(disk) /\ Known(rpc.snap)
  BY StrangersKnown, QuietTyped, TelegramAssumption DEF Init, Known
<1> QED BY <1>1, <1>2, StrangersKnown DEF Init, AdmitInv

LEMMA CommandsAdmit ==
  ASSUME AdmitInv, NEW b \in Bridges, Commands(b) \/ Delivering(b)
  PROVE  Known(disk)' /\ Known(rpc.snap)' /\ \A c \in Bridges : Vouched(br[c])'
<1>1. /\ Typed /\ Vouched(br[b]) /\ Known(disk) /\ Known(rpc.snap)
      /\ UNCHANGED <<inbox, rpc>> /\ (Save(b) \/ UNCHANGED <<disk, saved>>)
  BY CommandsFrame DEF AdmitInv
<1>2. saved \subseteq saved'
  BY <1>1 DEF Save
<1>3. Known(disk)'
  <2>1. CASE Save(b)
    <3> DEFINE snap == br[b].snap
    <3>1. /\ snap \in Records /\ Known(snap) /\ saved' = saved \cup {Chat(b)}
          /\ disk' = [snap EXCEPT ![Chat(b)] = Changed(b, snap[Chat(b)])]
      BY <1>1, <2>1, BridgeTyped DEF Save, Vouched, Bridge
    <3> HIDE DEF snap
    <3>2. \A c \in Chats : disk'[c] = snap[c] \/ c \in saved'
      BY <3>1 DEF Records
    <3> QED BY <3>1, <3>2 DEF Known
  <2>2. CASE UNCHANGED <<disk, saved>>
    BY <1>1, <2>2 DEF Known
  <2> QED BY <1>1, <2>1, <2>2
<1>4. CASE OwnStep(b)
  <2>1. PICK r : Goes(b, r) /\ br' = [br EXCEPT ![b] = r]
    BY <1>4 DEF OwnStep
  <2>2. Known(r.paired)' /\ Known(r.snap)'
    BY <1>1, <1>2, <2>1, StrangersKnown DEF Goes, Vouched, Known
  <2>3. r.pc = "mirror" => inbox[r.upd].chat \in saved'
    BY <1>1, <1>2, <2>1 DEF Goes, Vouched, Chat, Msg
  <2>4. Vouched(r)'
    BY <1>1, <2>2, <2>3 DEF Vouched
  <2>5. r \in Bridge
    BY <2>1 DEF Goes
  <2>6. \A c \in Bridges : Vouched(br[c])'
    BY <1>1, <1>2, <2>1, <2>4, <2>5, OneVouched
  <2> QED BY <1>1, <1>2, <1>3, <2>6 DEF Known
<1>5. CASE Mirror(b)
  <2>1. PICK r : /\ br' = [br EXCEPT ![b] = r]
                 /\ r \in Bridge /\ r.pc = "poll" /\ r.snap = Off.snap
                 /\ \A c \in Chats : r.paired[c].paired => br[b].paired[c].paired \/ c = Chat(b)
    BY <1>1, <1>5, MirrorEffect
  <2>2. Chat(b) \in saved
    BY <1>1, <1>5 DEF Mirror, At, Vouched, Chat, Msg
  <2>3. Vouched(r)'
    BY <1>1, <1>2, <2>1, <2>2, StrangersKnown DEF Vouched, Known
  <2>4. \A c \in Bridges : Vouched(br[c])'
    BY <1>1, <1>2, <2>1, <2>3, OneVouched
  <2> QED BY <1>1, <1>2, <1>3, <2>4 DEF Known
<1> QED BY <1>1, <1>4, <1>5, CommandsOwn

LEMMA PollingAdmits ==
  ASSUME AdmitInv, NEW b \in Bridges, Polling(b)
  PROVE  \A c \in Bridges : Vouched(br[c])'
<1>1. Typed /\ Vouched(br[b]) /\ UNCHANGED <<inbox, saved>>
  BY DEF AdmitInv, Polling, GetUpdates, HandleUpdate, RunReturns, env
<1>2. CASE GetUpdates(b)
  <2>1. PICK r : /\ br' = [br EXCEPT ![b] = r] /\ r \in Bridge
                 /\ r.pc = "poll" /\ r.snap = br[b].snap /\ r.paired = br[b].paired
    BY <1>1, <1>2, GetUpdatesEffect
  <2>2. Vouched(r)'
    BY <1>1, <2>1 DEF Vouched, Known
  <2> QED BY <1>1, <2>1, <2>2, OneVouched
<1>3. CASE HandleUpdate(b)
  <2>1. PICK r : /\ br' = [br EXCEPT ![b] = r] /\ r \in Bridge
                 /\ r.pc \in Kinds \cup {"poll"} /\ r.snap = br[b].snap /\ r.paired = br[b].paired
    BY <1>1, <1>3, HandleUpdateEffect
  <2>2. Vouched(r)'
    BY <1>1, <2>1 DEF Vouched, Known, Kinds
  <2> QED BY <1>1, <2>1, <2>2, OneVouched
<1>4. CASE RunReturns(b)
  <2>1. PICK r : /\ br' = [br EXCEPT ![b] = r] /\ r \in Bridge /\ r.pc = "poll"
                 /\ r.snap \in {Off.snap, br[b].snap} /\ r.paired \in {Off.paired, br[b].paired}
    BY <1>1, <1>4, RunReturnsEffect
  <2>2. Vouched(r)'
    BY <1>1, <2>1, StrangersKnown DEF Vouched, Known
  <2> QED BY <1>1, <2>1, <2>2, OneVouched
<1> QED BY <1>2, <1>3, <1>4 DEF Polling

LEMMA DaemonAdmits ==
  ASSUME AdmitInv, Settling \/ DaemonRestarts
  PROVE  Known(disk)' /\ Known(rpc.snap)' /\ \A c \in Bridges : Vouched(br[c])'
<1>1. /\ Typed /\ Known(disk) /\ Known(rpc.snap) /\ disk \in Records /\ rpc.left \in Nat
  BY DEF AdmitInv, Typed, Rpc
<1>2. CASE Stores
  BY <1>1, <1>2, StoresEffect, StrangersKnown DEF AdmitInv, Vouched, Known
<1>3. ASSUME BridgeRevoke \/ RestartTelegramBridge \/ DaemonRestarts
      PROVE  /\ UNCHANGED <<inbox, disk, saved>> /\ Known(disk)' /\ Known(rpc.snap)'
  <2>1. UNCHANGED <<inbox, disk, saved>> /\ rpc' = Quiet(rpc.left)
    BY <1>3 DEF BridgeRevoke, RestartTelegramBridge, DaemonRestarts
  <2> QED BY <1>1, <2>1, QuietTyped, StrangersKnown DEF Known
<1>4. CASE BridgeRevoke
  <2>1. PICK r : /\ br' = [br EXCEPT ![live] = r] /\ live \in Bridges
                 /\ r \in Bridge /\ r.pc = br[live].pc /\ r.upd = br[live].upd
                 /\ r.snap = br[live].snap
                 /\ r.paired = [br[live].paired EXCEPT ![rpc.chat] = Unpaired]
    BY <1>1, <1>4, RevokeEffect
  <2>2. Vouched(br[live]) /\ br[live].paired \in Records
    BY <2>1, <1>1, BridgeTyped DEF AdmitInv, Bridge
  <2>3. Known(r.paired)'
    BY <1>3, <1>4, <2>1, <2>2, RecordTyped DEF Vouched, Known, Records
  <2>4. Vouched(r)'
    BY <1>3, <1>4, <2>1, <2>2, <2>3 DEF Vouched, Known
  <2>5. \A c \in Bridges : Vouched(br[c])'
    BY <1>3, <1>4, <2>1, <2>4, OneVouched
  <2> QED BY <1>3, <1>4, <2>5
<1>5. CASE RestartTelegramBridge
  <2>1. /\ br'[live + 1] \in Configured(disk)
        /\ \A b \in Bridges \ {live + 1} : br'[b] = br[b] \/ br'[b] = [br[b] EXCEPT !.cancelled = TRUE]
    BY <1>1, <1>5, RestartEffect
  <2>2. ASSUME NEW b \in Bridges PROVE Vouched(br'[b])
    <3>1. CASE b = live + 1
      BY <1>1, <2>1, <3>1, StrangersKnown
    <3>2. CASE br'[b] = br[b]
      BY <3>2 DEF AdmitInv
    <3>3. CASE br'[b] = [br[b] EXCEPT !.cancelled = TRUE]
      <4>1. /\ br'[b].pc = br[b].pc /\ br'[b].upd = br[b].upd
            /\ br'[b].snap = br[b].snap /\ br'[b].paired = br[b].paired
        BY <1>1, <3>3, BridgeTyped DEF Bridge
      <4> QED BY <4>1 DEF AdmitInv, Vouched
    <3> QED BY <2>1, <3>1, <3>2, <3>3
  <2> QED BY <1>3, <1>5, <2>2 DEF Vouched, Known
<1>6. CASE DaemonRestarts
  <2>1. /\ br'[live + 1] \in Configured(disk)
        /\ \A b \in Bridges \ {live + 1} : br'[b] \in {Off, [Off EXCEPT !.cancelled = TRUE]}
    BY <1>1, <1>6, DaemonEffect
  <2>2. ASSUME NEW b \in Bridges PROVE Vouched(br'[b])
    BY <1>1, <2>1, StrangersKnown
  <2> QED BY <1>3, <1>6, <2>2 DEF Vouched, Known
<1> QED BY <1>2, <1>4, <1>5, <1>6 DEF Settling, Stores

LEMMA AdmitStep == AdmitInv /\ [Next]_vars => AdmitInv'
<1> SUFFICES ASSUME AdmitInv, [Next]_vars PROVE AdmitInv'
  OBVIOUS
<1>1. Typed'
  BY TypedStep DEF AdmitInv
<1>2. CASE \/ Send \/ BeginPairing \/ CodeExpires \/ Session \/ UNCHANGED vars
           \/ \E b \in Bridges : PollFails(b)
           \/ \E k \in {"revoke", "save"}, c \in Chats : RpcLoads(k, c)
  <2>1. UNCHANGED <<inbox, br, disk, saved>> /\ (UNCHANGED rpc \/ rpc'.snap = disk)
    BY <1>2 DEF Send, BeginPairing, CodeExpires, Session, PollFails, RpcLoads, vars, env
  <2> QED BY <1>1, <2>1 DEF AdmitInv, Vouched, Known
<1>3. CASE \E b \in Bridges : Polling(b)
  <2>1. PICK b \in Bridges : Polling(b)
    BY <1>3
  <2>2. UNCHANGED <<disk, rpc, saved>>
    BY <2>1 DEF Polling, GetUpdates, HandleUpdate, RunReturns, env
  <2>3. \A c \in Bridges : Vouched(br[c])'
    BY <2>1, PollingAdmits
  <2> QED BY <1>1, <2>2, <2>3 DEF AdmitInv, Known
<1>4. CASE \E b \in Bridges : Commands(b) \/ Delivering(b)
  BY <1>1, <1>4, CommandsAdmit DEF AdmitInv
<1>5. CASE Settling \/ DaemonRestarts
  BY <1>1, <1>5, DaemonAdmits DEF AdmitInv
<1> QED BY <1>2, <1>3, <1>4, <1>5 DEF Next

(* A chat that a bridge talks to has been on disk, through failed saves and  *)
(* bridges that hold an older copy of the file.                              *)
THEOREM AdmittedOnRecord == Spec => []AdmittedWasSaved
<1>1. AdmitInv => AdmittedWasSaved
  BY DEF AdmitInv, Vouched, Known, AdmittedWasSaved
<1> QED BY AdmitInit, AdmitStep, <1>1, PTL DEF Spec

===============================================================================
