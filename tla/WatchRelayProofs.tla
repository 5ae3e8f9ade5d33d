--------------------------- MODULE WatchRelayProofs ---------------------------
(***************************************************************************)
(* What a chat reads of the sessions that are relayed to it, for any       *)
(* number of sessions, relays, lines and messages.                         *)
(***************************************************************************)
EXTENDS WatchRelay, FiniteSetTheorems, TLAPS

Item    == Sessions \X Nat
Line    == [kind : {"text", "break"}, q : Nat]
Session == [kind : {"chat", "task", "plan", "none"}, live : BOOLEAN, result : {"open", "done"},
            merge : {"none", "pending", "merged", "failed"}]
Post    == [from : {"user", "bridge", "relay"}, by : 0..MaxRelays, items : Seq(Item)]
Relay   == [s : 0..MaxSessions, pc : {"off", "tail", "outcome", "final", "over"}, cancelled : BOOLEAN,
            file : 0..MaxSessions, pos : Nat, part : BOOLEAN, pend : Seq(Item), batch : Seq(Item),
            edit : BOOLEAN, grow : Nat, lost : SUBSET (Nat \X Nat), again : Nat]

(* Only the last session runs, and half a line is one of its. *)
Sessioned ==
  /\ sess \in [Sessions -> Session] /\ count \in Sessions /\ half \in BOOLEAN
  /\ lines \in [Sessions -> Seq(Line)] /\ \A s \in Sessions : Len(lines[s]) <= MaxLines
  /\ half => sess[count].live /\ lines[count] # <<>>
  /\ \A s \in Sessions : sess[s].live => s = count

(* What waits to be sent, and what was, are whole lines and markers. *)
IsWhole(e) == e[2] \in {0, MaxLines + 1} \cup 1..Whole(e[1])
Wholes(es) == \A i \in DOMAIN es : IsWhole(es[i])

(* A relay reads whole lines of its session or the one before; what it     *)
(* edits is the last message it posted.                                    *)
Relaying(r, p) ==
  /\ p.pc # "off" => p.s \in 1..count /\ r <= made
  /\ p.pc = "off" => p.s = 0 /\ p.pend = <<>> /\ p.batch = <<>> /\ p.grow = 0 /\ p.file = 0
  /\ p.batch # <<>> => p.pc \in {"tail", "final"}
  /\ p.file # 0 => p.file \in {p.s - 1, p.s} /\ p.pos <= Whole(p.file)
  /\ Wholes(p.pend) /\ Wholes(p.batch)
  /\ p.edit => p.grow # 0 /\ p.batch # <<>>
  /\ p.batch # <<>> /\ ~p.edit => p.grow = 0
  /\ p.grow # 0 => p.grow \in DOMAIN chat /\ chat[p.grow].by = r

Chatted == chat \in Seq(Post) /\ \A m \in DOMAIN chat : Wholes(chat[m].items) /\ chat[m].by <= made
Bridged == asked \in 0..Len(chat) /\ made \in 0..MaxRelays /\ cur \in 0..made
Relayed == relay \in [Relays -> Relay] /\ \A r \in Relays : Relaying(r, relay[r])
Typed == Sessioned /\ Chatted /\ Bridged /\ Relayed

(* The question a line belongs to was handled, and between two lines of     *)
(* different questions there is a turn break.                              *)
Question(f, i) == IF i = 0 THEN 0 ELSE lines[f][i].q
Noted ==
  \A f \in Sessions : \A i \in DOMAIN lines[f] :
    /\ lines[f][i].q <= asked
    /\ \A k \in 0..(i - 1) : Question(f, k) < lines[f][i].q =>
         \E b \in (k + 1)..i : lines[f][b].kind = "break"

(* What a relay may still add to the message it grows was asked above it.  *)
AskedAbove(e, m) == IsLine(e) => lines[e[1]][e[2]].q < m
Anchored(p) ==
  p.grow # 0 =>
    /\ \A i \in DOMAIN p.batch : AskedAbove(p.batch[i], p.grow)
    /\ \A i \in DOMAIN p.pend : AskedAbove(p.pend[i], p.grow) \/ HasTurnBreak(p.pend)
    /\ HasTurnBreak(p.pend) \/ p.file = 0 \/ Question(p.file, p.pos) < p.grow
AnswerInv == Typed /\ Noted /\ AnswerBelowQuestion /\ \A r \in Relays : Anchored(relay[r])

(* How far a relay has come with its own session. *)
Reach(p) == IF p.pc \in {"final", "over"} THEN MaxLines + 1 ELSE IF p.file = p.s THEN p.pos ELSE 0
Own(p, e) == e[1] = p.s
Ascending(p, es) == \A i, j \in DOMAIN es : i < j /\ Own(p, es[i]) /\ Own(p, es[j]) => es[i][2] < es[j][2]
Above(p, D, es) == \A d \in D : \A i \in DOMAIN es : Own(p, d) /\ Own(p, es[i]) => d[2] < es[i][2]
Reached(p, es) == \A i \in DOMAIN es : Own(p, es[i]) => es[i][2] <= Reach(p)
Arranged(p, D, P) == \* with D shown, in the messages P
  /\ Ascending(p, p.pend) /\ Ascending(p, p.batch)
  /\ Above(p, D \cup ToSet(p.batch), p.pend)
  /\ Above(p, D, p.batch) \/ (~p.edit /\ ToSet(p.batch) \subseteq D)
  /\ Reached(p, p.pend) /\ Reached(p, p.batch) /\ \A d \in D : Own(p, d) => d[2] <= Reach(p)
  /\ p.grow # 0 => \A m \in P : m <= p.grow

(* With L the places of edits whose answer was lost, a relay shows in order *)
(* what it shows, and repeats what such an edit has shown; so will the      *)
(* batch that is to be sent again.  All of it while no file is begun again. *)
Firm(r, L) == {ItemAt(x) : x \in Places(r) \ L}
Mended(r, L) == {ItemAt(x) : x \in Places(r) \cap L}
Neat(r, s, L) ==
  \A x, y \in Places(r) :
    ItemAt(x)[1] = s /\ ItemAt(y)[1] = s /\ Before(x, y) =>
      \/ ItemAt(x)[2] < ItemAt(y)[2]
      \/ x \in L /\ \E o \in L : Before(o, y) /\ ItemAt(o) = ItemAt(y)
Fits(p, D, F, R) == Above(p, D, p.batch) \/ (Above(p, F, p.batch) /\ ToSet(p.batch) \subseteq R)
Ordered(r, p) ==
  /\ p.lost \subseteq Places(r) /\ Neat(r, p.s, p.lost) /\ Arranged(p, Shown(r), Posts(r))
  /\ Fits(p, Shown(r), Firm(r, p.lost), Mended(r, p.lost))
OrderInv == Typed /\ \A r \in Relays : relay[r].again = 0 => Ordered(r, relay[r])

(* Every line a relay has read is out (posted, or lost by a failed send),   *)
(* waits, or is a turn break, which shows nothing; and a relay that has not *)
(* been cancelled closes when its session has ended and has been read.      *)
Out(r) == dropped \cup Shown(r)
Breaks == {e \in Item : IsWhole(e) /\ KindOf(e) = "break"}
Accounted(p, B, D) ==
  p.file # 0 => \A i \in 1..p.pos : <<p.file, i>> \in B \cup D \cup ToSet(p.pend) \cup ToSet(p.batch)
Finished(p) ==
  p.pc # "off" =>
    /\ sess[p.s].kind = "plan" => p.file = 0
    /\ p.pc \in {"outcome", "final", "over"} /\ ~p.cancelled =>
         ~sess[p.s].live /\ (p.file # 0 => p.pos = Whole(p.file))
    /\ p.pc = "over" /\ ~p.cancelled => p.pend = <<>>
SkipInv == Typed /\ \A r \in Relays : Accounted(relay[r], Breaks, Out(r)) /\ Finished(relay[r])

-----------------------------------------------------------------------------
(* The sessions and their transcripts.                                      *)

(* The limits of the instance. *)
LEMMA Limits == /\ MaxSessions \in Nat /\ MaxRelays \in Nat /\ MaxLines \in Nat
                /\ Sessions = 1..MaxSessions /\ Relays = 1..MaxRelays
BY WatchAssumption DEF Sessions, Relays

LEMMA WholeTyped ==
  ASSUME Sessioned, NEW f \in Sessions
  PROVE  /\ Whole(f) \in Nat /\ Whole(f) <= Len(lines[f]) /\ Whole(f) <= MaxLines
         /\ lines[f] \in Seq(Line) /\ Len(lines[f]) \in Nat /\ DOMAIN lines[f] = 1..Len(lines[f])
         /\ Len(lines[f]) <= MaxLines /\ MaxLines \in Nat
<1>1. /\ lines[f] \in Seq(Line) /\ Len(lines[f]) \in Nat /\ DOMAIN lines[f] = 1..Len(lines[f])
      /\ Len(lines[f]) <= MaxLines /\ MaxLines \in Nat
  BY WatchAssumption DEF Sessioned
<1>2. CASE half /\ f = count
  <2>1. Len(lines[f]) > 0 /\ Whole(f) = Len(lines[f]) - 1
    BY <1>1, <1>2 DEF Sessioned, Whole
  <2> QED BY <1>1, <2>1
<1>3. CASE ~(half /\ f = count)
  <2>1. Whole(f) = Len(lines[f]) - 0
    BY <1>3, Zenon DEF Whole
  <2>2. Whole(f) = Len(lines[f])
    BY <1>1, <2>1
  <2> QED BY <1>1, <2>2
<1> QED BY <1>2, <1>3

(* The same of any state, and so of the next one. *)
Ruled == \A f \in Sessions : Whole(f) \in Nat /\ \A i \in DOMAIN lines[f] : i \in 1..MaxLines
LEMMA RuledNow == Sessioned => Ruled
<1> SUFFICES ASSUME Sessioned, NEW f \in Sessions
             PROVE  Whole(f) \in Nat /\ \A i \in DOMAIN lines[f] : i \in 1..MaxLines
  BY DEF Ruled
<1> QED BY WholeTyped
LEMMA RuledNext == Sessioned' => Ruled'
BY RuledNow, PTL

(* Transcripts grow: what was a whole line stays one and stays what it is.  *)
LinesGrow ==
  \A f \in Sessions :
    /\ Whole(f) <= Whole(f)'
    /\ \A i \in 1..Whole(f) : i \in DOMAIN lines'[f] /\ lines'[f][i] = lines[f][i]

(* One more line at the end of the running session's transcript. *)
Writes(l, h) ==
  /\ Live /\ ~half /\ Len(lines[count]) < MaxLines
  /\ lines' = [lines EXCEPT ![count] = Append(lines[count], l)] /\ half' = h
  /\ UNCHANGED <<sess, count>>

LEMMA WritesGrow ==
  ASSUME Sessioned, NEW l \in Line, NEW h \in BOOLEAN, Writes(l, h)
  PROVE  Sessioned' /\ LinesGrow
<1> DEFINE t == lines[count]
<1>1. count \in Sessions /\ t \in Seq(Line) /\ Len(t) \in Nat /\ DOMAIN t = 1..Len(t) /\ MaxLines \in Nat
  BY WholeTyped DEF Sessioned
<1>2. /\ Append(t, l) \in Seq(Line) /\ Len(Append(t, l)) = Len(t) + 1 /\ DOMAIN Append(t, l) = 1..(Len(t) + 1)
      /\ \A i \in 1..Len(t) : Append(t, l)[i] = t[i]
  BY <1>1
<1>3. lines'[count] = Append(t, l) /\ \A f \in Sessions \ {count} : lines'[f] = lines[f]
  BY <1>1 DEF Writes, Sessioned
<1>4. lines' \in [Sessions -> Seq(Line)]
  BY <1>1, <1>2 DEF Writes, Sessioned
<1> HIDE DEF t
<1>5. \A s \in Sessions : Len(lines'[s]) <= MaxLines
  BY <1>1, <1>2, <1>3 DEF Writes, Sessioned, t
<1>6. lines'[count] # <<>> /\ sess[count].live /\ UNCHANGED <<sess, count>> /\ half' \in BOOLEAN
  BY <1>1, <1>2, <1>3 DEF Writes, Live
<1>7. Sessioned'
  BY <1>4, <1>5, <1>6 DEF Sessioned
<1>8. ASSUME NEW f \in Sessions
      PROVE  /\ Whole(f) <= Whole(f)'
             /\ \A i \in 1..Whole(f) : i \in DOMAIN lines'[f] /\ lines'[f][i] = lines[f][i]
  <2>1. CASE f = count
    <3>1. Whole(f) = Len(t)
      BY <1>1, <2>1 DEF Whole, Writes, t
    <3>2. Whole(f)' \in {Len(t), Len(t) + 1}
      BY <1>1, <1>2, <1>3, <1>6, <2>1 DEF Whole
    <3>3. Whole(f) <= Whole(f)'
      BY <1>1, <3>1, <3>2
    <3>4. \A i \in 1..Whole(f) : i \in DOMAIN lines'[f] /\ lines'[f][i] = lines[f][i]
      BY <1>1, <1>2, <1>3, <2>1, <3>1 DEF t
    <3> QED BY <3>3, <3>4
  <2>2. CASE f # count
    BY <1>3, <1>6, <2>2, WholeTyped DEF Whole
  <2> QED BY <2>1, <2>2
<1> QED BY <1>7, <1>8 DEF LinesGrow

LEMMA AgentGrows ==
  ASSUME Sessioned, chat \in Seq(Post),
         \/ \E k \in Kinds : Starts(k)
         \/ \E h \in BOOLEAN : AgentWrites(h)
         \/ EndsLine \/ BridgeTypes
         \/ \E x \in {"open", "done"} : SessionEnds(x)
         \/ \E s \in Sessions, x \in {"merged", "failed"} : Merges(s, x)
         \/ UNCHANGED agent
  PROVE  Sessioned' /\ LinesGrow /\ count' \in {count, count + 1}
<1>0. count \in Sessions /\ MaxSessions \in Nat
  BY WatchAssumption DEF Sessioned
<1>1. CASE \E k \in Kinds : Starts(k)
  <2>1. PICK k \in Kinds : Starts(k)
    BY <1>1
  <2>2. UNCHANGED <<lines, half>> /\ count' = count + 1 /\ ~Live /\ count < MaxSessions
    BY <2>1 DEF Starts
  <2>b. ~half
    BY <1>0, <2>2 DEF Live, Sessioned, Sessions
  <2>a. count + 1 \in Sessions
    BY <1>0, <2>2 DEF Sessions
  <2> DEFINE e == [Absent EXCEPT !.kind = k, !.live = TRUE]
  <2>3. e \in Session
    BY WatchAssumption DEF Session, Absent
  <2>4. sess' = [sess EXCEPT ![count + 1] = e] /\ ~Live
    BY <2>1 DEF Starts
  <2> HIDE DEF e
  <2>5. sess' \in [Sessions -> Session] /\ \A s \in Sessions : sess'[s].live => s = count + 1
    BY <1>0, <2>a, <2>3, <2>4 DEF Sessioned, Live, Sessions
  <2>6. Sessioned'
    BY <2>2, <2>a, <2>b, <2>5 DEF Sessioned
  <2>7. LinesGrow
    BY <2>2, <2>b, WholeTyped DEF LinesGrow, Whole
  <2> QED BY <2>2, <2>6, <2>7
<1>2. CASE \E h \in BOOLEAN : AgentWrites(h)
  <2>1. PICK h \in BOOLEAN : AgentWrites(h)
    BY <1>2
  <2>2. LastQuestion(count) \in Nat
    <3>1. lines[count] \in Seq(Line) /\ (lines[count] # <<>> => lines[count][Len(lines[count])] \in Line)
      BY <1>0, WholeTyped
    <3> QED BY <3>1 DEF LastQuestion, Line
  <2>3. Writes([kind |-> "text", q |-> LastQuestion(count)], h)
    BY <2>1 DEF AgentWrites, Writes
  <2> QED BY <2>1, <2>2, <2>3, WritesGrow DEF Line, Writes
<1>3. CASE BridgeTypes
  <2>1. PICK i \in DOMAIN chat : lines' = [lines EXCEPT ![count] = Append(lines[count], [kind |-> "break", q |-> i])]
    BY <1>3 DEF BridgeTypes
  <2>a. i \in Nat
    BY <2>1
  <2>2. Writes([kind |-> "break", q |-> i], FALSE)
    BY <1>3, <2>1 DEF BridgeTypes, Writes, Sessioned
  <2> QED BY <2>a, <2>2, WritesGrow DEF Line, Writes
<1>4. CASE EndsLine
  <2>1. Sessioned' /\ UNCHANGED <<lines, count>> /\ half /\ ~half'
    BY <1>4 DEF EndsLine, Sessioned
  <2> QED BY <2>1, WholeTyped DEF LinesGrow, Whole
<1>5. CASE \E x \in {"open", "done"} : SessionEnds(x)
  <2>1. PICK x \in {"open", "done"} : SessionEnds(x)
    BY <1>5
  <2> DEFINE t == lines[count]
  <2>2. t \in Seq(Line) /\ Len(t) \in Nat /\ DOMAIN t = 1..Len(t) /\ (half => Len(t) > 0)
    BY <1>0, WholeTyped DEF Sessioned
  <2>3. half => /\ Front(t) \in Seq(Line) /\ Len(Front(t)) = Len(t) - 1 /\ DOMAIN Front(t) = 1..(Len(t) - 1)
                /\ \A i \in 1..(Len(t) - 1) : Front(t)[i] = t[i]
    BY <2>2 DEF Front
  <2>4. half' = FALSE /\ UNCHANGED count /\ lines' = IF half THEN [lines EXCEPT ![count] = Front(t)] ELSE lines
    BY <2>1 DEF SessionEnds
  <2>5. /\ lines' \in [Sessions -> Seq(Line)] /\ lines'[count] = (IF half THEN Front(t) ELSE t)
        /\ \A f \in Sessions \ {count} : lines'[f] = lines[f]
    BY <1>0, <2>2, <2>3, <2>4 DEF Sessioned
  <2> HIDE DEF t
  <2>6. \A s \in Sessions : Len(lines'[s]) <= MaxLines
    <3>1. Len(t) <= MaxLines /\ MaxLines \in Nat
      BY <1>0, WholeTyped DEF t
    <3>2. Len(lines'[count]) <= MaxLines
      <4>1. CASE half
        <5>1. lines'[count] = Front(t) /\ Len(Front(t)) = Len(t) - 1
          BY <2>3, <2>5, <4>1, Zenon
        <5> QED BY <2>2, <3>1, <5>1
      <4>2. CASE ~half
        BY <2>5, <3>1, <4>2
      <4> QED BY <4>1, <4>2
    <3> QED BY <2>5, <3>2 DEF Sessioned
  <2>7. sess' \in [Sessions -> Session] /\ \A s \in Sessions : ~sess'[s].live
    <3> DEFINE m == IF x = "done" THEN "pending" ELSE sess[count].merge
               e == [sess[count] EXCEPT !.live = FALSE, !.result = x, !.merge = m]
    <3>1. sess[count] \in Session
      BY <1>0 DEF Sessioned
    <3>2. e \in Session /\ ~e.live
      BY <3>1 DEF Session
    <3>3. sess' = [sess EXCEPT ![count] = e]
      BY <2>1, <3>1 DEF SessionEnds, Session, Sessioned
    <3> HIDE DEF e
    <3> QED BY <1>0, <3>2, <3>3 DEF Sessioned
  <2>8. Sessioned'
    BY <2>4, <2>5, <2>6, <2>7 DEF Sessioned
  <2>9. ASSUME NEW f \in Sessions
        PROVE  /\ Whole(f) <= Whole(f)'
               /\ \A i \in 1..Whole(f) : i \in DOMAIN lines'[f] /\ lines'[f][i] = lines[f][i]
    <3>1. CASE f = count
      <4>1. CASE half
        <5>1. Whole(f) = Len(t) - 1 /\ Whole(f)' = Len(t) - 1 /\ lines'[f] = Front(t)
          <6>1. Whole(f) = Len(t) - 1 /\ lines'[f] = Front(t)
            BY <2>5, <3>1, <4>1 DEF Whole, t
          <6>2. Whole(f)' = Len(lines'[f]) - 0
            BY <2>4, Zenon DEF Whole
          <6>3. Len(Front(t)) = Len(t) - 1
            BY <2>3, <4>1, Zenon
          <6>4. Len(lines'[f]) = Len(t) - 1
            BY <6>1, <6>3
          <6> QED BY <2>2, <6>1, <6>2, <6>4
        <5> QED BY <2>2, <2>3, <3>1, <4>1, <5>1 DEF t
      <4>2. CASE ~half
        <5>1. Whole(f) = Len(t) /\ Whole(f)' = Len(t) /\ lines'[f] = t
          BY <2>2, <2>4, <2>5, <3>1, <4>2 DEF Whole, t
        <5> QED BY <2>2, <3>1, <5>1 DEF t
      <4> QED BY <4>1, <4>2
    <3>2. CASE f # count
      BY <2>4, <2>5, <3>2, WholeTyped DEF Whole
    <3> QED BY <3>1, <3>2
  <2> QED BY <2>4, <2>8, <2>9 DEF LinesGrow
<1>6. CASE \E s \in Sessions, x \in {"merged", "failed"} : Merges(s, x)
  <2>1. PICK s \in Sessions, x \in {"merged", "failed"} : Merges(s, x)
    BY <1>6
  <2>2. UNCHANGED <<lines, half, count>>
    BY <2>1 DEF Merges
  <2>3. sess' \in [Sessions -> Session] /\ \A z \in Sessions : sess'[z].live = sess[z].live
    <3> DEFINE e == [sess[s] EXCEPT !.merge = x]
    <3>1. sess[s] \in Session
      BY DEF Sessioned
    <3>2. e \in Session /\ e.live = sess[s].live
      BY <3>1 DEF Session
    <3>3. sess' = [sess EXCEPT ![s] = e]
      BY <2>1 DEF Merges
    <3> HIDE DEF e
    <3> QED BY <3>2, <3>3 DEF Sessioned
  <2>4. Sessioned'
    BY <2>2, <2>3 DEF Sessioned
  <2> QED BY <2>2, <2>4, WholeTyped DEF LinesGrow, Whole
<1>7. CASE UNCHANGED agent
  BY <1>7, WholeTyped DEF agent, Sessioned, LinesGrow, Whole
<1> QED BY <1>1, <1>2, <1>3, <1>4, <1>5, <1>6, <1>7

(* A session that has ended stays as it is. *)
Settled ==
  \A f \in 1..count : /\ sess'[f].kind = sess[f].kind
                      /\ ~sess[f].live => ~sess'[f].live /\ Whole(f)' = Whole(f)

LEMMA Ended ==
  ASSUME Sessioned, chat \in Seq(Post), Next \/ UNCHANGED vars, LinesGrow
  PROVE  Settled
<1> SUFFICES ASSUME NEW f \in 1..count
             PROVE  /\ sess'[f].kind = sess[f].kind
                    /\ ~sess[f].live => ~sess'[f].live /\ Whole(f)' = Whole(f)
  BY DEF Settled
<1>a. MaxSessions \in Nat /\ count \in Sessions
  BY WatchAssumption DEF Sessioned
<1>0. count \in Nat /\ f \in Sessions /\ count \in Sessions /\ sess[f] \in Session
  BY <1>a DEF Sessioned, Sessions
<1>1. CASE \E k \in Kinds : Starts(k)
  <2>1. UNCHANGED <<lines, half>> /\ count' = count + 1 /\ ~Live /\ count < MaxSessions
    BY <1>1 DEF Starts
  <2>2. sess'[f] = sess[f]
    BY <1>0, <1>1 DEF Starts, Sessioned
  <2>3. ~half
    BY <1>0, <2>1 DEF Live, Sessioned, Sessions
  <2> QED BY <1>0, <2>1, <2>2, <2>3 DEF Whole
<1>2. CASE (\E h \in BOOLEAN : AgentWrites(h)) \/ BridgeTypes
  <2>1. UNCHANGED <<sess, count>> /\ Live
    BY <1>2 DEF AgentWrites, BridgeTypes
  <2>2. ~sess[f].live => f # count
    BY <2>1 DEF Live
  <2>3. f # count => lines'[f] = lines[f]
    BY <1>0, <1>2 DEF AgentWrites, BridgeTypes, Sessioned
  <2> QED BY <1>0, <2>1, <2>2, <2>3 DEF Whole
<1>3. CASE EndsLine
  <2>1. UNCHANGED <<sess, count, lines>> /\ half
    BY <1>3 DEF EndsLine
  <2>2. ~sess[f].live => f # count
    BY <2>1 DEF Sessioned
  <2> QED BY <1>0, <2>1, <2>2 DEF Whole
<1>4. CASE \E x \in {"open", "done"} : SessionEnds(x)
  <2>1. UNCHANGED count /\ Live
    BY <1>4 DEF SessionEnds
  <2>2. f # count => lines'[f] = lines[f] /\ sess'[f] = sess[f]
    BY <1>0, <1>4 DEF SessionEnds, Sessioned
  <2>3. sess'[count].kind = sess[count].kind /\ sess[count].live
    BY <1>0, <1>4 DEF SessionEnds, Sessioned, Session, Live
  <2> QED BY <1>0, <2>1, <2>2, <2>3 DEF Whole
<1>5. CASE \E s \in Sessions, x \in {"merged", "failed"} : Merges(s, x)
  <2>1. UNCHANGED <<count, lines, half>> /\ sess'[f].kind = sess[f].kind /\ sess'[f].live = sess[f].live
    BY <1>0, <1>5 DEF Merges, Sessioned, Session
  <2> QED BY <2>1 DEF Whole
<1>6. CASE UNCHANGED agent
  BY <1>6 DEF agent, Whole
<1>7. \/ \E k \in Kinds : Starts(k)
      \/ \E h \in BOOLEAN : AgentWrites(h)
      \/ EndsLine \/ BridgeTypes
      \/ \E x \in {"open", "done"} : SessionEnds(x)
      \/ \E s \in Sessions, x \in {"merged", "failed"} : Merges(s, x)
      \/ UNCHANGED agent
  BY DEF Next, vars, agent, UserPosts, BreakGrowth, SendsReply, Reconcile, BridgeStops, Tailing, Sender, Drain,
         Relocate, TailEnds, Restarts, OutcomeMarker, RelayReturns, Flush, EditMessage, EditFails, SendMessage, SendFails
<1> QED BY <1>1, <1>2, <1>3, <1>4, <1>5, <1>6, <1>7

-----------------------------------------------------------------------------
(* Lists of what is relayed.                                                *)

LEMMA Joined ==
  ASSUME NEW S, NEW a \in Seq(S), NEW b \in Seq(S)
  PROVE  /\ a \o b \in Seq(S) /\ Len(a \o b) = Len(a) + Len(b)
         /\ DOMAIN (a \o b) = 1..(Len(a) + Len(b)) /\ DOMAIN a = 1..Len(a) /\ DOMAIN b = 1..Len(b)
         /\ Len(a) \in Nat /\ Len(b) \in Nat
         /\ \A i \in DOMAIN a : i \in DOMAIN (a \o b) /\ (a \o b)[i] = a[i]
         /\ \A i \in DOMAIN b : Len(a) + i \in DOMAIN (a \o b) /\ (a \o b)[Len(a) + i] = b[i]
         /\ \A i \in DOMAIN (a \o b) : i \in DOMAIN a \/ (i - Len(a) \in DOMAIN b /\ (a \o b)[i] = b[i - Len(a)])
<1>1. /\ a \o b \in Seq(S) /\ Len(a \o b) = Len(a) + Len(b) /\ Len(a) \in Nat /\ Len(b) \in Nat
      /\ DOMAIN a = 1..Len(a) /\ DOMAIN b = 1..Len(b)
  OBVIOUS
<1>2. DOMAIN (a \o b) = 1..(Len(a) + Len(b))
  BY <1>1
<1>3. \A i \in 1..(Len(a) + Len(b)) : (a \o b)[i] = IF i <= Len(a) THEN a[i] ELSE b[i - Len(a)]
  OBVIOUS
<1> HIDE <1>2
<1>4. \A i \in DOMAIN a : i \in DOMAIN (a \o b) /\ (a \o b)[i] = a[i]
  BY <1>1, <1>2, <1>3
<1>5. \A i \in DOMAIN b : Len(a) + i \in DOMAIN (a \o b) /\ (a \o b)[Len(a) + i] = b[i]
  BY <1>1, <1>2, <1>3
<1>6. \A i \in DOMAIN (a \o b) : i \in DOMAIN a \/ (i - Len(a) \in DOMAIN b /\ (a \o b)[i] = b[i - Len(a)])
  BY <1>1, <1>2, <1>3
<1> QED BY <1>1, <1>2, <1>4, <1>5, <1>6

(* What is joined consists of the two parts. *)
LEMMA JoinedItems ==
  ASSUME NEW S, NEW a \in Seq(S), NEW b \in Seq(S)
  PROVE  ToSet(a \o b) = ToSet(a) \cup ToSet(b)
<1> DEFINE c == a \o b
<1>1. /\ \A i \in DOMAIN a : i \in DOMAIN c /\ c[i] = a[i]
      /\ \A i \in DOMAIN b : Len(a) + i \in DOMAIN c /\ c[Len(a) + i] = b[i]
      /\ \A i \in DOMAIN c : i \in DOMAIN a \/ (i - Len(a) \in DOMAIN b /\ c[i] = b[i - Len(a)])
  BY Joined
<1> HIDE DEF c
<1>2. ToSet(a) \cup ToSet(b) \subseteq ToSet(c)
  BY <1>1 DEF ToSet
<1>3. ToSet(c) \subseteq ToSet(a) \cup ToSet(b)
  BY <1>1 DEF ToSet
<1> QED BY <1>2, <1>3 DEF c

LEMMA Markers ==
  ASSUME Sessioned, NEW s \in Sessions
  PROVE  /\ Start(s) \in Item /\ IsWhole(Start(s)) /\ ~IsLine(Start(s))
         /\ Outcome(s) \in Item /\ IsWhole(Outcome(s)) /\ ~IsLine(Outcome(s))
BY WholeTyped DEF Start, Outcome, Item, IsWhole, IsLine

(* A whole line is a line; a marker never becomes one. *)
LEMMA WholeItem ==
  ASSUME Sessioned, NEW e \in Item, IsWhole(e)
  PROVE  /\ IsLine(e) <=> e[2] \in 1..Whole(e[1])
         /\ e[1] \in Sessions /\ e[2] \in Nat /\ e[2] <= MaxLines + 1
<1>1. e[1] \in Sessions /\ e[2] \in Nat
  BY DEF Item
<1>2. /\ Whole(e[1]) \in Nat /\ Whole(e[1]) <= Len(lines[e[1]]) /\ Len(lines[e[1]]) <= MaxLines
      /\ DOMAIN lines[e[1]] = 1..Len(lines[e[1]]) /\ MaxLines \in Nat /\ Len(lines[e[1]]) \in Nat
  BY <1>1, WholeTyped
<1>3. e[2] \in {0, MaxLines + 1} \cup 1..Whole(e[1])
  BY DEF IsWhole
<1> HIDE DEF Whole
<1>4. e[2] <= MaxLines + 1
  BY <1>1, <1>2, <1>3
<1>5. e[2] \in 1..Len(lines[e[1]]) <=> e[2] \in 1..Whole(e[1])
  BY <1>1, <1>2, <1>3
<1> QED BY <1>1, <1>2, <1>4, <1>5 DEF IsLine

LEMMA ItemGrows ==
  ASSUME Sessioned, Sessioned', LinesGrow, NEW e \in Item, IsWhole(e)
  PROVE  /\ IsWhole(e)' /\ KindOf(e)' = KindOf(e)
         /\ \A m : AskedAbove(e, m) => AskedAbove(e, m)'
<1>1. e[1] \in Sessions /\ e[2] \in Nat /\ (IsLine(e) <=> e[2] \in 1..Whole(e[1]))
  BY WholeItem
<1>2. e[2] \in {0, MaxLines + 1} \cup 1..Whole(e[1]) /\ Whole(e[1]) \in Nat /\ Whole(e[1])' \in Nat
  <2>1. Whole(e[1])' \in Nat
    BY <1>1, RuledNext DEF Ruled
  <2> QED BY <1>1, <2>1, WholeTyped DEF IsWhole
<1>3. /\ Whole(e[1]) <= Whole(e[1])'
      /\ \A i \in 1..Whole(e[1]) : i \in DOMAIN lines'[e[1]] /\ lines'[e[1]][i] = lines[e[1]][i]
  BY <1>1 DEF LinesGrow
<1>4. IsWhole(e)'
  BY <1>1, <1>2, <1>3 DEF IsWhole
<1>5. CASE e[2] \in 1..Whole(e[1])
  <2>1. IsLine(e) /\ IsLine(e)' /\ lines'[e[1]][e[2]] = lines[e[1]][e[2]]
    BY <1>1, <1>3, <1>5 DEF IsLine
  <2> QED BY <1>4, <2>1 DEF KindOf, AskedAbove
<1>6. CASE e[2] \in {0, MaxLines + 1}
  <2>1. ~IsLine(e) /\ ~IsLine(e)'
    <3>1. /\ \A i \in DOMAIN lines[e[1]] : i \in 1..MaxLines
          /\ \A i \in DOMAIN lines'[e[1]] : i \in 1..MaxLines
      BY <1>1, RuledNow, RuledNext DEF Ruled
    <3> QED BY <1>6, <3>1, Limits DEF IsLine
  <2> QED BY <1>4, <2>1 DEF KindOf, AskedAbove
<1> QED BY <1>2, <1>5, <1>6

-----------------------------------------------------------------------------
(* What holds of a relay's record goes on to hold of it.                    *)

LEMMA WholesGrow ==
  ASSUME Sessioned, Sessioned', LinesGrow, NEW es \in Seq(Item), Wholes(es)
  PROVE  Wholes(es)' /\ (HasTurnBreak(es) => HasTurnBreak(es)')
<1>1. \A i \in DOMAIN es : es[i] \in Item
  OBVIOUS
<1>2. \A i \in DOMAIN es : IsWhole(es[i])' /\ KindOf(es[i])' = KindOf(es[i])
  BY <1>1, ItemGrows DEF Wholes
<1> QED BY <1>2 DEF Wholes, HasTurnBreak

Grows ==
  /\ Sessioned /\ Sessioned' /\ LinesGrow
  /\ count' \in {count, count + 1} /\ made \in Nat /\ made' \in {made, made + 1}
  /\ \A m \in DOMAIN chat : m \in DOMAIN chat' /\ chat'[m].by = chat[m].by

LEMMA RelayingGrows ==
  ASSUME Grows, NEW r \in Relays, NEW p \in Relay, Relaying(r, p)
  PROVE  Relaying(r, p)'
<1>1. /\ p.s \in Nat /\ p.file \in 0..MaxSessions /\ p.pos \in Nat /\ p.pend \in Seq(Item) /\ p.batch \in Seq(Item)
      /\ p.grow \in Nat
  BY Limits DEF Relay
<1>2. /\ count \in Nat /\ count' \in {count, count + 1} /\ made \in Nat /\ made' \in {made, made + 1}
      /\ r \in Nat
  BY Limits DEF Grows, Sessioned
<1>3. p.pc # "off" => p.s \in 1..count' /\ r <= made'
  BY <1>1, <1>2 DEF Relaying
<1>4. p.file # 0 => p.file \in {p.s - 1, p.s} /\ p.pos <= Whole(p.file)'
  <2>1. SUFFICES ASSUME p.file # 0
                 PROVE  p.pos <= Whole(p.file)'
    BY DEF Relaying
  <2>2. p.file \in Sessions
    BY <1>1, <2>1, Limits
  <2>3. Whole(p.file) \in Nat /\ Whole(p.file)' \in Nat /\ Whole(p.file) <= Whole(p.file)'
    BY <2>2, RuledNow, RuledNext DEF Ruled, Grows, LinesGrow
  <2>4. p.pos <= Whole(p.file)
    BY <2>1 DEF Relaying
  <2> HIDE DEF Whole
  <2> QED BY <1>1, <2>3, <2>4
<1>5. Wholes(p.pend)' /\ Wholes(p.batch)'
  BY <1>1, WholesGrow DEF Relaying, Grows
<1>6. p.grow # 0 => p.grow \in DOMAIN chat' /\ chat'[p.grow].by = r
  BY DEF Relaying, Grows
<1> QED BY <1>3, <1>4, <1>5, <1>6 DEF Relaying

LEMMA AnchoredGrows ==
  ASSUME Grows, NEW r \in Relays, NEW p \in Relay, Relaying(r, p), Anchored(p)
  PROVE  Anchored(p)'
<1>1. SUFFICES ASSUME p.grow # 0
               PROVE  /\ \A i \in DOMAIN p.batch : AskedAbove(p.batch[i], p.grow)'
                      /\ \A i \in DOMAIN p.pend : AskedAbove(p.pend[i], p.grow)' \/ HasTurnBreak(p.pend)'
                      /\ HasTurnBreak(p.pend)' \/ p.file = 0 \/ Question(p.file, p.pos)' < p.grow
  BY DEF Anchored
<1>2. /\ p.file \in 0..MaxSessions /\ p.pos \in Nat /\ p.pend \in Seq(Item) /\ p.batch \in Seq(Item)
      /\ p.grow \in Nat
  BY Limits DEF Relay
<1>3. /\ \A i \in DOMAIN p.batch : p.batch[i] \in Item /\ IsWhole(p.batch[i])
      /\ \A i \in DOMAIN p.pend : p.pend[i] \in Item /\ IsWhole(p.pend[i])
  BY <1>2 DEF Relaying, Wholes
<1>4. \A i \in DOMAIN p.batch : AskedAbove(p.batch[i], p.grow)'
  BY <1>1, <1>3, ItemGrows DEF Anchored, Grows
<1>5. HasTurnBreak(p.pend) => HasTurnBreak(p.pend)'
  BY <1>2, WholesGrow DEF Relaying, Grows
<1>6. \A i \in DOMAIN p.pend : AskedAbove(p.pend[i], p.grow)' \/ HasTurnBreak(p.pend)'
  BY <1>1, <1>3, <1>5, ItemGrows DEF Anchored, Grows
<1>7. ASSUME p.file # 0
      PROVE  Question(p.file, p.pos)' = Question(p.file, p.pos)
  <2>1. p.file \in Sessions
    BY <1>2, <1>7, Limits
  <2>2. p.pos = 0 \/ p.pos \in 1..Whole(p.file)
    <3>1. p.pos <= Whole(p.file) /\ Whole(p.file) \in Nat
      BY <1>7, <2>1, RuledNow DEF Relaying, Ruled, Grows
    <3> HIDE DEF Whole
    <3> QED BY <1>2, <3>1
  <2> QED BY <2>1, <2>2 DEF Question, Grows, LinesGrow
<1> QED BY <1>1, <1>4, <1>5, <1>6, <1>7 DEF Anchored

-----------------------------------------------------------------------------
(* The steps of the tailer, on a relay's record.                            *)

Posting(p, q) == q.s = p.s /\ q.batch = p.batch /\ q.edit = p.edit /\ q.grow = p.grow /\ q.lost = p.lost
Lines(p) == [i \in 1..(Whole(p.file) - p.pos) |-> <<p.file, p.pos + i>>]

Rewinds(p, q) ==
  /\ Posting(p, q) /\ p.pc = "tail" /\ q.pc = "tail" /\ q.cancelled = p.cancelled
  /\ sess[p.s].kind # "plan"
  /\ q.file = Freshest(p.s) /\ q.file # p.file /\ q.pos = 0 /\ q.pend = p.pend /\ q.again = p.again
Renews(p, q) == \* its file vanished or was cut
  /\ Posting(p, q) /\ p.pc = "tail" /\ q.pc = "tail" /\ q.cancelled = p.cancelled
  /\ q.file \in {0, p.file} /\ q.pos = 0 /\ q.pend = p.pend /\ q.again # 0
Reads(p, q) ==
  /\ Posting(p, q) /\ p.pc = "tail" /\ q.pc = "tail" /\ q.cancelled = p.cancelled
  /\ sess[p.s].kind # "plan"
  /\ p.file # 0 /\ q.file = p.file /\ q.pos = Whole(p.file) /\ q.pend = p.pend \o Lines(p)
  /\ q.again = p.again

LEMMA FreshestOf ==
  ASSUME Sessioned, NEW s \in Sessions
  PROVE  /\ Freshest(s) # 0 => Freshest(s) \in Sessions /\ Freshest(s) \in {s - 1, s}
         /\ Freshest(s) \in 0..MaxSessions
         /\ lines[s] # <<>> => Freshest(s) = s
BY Limits DEF Freshest, Exists

LEMMA SwitchedRewinds ==
  ASSUME Sessioned, NEW r \in Relays, NEW p \in Relay, Relaying(r, p), p.pc = "tail", sess[p.s].kind # "plan",
         Freshest(p.s) # p.file
  PROVE  Switched(p) \in Relay /\ Rewinds(p, Switched(p))
<1>1. p.s \in Sessions
  BY Limits DEF Relaying, Relay, Sessioned
<1>2. Freshest(p.s) \in 0..MaxSessions
  BY <1>1, FreshestOf
<1>3. Switched(p) \in Relay
  BY <1>2 DEF Switched, Relay
<1>4. Rewinds(p, Switched(p))
  BY DEF Rewinds, Switched, Relay, Posting
<1> QED BY <1>3, <1>4

LEMMA LinesTyped ==
  ASSUME Sessioned, NEW p \in Relay, p.file # 0, p.pos <= Whole(p.file)
  PROVE  /\ Lines(p) \in Seq(Item) /\ DOMAIN Lines(p) = 1..(Whole(p.file) - p.pos)
         /\ p.file \in Sessions /\ p.pos \in Nat /\ Whole(p.file) \in Nat
         /\ \A i \in DOMAIN Lines(p) : /\ i \in 1..(Whole(p.file) - p.pos)
                                       /\ Lines(p)[i] = <<p.file, p.pos + i>> /\ IsWhole(Lines(p)[i])
                                       /\ p.pos + i \in 1..Whole(p.file)
<1>1. p.file \in Sessions /\ p.pos \in Nat
  BY Limits DEF Relay
<1>2. Whole(p.file) \in Nat
  BY <1>1, RuledNow DEF Ruled
<1>3. Whole(p.file) - p.pos \in Nat
  BY <1>1, <1>2
<1> HIDE DEF Whole
<1>4. \A i \in 1..(Whole(p.file) - p.pos) : p.pos + i \in 1..Whole(p.file)
  BY <1>1, <1>2, <1>3
<1>5. /\ DOMAIN Lines(p) = 1..(Whole(p.file) - p.pos)
      /\ \A i \in 1..(Whole(p.file) - p.pos) : Lines(p)[i] = <<p.file, p.pos + i>>
  BY DEF Lines
<1>6. \A i \in 1..(Whole(p.file) - p.pos) : <<p.file, p.pos + i>> \in Item
  BY <1>1, <1>4 DEF Item
<1>7. Lines(p) \in Seq(Item)
  BY <1>3, <1>6 DEF Lines
<1>8. \A i \in 1..(Whole(p.file) - p.pos) : IsWhole(<<p.file, p.pos + i>>)
  BY <1>4 DEF IsWhole
<1> QED BY <1>1, <1>2, <1>4, <1>5, <1>7, <1>8

LEMMA DrainedReads ==
  ASSUME Sessioned, NEW r \in Relays, NEW p \in Relay, Relaying(r, p), p.pc = "tail", sess[p.s].kind # "plan",
         p.file # 0
  PROVE  Drained(p) \in Relay /\ Reads(p, Drained(p))
<1>1. p.pos <= Whole(p.file)
  BY DEF Relaying
<1>2. Lines(p) \in Seq(Item) /\ Whole(p.file) \in Nat
  BY <1>1, LinesTyped
<1>3. p.pend \in Seq(Item)
  BY DEF Relay
<1>4. p.pend \o Lines(p) \in Seq(Item)
  BY <1>2, <1>3
<1>5. HalfRead(p.file) \in BOOLEAN
  BY DEF HalfRead
<1>6. Drained(p) = [p EXCEPT !.pend = p.pend \o Lines(p), !.pos = Whole(p.file), !.part = HalfRead(p.file)]
  BY DEF Drained, Lines, Relay
<1>7. Drained(p) \in Relay
  BY <1>2, <1>4, <1>5, <1>6 DEF Relay
<1> HIDE DEF Lines
<1>8. Reads(p, Drained(p))
  BY <1>6 DEF Reads, Relay, Posting
<1> QED BY <1>7, <1>8

LEMMA JoinedWholes ==
  ASSUME NEW a \in Seq(Item), NEW b \in Seq(Item)
  PROVE  /\ Wholes(a) /\ Wholes(b) => Wholes(a \o b)
         /\ HasTurnBreak(a) \/ HasTurnBreak(b) => HasTurnBreak(a \o b)
<1> DEFINE c == a \o b
<1>1. /\ \A i \in DOMAIN a : i \in DOMAIN c /\ c[i] = a[i]
      /\ \A i \in DOMAIN b : Len(a) + i \in DOMAIN c /\ c[Len(a) + i] = b[i]
      /\ \A i \in DOMAIN c : i \in DOMAIN a \/ (i - Len(a) \in DOMAIN b /\ c[i] = b[i - Len(a)])
  BY Joined
<1> HIDE DEF c
<1>2. Wholes(a) /\ Wholes(b) => Wholes(c)
  <2>1. SUFFICES ASSUME Wholes(a), Wholes(b), NEW i \in DOMAIN c
                 PROVE  IsWhole(c[i])
    BY DEF Wholes
  <2>2. CASE i \in DOMAIN a
    BY <1>1, <2>1, <2>2 DEF Wholes
  <2>3. CASE i - Len(a) \in DOMAIN b /\ c[i] = b[i - Len(a)]
    BY <2>1, <2>3 DEF Wholes
  <2> QED BY <1>1, <2>2, <2>3
<1>3. HasTurnBreak(a) \/ HasTurnBreak(b) => HasTurnBreak(c)
  BY <1>1 DEF HasTurnBreak
<1> QED BY <1>2, <1>3 DEF c

LEMMA RelayingRewinds ==
  ASSUME Sessioned, NEW r \in Relays, NEW p \in Relay, NEW q \in Relay, Relaying(r, p), Rewinds(p, q)
  PROVE  Relaying(r, q)
<1>1. p.s \in Sessions
  BY Limits DEF Relaying, Rewinds, Relay, Sessioned
<1>2. q.file # 0 => q.file \in {q.s - 1, q.s} /\ q.pos <= Whole(q.file)
  <2>1. q.file # 0 => q.file \in Sessions /\ q.file \in {q.s - 1, q.s}
    BY <1>1, FreshestOf DEF Rewinds, Posting
  <2>2. q.file # 0 => Whole(q.file) \in Nat
    BY <2>1, RuledNow DEF Ruled
  <2> HIDE DEF Whole
  <2> QED BY <2>1, <2>2 DEF Rewinds
<1> QED BY <1>2 DEF Relaying, Rewinds, Posting

LEMMA RenewedTyped ==
  ASSUME Sessioned, NEW r \in Relays, NEW p \in Relay, Relaying(r, p), p.pc = "tail", NEW f \in {0, p.file}
  PROVE  Anew(p, f) \in Relay /\ Renews(p, Anew(p, f))
<1>1. f \in 0..MaxSessions
  BY Limits DEF Relay
<1>2. PICK n \in Nat : n = p.again + 1 /\ n # 0
  BY DEF Relay
<1>3. Anew(p, f) = [p EXCEPT !.file = f, !.pos = 0, !.part = FALSE, !.again = n]
  BY <1>2 DEF Anew
<1>4. Anew(p, f) \in Relay
  <2>1. ASSUME NEW z \in Relay, NEW g \in 0..MaxSessions, NEW m \in Nat
        PROVE  [z EXCEPT !.file = g, !.pos = 0, !.part = FALSE, !.again = m] \in Relay
    BY DEF Relay
  <2>2. [p EXCEPT !.file = f, !.pos = 0, !.part = FALSE, !.again = n] \in Relay
    BY <1>1, <2>1
  <2> QED BY <1>3, <2>2
<1>5. /\ Anew(p, f).file = f /\ Anew(p, f).pos = 0 /\ Anew(p, f).again = n /\ Anew(p, f).s = p.s
      /\ Anew(p, f).pc = p.pc /\ Anew(p, f).cancelled = p.cancelled /\ Anew(p, f).pend = p.pend
      /\ Anew(p, f).batch = p.batch /\ Anew(p, f).edit = p.edit /\ Anew(p, f).grow = p.grow
      /\ Anew(p, f).lost = p.lost
  BY <1>3 DEF Relay
<1> QED BY <1>2, <1>4, <1>5 DEF Renews, Posting

LEMMA RelayingRenews ==
  ASSUME Sessioned, NEW r \in Relays, NEW p \in Relay, NEW q \in Relay, Relaying(r, p), Renews(p, q)
  PROVE  Relaying(r, q)
<1>1. q.file # 0 => q.pos <= Whole(q.file)
  <2>1. q.file # 0 => q.file \in Sessions
    BY Limits DEF Relay
  <2>2. q.file # 0 => Whole(q.file) \in Nat
    BY <2>1, RuledNow DEF Ruled
  <2> HIDE DEF Whole
  <2> QED BY <2>2 DEF Renews
<1> HIDE DEF Whole
<1> QED BY <1>1 DEF Relaying, Renews, Posting

LEMMA RelayingReads ==
  ASSUME Sessioned, NEW r \in Relays, NEW p \in Relay, NEW q \in Relay, Relaying(r, p), Reads(p, q)
  PROVE  Relaying(r, q)
<1>1. p.file # 0 /\ p.pos <= Whole(p.file)
  BY DEF Relaying, Reads
<1>2. /\ Lines(p) \in Seq(Item) /\ Whole(p.file) \in Nat
      /\ \A i \in DOMAIN Lines(p) : IsWhole(Lines(p)[i])
  BY <1>1, LinesTyped
<1>3. p.pend \in Seq(Item)
  BY DEF Relay
<1>4. Wholes(q.pend)
  <2>1. Wholes(p.pend) /\ Wholes(Lines(p)) /\ q.pend = p.pend \o Lines(p)
    BY <1>2 DEF Relaying, Reads, Wholes
  <2> HIDE DEF Lines
  <2> QED BY <1>2, <1>3, <2>1, JoinedWholes
<1>5. q.file # 0 => q.file \in {q.s - 1, q.s} /\ q.pos <= Whole(q.file)
  BY <1>1, <1>2 DEF Relaying, Reads, Posting
<1> HIDE DEF Lines
<1> QED BY <1>4, <1>5 DEF Relaying, Reads, Posting

-----------------------------------------------------------------------------
(* The chat.                                                                *)

LEMMA ChatKept ==
  ASSUME Sessioned, Sessioned', LinesGrow, Chatted, made \in Nat, made' \in {made, made + 1}, UNCHANGED chat
  PROVE  Chatted'
<1>1. ASSUME NEW m \in DOMAIN chat
      PROVE  Wholes(chat[m].items)' /\ chat[m].by <= made'
  <2>1. chat[m] \in Post /\ Wholes(chat[m].items) /\ chat[m].by <= made
    BY DEF Chatted
  <2>2. PICK es : es = chat[m].items
    OBVIOUS
  <2>3. es \in Seq(Item) /\ Wholes(es)
    BY <2>1, <2>2 DEF Post
  <2>4. Wholes(es)'
    BY <2>3, WholesGrow
  <2>5. Wholes(chat[m].items)'
    BY <2>2, <2>4 DEF Wholes, IsWhole, Whole
  <2>6. chat[m].by \in Nat
    BY <2>1, Limits DEF Post
  <2> QED BY <2>1, <2>5, <2>6
<1> QED BY <1>1 DEF Chatted

LEMMA ChatAppended ==
  ASSUME Sessioned, Sessioned', LinesGrow, Chatted, made \in Nat, made' = made,
         NEW p \in Post, Wholes(p.items), p.by <= made, chat' = Append(chat, p)
  PROVE  /\ Chatted' /\ Len(chat') = Len(chat) + 1 /\ Len(chat) \in Nat /\ DOMAIN chat = 1..Len(chat)
         /\ DOMAIN chat' = DOMAIN chat \cup {Len(chat) + 1}
         /\ chat'[Len(chat) + 1] = p /\ \A m \in DOMAIN chat : chat'[m] = chat[m]
<1>1. chat \in Seq(Post) /\ Len(chat) \in Nat /\ DOMAIN chat = 1..Len(chat)
  BY DEF Chatted
<1>2. /\ chat' \in Seq(Post) /\ Len(chat') = Len(chat) + 1 /\ DOMAIN chat' = 1..(Len(chat) + 1)
      /\ chat'[Len(chat) + 1] = p /\ \A m \in 1..Len(chat) : chat'[m] = chat[m]
  BY <1>1
<1>3. ASSUME NEW m \in 1..(Len(chat) + 1)
      PROVE  Wholes(chat[m].items)' /\ chat'[m].by <= made'
  <2>1. chat'[m] \in Post /\ Wholes(chat'[m].items) /\ chat'[m].by <= made
    <3>1. CASE m = Len(chat) + 1
      BY <1>2, <3>1
    <3>2. CASE m \in 1..Len(chat)
      BY <1>1, <1>2, <3>2 DEF Chatted
    <3> QED BY <1>1, <3>1, <3>2
  <2>2. PICK es : es = chat'[m].items
    OBVIOUS
  <2>3. es \in Seq(Item) /\ Wholes(es)
    BY <2>1, <2>2 DEF Post
  <2>4. Wholes(es)'
    BY <2>3, WholesGrow
  <2> QED BY <2>1, <2>2, <2>4 DEF Wholes, IsWhole, Whole
<1>4. Chatted'
  BY <1>2, <1>3 DEF Chatted
<1> QED BY <1>1, <1>2, <1>4

EditsChat(g, es) == chat' = [chat EXCEPT ![g] = [chat[g] EXCEPT !.items = chat[g].items \o es]]

LEMMA ChatEdited ==
  ASSUME Sessioned, Sessioned', LinesGrow, Chatted, made \in Nat, made' = made,
         NEW g \in DOMAIN chat, NEW es \in Seq(Item), Wholes(es), EditsChat(g, es)
  PROVE  /\ Chatted' /\ DOMAIN chat' = DOMAIN chat /\ Len(chat') = Len(chat)
         /\ \A m \in DOMAIN chat \ {g} : chat'[m] = chat[m]
         /\ chat'[g].by = chat[g].by /\ chat'[g].from = chat[g].from
         /\ chat'[g].items = chat[g].items \o es /\ chat[g].items \in Seq(Item)
<1>1. chat \in Seq(Post) /\ chat[g] \in Post /\ Wholes(chat[g].items) /\ chat[g].by <= made
  BY DEF Chatted
<1>2. chat[g].items \in Seq(Item)
  BY <1>1 DEF Post
<1> DEFINE all == chat[g].items \o es
           p == [chat[g] EXCEPT !.items = all]
<1>3. all \in Seq(Item) /\ Wholes(all)
  BY <1>1, <1>2, JoinedWholes
<1> HIDE DEF all
<1>4. p \in Post /\ p.by = chat[g].by /\ p.from = chat[g].from /\ p.items = all
  BY <1>1, <1>3 DEF Post
<1>5. chat' = [chat EXCEPT ![g] = p]
  BY DEF EditsChat, all
<1> HIDE DEF p
<1>6. /\ chat' \in Seq(Post) /\ Len(chat') = Len(chat) /\ DOMAIN chat' = DOMAIN chat /\ chat'[g] = p
      /\ \A m \in DOMAIN chat \ {g} : chat'[m] = chat[m]
  <2>1. chat \in [1..Len(chat) -> Post] /\ DOMAIN chat = 1..Len(chat) /\ Len(chat) \in Nat
    BY <1>1
  <2>2. chat' \in [1..Len(chat) -> Post]
    BY <1>4, <1>5, <2>1
  <2>3. chat' \in Seq(Post) /\ DOMAIN chat' = 1..Len(chat)
    BY <2>1, <2>2
  <2>4. Len(chat') = Len(chat)
    BY <2>1, <2>3
  <2> QED BY <1>5, <2>1, <2>3, <2>4
<1>7. ASSUME NEW m \in DOMAIN chat
      PROVE  Wholes(chat[m].items)' /\ chat'[m].by <= made'
  <2>1. chat'[m] \in Post /\ Wholes(chat'[m].items) /\ chat'[m].by <= made
    <3>1. CASE m = g
      BY <1>1, <1>3, <1>4, <1>6, <3>1
    <3>2. CASE m # g
      BY <1>6, <3>2 DEF Chatted
    <3> QED BY <3>1, <3>2
  <2>2. PICK fs : fs = chat'[m].items
    OBVIOUS
  <2>3. fs \in Seq(Item) /\ Wholes(fs)
    BY <2>1, <2>2 DEF Post
  <2>4. Wholes(fs)'
    BY <2>3, WholesGrow
  <2> QED BY <2>1, <2>2, <2>4 DEF Wholes, IsWhole, Whole
<1>8. Chatted'
  BY <1>6, <1>7 DEF Chatted
<1> QED BY <1>2, <1>4, <1>6, <1>8 DEF all

-----------------------------------------------------------------------------
(* A step of the tailer is made of these.                                   *)

Keeps(p, q) ==
  Posting(p, q) /\ q.cancelled = p.cancelled /\ q.file = p.file /\ q.pos = p.pos /\ q.again = p.again
Closes(p, q) ==
  /\ Keeps(p, q) /\ q.pend = p.pend /\ p.batch = <<>>
  /\ \/ p.pc = "tail" /\ q.pc = "over" /\ p.cancelled
     \/ /\ p.pc = "tail" /\ q.pc = "outcome" /\ ~sess[p.s].live
        /\ sess[p.s].kind = "plan" \/ p.file = 0 \/ p.pos = Whole(p.file)
     \/ p.pc = "outcome" /\ q.pc = "over" /\ p.cancelled
     \/ p.pc = "final" /\ q.pc = "over" /\ (p.cancelled \/ p.pend = <<>>)
Marks(p, q) ==
  /\ Keeps(p, q) /\ p.pc = "outcome" /\ q.pc = "final" /\ ~p.cancelled
  /\ q.pend = p.pend \/ q.pend = p.pend \o <<Outcome(p.s)>>
Tailed(p, l, m, q) ==
  /\ l = p \/ Rewinds(p, l) \/ Renews(p, l)
  /\ m = l \/ Reads(l, m)
  /\ q = m \/ Closes(m, q) \/ Marks(m, q)

Moves(r) == Tailing(r) \/ \E f \in 0..MaxSessions : Restarts(r, f)

LEMMA LocatedRewinds ==
  ASSUME Sessioned, NEW r \in Relays, NEW p \in Relay, Relaying(r, p), p.pc = "tail", sess[p.s].kind # "plan",
         Located(p).file # 0
  PROVE  LET l == Located(p) IN
         /\ l \in Relay /\ Relaying(r, l) /\ (l = p \/ Rewinds(p, l)) /\ l.pc = "tail" /\ l.s = p.s
         /\ Drained(l) \in Relay /\ Reads(l, Drained(l)) /\ Relaying(r, Drained(l))
<1> DEFINE l == Located(p)
<1>1. l \in Relay /\ (l = p \/ Rewinds(p, l))
  <2>1. CASE p.file = 0
    <3>1. l = Switched(p)
      BY <2>1 DEF Located
    <3>2. Freshest(p.s) # p.file
      BY <2>1, <3>1 DEF Switched, Relay
    <3> QED BY <3>1, <3>2, SwitchedRewinds
  <2>2. CASE p.file # 0
    BY <2>2 DEF Located
  <2> QED BY <2>1, <2>2
<1> HIDE DEF l
<1>2. Relaying(r, l)
  BY <1>1, RelayingRewinds
<1>3. l.pc = "tail" /\ l.s = p.s
  BY <1>1 DEF Rewinds, Posting
<1>4. l.file # 0
  BY DEF l
<1>5. Drained(l) \in Relay /\ Reads(l, Drained(l))
  BY <1>1, <1>2, <1>3, <1>4, DrainedReads
<1>6. Relaying(r, Drained(l))
  BY <1>1, <1>2, <1>5, RelayingReads
<1> QED BY <1>1, <1>2, <1>3, <1>5, <1>6 DEF l

LEMMA RelayingCloses ==
  ASSUME Sessioned, NEW r \in Relays, NEW p \in Relay, NEW q \in Relay, Relaying(r, p),
         Closes(p, q) \/ Marks(p, q)
  PROVE  Relaying(r, q)
<1>a. p.pc # "off"
  BY DEF Closes, Marks
<1>1. p.s \in Sessions /\ p.pc # "off"
  BY <1>a, Limits DEF Relaying, Relay, Sessioned
<1>2. CASE Closes(p, q)
  BY <1>2 DEF Relaying, Closes, Keeps, Posting
<1>3. CASE Marks(p, q)
  <2>1. <<Outcome(p.s)>> \in Seq(Item) /\ Wholes(<<Outcome(p.s)>>)
    BY <1>1, Markers DEF Wholes
  <2>2. p.pend \in Seq(Item) /\ Wholes(p.pend)
    BY DEF Relaying, Relay
  <2>3. Wholes(q.pend)
    BY <1>3, <2>1, <2>2, JoinedWholes DEF Marks
  <2> QED BY <1>3, <2>3 DEF Relaying, Marks, Keeps, Posting
<1> QED BY <1>2, <1>3

LEMMA TailingSteps ==
  ASSUME Typed, NEW r \in Relays, Moves(r)
  PROVE  \E l, m, q \in Relay :
           /\ relay' = [relay EXCEPT ![r] = q] /\ Tailed(relay[r], l, m, q)
           /\ UNCHANGED <<agent, chat, user, cur, made, dropped>>
<1> DEFINE p == relay[r]
<1>0. p \in Relay /\ Relaying(r, p) /\ Sessioned
  BY DEF Typed, Relayed
<1>1. CASE Drain(r)
  <2>1. p.pc = "tail" /\ sess[p.s].kind # "plan" /\ Located(p).file # 0
    BY <1>1 DEF Drain, Tails, Unread
  <2>2. relay' = [relay EXCEPT ![r] = Drained(Located(p))] /\ UNCHANGED <<agent, chat, user, cur, made, dropped>>
    BY <1>1 DEF Drain
  <2> HIDE DEF p
  <2>3. /\ Located(p) \in Relay /\ (Located(p) = p \/ Rewinds(p, Located(p)))
        /\ Drained(Located(p)) \in Relay /\ Reads(Located(p), Drained(Located(p)))
    BY <1>0, <2>1, LocatedRewinds
  <2>4. Tailed(p, Located(p), Drained(Located(p)), Drained(Located(p)))
    BY <2>3 DEF Tailed
  <2> QED BY <2>2, <2>3, <2>4 DEF p
<1>2. CASE Relocate(r)
  <2>1. p.pc = "tail" /\ sess[p.s].kind # "plan" /\ Freshest(p.s) # p.file
    BY <1>2 DEF Relocate, Tails
  <2>2. relay' = [relay EXCEPT ![r] = Switched(p)] /\ UNCHANGED <<agent, chat, user, cur, made, dropped>>
    BY <1>2 DEF Relocate
  <2> HIDE DEF p
  <2>3. Switched(p) \in Relay /\ Rewinds(p, Switched(p))
    BY <1>0, <2>1, SwitchedRewinds
  <2>4. Tailed(p, Switched(p), Switched(p), Switched(p))
    BY <2>3 DEF Tailed
  <2> QED BY <2>2, <2>3, <2>4 DEF p
<1>3. CASE TailEnds(r)
  <2>1. p.pc = "tail" /\ p.batch = <<>> /\ UNCHANGED <<agent, chat, user, cur, made, dropped>>
    BY <1>3 DEF TailEnds, Locked
  <2>2. CASE p.cancelled /\ relay' = [relay EXCEPT ![r].pc = "over"]
    <3> DEFINE q == [p EXCEPT !.pc = "over"]
    <3>1. relay' = [relay EXCEPT ![r] = q]
      BY <2>2
    <3>2. q \in Relay /\ Closes(p, q)
      BY <1>0, <2>1, <2>2 DEF Relay, Closes, Keeps, Posting
    <3> HIDE DEF p, q
    <3>3. Tailed(p, p, p, q)
      BY <3>2 DEF Tailed
    <3> QED BY <1>0, <2>1, <3>1, <3>2, <3>3 DEF p
  <2>3. CASE ~sess[p.s].live /\ relay' = [relay EXCEPT ![r] = [LastDrain(p) EXCEPT !.pc = "outcome"]]
    <3>1. PICK m : m = LastDrain(p)
      OBVIOUS
    <3> DEFINE q == [m EXCEPT !.pc = "outcome"]
    <3>2. relay' = [relay EXCEPT ![r] = q]
      BY <2>3, <3>1
    <3> HIDE DEF p
    <3>3. CASE sess[p.s].kind = "plan" \/ Located(p).file = 0
      <4>1. m = p
        BY <3>1, <3>3 DEF LastDrain
      <4>2. sess[p.s].kind = "plan" \/ p.file = 0
        BY <3>3 DEF Located
      <4>3. q \in Relay /\ Closes(p, q)
        BY <1>0, <2>1, <2>3, <4>1, <4>2 DEF Relay, Closes, Keeps, Posting
      <4> HIDE DEF q
      <4>4. Tailed(p, p, p, q)
        BY <4>3 DEF Tailed
      <4> QED BY <1>0, <2>1, <3>2, <4>3, <4>4 DEF p
    <3>4. CASE ~(sess[p.s].kind = "plan" \/ Located(p).file = 0)
      <4>1. PICK l : l = Located(p)
        OBVIOUS
      <4>2. m = Drained(l)
        BY <3>1, <3>4, <4>1 DEF LastDrain
      <4>3. /\ l \in Relay /\ (l = p \/ Rewinds(p, l)) /\ l.s = p.s
            /\ m \in Relay /\ Reads(l, m)
        BY <1>0, <2>1, <3>4, <4>1, <4>2, LocatedRewinds
      <4>4. m.batch = <<>> /\ m.s = p.s /\ m.pc = "tail" /\ m.pos = Whole(m.file)
        BY <2>1, <4>3 DEF Reads, Rewinds, Posting
      <4>5. q \in Relay /\ Closes(m, q)
        BY <2>3, <4>3, <4>4 DEF Relay, Closes, Keeps, Posting
      <4> HIDE DEF q
      <4>6. Tailed(p, l, m, q)
        BY <4>3, <4>5 DEF Tailed
      <4> QED BY <2>1, <3>2, <4>3, <4>5, <4>6 DEF p
    <3> QED BY <3>3, <3>4
  <2>4. CASE /\ ~sess[p.s].live /\ p.file # 0
             /\ relay' = [relay EXCEPT ![r] = [Anew(p, 0) EXCEPT !.pc = "outcome"]]
    <3>1. PICK l : l = Anew(p, 0)
      OBVIOUS
    <3> DEFINE q == [l EXCEPT !.pc = "outcome"]
    <3>2. relay' = [relay EXCEPT ![r] = q]
      BY <2>4, <3>1
    <3> HIDE DEF p
    <3>3. l \in Relay /\ Renews(p, l) /\ l.file = 0
      BY <1>0, <2>1, <3>1, RenewedTyped DEF Anew, Relay
    <3>4. l.batch = <<>> /\ l.s = p.s /\ l.pc = "tail"
      BY <2>1, <3>3 DEF Renews, Posting
    <3>5. q \in Relay /\ Closes(l, q)
      BY <2>4, <3>3, <3>4 DEF Relay, Closes, Keeps, Posting
    <3> HIDE DEF q
    <3>6. Tailed(p, l, l, q)
      BY <3>3, <3>5 DEF Tailed
    <3> QED BY <2>1, <3>2, <3>3, <3>5, <3>6 DEF p
  <2> QED BY <1>3, <2>2, <2>3, <2>4 DEF TailEnds
<1>4. CASE OutcomeMarker(r)
  <2> DEFINE mark == IF sess[p.s].kind = "chat" THEN <<>> ELSE <<Outcome(p.s)>>
             q == [p EXCEPT !.pc = "final", !.pend = p.pend \o mark]
  <2>1. p.pc = "outcome" /\ ~p.cancelled /\ UNCHANGED <<agent, chat, user, cur, made, dropped>>
    BY <1>4 DEF OutcomeMarker
  <2>2. relay' = [relay EXCEPT ![r] = q]
    BY <1>0, <1>4 DEF OutcomeMarker, Typed, Relayed
  <2>3. p.s \in Sessions
    BY <1>0, <2>1, Limits DEF Relaying, Relay, Sessioned
  <2>4. p.pend \in Seq(Item) /\ p.pend \o mark \in Seq(Item)
        /\ (p.pend \o mark = p.pend \/ p.pend \o mark = p.pend \o <<Outcome(p.s)>>)
    <3>1. p.pend \in Seq(Item) /\ p.pend \o <<>> = p.pend
      BY <1>0 DEF Relay
    <3>2. Outcome(p.s) \in Item
      BY <1>0, <2>3, Markers
    <3>3. mark = <<>> \/ mark = <<Outcome(p.s)>>
      OBVIOUS
    <3>4. <<Outcome(p.s)>> \in Seq(Item)
      BY <3>2
    <3>5. p.pend \o <<Outcome(p.s)>> \in Seq(Item)
      BY <3>1, <3>4, Joined
    <3> HIDE DEF p, mark
    <3>6. CASE mark = <<>>
      BY <3>1, <3>6
    <3>7. CASE mark = <<Outcome(p.s)>>
      BY <3>1, <3>5, <3>7, Zenon
    <3> QED BY <3>3, <3>6, <3>7
  <2>5. PICK new : new = p.pend \o mark
    OBVIOUS
  <2> HIDE DEF mark
  <2>6. q \in Relay /\ Marks(p, q)
    BY <1>0, <2>1, <2>4, <2>5 DEF Relay, Marks, Keeps, Posting
  <2> HIDE DEF p, q
  <2>7. Tailed(p, p, p, q)
    BY <2>6 DEF Tailed
  <2> QED BY <1>0, <2>1, <2>2, <2>6, <2>7 DEF p
<1>5. CASE RelayReturns(r)
  <2> DEFINE q == [p EXCEPT !.pc = "over"]
  <2>1. relay' = [relay EXCEPT ![r] = q] /\ UNCHANGED <<agent, chat, user, cur, made, dropped>>
    BY <1>5 DEF RelayReturns
  <2>2. p.batch = <<>>
    BY <1>0, <1>5 DEF RelayReturns, Locked, Relaying
  <2>3. q \in Relay /\ Closes(p, q)
    BY <1>0, <1>5, <2>2 DEF RelayReturns, Relay, Closes, Keeps, Posting
  <2> HIDE DEF p, q
  <2>4. Tailed(p, p, p, q)
    BY <2>3 DEF Tailed
  <2> QED BY <1>0, <2>1, <2>3, <2>4 DEF p
<1>6. CASE \E f \in 0..MaxSessions : Restarts(r, f)
  <2>1. PICK f \in {0, p.file} : /\ p.pc = "tail" /\ relay' = [relay EXCEPT ![r] = Anew(p, f)]
                                 /\ UNCHANGED <<agent, chat, user, cur, made, dropped>>
    BY <1>6 DEF Restarts, Tails
  <2> HIDE DEF p
  <2>2. Anew(p, f) \in Relay /\ Renews(p, Anew(p, f))
    BY <1>0, <2>1, RenewedTyped
  <2>3. Tailed(p, Anew(p, f), Anew(p, f), Anew(p, f))
    BY <2>2 DEF Tailed
  <2> QED BY <2>1, <2>2, <2>3 DEF p
<1> QED BY <1>1, <1>2, <1>3, <1>4, <1>5, <1>6 DEF Moves, Tailing

-----------------------------------------------------------------------------
(* The steps of the sender.                                                 *)

LEMMA Filtered ==
  ASSUME NEW es \in Seq(Item), NEW b \in WithoutBreaks(es)
  PROVE  /\ b \in Seq(Item)
         /\ \A i \in DOMAIN b : \E k \in DOMAIN es : b[i] = es[k]
         /\ \A i, j \in DOMAIN b : i < j => \E k, n \in DOMAIN es : k < n /\ b[i] = es[k] /\ b[j] = es[n]
         /\ \A k \in DOMAIN es : KindOf(es[k]) # "break" => \E i \in DOMAIN b : b[i] = es[k]
<1> DEFINE S == Kept(es)
<1>1. PICK f \in Listings(S) : b = [i \in DOMAIN f |-> es[f[i]]]
  BY DEF WithoutBreaks
<1>2. Cardinality(S) \in Nat
  <2>1. DOMAIN es = 1..Len(es) /\ Len(es) \in Nat
    OBVIOUS
  <2>2. IsFiniteSet(DOMAIN es)
    BY <2>1, FS_Interval
  <2>3. S \subseteq DOMAIN es
    BY DEF Kept
  <2> HIDE DEF S
  <2>4. IsFiniteSet(S)
    BY <2>2, <2>3, FS_Subset
  <2> QED BY <2>4, FS_CardinalityType
<1>3. /\ f \in [1..Cardinality(S) -> S] /\ Increasing(f)
      /\ \A k \in S : \E i \in DOMAIN f : f[i] = k
  BY <1>1 DEF Listings
<1>4. S = {i \in DOMAIN es : KindOf(es[i]) # "break"}
  BY DEF Kept
<1> HIDE DEF S
<1>5. DOMAIN b = DOMAIN f /\ DOMAIN f = 1..Cardinality(S) /\ \A i \in DOMAIN b : b[i] = es[f[i]]
  BY <1>1, <1>3
<1>6. \A i \in DOMAIN b : f[i] \in DOMAIN es /\ KindOf(es[f[i]]) # "break"
  BY <1>3, <1>4, <1>5
<1>7. \A i \in DOMAIN b : b[i] \in Item
  BY <1>5, <1>6
<1>8. b \in Seq(Item)
  <2>1. b = [i \in 1..Cardinality(S) |-> es[f[i]]]
    BY <1>1, <1>5
  <2> QED BY <1>2, <1>5, <1>7, <2>1
<1>9. \A k \in DOMAIN es : KindOf(es[k]) # "break" => \E i \in DOMAIN b : b[i] = es[k]
  BY <1>3, <1>4, <1>5
<1>10. \A i \in DOMAIN b : \E k \in DOMAIN es : b[i] = es[k]
  BY <1>5, <1>6
<1>11. \A i, j \in DOMAIN b : i < j => \E k, n \in DOMAIN es : k < n /\ b[i] = es[k] /\ b[j] = es[n]
  BY <1>3, <1>5, <1>6 DEF Increasing
<1> QED BY <1>8, <1>9, <1>10, <1>11

Stays(p, q) ==
  q.s = p.s /\ q.pc = p.pc /\ q.cancelled = p.cancelled /\ q.file = p.file /\ q.pos = p.pos /\ q.again = p.again
New(p) == {p.grow} \X {Len(chat[p.grow].items) + i : i \in DOMAIN p.batch}
Collects(p, q) ==
  /\ Stays(p, q) /\ p.pc \in {"tail", "final"} /\ ~p.cancelled /\ p.batch = <<>>
  /\ q.pend = <<>> /\ q.batch \in WithoutBreaks(p.pend)
  /\ q.edit => Anchor(p) # 0 /\ q.batch # <<>>
  /\ q.lost = p.lost /\ q.grow = IF q.edit THEN Anchor(p) ELSE 0
Adds(p, q) == \* the edit succeeds
  /\ Stays(p, q) /\ q.pend = p.pend /\ p.edit /\ EditsChat(p.grow, p.batch)
  /\ q.batch = <<>> /\ ~q.edit /\ q.grow = p.grow /\ q.lost = p.lost
Fails(p, q) == \* or it fails, perhaps after it was made
  /\ Stays(p, q) /\ q.pend = p.pend /\ p.edit
  /\ \/ UNCHANGED chat /\ q.lost = p.lost
     \/ EditsChat(p.grow, p.batch) /\ q.lost = p.lost \cup New(p)
  /\ q.batch = p.batch /\ ~q.edit /\ q.grow = 0
Sends(r, p, q) ==
  /\ Stays(p, q) /\ q.pend = p.pend /\ ~p.edit /\ chat' = Append(chat, Message("relay", r, p.batch))
  /\ q.batch = <<>> /\ ~q.edit /\ q.grow \in {0, Len(chat) + 1} /\ q.lost = p.lost
Loses(p, q) ==
  /\ Stays(p, q) /\ q.pend = p.pend /\ ~p.edit /\ UNCHANGED chat
  /\ q.batch = <<>> /\ ~q.edit /\ q.grow = p.grow /\ q.lost = p.lost

LEMMA SenderSteps ==
  ASSUME Typed, NEW r \in Relays, Sender(r)
  PROVE  \E q \in Relay :
           /\ relay' = [relay EXCEPT ![r] = q] /\ UNCHANGED <<agent, user, cur, made>>
           /\ \/ Collects(relay[r], q) /\ UNCHANGED <<chat, dropped>>
              \/ /\ relay[r].batch # <<>>
                 /\ \/ UNCHANGED dropped /\ (Adds(relay[r], q) \/ Fails(relay[r], q) \/ Sends(r, relay[r], q))
                    \/ Loses(relay[r], q) /\ dropped' = dropped \cup ToSet(relay[r].batch)
<1> DEFINE p == relay[r]
<1>0. p \in Relay /\ Relaying(r, p) /\ Sessioned /\ p.grow \in Nat /\ p.batch \in Seq(Item)
  BY DEF Typed, Relayed, Relay
<1>1. CASE Flush(r)
  <2>1. PICK batch \in WithoutBreaks(p.pend), edit \in BOOLEAN :
          /\ edit => Anchor(p) # 0 /\ batch # <<>> /\ AllText(batch)
          /\ relay' = [relay EXCEPT ![r] = [p EXCEPT !.pend = <<>>, !.batch = batch, !.edit = edit,
                                                     !.grow = IF edit THEN Anchor(p) ELSE 0]]
    BY <1>1 DEF Flush
  <2>2. /\ p.pc \in {"tail", "final"} /\ ~p.cancelled /\ p.batch = <<>>
        /\ UNCHANGED <<agent, chat, user, cur, made, dropped>>
    BY <1>1 DEF Flush, Locked
  <2>3. batch \in Seq(Item)
    BY <1>0, <2>1, Filtered DEF Relay
  <2>4. Anchor(p) \in Nat
    BY <1>0 DEF Anchor
  <2>5. PICK g \in Nat : g = IF edit THEN Anchor(p) ELSE 0
    BY <2>4
  <2> DEFINE q == [p EXCEPT !.pend = <<>>, !.batch = batch, !.edit = edit, !.grow = g]
  <2>6. relay' = [relay EXCEPT ![r] = q]
    BY <2>1, <2>5
  <2>a. <<>> \in Seq(Item)
    OBVIOUS
  <2>7. q \in Relay
    BY <1>0, <2>3, <2>5, <2>a DEF Relay
  <2>8. Collects(p, q)
    BY <1>0, <2>1, <2>2, <2>5 DEF Collects, Stays, Relay
  <2> HIDE DEF q
  <2> QED BY <2>2, <2>6, <2>7, <2>8
<1>2. CASE EditMessage(r)
  <2> DEFINE q == [p EXCEPT !.batch = <<>>, !.edit = FALSE]
  <2>1. /\ p.batch # <<>> /\ p.edit /\ chat' = Edited(r) /\ relay' = [relay EXCEPT ![r] = q]
        /\ UNCHANGED <<agent, user, cur, made, dropped>>
    BY <1>2 DEF EditMessage, Locked
  <2>2. <<>> \in Seq(Item)
    OBVIOUS
  <2>3. q \in Relay
    BY <1>0, <2>2 DEF Relay
  <2>4. EditsChat(p.grow, p.batch)
    BY <2>1 DEF Edited, EditsChat
  <2>5. Adds(p, q)
    BY <1>0, <2>1, <2>4 DEF Adds, Stays, Relay
  <2> HIDE DEF q
  <2> QED BY <2>1, <2>3, <2>5
<1>3. CASE EditFails(r)
  <2>1. /\ p.batch # <<>> /\ p.edit /\ UNCHANGED <<agent, user, cur, made, dropped>>
        /\ \/ UNCHANGED chat /\ relay' = [relay EXCEPT ![r] = [p EXCEPT !.edit = FALSE, !.grow = 0]]
           \/ /\ chat' = Edited(r)
              /\ relay' = [relay EXCEPT ![r] = [p EXCEPT !.edit = FALSE, !.grow = 0, !.lost = p.lost \cup Added(r)]]
    BY <1>3 DEF EditFails, Locked
  <2>2. CASE UNCHANGED chat /\ relay' = [relay EXCEPT ![r] = [p EXCEPT !.edit = FALSE, !.grow = 0]]
    <3> DEFINE q == [p EXCEPT !.edit = FALSE, !.grow = 0]
    <3>1. q \in Relay /\ Fails(p, q)
      BY <1>0, <2>1, <2>2 DEF Relay, Fails, Stays
    <3>2. relay' = [relay EXCEPT ![r] = q]
      BY <2>2
    <3> HIDE DEF q
    <3> QED BY <2>1, <3>1, <3>2
  <2>3. CASE /\ chat' = Edited(r)
             /\ relay' = [relay EXCEPT ![r] = [p EXCEPT !.edit = FALSE, !.grow = 0, !.lost = p.lost \cup Added(r)]]
    <3>1. EditsChat(p.grow, p.batch) /\ Added(r) = New(p)
      BY <2>3 DEF Edited, EditsChat, Added, New
    <3>2. New(p) \in SUBSET (Nat \X Nat) /\ p.lost \in SUBSET (Nat \X Nat)
      <4>1. p.grow \in DOMAIN chat /\ chat \in Seq(Post)
        BY <1>0, <2>1 DEF Relaying, Typed, Chatted
      <4>2. chat[p.grow] \in Post
        BY <4>1
      <4>3. chat[p.grow].items \in Seq(Item)
        BY <4>2 DEF Post
      <4>4. PICK n \in Nat : n = Len(chat[p.grow].items)
        BY <4>3
      <4>5. DOMAIN p.batch \subseteq Nat
        BY <1>0
      <4>6. {n + i : i \in DOMAIN p.batch} \subseteq Nat
        BY <4>4, <4>5
      <4>7. New(p) = {p.grow} \X {n + i : i \in DOMAIN p.batch}
        BY <4>4 DEF New
      <4>8. New(p) \subseteq Nat \X Nat
        BY <1>0, <4>6, <4>7
      <4>9. p.lost \in SUBSET (Nat \X Nat)
        BY <1>0 DEF Relay
      <4> QED BY <4>8, <4>9
    <3>3. PICK k \in SUBSET (Nat \X Nat) : k = p.lost \cup New(p)
      BY <3>2
    <3> DEFINE q == [p EXCEPT !.edit = FALSE, !.grow = 0, !.lost = k]
    <3>4. relay' = [relay EXCEPT ![r] = q]
      BY <2>3, <3>1, <3>3
    <3>5. q \in Relay /\ Fails(p, q)
      BY <1>0, <2>1, <3>1, <3>3 DEF Relay, Fails, Stays
    <3> HIDE DEF q
    <3> QED BY <2>1, <3>4, <3>5
  <2> QED BY <2>1, <2>2, <2>3
<1>4. CASE SendMessage(r)
  <2>1. PICK g \in IF AllText(p.batch) THEN {0, Len(chat) + 1} ELSE {0} :
          relay' = [relay EXCEPT ![r] = [p EXCEPT !.batch = <<>>, !.grow = g]]
    BY <1>4 DEF SendMessage
  <2> DEFINE q == [p EXCEPT !.batch = <<>>, !.grow = g]
  <2>2. /\ p.batch # <<>> /\ ~p.edit /\ chat' = Append(chat, Message("relay", r, p.batch))
        /\ UNCHANGED <<agent, user, cur, made, dropped>>
    BY <1>4 DEF SendMessage, Locked
  <2>3. g \in {0, Len(chat) + 1} /\ <<>> \in Seq(Item) /\ Len(chat) \in Nat
    BY <2>1 DEF Typed, Chatted
  <2>a. g \in Nat
    BY <2>3
  <2>4. q \in Relay
    BY <1>0, <2>3, <2>a DEF Relay
  <2>5. Sends(r, p, q)
    BY <1>0, <2>2, <2>3 DEF Sends, Stays, Relay
  <2> HIDE DEF q
  <2> QED BY <2>1, <2>2, <2>4, <2>5 DEF q
<1>5. CASE SendFails(r)
  <2> DEFINE q == [p EXCEPT !.batch = <<>>]
  <2>1. /\ p.batch # <<>> /\ ~p.edit /\ dropped' = dropped \cup ToSet(p.batch)
        /\ relay' = [relay EXCEPT ![r] = q] /\ UNCHANGED <<agent, chat, user, cur, made>>
    BY <1>5 DEF SendFails, Locked
  <2>2. <<>> \in Seq(Item)
    OBVIOUS
  <2>3. q \in Relay /\ Loses(p, q)
    BY <1>0, <2>1, <2>2 DEF Relay, Loses, Stays
  <2> HIDE DEF q
  <2> QED BY <2>1, <2>3
<1> QED BY <1>1, <1>2, <1>3, <1>4, <1>5 DEF Sender

-----------------------------------------------------------------------------
(* The steps of the bridge, on each of its relays.                          *)

Reset(p, q) == \* it stops growing its message, or is cancelled
  /\ q.s = p.s /\ q.pc = p.pc /\ q.file = p.file /\ q.pos = p.pos
  /\ q.pend = p.pend /\ q.batch = p.batch /\ q.edit = p.edit /\ q.lost = p.lost /\ q.again = p.again
  /\ \/ q.cancelled = p.cancelled /\ q.grow = p.grow
     \/ q.cancelled = p.cancelled /\ q.grow = 0 /\ p.batch = <<>>
     \/ q.cancelled = TRUE /\ q.grow = p.grow

Begins(r, q) ==
  /\ r = made + 1 /\ q.s = count /\ q.pc = "tail" /\ ~q.cancelled /\ q.file = 0 /\ q.pos = 0
  /\ q.batch = <<>> /\ ~q.edit /\ q.grow = 0 /\ q.lost = {} /\ q.again = 0
  /\ (q.pend = <<>> \/ q.pend = <<Start(count)>>)

LEMMA BridgeSteps ==
  ASSUME Typed, BreakGrowth \/ Reconcile \/ BridgeStops
  PROVE  /\ UNCHANGED <<agent, chat, dropped>> /\ asked' \in {asked} \cup DOMAIN chat /\ asked <= asked'
         /\ made' \in {made, made + 1} /\ made' <= MaxRelays /\ cur' \in 0..made'
         /\ relay' \in [Relays -> Relay]
         /\ \A r \in Relays : \/ Reset(relay[r], relay'[r])
                              \/ Begins(r, relay'[r]) /\ made' = made + 1
<1>0. /\ relay \in [Relays -> Relay] /\ \A r \in Relays : Reset(relay[r], relay[r])
      /\ cur \in 0..made /\ made \in 0..MaxRelays /\ asked \in Nat /\ MaxRelays \in Nat
      /\ DOMAIN chat = 1..Len(chat) /\ Len(chat) \in Nat /\ Relays = 1..MaxRelays
  BY Limits DEF Typed, Relayed, Bridged, Chatted, Reset
<1>1. CASE BreakGrowth
  <2>1. /\ UNCHANGED <<agent, chat, dropped, made, cur>>
        /\ \E i \in DOMAIN chat : IsNext(i) /\ asked' = i
        /\ relay' = IF cur = 0 THEN relay ELSE [relay EXCEPT ![cur].grow = 0]
        /\ cur # 0 => relay[cur].batch = <<>>
    BY <1>1 DEF BreakGrowth, Locked
  <2>2. asked' \in DOMAIN chat /\ asked <= asked'
    BY <1>0, <2>1 DEF IsNext, Unhandled
  <2>3. CASE cur = 0
    BY <1>0, <2>1, <2>2, <2>3
  <2>4. CASE cur # 0
    <3> DEFINE q == [relay[cur] EXCEPT !.grow = 0]
    <3>1. cur \in Relays
      BY <1>0, <2>4
    <3>2. q \in Relay /\ Reset(relay[cur], q)
      <4>1. PICK p \in Relay : p = relay[cur] /\ p.batch = <<>>
        BY <1>0, <2>1, <2>4, <3>1
      <4>2. q = [p EXCEPT !.grow = 0]
        BY <4>1
      <4> HIDE DEF q
      <4>3. q \in Relay
        BY <4>2 DEF Relay
      <4>4. Reset(p, q)
        BY <4>1, <4>2 DEF Relay, Reset
      <4> QED BY <4>1, <4>3, <4>4
    <3>3. relay' = [relay EXCEPT ![cur] = q]
      BY <2>1, <2>4
    <3> HIDE DEF q
    <3>4. relay' \in [Relays -> Relay] /\ \A r \in Relays : Reset(relay[r], relay'[r])
      BY <1>0, <3>1, <3>2, <3>3
    <3>5. /\ made' \in {made, made + 1} /\ made' <= MaxRelays /\ cur' \in 0..made'
          /\ asked' \in {asked} \cup DOMAIN chat
      BY <1>0, <2>1, <2>2
    <3>6. UNCHANGED <<agent, chat, dropped>>
      BY <2>1
    <3> QED BY <2>2, <3>4, <3>5, <3>6
  <2> QED BY <2>3, <2>4
<1>2. ASSUME NEW c \in Relays
      PROVE  Cancelled(relay[c]) \in Relay /\ Reset(relay[c], Cancelled(relay[c]))
  BY <1>0 DEF Cancelled, Relay, Reset
<1>3. CASE BridgeStops
  <2>1. /\ UNCHANGED <<agent, chat, dropped, made, asked>> /\ cur' = 0
        /\ relay' = IF cur = 0 THEN relay ELSE [relay EXCEPT ![cur] = Cancelled(relay[cur])]
    BY <1>3 DEF BridgeStops
  <2>2. relay' \in [Relays -> Relay] /\ \A r \in Relays : Reset(relay[r], relay'[r])
    <3>1. CASE cur = 0
      BY <1>0, <2>1, <3>1
    <3>2. CASE cur # 0
      <4>1. cur \in Relays
        BY <1>0, <3>2
      <4> QED BY <1>0, <1>2, <2>1, <3>2, <4>1
    <3> QED BY <3>1, <3>2
  <2> QED BY <1>0, <2>1, <2>2
<1>4. CASE Reconcile
  <2> DEFINE stale == cur # 0 /\ (~watching \/ (Live /\ relay[cur].s # count))
             gone == cur # 0 /\ watching /\ ~Live /\ Over(cur)
             kept == cur # 0 /\ ~stale /\ ~gone
             rs == IF stale THEN [relay EXCEPT ![cur] = Cancelled(relay[cur])] ELSE relay
  <2>1. /\ UNCHANGED <<agent, chat, dropped, asked>>
        /\ IF watching /\ Live /\ ~kept THEN StartRelay(rs)
           ELSE relay' = rs /\ cur' = (IF kept THEN cur ELSE 0) /\ UNCHANGED made
    BY <1>4 DEF Reconcile, user
  <2>2. rs \in [Relays -> Relay] /\ \A r \in Relays : Reset(relay[r], rs[r])
    <3>1. CASE ~stale
      BY <1>0, <3>1
    <3>2. CASE stale
      <4>1. cur \in Relays
        BY <1>0, <3>2
      <4>2. rs = [relay EXCEPT ![cur] = Cancelled(relay[cur])]
        BY <3>2
      <4> HIDE DEF rs
      <4> QED BY <1>0, <1>2, <4>1, <4>2
    <3> QED BY <3>1, <3>2
  <2> HIDE DEF rs, stale, gone
  <2>3. CASE watching /\ Live /\ ~kept
    <3> HIDE DEF kept
    <3>1. /\ made < MaxRelays /\ made' = made + 1 /\ cur' = made + 1
          /\ relay' = [rs EXCEPT ![made + 1] = NewRelay]
      BY <2>1, <2>3 DEF StartRelay
    <3>2. count \in Sessions /\ Start(count) \in Item
      BY Markers DEF Typed, Sessioned
    <3>3. <<>> \in Seq(Item) /\ <<Start(count)>> \in Seq(Item)
      BY <3>2
    <3>4. count \in 0..MaxSessions
      BY <3>2, Limits
    <3> DEFINE pend == IF sess[count].kind = "chat" THEN <<>> ELSE <<Start(count)>>
    <3>5. pend \in Seq(Item) /\ (pend = <<>> \/ pend = <<Start(count)>>)
      BY <3>3
    <3>6. NewRelay = [Idle EXCEPT !.s = count, !.pc = "tail", !.pend = pend]
      BY DEF NewRelay
    <3>7. PICK w : w = pend
      OBVIOUS
    <3>8. w \in Seq(Item) /\ (w = <<>> \/ w = <<Start(count)>>)
      BY <3>5, <3>7
    <3>9. NewRelay = [Idle EXCEPT !.s = count, !.pc = "tail", !.pend = w]
      BY <3>6, <3>7
    <3> HIDE DEF pend
    <3>a. Idle \in Relay
      BY <3>3, Limits DEF Idle, Relay
    <3>b. NewRelay \in Relay
      BY <3>4, <3>8, <3>9, <3>a DEF Relay
    <3>c. /\ NewRelay.s = count /\ NewRelay.pc = "tail" /\ NewRelay.pend = w /\ NewRelay.file = 0 /\ NewRelay.pos = 0
          /\ NewRelay.batch = <<>> /\ NewRelay.grow = 0 /\ ~NewRelay.edit /\ ~NewRelay.cancelled
          /\ NewRelay.lost = {} /\ NewRelay.again = 0
      BY <3>9 DEF Idle
    <3>10. NewRelay \in Relay /\ (made + 1 \in Relays => Begins(made + 1, NewRelay))
      BY <3>8, <3>b, <3>c DEF Begins
    <3>11. made + 1 \in Relays
      BY <1>0, <3>1
    <3>12. relay' \in [Relays -> Relay]
      BY <2>2, <3>1, <3>10, <3>11
    <3>13. \A r \in Relays : Reset(relay[r], relay'[r]) \/ Begins(r, relay'[r])
      BY <2>2, <3>1, <3>10, <3>11
    <3> QED BY <1>0, <2>1, <3>1, <3>12, <3>13
  <2>4. CASE ~(watching /\ Live /\ ~kept)
    <3>1. relay' = rs /\ cur' \in {cur, 0} /\ UNCHANGED made
      BY <2>1, <2>4
    <3> HIDE DEF kept
    <3> QED BY <1>0, <2>1, <2>2, <3>1
  <2> QED BY <2>3, <2>4
<1> QED BY <1>1, <1>3, <1>4

-----------------------------------------------------------------------------
(* A step of the system is one of these.                                    *)

Elsewhere == UNCHANGED <<chat, relay, cur, made, dropped>> /\ asked' \in {asked} \cup DOMAIN chat /\ asked <= asked'
Written ==
  /\ \E from \in {"user", "bridge"} : chat' = Append(chat, Message(from, 0, <<>>))
  /\ UNCHANGED <<agent, asked, relay, cur, made, dropped>>

LEMMA Steps ==
  ASSUME Typed, [Next]_vars
  PROVE  /\ Sessioned' /\ LinesGrow /\ Settled /\ count' \in {count, count + 1}
         /\ \/ Elsewhere \/ Written \/ BreakGrowth \/ Reconcile \/ BridgeStops
            \/ \E r \in Relays : Moves(r) \/ Sender(r)
<1>0. Sessioned /\ chat \in Seq(Post) /\ asked \in Nat /\ DOMAIN chat \subseteq Nat
  BY DEF Typed, Chatted, Bridged
<1>1. \/ \E k \in Kinds : Starts(k)
      \/ \E h \in BOOLEAN : AgentWrites(h)
      \/ EndsLine \/ BridgeTypes
      \/ \E x \in {"open", "done"} : SessionEnds(x)
      \/ \E s \in Sessions, x \in {"merged", "failed"} : Merges(s, x)
      \/ UNCHANGED agent
  BY DEF Next, vars, agent, UserPosts, BreakGrowth, SendsReply, Reconcile, BridgeStops, Tailing, Sender, Drain,
         Relocate, TailEnds, Restarts, OutcomeMarker, RelayReturns, Flush, EditMessage, EditFails, SendMessage, SendFails
<1>2. Sessioned' /\ LinesGrow /\ count' \in {count, count + 1}
  BY <1>0, <1>1, AgentGrows
<1>3. Settled
  BY <1>0, <1>2, Ended
<1>4. CASE \/ \E k \in Kinds : Starts(k)
           \/ \E h \in BOOLEAN : AgentWrites(h)
           \/ EndsLine
           \/ \E x \in {"open", "done"} : SessionEnds(x)
           \/ \E s \in Sessions, x \in {"merged", "failed"} : Merges(s, x)
           \/ UNCHANGED vars
  <2>1. UNCHANGED <<chat, relay, cur, made, dropped, asked>>
    BY <1>4 DEF Starts, AgentWrites, EndsLine, SessionEnds, Merges, vars, user
  <2> QED BY <1>0, <1>2, <1>3, <2>1 DEF Elsewhere
<1>5. CASE BridgeTypes
  <2>1. UNCHANGED <<chat, relay, cur, made, dropped>> /\ \E i \in DOMAIN chat : IsNext(i) /\ asked' = i
    BY <1>5 DEF BridgeTypes
  <2>2. asked' \in DOMAIN chat /\ asked <= asked'
    BY <1>0, <2>1 DEF IsNext, Unhandled
  <2> QED BY <1>2, <1>3, <2>1, <2>2 DEF Elsewhere
<1>6. CASE UserPosts \/ SendsReply
  <2>1. Written
    BY <1>6 DEF UserPosts, SendsReply, Written
  <2> QED BY <1>2, <1>3, <2>1
<1> QED BY <1>2, <1>3, <1>4, <1>5, <1>6 DEF Next, Moves

(* The relay's record before and after a step of its own. *)
LEMMA RelayChanged ==
  ASSUME Typed, NEW r \in Relays, NEW q \in Relay, relay' = [relay EXCEPT ![r] = q]
  PROVE  relay' \in [Relays -> Relay] /\ relay'[r] = q /\ \A x \in Relays \ {r} : relay'[x] = relay[x]
BY DEF Typed, Relayed

LEMMA TypedStep ==
  ASSUME Typed, [Next]_vars
  PROVE  Typed' /\ Grows
<1>0. /\ Sessioned /\ Chatted /\ Bridged /\ Relayed /\ Sessioned' /\ LinesGrow /\ count' \in {count, count + 1}
      /\ made \in Nat /\ Len(chat) \in Nat /\ DOMAIN chat = 1..Len(chat) /\ asked \in 0..Len(chat)
  BY Steps, Limits DEF Typed, Bridged, Chatted
<1>1. ASSUME Grows, relay' = relay
      PROVE  Relayed'
  <2>1. ASSUME NEW r \in Relays
        PROVE  Relaying(r, relay[r])'
    <3>1. PICK p \in Relay : p = relay[r]
      BY <1>0 DEF Relayed
    <3>2. Relaying(r, p)'
      BY <1>0, <1>1, <3>1, RelayingGrows DEF Relayed
    <3> QED BY <1>1, <3>1, <3>2 DEF Relaying
  <2> QED BY <1>0, <1>1, <2>1 DEF Relayed
<1>2. ASSUME Grows, NEW r \in Relays, NEW q \in Relay, relay' = [relay EXCEPT ![r] = q], Relaying(r, q)'
      PROVE  Relayed'
  <2>0. relay' \in [Relays -> Relay] /\ relay'[r] = q /\ \A x \in Relays \ {r} : relay'[x] = relay[x]
    BY <1>2, RelayChanged
  <2>1. ASSUME NEW x \in Relays
        PROVE  Relaying(x, relay[x])'
    <3>1. PICK p \in Relay : p = relay'[x]
      BY <2>0
    <3>2. CASE x = r
      <4>1. Relaying(x, p)'
        BY <1>2, <2>0, <3>1, <3>2
      <4> QED BY <3>1, <4>1 DEF Relaying
    <3>3. CASE x # r
      <4>1. Relaying(x, p)
        BY <1>0, <2>0, <3>1, <3>3 DEF Relayed
      <4>2. Relaying(x, p)'
        BY <1>2, <4>1, RelayingGrows
      <4> QED BY <3>1, <4>2 DEF Relaying
    <3> QED BY <3>2, <3>3
  <2> QED BY <2>0, <2>1 DEF Relayed
<1>3. CASE Elsewhere
  <2>1. Grows
    BY <1>0, <1>3 DEF Elsewhere, Grows
  <2>2. Chatted'
    BY <1>0, <1>3, ChatKept DEF Elsewhere
  <2>3. Bridged'
    BY <1>0, <1>3 DEF Elsewhere, Bridged
  <2>4. Relayed'
    BY <1>1, <1>3, <2>1 DEF Elsewhere
  <2> QED BY <1>0, <2>1, <2>2, <2>3, <2>4 DEF Typed
<1>4. CASE Written
  <2>1. PICK from \in {"user", "bridge"} : chat' = Append(chat, Message(from, 0, <<>>))
    BY <1>4 DEF Written
  <2> DEFINE m == Message(from, 0, <<>>)
  <2>2. m \in Post /\ Wholes(m.items) /\ m.by = 0
    BY Limits DEF Message, Post, Wholes
  <2> HIDE DEF m
  <2>3. /\ Chatted' /\ Len(chat') = Len(chat) + 1 /\ DOMAIN chat' = DOMAIN chat \cup {Len(chat) + 1}
        /\ \A i \in DOMAIN chat : chat'[i] = chat[i]
    BY <1>0, <1>4, <2>1, <2>2, ChatAppended DEF Written, m
  <2>4. Grows
    BY <1>0, <1>4, <2>3 DEF Written, Grows
  <2>5. Bridged'
    BY <1>0, <1>4, <2>3 DEF Written, Bridged
  <2>6. Relayed'
    BY <1>1, <1>4, <2>4 DEF Written
  <2> QED BY <1>0, <2>3, <2>4, <2>5, <2>6 DEF Typed
<1>5. CASE BreakGrowth \/ Reconcile \/ BridgeStops
  <2>1. /\ UNCHANGED <<agent, chat, dropped>> /\ asked' \in {asked} \cup DOMAIN chat
        /\ made' \in {made, made + 1} /\ made' <= MaxRelays /\ cur' \in 0..made'
        /\ relay' \in [Relays -> Relay]
        /\ \A r \in Relays : Reset(relay[r], relay'[r]) \/ (Begins(r, relay'[r]) /\ made' = made + 1)
    BY <1>5, BridgeSteps
  <2>2. Grows
    BY <1>0, <2>1 DEF Grows
  <2>3. Chatted'
    BY <1>0, <2>1, ChatKept
  <2>4. Bridged'
    BY <1>0, <2>1, Limits DEF Bridged
  <2>5. ASSUME NEW r \in Relays
        PROVE  Relaying(r, relay[r])'
    <3>1. PICK p \in Relay : p = relay[r]
      BY <1>0 DEF Relayed
    <3>2. PICK q \in Relay : q = relay'[r]
      BY <2>1
    <3>3. Relaying(r, p)
      BY <1>0, <3>1 DEF Relayed
    <3>4. Relaying(r, q)'
      <4>1. CASE Reset(p, q)
        <5>1. Relaying(r, q)
          BY <3>3, <4>1 DEF Reset, Relaying
        <5> QED BY <2>2, <5>1, RelayingGrows
      <4>2. CASE Begins(r, q) /\ made' = made + 1
        <5>1. count \in Sessions /\ count \in 1..count /\ UNCHANGED <<sess, count, lines, half>>
          BY <1>0, <2>1, Limits DEF Sessioned, agent
        <5>2. /\ q.pc = "tail" /\ q.s = count /\ q.file = 0 /\ q.batch = <<>> /\ ~q.edit /\ q.grow = 0
              /\ r <= made' /\ (q.pend = <<>> \/ q.pend = <<Start(count)>>)
          BY <1>0, <4>2, Limits DEF Begins
        <5>3. Wholes(q.pend) /\ Wholes(q.batch)
          BY <1>0, <5>1, <5>2, Markers DEF Wholes
        <5>4. q.pend \in Seq(Item) /\ q.batch \in Seq(Item)
          BY DEF Relay
        <5>5. Wholes(q.pend)' /\ Wholes(q.batch)'
          BY <1>0, <5>3, <5>4, WholesGrow
        <5> QED BY <5>1, <5>2, <5>5 DEF Relaying
      <4> QED BY <2>1, <3>1, <3>2, <4>1, <4>2
    <3> QED BY <3>2, <3>4 DEF Relaying
  <2>6. Relayed'
    BY <2>1, <2>5 DEF Relayed
  <2> QED BY <1>0, <2>2, <2>3, <2>4, <2>6 DEF Typed
<1>6. CASE \E r \in Relays : Moves(r)
  <2>1. PICK r \in Relays : Moves(r)
    BY <1>6
  <2>2. PICK l, m, q \in Relay :
           /\ relay' = [relay EXCEPT ![r] = q] /\ Tailed(relay[r], l, m, q)
           /\ UNCHANGED <<agent, chat, user, cur, made, dropped>>
    BY <2>1, TailingSteps
  <2>3. PICK p \in Relay : p = relay[r]
    BY <1>0 DEF Relayed
  <2>4. Relaying(r, q)
    <3>1. Relaying(r, p)
      BY <1>0, <2>3 DEF Relayed
    <3>2. Relaying(r, l)
      BY <1>0, <2>2, <2>3, <3>1, RelayingRewinds, RelayingRenews DEF Tailed
    <3>3. Relaying(r, m)
      BY <1>0, <2>2, <3>2, RelayingReads DEF Tailed
    <3> QED BY <1>0, <2>2, <3>3, RelayingCloses DEF Tailed
  <2>5. Grows
    BY <1>0, <2>2 DEF Grows
  <2>6. Relayed'
    BY <1>2, <2>2, <2>4, <2>5, RelayingGrows
  <2>7. Chatted' /\ Bridged'
    BY <1>0, <2>2, ChatKept DEF Bridged, user
  <2> QED BY <1>0, <2>5, <2>6, <2>7 DEF Typed
<1>7. CASE \E r \in Relays : Sender(r)
  <2>1. PICK r \in Relays : Sender(r)
    BY <1>7
  <2>2. PICK p \in Relay : p = relay[r]
    BY <1>0 DEF Relayed
  <2>3. PICK q \in Relay :
           /\ relay' = [relay EXCEPT ![r] = q] /\ UNCHANGED <<agent, user, cur, made>>
           /\ \/ Collects(p, q) /\ UNCHANGED <<chat, dropped>>
              \/ /\ p.batch # <<>>
                 /\ \/ UNCHANGED dropped /\ (Adds(p, q) \/ Fails(p, q) \/ Sends(r, p, q))
                    \/ Loses(p, q) /\ dropped' = dropped \cup ToSet(p.batch)
    BY <2>1, <2>2, SenderSteps
  <2>4. Relaying(r, p) /\ p.pend \in Seq(Item) /\ p.batch \in Seq(Item) /\ p.grow \in Nat
    BY <1>0, <2>2 DEF Relayed, Relay
  <2>5. /\ Chatted' /\ Grows /\ Len(chat') >= Len(chat) /\ Len(chat') \in Nat
        /\ Sends(r, p, q) /\ q.grow # 0 => q.grow \in DOMAIN chat' /\ chat'[q.grow].by = r
    <3>1. CASE UNCHANGED chat /\ ~Sends(r, p, q)
      <4>1. Chatted' /\ Grows
        BY <1>0, <2>3, <3>1, ChatKept DEF Grows
      <4> QED BY <1>0, <3>1, <4>1
    <3>2. CASE p.edit /\ EditsChat(p.grow, p.batch)
      <4>1. p.grow \in DOMAIN chat /\ Wholes(p.batch)
        BY <2>4, <3>2 DEF Relaying
      <4>2. /\ Chatted' /\ DOMAIN chat' = DOMAIN chat /\ Len(chat') = Len(chat)
            /\ \A i \in DOMAIN chat \ {p.grow} : chat'[i] = chat[i]
            /\ chat'[p.grow].by = chat[p.grow].by
        BY <1>0, <2>3, <2>4, <3>2, <4>1, ChatEdited
      <4>3. Grows
        BY <1>0, <2>3, <4>2 DEF Grows
      <4> QED BY <1>0, <3>2, <4>2, <4>3 DEF Sends
    <3>3. CASE Sends(r, p, q) /\ p.batch # <<>>
      <4> DEFINE m == Message("relay", r, p.batch)
      <4>1. r <= made /\ r \in 0..MaxRelays
        BY <2>4, <3>3, Limits DEF Relaying
      <4>2. m \in Post /\ Wholes(m.items) /\ m.by = r
        BY <2>4, <4>1 DEF Message, Post, Relaying
      <4> HIDE DEF m
      <4>3. /\ Chatted' /\ Len(chat') = Len(chat) + 1 /\ DOMAIN chat' = DOMAIN chat \cup {Len(chat) + 1}
            /\ chat'[Len(chat) + 1] = m /\ \A i \in DOMAIN chat : chat'[i] = chat[i]
        BY <1>0, <2>3, <3>3, <4>1, <4>2, ChatAppended DEF Sends, m
      <4>4. Grows
        BY <1>0, <2>3, <4>3 DEF Grows
      <4> QED BY <1>0, <3>3, <4>2, <4>3, <4>4 DEF Sends
    <3> QED BY <2>3, <3>1, <3>2, <3>3 DEF Adds, Fails, Sends, Loses, Collects
  <2>6. Bridged'
    BY <1>0, <2>3, <2>5 DEF Bridged, user
  <2>7. Relaying(r, q)'
    <3>1. CASE Sends(r, p, q) /\ p.batch # <<>>
      <4>1. Wholes(q.pend)' /\ Wholes(q.batch)'
        <5>1. Wholes(q.pend) /\ q.pend \in Seq(Item)
          BY <2>4, <3>1 DEF Sends, Relaying
        <5>2. Wholes(q.batch) /\ q.batch \in Seq(Item)
          BY <3>1 DEF Sends, Wholes
        <5> QED BY <1>0, <5>1, <5>2, WholesGrow
      <4>2. q.file # 0 => q.file \in {q.s - 1, q.s} /\ q.pos <= Whole(q.file)'
        BY <2>3, <2>4, <3>1 DEF Sends, Stays, Relaying, Whole, agent
      <4> QED BY <2>3, <2>4, <2>5, <3>1, <4>1, <4>2 DEF Sends, Stays, Relaying, agent
    <3>2. CASE Collects(p, q)
      <4>1. Wholes(q.batch)
        <5>0. q.batch \in WithoutBreaks(p.pend) /\ p.pend \in Seq(Item)
          BY <2>4, <3>2 DEF Collects
        <5>1. \A i \in DOMAIN q.batch : \E k \in DOMAIN p.pend : q.batch[i] = p.pend[k]
          BY <5>0, Filtered
        <5> QED BY <2>4, <5>1 DEF Relaying, Wholes
      <4>2. q.grow # 0 => q.grow = p.grow
        BY <3>2 DEF Collects, Anchor
      <4>3. Relaying(r, q)
        BY <2>4, <3>2, <4>1, <4>2 DEF Relaying, Collects, Stays, Wholes
      <4> QED BY <2>5, <4>3, RelayingGrows
    <3>3. CASE Adds(p, q) \/ Fails(p, q) \/ Loses(p, q)
      <4>1. Relaying(r, q)
        BY <2>4, <3>3 DEF Relaying, Adds, Fails, Loses, Stays, Wholes
      <4> QED BY <2>5, <4>1, RelayingGrows
    <3> QED BY <2>3, <3>1, <3>2, <3>3
  <2>8. Relayed'
    BY <1>2, <2>3, <2>5, <2>7
  <2> QED BY <1>0, <2>5, <2>6, <2>8 DEF Typed
<1> QED BY <1>3, <1>4, <1>5, <1>6, <1>7, Steps

LEMMA TypedInit == Init => Typed
<1> SUFFICES ASSUME Init PROVE Typed
  OBVIOUS
<1> USE Limits
<1>1. count = 1 /\ count \in Sessions /\ half = FALSE /\ made = 0 /\ cur = 0 /\ asked = 0 /\ chat = <<>>
  BY WatchAssumption DEF Init
<1>2. sess \in [Sessions -> Session] /\ \A s \in Sessions : ~sess[s].live
  <2>1. Absent \in Session /\ [Absent EXCEPT !.kind = "chat"] \in Session
        /\ ~Absent.live /\ ~[Absent EXCEPT !.kind = "chat"].live
    BY DEF Absent, Session
  <2> QED BY <2>1 DEF Init
<1>3. lines \in [Sessions -> Seq(Line)] /\ \A s \in Sessions : Len(lines[s]) <= MaxLines
  <2>1. PICK ls \in {<<>>, <<[kind |-> "text", q |-> 0]>>} : lines = [s \in Sessions |-> IF s = 1 THEN ls ELSE <<>>]
    BY DEF Init
  <2>2. [kind |-> "text", q |-> 0] \in Line
    BY DEF Line
  <2>3. MaxLines >= 1 /\ MaxLines \in Nat
    BY WatchAssumption
  <2>4. <<>> \in Seq(Line) /\ Len(<<>>) <= MaxLines
    BY <2>3
  <2>5. <<[kind |-> "text", q |-> 0]>> \in Seq(Line) /\ Len(<<[kind |-> "text", q |-> 0]>>) <= MaxLines
    BY <2>2, <2>3
  <2>6. ls \in Seq(Line) /\ Len(ls) <= MaxLines
    BY <2>4, <2>5
  <2> QED BY <2>1, <2>4, <2>6
<1>4. Sessioned
  BY <1>1, <1>2, <1>3 DEF Sessioned
<1>5. Chatted /\ Bridged
  BY <1>1 DEF Chatted, Bridged
<1>6. <<>> \in Seq(Item)
  OBVIOUS
<1>7. Idle \in Relay /\ Idle.pc = "off" /\ Idle.s = 0 /\ Idle.pend = <<>> /\ Idle.batch = <<>> /\ Idle.grow = 0
      /\ Idle.file = 0 /\ ~Idle.edit
  BY <1>6 DEF Idle, Relay
<1>8. relay = [r \in Relays |-> Idle]
  BY DEF Init
<1> HIDE DEF Idle
<1>9. Relayed
  BY <1>7, <1>8 DEF Relayed, Relaying, Wholes
<1> QED BY <1>4, <1>5, <1>9 DEF Typed

(* Sessions, relays and the chat keep their form: a relay follows a session *)
(* that was started, reads its transcript or the one before it, sends whole *)
(* lines, and edits only a message it has posted itself.                    *)
THEOREM RelaysStayTyped == Spec => []Typed
<1>1. Init => Typed
  BY TypedInit
<1>2. Typed /\ [Next]_vars => Typed'
  BY TypedStep
<1> QED BY <1>1, <1>2, PTL DEF Spec

Named == posts \in 0..MaxEvents /\ \A s \in Sessions : sess[s].kind \in Kinds \cup {"chat", "none"}

LEMMA NamedStep ==
  ASSUME Typed, Named, [Next]_vars
  PROVE  Named'
<1>0. sess \in [Sessions -> Session] /\ MaxEvents \in Nat
  BY WatchAssumption DEF Typed, Sessioned
<1>1. posts' \in 0..MaxEvents
  <2>1. posts' = posts \/ (posts < MaxEvents /\ posts' = posts + 1)
    BY DEF Next, vars, user, MoreEvents, Starts, AgentWrites, EndsLine, SessionEnds, Merges, UserPosts, BridgeTypes,
       BreakGrowth, SendsReply, Reconcile, BridgeStops, Tailing, Sender, Drain, Relocate, TailEnds, Restarts,
       OutcomeMarker, RelayReturns, Flush, EditMessage, EditFails, SendMessage, SendFails
  <2> QED BY <1>0, <2>1 DEF Named
<1>2. ASSUME NEW s \in Sessions
      PROVE  sess'[s].kind \in Kinds \cup {"chat", "none"}
  <2>1. sess[s] \in Session /\ sess[s].kind \in Kinds \cup {"chat", "none"}
    BY <1>0 DEF Named
  <2>2. CASE \E k \in Kinds : Starts(k)
    BY <1>0, <2>1, <2>2 DEF Starts, Absent
  <2>3. CASE \E x \in {"open", "done"} : SessionEnds(x)
    BY <1>0, <2>1, <2>3 DEF SessionEnds, Session
  <2>4. CASE \E n \in Sessions, x \in {"merged", "failed"} : Merges(n, x)
    BY <1>0, <2>1, <2>4 DEF Merges, Session
  <2>5. CASE UNCHANGED sess
    BY <2>1, <2>5
  <2> QED
    BY <2>2, <2>3, <2>4, <2>5 DEF Next, vars, agent, AgentWrites, EndsLine, UserPosts, BridgeTypes, BreakGrowth,
       SendsReply, Reconcile, BridgeStops, Tailing, Sender, Drain, Relocate, TailEnds, Restarts, OutcomeMarker, RelayReturns,
       Flush, EditMessage, EditFails, SendMessage, SendFails
<1> QED BY <1>1, <1>2 DEF Named

LEMMA TypedBounds ==
  ASSUME Typed, Named
  PROVE  TypeOK
<1>1. count \in 0..MaxSessions /\ cur \in 0..MaxRelays /\ made \in 0..MaxRelays
  BY Limits DEF Typed, Sessioned, Bridged
<1>2. ASSUME NEW r \in Relays
      PROVE  /\ relay[r].s \in 0..count /\ relay[r].file \in 0..count /\ relay[r].grow \in 0..Len(chat)
             /\ relay[r].grow # 0 => chat[relay[r].grow].by = r
             /\ relay[r].edit => Locked(r) /\ relay[r].grow # 0
  <2>1. relay[r] \in Relay /\ Relaying(r, relay[r]) /\ count \in Nat /\ Len(chat) \in Nat
        /\ DOMAIN chat = 1..Len(chat)
    BY <1>1 DEF Typed, Relayed, Chatted
  <2>2. relay[r].s \in Nat /\ relay[r].s <= count
    BY <2>1 DEF Relaying, Relay
  <2>3. relay[r].file \in Nat /\ relay[r].file <= count
    BY <2>1, <2>2 DEF Relaying, Relay
  <2> QED BY <2>1, <2>2, <2>3 DEF Relaying, Locked, Relay
<1> QED BY <1>1, <1>2 DEF Typed, Named, TypeOK, Sessioned

(* The types and bounds the run checks. *)
THEOREM TypeCorrect == Spec => []TypeOK
<1>1. Init => Named
  BY WatchAssumption DEF Init, Named, Absent
<1>2. Typed /\ Named /\ [Next]_vars => Named'
  BY NamedStep
<1> QED BY <1>1, <1>2, TypedBounds, RelaysStayTyped, PTL DEF Spec

-----------------------------------------------------------------------------
(* An answer stands below its question.                                     *)

LEMMA NotedStep ==
  ASSUME Typed, Noted, [Next]_vars
  PROVE  Noted'
<1>0. /\ lines \in [Sessions -> Seq(Line)] /\ count \in Sessions /\ asked \in Nat /\ asked' \in Nat /\ asked <= asked'
      /\ Typed' /\ Sessioned /\ DOMAIN chat \subseteq Nat
  <2>1. asked \in Nat /\ DOMAIN chat = 1..Len(chat) /\ Len(chat) \in Nat
    BY DEF Typed, Bridged, Chatted
  <2>2. asked' \in Nat /\ asked <= asked'
    <3>1. CASE Elsewhere
      BY <2>1, <3>1 DEF Elsewhere
    <3>2. CASE Written
      BY <2>1, <3>2 DEF Written
    <3>3. CASE BreakGrowth \/ Reconcile \/ BridgeStops
      BY <2>1, <3>3, BridgeSteps
    <3>4. CASE \E r \in Relays : Moves(r) \/ Sender(r)
      <4>1. UNCHANGED user
        BY <3>4 DEF Moves, Tailing, Sender, Drain, Relocate, TailEnds, Restarts, OutcomeMarker, RelayReturns, Flush, EditMessage,
           EditFails, SendMessage, SendFails
      <4> QED BY <2>1, <4>1 DEF user
    <3> QED BY <3>1, <3>2, <3>3, <3>4, Steps
  <2> QED BY <2>1, <2>2, TypedStep DEF Typed, Sessioned
<1>1. SUFFICES ASSUME NEW f \in Sessions, NEW i \in DOMAIN lines'[f]
               PROVE  /\ lines'[f][i].q <= asked'
                      /\ \A k \in 0..(i - 1) : Question(f, k)' < lines'[f][i].q =>
                           \E b \in (k + 1)..i : lines'[f][b].kind = "break"
  BY DEF Noted
<1>2. lines[f] \in Seq(Line) /\ DOMAIN lines[f] = 1..Len(lines[f]) /\ Len(lines[f]) \in Nat
  BY <1>0
<1>3. \A k \in DOMAIN lines[f] : lines[f][k].q \in Nat
  <2>1. \A k \in DOMAIN lines[f] : lines[f][k] \in Line
    BY <1>2
  <2> QED BY <2>1 DEF Line
<1>4. CASE i \in DOMAIN lines[f] /\ \A k \in 1..i : lines'[f][k] = lines[f][k]
  <2>1. lines'[f][i] = lines[f][i] /\ i \in Nat
    BY <1>2, <1>4
  <2>2. lines[f][i].q <= asked
    BY <1>4 DEF Noted
  <2>3. ASSUME NEW k \in 0..(i - 1), Question(f, k)' < lines'[f][i].q
        PROVE  \E b \in (k + 1)..i : lines'[f][b].kind = "break"
    <3>1. Question(f, k)' = Question(f, k)
      BY <1>4, <2>1 DEF Question
    <3>2. PICK b \in (k + 1)..i : lines[f][b].kind = "break"
      BY <1>4, <2>1, <2>3, <3>1 DEF Noted
    <3>3. lines'[f][b] = lines[f][b]
      BY <1>4, <2>1
    <3> QED BY <3>2, <3>3
  <2> QED BY <1>0, <1>3, <1>4, <2>1, <2>2, <2>3
<1>5. CASE lines'[f] = lines[f]
  <2>1. i \in DOMAIN lines[f] /\ \A k \in 1..i : lines'[f][k] = lines[f][k]
    BY <1>5
  <2> QED BY <1>4, <2>1
<1>6. CASE \E h \in BOOLEAN : AgentWrites(h)
  <2>1. CASE f # count
    <3>1. lines'[f] = lines[f]
      BY <1>0, <1>6, <2>1 DEF AgentWrites
    <3> QED BY <1>5, <3>1
  <2>2. CASE f = count
    <3> DEFINE n == Len(lines[f])
               l == [kind |-> "text", q |-> LastQuestion(f)]
    <3>1. lines'[f] = Append(lines[f], l)
      BY <1>0, <1>6, <2>2 DEF AgentWrites
    <3> HIDE DEF l
    <3>2. /\ DOMAIN lines'[f] = 1..(n + 1) /\ lines'[f][n + 1] = l
          /\ \A k \in 1..n : lines'[f][k] = lines[f][k]
      BY <1>2, <3>1
    <3>3. CASE i \in 1..n
      <4>1. i \in DOMAIN lines[f] /\ \A k \in 1..i : k \in 1..n
        BY <1>2, <3>3
      <4>2. \A k \in 1..i : lines'[f][k] = lines[f][k]
        BY <3>2, <4>1
      <4> QED BY <1>4, <4>1, <4>2, Zenon
    <3>4. CASE i = n + 1
      <4>1. l.q = Question(f, n)
        BY <1>2 DEF l, LastQuestion, Question
      <4>2. l.q <= asked /\ l.q \in Nat
        <5>1. CASE n = 0
          BY <1>0, <4>1, <5>1 DEF Question
        <5>2. CASE n # 0
          <6>1. n \in DOMAIN lines[f] /\ Question(f, n) = lines[f][n].q
            BY <1>2, <5>2 DEF Question
          <6> QED BY <1>3, <4>1, <6>1 DEF Noted
        <5> QED BY <5>1, <5>2
      <4>3. ASSUME NEW k \in 0..n, Question(f, k)' < l.q
            PROVE  \E b \in (k + 1)..i : lines'[f][b].kind = "break"
        <5>1. Question(f, k)' = Question(f, k)
          BY <1>2, <3>2 DEF Question
        <5>2. k # n /\ n # 0
          BY <1>2, <4>1, <4>2, <4>3, <5>1
        <5>3. n \in DOMAIN lines[f] /\ k \in 0..(n - 1) /\ Question(f, k) < lines[f][n].q
          BY <1>2, <4>1, <4>3, <5>1, <5>2 DEF Question
        <5>4. PICK b \in (k + 1)..n : lines[f][b].kind = "break"
          BY <5>3 DEF Noted
        <5> QED BY <1>2, <3>2, <3>4, <5>4
      <4> QED BY <1>0, <1>2, <3>2, <3>4, <4>2, <4>3
    <3>5. i \in 1..n \/ i = n + 1
      BY <1>2, <3>2
    <3> QED BY <3>3, <3>4, <3>5
  <2> QED BY <2>1, <2>2
<1>7. CASE BridgeTypes
  <2>1. PICK j \in DOMAIN chat : /\ asked' = j
                                 /\ lines' = [lines EXCEPT ![count] = Append(lines[count], [kind |-> "break", q |-> j])]
    BY <1>7 DEF BridgeTypes
  <2>2. CASE f # count
    <3>1. lines'[f] = lines[f]
      BY <1>0, <2>1, <2>2
    <3> QED BY <1>5, <3>1
  <2>3. CASE f = count
    <3> DEFINE n == Len(lines[f])
               l == [kind |-> "break", q |-> j]
    <3>1. lines'[f] = Append(lines[f], l) /\ l.q = asked' /\ l.kind = "break"
      BY <1>0, <2>1, <2>3
    <3> HIDE DEF l
    <3>2. /\ DOMAIN lines'[f] = 1..(n + 1) /\ lines'[f][n + 1] = l
          /\ \A k \in 1..n : lines'[f][k] = lines[f][k]
      BY <1>2, <3>1
    <3>3. CASE i \in 1..n
      BY <1>2, <1>4, <3>2, <3>3
    <3>4. CASE i = n + 1
      BY <1>0, <1>2, <3>1, <3>2, <3>4
    <3>5. i \in 1..n \/ i = n + 1
      BY <1>2, <3>2
    <3> QED BY <3>3, <3>4, <3>5
  <2> QED BY <2>2, <2>3
<1>8. CASE \E x \in {"open", "done"} : SessionEnds(x)
  <2>1. lines' = IF half THEN [lines EXCEPT ![count] = Front(lines[count])] ELSE lines
    BY <1>8 DEF SessionEnds
  <2>2. CASE half /\ f = count
    <3>1. lines'[f] = Front(lines[f]) /\ Len(lines[f]) > 0
      BY <1>0, <1>2, <2>1, <2>2 DEF Sessioned
    <3>2. /\ DOMAIN lines'[f] = 1..(Len(lines[f]) - 1)
          /\ \A k \in 1..(Len(lines[f]) - 1) : lines'[f][k] = lines[f][k]
      BY <1>2, <3>1 DEF Front
    <3>3. i \in DOMAIN lines[f] /\ \A k \in 1..i : lines'[f][k] = lines[f][k]
      BY <1>2, <3>2
    <3> QED BY <1>4, <3>3
  <2>3. CASE ~(half /\ f = count)
    <3>1. lines'[f] = lines[f]
      BY <1>0, <2>1, <2>3
    <3> QED BY <1>5, <3>1
  <2> QED BY <2>2, <2>3
<1>9. CASE UNCHANGED lines
  BY <1>5, <1>9
<1> QED
  BY <1>6, <1>7, <1>8, <1>9
     DEF Next, vars, agent, Starts, EndsLine, Merges, UserPosts, BreakGrowth, SendsReply, Reconcile, BridgeStops,
         Tailing, Sender, Drain, Relocate, TailEnds, Restarts, OutcomeMarker, RelayReturns, Flush, EditMessage, EditFails,
         SendMessage, SendFails

LEMMA AnchoredRewinds ==
  ASSUME NEW p \in Relay, NEW q \in Relay, Anchored(p), Rewinds(p, q)
  PROVE  Anchored(q)
<1>1. /\ q.grow = p.grow /\ q.batch = p.batch /\ q.pend = p.pend /\ q.pos = 0 /\ p.grow \in Nat
  BY DEF Rewinds, Posting, Relay
<1>2. Question(q.file, q.pos) = 0
  BY <1>1 DEF Question
<1> QED BY <1>1, <1>2 DEF Anchored

LEMMA AnchoredRenews ==
  ASSUME NEW p \in Relay, NEW q \in Relay, Anchored(p), Renews(p, q)
  PROVE  Anchored(q)
<1>1. /\ q.grow = p.grow /\ q.batch = p.batch /\ q.pend = p.pend /\ q.pos = 0 /\ p.grow \in Nat
  BY DEF Renews, Posting, Relay
<1>2. Question(q.file, q.pos) = 0
  BY <1>1 DEF Question
<1> QED BY <1>1, <1>2 DEF Anchored

LEMMA AnchoredReads ==
  ASSUME Sessioned, Noted, NEW r \in Relays, NEW p \in Relay, NEW q \in Relay, Relaying(r, p), Anchored(p),
         Reads(p, q)
  PROVE  Anchored(q)
<1> DEFINE f == p.file
           w == Whole(p.file)
           new == Lines(p)
<1>1. /\ q.grow = p.grow /\ q.batch = p.batch /\ q.file = f /\ q.pos = w /\ q.pend = p.pend \o new
      /\ f # 0 /\ p.pos <= w /\ p.grow \in Nat /\ p.pend \in Seq(Item)
  BY DEF Reads, Posting, Relay, Relaying
<1>2. /\ new \in Seq(Item) /\ DOMAIN new = 1..(w - p.pos) /\ f \in Sessions /\ p.pos \in Nat /\ w \in Nat
      /\ \A i \in DOMAIN new : new[i] = <<f, p.pos + i>> /\ p.pos + i \in 1..w
  BY <1>1, LinesTyped
<1>3. /\ \A i \in 1..w : i \in DOMAIN lines[f] /\ lines[f][i].q \in Nat
  <2>1. w <= Len(lines[f]) /\ lines[f] \in Seq(Line) /\ Len(lines[f]) \in Nat /\ DOMAIN lines[f] = 1..Len(lines[f])
    BY <1>2, WholeTyped
  <2>2. \A i \in DOMAIN lines[f] : lines[f][i] \in Line
    BY <2>1
  <2>3. \A i \in DOMAIN lines[f] : lines[f][i].q \in Nat
    BY <2>2 DEF Line
  <2> HIDE DEF w, f
  <2>4. \A i \in 1..w : i \in DOMAIN lines[f]
    BY <1>2, <2>1
  <2> QED BY <2>3, <2>4
<1>4. SUFFICES ASSUME p.grow # 0
               PROVE  /\ \A i \in DOMAIN q.pend : AskedAbove(q.pend[i], p.grow) \/ HasTurnBreak(q.pend)
                      /\ HasTurnBreak(q.pend) \/ Question(f, w) < p.grow
  BY <1>1 DEF Anchored
<1> HIDE DEF f, w, new
<1>5. HasTurnBreak(p.pend) \/ HasTurnBreak(new) => HasTurnBreak(q.pend)
  BY <1>1, <1>2, JoinedWholes
<1>6. ASSUME ~HasTurnBreak(q.pend), NEW i \in (p.pos + 1)..w
      PROVE  Question(f, i) < p.grow
  <2>1. Question(f, p.pos) < p.grow
    BY <1>1, <1>4, <1>5, <1>6 DEF Anchored, f
  <2>2. i \in DOMAIN lines[f] /\ Question(f, i) = lines[f][i].q /\ Question(f, i) \in Nat
    BY <1>2, <1>3, <1>6 DEF Question
  <2>3. Question(f, p.pos) \in Nat
    BY <1>1, <1>2, <1>3 DEF Question
  <2>4. ASSUME Question(f, p.pos) < Question(f, i)
        PROVE  FALSE
    <3>1. PICK b \in (p.pos + 1)..i : lines[f][b].kind = "break"
      BY <1>2, <2>2, <2>4 DEF Noted
    <3>2. b - p.pos \in DOMAIN new /\ new[b - p.pos] = <<f, b>>
      BY <1>2, <3>1
    <3>3. b \in DOMAIN lines[f]
      BY <1>2, <1>3, <3>1
    <3>4. KindOf(<<f, b>>) = "break"
      BY <1>2, <3>1, <3>3 DEF KindOf, IsLine
    <3>5. HasTurnBreak(new)
      BY <3>2, <3>4 DEF HasTurnBreak
    <3> QED BY <1>5, <1>6, <3>5
  <2> QED BY <1>1, <2>1, <2>2, <2>3, <2>4
<1>7. ASSUME ~HasTurnBreak(q.pend)
      PROVE  Question(f, w) < p.grow
  <2>1. CASE w = p.pos
    BY <1>1, <1>4, <1>5, <1>7, <2>1 DEF Anchored, f
  <2>2. CASE w # p.pos
    BY <1>1, <1>2, <1>6, <1>7, <2>2
  <2> QED BY <2>1, <2>2
<1>8. ASSUME ~HasTurnBreak(q.pend), NEW i \in DOMAIN q.pend
      PROVE  AskedAbove(q.pend[i], p.grow)
  <2>1. \/ i \in DOMAIN p.pend /\ q.pend[i] = p.pend[i]
        \/ i - Len(p.pend) \in DOMAIN new /\ q.pend[i] = new[i - Len(p.pend)]
    BY <1>1, <1>2, <1>8, Joined
  <2>2. CASE i \in DOMAIN p.pend /\ q.pend[i] = p.pend[i]
    BY <1>4, <1>5, <1>8, <2>2 DEF Anchored
  <2>3. CASE i - Len(p.pend) \in DOMAIN new /\ q.pend[i] = new[i - Len(p.pend)]
    <3>1. PICK k \in DOMAIN new : q.pend[i] = new[k]
      BY <2>3
    <3>2. q.pend[i] = <<f, p.pos + k>> /\ p.pos + k \in (p.pos + 1)..w
      BY <1>2, <3>1
    <3>3. Question(f, p.pos + k) < p.grow
      BY <1>6, <1>8, <3>2
    <3>4. p.pos + k # 0
      BY <1>2, <3>2
    <3> QED BY <3>2, <3>3, <3>4 DEF AskedAbove, Question
  <2> QED BY <2>1, <2>2, <2>3
<1> QED BY <1>7, <1>8

LEMMA AnchoredCloses ==
  ASSUME Sessioned, NEW r \in Relays, NEW p \in Relay, NEW q \in Relay, Relaying(r, p), Anchored(p),
         Closes(p, q) \/ Marks(p, q)
  PROVE  Anchored(q)
<1>1. /\ q.grow = p.grow /\ q.batch = p.batch /\ q.file = p.file /\ q.pos = p.pos /\ p.pend \in Seq(Item)
      /\ q.pend = p.pend \/ (q.pend = p.pend \o <<Outcome(p.s)>> /\ p.pc = "outcome")
  BY DEF Closes, Marks, Keeps, Posting, Relay
<1>2. CASE q.pend = p.pend
  BY <1>1, <1>2 DEF Anchored
<1>3. CASE q.pend = p.pend \o <<Outcome(p.s)>> /\ p.pc = "outcome"
  <2>1. p.s \in Sessions
    BY <1>3, Limits DEF Relaying, Relay, Sessioned
  <2>2. <<Outcome(p.s)>> \in Seq(Item) /\ ~IsLine(Outcome(p.s))
    BY <2>1, Markers
  <2>3. HasTurnBreak(p.pend) => HasTurnBreak(q.pend)
    BY <1>1, <1>3, <2>2, JoinedWholes
  <2>4. ASSUME NEW i \in DOMAIN q.pend
        PROVE  q.pend[i] = Outcome(p.s) \/ (i \in DOMAIN p.pend /\ q.pend[i] = p.pend[i])
    <3> DEFINE last == <<Outcome(p.s)>>
    <3>1. last \in Seq(Item) /\ \A k \in DOMAIN last : last[k] = Outcome(p.s)
      BY <2>2
    <3> HIDE DEF last
    <3>2. \/ i \in DOMAIN p.pend /\ (p.pend \o last)[i] = p.pend[i]
          \/ i - Len(p.pend) \in DOMAIN last /\ (p.pend \o last)[i] = last[i - Len(p.pend)]
      BY <1>1, <1>3, <2>4, <3>1, Joined DEF last
    <3> QED BY <1>3, <3>1, <3>2 DEF last
  <2> QED BY <1>1, <2>2, <2>3, <2>4 DEF Anchored, AskedAbove
<1> QED BY <1>1, <1>2, <1>3

LEMMA AnchoredCollects ==
  ASSUME NEW p \in Relay, NEW q \in Relay, Anchored(p), Collects(p, q)
  PROVE  Anchored(q)
<1>1. SUFFICES ASSUME q.grow # 0
               PROVE  Anchored(q)
  BY DEF Anchored
<1>2. /\ q.edit /\ q.grow = p.grow /\ ~HasTurnBreak(p.pend) /\ q.file = p.file /\ q.pos = p.pos /\ q.pend = <<>>
      /\ q.batch \in WithoutBreaks(p.pend) /\ p.pend \in Seq(Item)
  BY <1>1 DEF Collects, Stays, Anchor, Relay
<1>3. \A i \in DOMAIN q.batch : \E k \in DOMAIN p.pend : q.batch[i] = p.pend[k]
  BY <1>2, Filtered
<1> QED BY <1>1, <1>2, <1>3 DEF Anchored

(* All but what is new in the chat was there, and stays below its question. *)
LEMMA AnswersStep ==
  ASSUME Typed, Grows, AnswerBelowQuestion,
         \A i \in DOMAIN chat' : \A j \in DOMAIN chat'[i].items :
           \/ i \in DOMAIN chat /\ j \in DOMAIN chat[i].items /\ chat'[i].items[j] = chat[i].items[j]
           \/ chat'[i].items[j] \in Item /\ IsWhole(chat'[i].items[j]) /\ AskedAbove(chat'[i].items[j], i)
  PROVE  AnswerBelowQuestion'
<1>1. ASSUME NEW i \in DOMAIN chat', NEW j \in DOMAIN chat'[i].items
      PROVE  AskedAbove(chat[i].items[j], i)'
  <2>1. PICK e : e = chat'[i].items[j]
    OBVIOUS
  <2>2. e \in Item /\ IsWhole(e) /\ AskedAbove(e, i)
    <3>1. CASE i \in DOMAIN chat /\ j \in DOMAIN chat[i].items /\ chat'[i].items[j] = chat[i].items[j]
      <4>1. chat[i] \in Post /\ Wholes(chat[i].items)
        BY <3>1 DEF Typed, Chatted
      <4>2. chat[i].items \in Seq(Item)
        BY <4>1 DEF Post
      <4>3. e \in Item /\ IsWhole(e)
        BY <2>1, <3>1, <4>1, <4>2 DEF Wholes
      <4>4. AskedAbove(e, i)
        BY <2>1, <3>1 DEF AnswerBelowQuestion, AskedAbove
      <4> QED BY <4>3, <4>4
    <3>2. CASE chat'[i].items[j] \in Item /\ IsWhole(chat'[i].items[j]) /\ AskedAbove(chat'[i].items[j], i)
      BY <2>1, <3>2
    <3> QED BY <3>1, <3>2
  <2>3. AskedAbove(e, i)'
    BY <2>2, ItemGrows DEF Grows
  <2> QED BY <2>1, <2>3 DEF AskedAbove, IsLine
<1> QED BY <1>1 DEF AnswerBelowQuestion, AskedAbove

LEMMA AnswerStep ==
  ASSUME AnswerInv, [Next]_vars
  PROVE  AnswerInv'
<1>0. /\ Typed /\ Typed' /\ Grows /\ Noted /\ Noted' /\ AnswerBelowQuestion /\ Sessioned
      /\ relay \in [Relays -> Relay] /\ chat \in Seq(Post) /\ Len(chat) \in Nat /\ DOMAIN chat = 1..Len(chat)
  BY TypedStep, NotedStep DEF AnswerInv, Typed, Relayed, Chatted
<1>1. ASSUME NEW r \in Relays, NEW p \in Relay, p = relay[r]
      PROVE  Relaying(r, p) /\ Anchored(p) /\ Anchored(p)'
  <2>1. Relaying(r, p) /\ Anchored(p)
    BY <1>1 DEF AnswerInv, Typed, Relayed
  <2> QED BY <1>0, <2>1, AnchoredGrows
<1>2. ASSUME relay' = relay
      PROVE  \A r \in Relays : Anchored(relay[r])'
  <2>1. SUFFICES ASSUME NEW r \in Relays
                 PROVE  Anchored(relay[r])'
    OBVIOUS
  <2>2. PICK p \in Relay : p = relay[r]
    BY <1>0
  <2> QED BY <1>1, <1>2, <2>2 DEF Anchored, AskedAbove, HasTurnBreak, KindOf, IsLine, Question
<1>3. ASSUME NEW r \in Relays, NEW q \in Relay, relay' = [relay EXCEPT ![r] = q], Anchored(q)'
      PROVE  \A x \in Relays : Anchored(relay[x])'
  <2>1. SUFFICES ASSUME NEW x \in Relays
                 PROVE  Anchored(relay[x])'
    OBVIOUS
  <2>2. relay'[r] = q /\ \A y \in Relays \ {r} : relay'[y] = relay[y]
    BY <1>0, <1>3
  <2>3. PICK p \in Relay : p = relay[x]
    BY <1>0
  <2>4. CASE x = r
    BY <1>3, <2>2, <2>4 DEF Anchored, AskedAbove, HasTurnBreak, KindOf, IsLine, Question
  <2>5. CASE x # r
    <3>1. relay'[x] = p /\ Anchored(p)'
      BY <1>1, <2>2, <2>3, <2>5
    <3> QED BY <3>1 DEF Anchored, AskedAbove, HasTurnBreak, KindOf, IsLine, Question
  <2> QED BY <2>4, <2>5
<1>4. UNCHANGED chat => AnswerBelowQuestion'
  BY <1>0, AnswersStep
<1>5. CASE Elsewhere
  BY <1>0, <1>2, <1>4, <1>5 DEF Elsewhere, AnswerInv
<1>6. CASE Written
  <2>1. PICK from \in {"user", "bridge"} : chat' = Append(chat, Message(from, 0, <<>>))
    BY <1>6 DEF Written
  <2> DEFINE m == Message(from, 0, <<>>)
  <2>2. m.items = <<>>
    BY DEF Message
  <2> HIDE DEF m
  <2>3. /\ DOMAIN chat' = 1..(Len(chat) + 1) /\ chat'[Len(chat) + 1] = m
        /\ \A i \in DOMAIN chat : chat'[i] = chat[i]
    BY <1>0, <2>1 DEF m
  <2>4. AnswerBelowQuestion'
    <3>1. \A i \in DOMAIN chat' : \A j \in DOMAIN chat'[i].items :
            i \in DOMAIN chat /\ j \in DOMAIN chat[i].items /\ chat'[i].items[j] = chat[i].items[j]
      BY <1>0, <2>2, <2>3
    <3> QED BY <1>0, <3>1, AnswersStep
  <2> QED BY <1>0, <1>2, <1>6, <2>4 DEF Written, AnswerInv
<1>7. CASE BreakGrowth \/ Reconcile \/ BridgeStops
  <2>1. /\ UNCHANGED chat /\ relay' \in [Relays -> Relay]
        /\ \A r \in Relays : Reset(relay[r], relay'[r]) \/ Begins(r, relay'[r])
    BY <1>0, <1>7, BridgeSteps
  <2>2. ASSUME NEW r \in Relays
        PROVE  Anchored(relay[r])'
    <3>1. PICK p \in Relay, q \in Relay : p = relay[r] /\ q = relay'[r]
      BY <1>0, <2>1
    <3>2. Anchored(q)'
      <4>1. CASE q.grow = 0
        BY <4>1 DEF Anchored
      <4>2. CASE q.grow # 0
        <5>1. Reset(p, q) /\ q.grow = p.grow
          BY <2>1, <3>1, <4>2 DEF Reset, Begins
        <5> QED BY <1>1, <3>1, <5>1 DEF Reset, Anchored
      <4> QED BY <4>1, <4>2
    <3> QED BY <3>1, <3>2 DEF Anchored, AskedAbove, HasTurnBreak, KindOf, IsLine, Question
  <2> QED BY <1>0, <1>4, <2>1, <2>2 DEF AnswerInv
<1>8. CASE \E r \in Relays : Moves(r)
  <2>1. PICK r \in Relays : Moves(r)
    BY <1>8
  <2>2. PICK l, m, q \in Relay :
           /\ relay' = [relay EXCEPT ![r] = q] /\ Tailed(relay[r], l, m, q)
           /\ UNCHANGED <<agent, chat, user, cur, made, dropped>>
    BY <1>0, <2>1, TailingSteps
  <2>3. PICK p \in Relay : p = relay[r]
    BY <1>0
  <2>4. Relaying(r, l) /\ Anchored(l)
    BY <1>0, <1>1, <2>2, <2>3, RelayingRewinds, AnchoredRewinds, RelayingRenews, AnchoredRenews DEF Tailed
  <2>5. Relaying(r, m) /\ Anchored(m)
    BY <1>0, <2>2, <2>4, RelayingReads, AnchoredReads DEF Tailed
  <2>6. Relaying(r, q) /\ Anchored(q)
    BY <1>0, <2>2, <2>5, RelayingCloses, AnchoredCloses DEF Tailed
  <2>7. Anchored(q)'
    BY <1>0, <2>6, AnchoredGrows
  <2> QED BY <1>0, <1>3, <1>4, <2>2, <2>7 DEF AnswerInv
<1>9. CASE \E r \in Relays : Sender(r)
  <2>1. PICK r \in Relays : Sender(r)
    BY <1>9
  <2>2. PICK p \in Relay : p = relay[r]
    BY <1>0
  <2>3. PICK q \in Relay :
           /\ relay' = [relay EXCEPT ![r] = q] /\ UNCHANGED <<agent, user, cur, made>>
           /\ \/ Collects(p, q) /\ UNCHANGED <<chat, dropped>>
              \/ /\ p.batch # <<>>
                 /\ \/ UNCHANGED dropped /\ (Adds(p, q) \/ Fails(p, q) \/ Sends(r, p, q))
                    \/ Loses(p, q) /\ dropped' = dropped \cup ToSet(p.batch)
    BY <1>0, <2>1, <2>2, SenderSteps
  <2>4. /\ Relaying(r, p) /\ Anchored(p) /\ p.pend \in Seq(Item) /\ p.batch \in Seq(Item) /\ p.grow \in Nat
        /\ \A i \in DOMAIN p.batch : p.batch[i] \in Item /\ IsWhole(p.batch[i])
    <3>1. Relaying(r, p) /\ Anchored(p)
      BY <1>1, <2>2
    <3>2. p.pend \in Seq(Item) /\ p.batch \in Seq(Item) /\ p.grow \in Nat
      BY DEF Relay
    <3>3. \A i \in DOMAIN p.batch : IsWhole(p.batch[i])
      BY <3>1 DEF Relaying, Wholes
    <3> QED BY <3>1, <3>2, <3>3
  <2>5. \A e : IsLine(e) /\ e[1] \in Sessions => lines[e[1]][e[2]].q < Len(chat) + 1
    <3>1. asked \in Nat /\ asked <= Len(chat)
      BY <1>0 DEF Typed, Bridged
    <3>2. SUFFICES ASSUME NEW f \in Sessions, NEW i \in DOMAIN lines[f]
                   PROVE  lines[f][i].q < Len(chat) + 1
      BY DEF IsLine
    <3>3. lines[f][i] \in Line /\ lines[f][i].q <= asked
      BY <1>0 DEF Sessioned, Noted
    <3>4. lines[f][i].q \in Nat
      BY <3>3 DEF Line
    <3> QED BY <1>0, <3>1, <3>3, <3>4
  <2>6. \A e \in Item : AskedAbove(e, Len(chat) + 1)
    BY <2>5 DEF AskedAbove, Item
  <2>7. CASE Collects(p, q) /\ UNCHANGED chat
    <3>1. Anchored(q)
      BY <2>4, <2>7, AnchoredCollects
    <3>3. Anchored(q)'
      <4>1. CASE q.grow = 0
        BY <4>1 DEF Anchored
      <4>2. CASE q.grow # 0
        <5>1. /\ q.grow = p.grow /\ q.file = p.file /\ q.pos = p.pos /\ q.pend = <<>> /\ ~HasTurnBreak(p.pend)
              /\ q.batch \in WithoutBreaks(p.pend)
          BY <2>7, <4>2 DEF Collects, Stays, Anchor
        <5>2. \A i \in DOMAIN q.batch : \E k \in DOMAIN p.pend : q.batch[i] = p.pend[k]
          BY <2>4, <5>1, Filtered
        <5>3. Wholes(q.batch)
          BY <2>4, <5>2 DEF Relaying, Wholes
        <5>4. Relaying(r, q)
          BY <2>4, <2>7, <5>1, <5>3 DEF Relaying, Collects, Stays, Wholes
        <5> QED BY <1>0, <3>1, <5>4, AnchoredGrows
      <4> QED BY <4>1, <4>2
    <3> QED BY <1>0, <1>3, <1>4, <2>3, <2>7, <3>3 DEF AnswerInv
  <2>8. ASSUME \/ UNCHANGED chat
               \/ p.edit /\ EditsChat(p.grow, p.batch)
        PROVE  AnswerBelowQuestion'
    <3>1. CASE p.edit /\ EditsChat(p.grow, p.batch)
      <4>1. p.grow # 0 /\ p.grow \in DOMAIN chat /\ Wholes(p.batch)
        BY <2>4, <3>1 DEF Relaying
      <4>2. /\ DOMAIN chat' = DOMAIN chat /\ \A i \in DOMAIN chat \ {p.grow} : chat'[i] = chat[i]
            /\ chat'[p.grow].items = chat[p.grow].items \o p.batch /\ chat[p.grow].items \in Seq(Item)
        BY <1>0, <2>3, <2>4, <3>1, <4>1, ChatEdited DEF Typed, Grows
      <4>3. ASSUME NEW j \in DOMAIN chat'[p.grow].items
            PROVE  LET e == chat'[p.grow].items[j] IN
                   \/ j \in DOMAIN chat[p.grow].items /\ e = chat[p.grow].items[j]
                   \/ e \in Item /\ IsWhole(e) /\ AskedAbove(e, p.grow)
        <5>1. \/ j \in DOMAIN chat[p.grow].items /\ chat'[p.grow].items[j] = chat[p.grow].items[j]
              \/ \E k \in DOMAIN p.batch : chat'[p.grow].items[j] = p.batch[k]
          <6>1. PICK a \in Seq(Item) : a = chat[p.grow].items
            BY <4>2
          <6>2. chat'[p.grow].items = a \o p.batch
            BY <4>2, <6>1
          <6>3. \A k \in DOMAIN (a \o p.batch) :
                  k \in DOMAIN a \/ (k - Len(a) \in DOMAIN p.batch /\ (a \o p.batch)[k] = p.batch[k - Len(a)])
            BY <2>4, Joined
          <6>4. \A k \in DOMAIN a : (a \o p.batch)[k] = a[k]
            BY <2>4, Joined
          <6> QED BY <4>3, <6>1, <6>2, <6>3, <6>4
        <5> QED BY <2>4, <4>1, <5>1 DEF Anchored
      <4> QED BY <1>0, <4>2, <4>3, AnswersStep
    <3> QED BY <1>4, <2>8, <3>1
  <2>9. CASE Adds(p, q) \/ Fails(p, q) \/ Loses(p, q)
    <3>1. AnswerBelowQuestion'
      BY <2>8, <2>9 DEF Adds, Fails, Loses
    <3>2. Relaying(r, q) /\ Anchored(q)
      BY <2>4, <2>9 DEF Relaying, Adds, Fails, Loses, Stays, Wholes, Anchored
    <3>3. Anchored(q)'
      BY <1>0, <3>2, AnchoredGrows
    <3> QED BY <1>0, <1>3, <2>3, <3>1, <3>3 DEF AnswerInv
  <2>10. CASE Sends(r, p, q) /\ p.batch # <<>>
    <3> DEFINE m == Message("relay", r, p.batch)
    <3>1. m.items = p.batch
      BY DEF Message
    <3> HIDE DEF m
    <3>2. /\ DOMAIN chat' = 1..(Len(chat) + 1) /\ chat'[Len(chat) + 1] = m
          /\ \A i \in DOMAIN chat : chat'[i] = chat[i]
      BY <1>0, <2>10 DEF m, Sends
    <3>3. AnswerBelowQuestion'
      <4>1. ASSUME NEW i \in DOMAIN chat', NEW j \in DOMAIN chat'[i].items
            PROVE  \/ i \in DOMAIN chat /\ j \in DOMAIN chat[i].items /\ chat'[i].items[j] = chat[i].items[j]
                   \/ chat'[i].items[j] \in Item /\ IsWhole(chat'[i].items[j]) /\ AskedAbove(chat'[i].items[j], i)
        <5>1. CASE i \in DOMAIN chat
          BY <3>2, <5>1
        <5>2. CASE i = Len(chat) + 1
          BY <2>4, <2>6, <3>1, <3>2, <5>2
        <5> QED BY <1>0, <3>2, <5>1, <5>2
      <4> QED BY <1>0, <4>1, AnswersStep
    <3>4. Anchored(q)'
      <4>1. CASE q.grow = 0
        BY <4>1 DEF Anchored
      <4>2. CASE q.grow # 0
        <5>1. /\ q.grow = Len(chat) + 1 /\ q.batch = <<>> /\ q.pend = p.pend /\ q.file = p.file /\ q.pos = p.pos
              /\ UNCHANGED <<sess, count, lines, half>>
          BY <2>3, <2>10, <4>2 DEF Sends, Stays, agent
        <5>2. p.file # 0 => Question(p.file, p.pos) < Len(chat) + 1
          <6>1. SUFFICES ASSUME p.file # 0, p.pos # 0
                         PROVE  Question(p.file, p.pos) < Len(chat) + 1
            BY <1>0 DEF Question
          <6>2. p.file \in Sessions /\ p.pos \in Nat
            BY <6>1, Limits DEF Relay
          <6>3. p.pos <= Whole(p.file) /\ Whole(p.file) <= Len(lines[p.file]) /\ Whole(p.file) \in Nat
                /\ DOMAIN lines[p.file] = 1..Len(lines[p.file]) /\ Len(lines[p.file]) \in Nat
            BY <1>0, <2>4, <6>1, <6>2, WholeTyped DEF Relaying
          <6> HIDE DEF Whole
          <6>4. p.pos \in DOMAIN lines[p.file]
            BY <6>1, <6>2, <6>3
          <6>5. IsLine(<<p.file, p.pos>>)
            BY <6>2, <6>4 DEF IsLine
          <6> QED BY <2>5, <6>1, <6>2, <6>5 DEF Question
        <5>3. \A i \in DOMAIN p.pend : p.pend[i] \in Item
          BY <2>4
        <5>4. Anchored(q)
          BY <2>6, <5>1, <5>2, <5>3 DEF Anchored
        <5> QED BY <5>1, <5>4 DEF Anchored, AskedAbove, HasTurnBreak, KindOf, IsLine, Question
      <4> QED BY <4>1, <4>2
    <3> QED BY <1>0, <1>3, <2>3, <3>3, <3>4 DEF AnswerInv
  <2> QED BY <2>3, <2>7, <2>9, <2>10
<1> QED BY <1>5, <1>6, <1>7, <1>8, <1>9, <1>0, Steps

(* A line of the transcript that answers a question is never appended to a  *)
(* message above the question, whatever the relays, the users and the       *)
(* bridge do in between.                                                    *)
THEOREM AnswersBelow == Spec => []AnswerBelowQuestion
<1>1. Init => AnswerInv
  <2> SUFFICES ASSUME Init PROVE AnswerInv
    OBVIOUS
  <2>1. Typed
    BY TypedInit
  <2>2. Noted
    <3>1. PICK ls \in {<<>>, <<[kind |-> "text", q |-> 0]>>} :
            lines = [s \in Sessions |-> IF s = 1 THEN ls ELSE <<>>]
      BY DEF Init
    <3>2. asked = 0
      BY DEF Init
    <3>3. \A f \in Sessions : \A i \in DOMAIN lines[f] : i = 1 /\ lines[f][i].q = 0
      BY <3>1
    <3> QED BY <3>2, <3>3 DEF Noted, Question
  <2>3. AnswerBelowQuestion /\ \A r \in Relays : Anchored(relay[r])
    BY DEF Init, AnswerBelowQuestion, Anchored, Idle
  <2> QED BY <2>1, <2>2, <2>3 DEF AnswerInv
<1>2. AnswerInv /\ [Next]_vars => AnswerInv'
  BY AnswerStep
<1>3. AnswerInv => AnswerBelowQuestion
  BY DEF AnswerInv
<1> QED BY <1>1, <1>2, <1>3, PTL DEF Spec

-----------------------------------------------------------------------------
(* A relay posts in the order of the transcript.                            *)

LEMMA ReachTyped ==
  ASSUME Sessioned, NEW r \in Relays, NEW p \in Relay, Relaying(r, p), p.pc # "off"
  PROVE  Reach(p) \in Nat /\ Reach(p) <= MaxLines + 1
<1>1. MaxLines \in Nat /\ p.pos \in Nat /\ p.file \in 0..MaxSessions /\ p.s \in 0..MaxSessions
  BY Limits DEF Relay
<1>2. CASE p.pc \in {"final", "over"} \/ p.file # p.s
  BY <1>1, <1>2 DEF Reach
<1>3. CASE ~(p.pc \in {"final", "over"}) /\ p.file = p.s
  <2>1. Reach(p) = p.pos
    BY <1>3 DEF Reach
  <2>2. p.file \in Sessions /\ p.pos <= Whole(p.file)
    BY <1>1, <1>3, Limits DEF Relaying
  <2>3. Whole(p.file) \in Nat /\ Whole(p.file) <= MaxLines
    BY <2>2, WholeTyped
  <2> HIDE DEF Whole
  <2> QED BY <1>1, <2>1, <2>2, <2>3
<1> QED BY <1>2, <1>3

LEMMA JoinedAscends ==
  ASSUME NEW p, NEW a \in Seq(Item), NEW b \in Seq(Item), Ascending(p, a), Ascending(p, b),
         \A i \in DOMAIN a : \A j \in DOMAIN b : Own(p, a[i]) /\ Own(p, b[j]) => a[i][2] < b[j][2]
  PROVE  Ascending(p, a \o b)
<1> DEFINE c == a \o b
<1>1. /\ \A i \in DOMAIN a : i \in DOMAIN c /\ c[i] = a[i]
      /\ \A i \in DOMAIN c : i \in DOMAIN a \/ (i - Len(a) \in DOMAIN b /\ c[i] = b[i - Len(a)])
      /\ DOMAIN a = 1..Len(a) /\ DOMAIN b = 1..Len(b) /\ DOMAIN c = 1..(Len(a) + Len(b))
      /\ Len(a) \in Nat /\ Len(b) \in Nat
  BY Joined
<1> HIDE DEF c
<1>2. SUFFICES ASSUME NEW i \in DOMAIN c, NEW j \in DOMAIN c, i < j, Own(p, c[i]), Own(p, c[j])
               PROVE  c[i][2] < c[j][2]
  BY DEF Ascending, c
<1>3. CASE j \in DOMAIN a
  <2>1. i \in DOMAIN a
    BY <1>1, <1>2, <1>3
  <2> QED BY <1>1, <1>2, <1>3, <2>1 DEF Ascending
<1>4. CASE j - Len(a) \in DOMAIN b /\ c[j] = b[j - Len(a)]
  <2>1. CASE i \in DOMAIN a
    BY <1>1, <1>2, <1>4, <2>1
  <2>2. CASE i - Len(a) \in DOMAIN b /\ c[i] = b[i - Len(a)]
    <3>1. i - Len(a) < j - Len(a)
      BY <1>1, <1>2
    <3> QED BY <1>2, <1>4, <2>2, <3>1 DEF Ascending
  <2> QED BY <1>1, <2>1, <2>2
<1> QED BY <1>1, <1>3, <1>4

LEMMA JoinedAbove ==
  ASSUME NEW p, NEW D, NEW a \in Seq(Item), NEW b \in Seq(Item), Above(p, D, a), Above(p, D, b)
  PROVE  Above(p, D, a \o b)
<1> DEFINE c == a \o b
<1>1. /\ \A i \in DOMAIN a : i \in DOMAIN c /\ c[i] = a[i]
      /\ \A i \in DOMAIN c : i \in DOMAIN a \/ (i - Len(a) \in DOMAIN b /\ c[i] = b[i - Len(a)])
  BY Joined
<1> HIDE DEF c
<1> QED BY <1>1 DEF Above, c

LEMMA JoinedReached ==
  ASSUME NEW p, NEW a \in Seq(Item), NEW b \in Seq(Item), Reached(p, a), Reached(p, b)
  PROVE  Reached(p, a \o b)
<1> DEFINE c == a \o b
<1>1. /\ \A i \in DOMAIN a : i \in DOMAIN c /\ c[i] = a[i]
      /\ \A i \in DOMAIN c : i \in DOMAIN a \/ (i - Len(a) \in DOMAIN b /\ c[i] = b[i - Len(a)])
  BY Joined
<1> HIDE DEF c
<1> QED BY <1>1 DEF Reached, c

(* The sender's part stays, and the tailer comes further. *)
LEMMA ArrangedFurther ==
  ASSUME NEW p \in Relay, NEW q \in Relay, NEW D \in SUBSET Item, NEW P, Arranged(p, D, P),
         Posting(p, q), q.pend = p.pend, Reach(p) \in Nat, Reach(q) \in Nat, Reach(p) <= Reach(q)
  PROVE  Arranged(q, D, P)
<1>1. q.s = p.s /\ q.batch = p.batch /\ q.edit = p.edit /\ q.grow = p.grow
  BY DEF Posting
<1>2. /\ \A i \in DOMAIN p.pend : p.pend[i][2] \in Nat
      /\ \A i \in DOMAIN p.batch : p.batch[i][2] \in Nat
      /\ \A d \in D : d[2] \in Nat
  <2>1. /\ \A i \in DOMAIN p.pend : p.pend[i] \in Item
        /\ \A i \in DOMAIN p.batch : p.batch[i] \in Item
    <3>1. p.pend \in Seq(Item) /\ p.batch \in Seq(Item)
      BY DEF Relay
    <3> QED BY <3>1
  <2> QED BY <2>1 DEF Item
<1>3. Reached(q, q.pend) /\ Reached(q, q.batch) /\ \A d \in D : Own(q, d) => d[2] <= Reach(q)
  BY <1>1, <1>2 DEF Arranged, Reached, Own
<1> QED BY <1>1, <1>3 DEF Arranged, Ascending, Above, Own

LEMMA ArrangedRewinds ==
  ASSUME Sessioned, NEW r \in Relays, NEW p \in Relay, NEW q \in Relay, NEW D \in SUBSET Item, NEW P,
         Relaying(r, p), Rewinds(p, q), Arranged(p, D, P)
  PROVE  Arranged(q, D, P)
<1>1. /\ p.pc = "tail" /\ q.pc = "tail" /\ q.file = Freshest(p.s) /\ q.file # p.file /\ q.pos = 0
      /\ q.pend = p.pend /\ q.s = p.s
  BY DEF Rewinds, Posting
<1>2. p.s \in Sessions /\ p.pos \in Nat
  BY <1>1, Limits DEF Relaying, Relay, Sessioned
<1>3. p.file = p.s => p.pos = 0
  <2>1. SUFFICES ASSUME p.file = p.s
                 PROVE  p.pos = 0
    OBVIOUS
  <2>2. lines[p.s] = <<>>
    BY <1>1, <1>2, <2>1, FreshestOf
  <2>3. p.pos <= Whole(p.s) /\ Whole(p.s) \in Nat /\ Whole(p.s) <= Len(lines[p.s])
    BY <1>2, <2>1, WholeTyped, Limits DEF Relaying
  <2>4. Len(lines[p.s]) = 0
    BY <2>2
  <2> HIDE DEF Whole
  <2> QED BY <1>2, <2>3, <2>4
<1>4. Reach(p) = 0 /\ Reach(q) = 0
  BY <1>1, <1>3 DEF Reach
<1> QED BY <1>1, <1>4, ArrangedFurther DEF Rewinds

LEMMA ArrangedReads ==
  ASSUME Sessioned, NEW r \in Relays, NEW p \in Relay, NEW q \in Relay, NEW D \in SUBSET Item, NEW P,
         Relaying(r, p), Reads(p, q), Arranged(p, D, P)
  PROVE  Arranged(q, D, P)
<1> DEFINE f == p.file
           w == Whole(p.file)
           new == Lines(p)
<1>1. /\ q.s = p.s /\ q.grow = p.grow /\ q.batch = p.batch /\ q.edit = p.edit /\ q.file = f /\ q.pos = w
      /\ q.pend = p.pend \o new /\ p.pc = "tail" /\ q.pc = "tail"
      /\ f # 0 /\ p.pos <= w /\ p.pend \in Seq(Item) /\ p.batch \in Seq(Item)
  BY DEF Reads, Posting, Relay, Relaying
<1>2. /\ new \in Seq(Item) /\ DOMAIN new = 1..(w - p.pos) /\ p.pos \in Nat /\ w \in Nat
      /\ \A i \in DOMAIN new : new[i] = <<f, p.pos + i>> /\ p.pos + i \in 1..w
  BY <1>1, LinesTyped
<1> HIDE DEF f, w, new
<1>3. /\ \A i \in DOMAIN p.pend : p.pend[i] \in Item
      /\ \A i \in DOMAIN p.batch : p.batch[i] \in Item
      /\ \A i \in DOMAIN new : new[i][1] = f /\ new[i][2] = p.pos + i /\ i \in Nat /\ i > 0
  BY <1>1, <1>2
<1>4. /\ Reach(p) = IF f = p.s THEN p.pos ELSE 0
      /\ Reach(q) = IF f = p.s THEN w ELSE 0
  BY <1>1 DEF Reach, f
<1>5. Reach(p) \in Nat /\ Reach(q) \in Nat /\ Reach(p) <= Reach(q)
  BY <1>1, <1>2, <1>4
<1>6. ASSUME NEW e \in Item, Own(p, e), e[2] <= Reach(p), NEW i \in DOMAIN new, Own(p, new[i])
      PROVE  e[2] < new[i][2]
  <2>1. f = p.s /\ Reach(p) = p.pos /\ e[2] \in Nat
    BY <1>3, <1>4, <1>6 DEF Own, Item
  <2> QED BY <1>2, <1>3, <1>6, <2>1
<1>7. Ascending(p, p.pend \o new)
  <2>1. Ascending(p, new)
    BY <1>2, <1>3 DEF Ascending
  <2>2. \A i \in DOMAIN p.pend : \A j \in DOMAIN new :
          Own(p, p.pend[i]) /\ Own(p, new[j]) => p.pend[i][2] < new[j][2]
    BY <1>3, <1>6 DEF Arranged, Reached
  <2> QED BY <1>1, <1>2, <2>1, <2>2, JoinedAscends DEF Arranged
<1>8. Above(p, D \cup ToSet(p.batch), p.pend \o new)
  <2>1. \A d \in D \cup ToSet(p.batch) : d \in Item /\ (Own(p, d) => d[2] <= Reach(p))
    BY <1>3 DEF Arranged, Reached, ToSet
  <2>2. Above(p, D \cup ToSet(p.batch), new)
    BY <1>6, <2>1 DEF Above
  <2> QED BY <1>1, <1>2, <2>2, JoinedAbove DEF Arranged
<1>9. Reached(q, p.pend) /\ Reached(q, p.batch) /\ \A d \in D : Own(q, d) => d[2] <= Reach(q)
  <2>1. \A e \in Item : Own(p, e) /\ e[2] <= Reach(p) => Own(q, e) /\ e[2] <= Reach(q)
    BY <1>1, <1>5 DEF Item, Own
  <2> QED BY <1>1, <1>3, <2>1 DEF Arranged, Reached, Own
<1>10. Reached(q, new)
  BY <1>1, <1>2, <1>3, <1>4 DEF Reached, Own
<1>11. Reached(q, q.pend)
  BY <1>1, <1>2, <1>9, <1>10, JoinedReached
<1> QED BY <1>1, <1>7, <1>8, <1>9, <1>11 DEF Arranged, Ascending, Above, Own

LEMMA ArrangedCloses ==
  ASSUME Sessioned, NEW r \in Relays, NEW p \in Relay, NEW q \in Relay, NEW D \in SUBSET Item, NEW P,
         Relaying(r, p), Relaying(r, q), Closes(p, q) \/ Marks(p, q), Arranged(p, D, P)
  PROVE  Arranged(q, D, P)
<1>0. p.pc # "off" /\ q.pc # "off" /\ MaxLines \in Nat
  BY Limits DEF Closes, Marks
<1>1. /\ Reach(p) \in Nat /\ Reach(p) <= MaxLines + 1 /\ Reach(q) \in Nat
  BY <1>0, ReachTyped
<1>2. CASE q.pend = p.pend
  <2>1. Posting(p, q) /\ q.file = p.file /\ q.pos = p.pos /\ q.s = p.s
    BY DEF Closes, Marks, Keeps, Posting
  <2>2. Reach(q) = MaxLines + 1 \/ Reach(q) = Reach(p)
    BY <2>1 DEF Closes, Marks, Reach
  <2> QED BY <1>0, <1>1, <1>2, <2>1, <2>2, ArrangedFurther
<1>3. CASE Marks(p, q) /\ q.pend = p.pend \o <<Outcome(p.s)>>
  <2> DEFINE last == <<Outcome(p.s)>>
  <2>1. /\ q.s = p.s /\ q.batch = p.batch /\ q.edit = p.edit /\ q.grow = p.grow /\ p.pc = "outcome" /\ q.pc = "final"
        /\ q.file = p.file /\ q.pos = p.pos /\ p.pend \in Seq(Item) /\ p.batch \in Seq(Item)
    BY <1>3 DEF Marks, Keeps, Posting, Relay
  <2>2. p.s \in Sessions
    BY <2>1, Limits DEF Relaying, Relay, Sessioned
  <2>3. last \in Seq(Item) /\ DOMAIN last = {1} /\ \A i \in DOMAIN last : last[i] = <<p.s, MaxLines + 1>>
    BY <2>2, Markers DEF Outcome
  <2> HIDE DEF last
  <2>4. Reach(q) = MaxLines + 1 /\ Reach(p) <= MaxLines
    <3>1. Reach(p) = IF p.file = p.s THEN p.pos ELSE 0
      BY <2>1 DEF Reach
    <3>2. p.file = p.s => p.file \in Sessions /\ p.pos <= Whole(p.file)
      BY <2>2, Limits DEF Relaying
    <3>3. p.file = p.s => Whole(p.file) \in Nat /\ Whole(p.file) <= MaxLines
      BY <3>2, WholeTyped
    <3>4. p.pos \in Nat
      BY DEF Relay
    <3> HIDE DEF Whole
    <3> QED BY <1>0, <2>1, <3>1, <3>2, <3>3, <3>4 DEF Reach
  <2>5. /\ \A i \in DOMAIN p.pend : p.pend[i] \in Item /\ p.pend[i][2] \in Nat
        /\ \A i \in DOMAIN p.batch : p.batch[i] \in Item /\ p.batch[i][2] \in Nat
        /\ \A d \in D : d[2] \in Nat
    <3>1. \A e \in Item : e[2] \in Nat
      BY DEF Item
    <3> QED BY <2>1, <3>1
  <2>6. Ascending(p, p.pend \o last)
    <3>1. Ascending(p, last)
      BY <2>3 DEF Ascending
    <3>2. \A i \in DOMAIN p.pend : \A j \in DOMAIN last :
            Own(p, p.pend[i]) /\ Own(p, last[j]) => p.pend[i][2] < last[j][2]
      BY <1>0, <1>1, <2>3, <2>4, <2>5 DEF Arranged, Reached
    <3> QED BY <2>1, <2>3, <3>1, <3>2, JoinedAscends DEF Arranged
  <2>7. Above(p, D \cup ToSet(p.batch), p.pend \o last)
    <3>1. \A d \in D \cup ToSet(p.batch) : d[2] \in Nat /\ (Own(p, d) => d[2] <= Reach(p))
      BY <2>5 DEF Arranged, Reached, ToSet
    <3>2. Above(p, D \cup ToSet(p.batch), last)
      BY <1>0, <1>1, <2>3, <2>4, <3>1 DEF Above
    <3> QED BY <2>1, <2>3, <3>2, JoinedAbove DEF Arranged
  <2>8. Reached(q, p.pend) /\ Reached(q, p.batch) /\ \A d \in D : Own(q, d) => d[2] <= Reach(q)
    BY <1>0, <1>1, <2>1, <2>4, <2>5 DEF Arranged, Reached, Own
  <2>9. Reached(q, last)
    BY <1>0, <2>3, <2>4 DEF Reached
  <2>10. Reached(q, q.pend)
    BY <1>3, <2>1, <2>3, <2>8, <2>9, JoinedReached DEF last
  <2> QED BY <1>3, <2>1, <2>6, <2>7, <2>8, <2>10 DEF Arranged, Ascending, Above, Own, last
<1> QED BY <1>2, <1>3 DEF Closes, Marks

LEMMA ArrangedCollects ==
  ASSUME NEW p \in Relay, NEW q \in Relay, NEW D \in SUBSET Item, NEW P, Collects(p, q), Arranged(p, D, P)
  PROVE  Arranged(q, D, P) /\ Above(q, D, q.batch)
<1>1. /\ q.s = p.s /\ q.pc = p.pc /\ q.file = p.file /\ q.pos = p.pos /\ q.pend = <<>>
      /\ q.batch \in WithoutBreaks(p.pend) /\ p.pend \in Seq(Item) /\ (q.grow # 0 => q.grow = p.grow)
  BY DEF Collects, Stays, Anchor, Relay
<1>2. /\ \A i \in DOMAIN q.batch : \E k \in DOMAIN p.pend : q.batch[i] = p.pend[k]
      /\ \A i, j \in DOMAIN q.batch :
           i < j => \E k, n \in DOMAIN p.pend : k < n /\ q.batch[i] = p.pend[k] /\ q.batch[j] = p.pend[n]
  BY <1>1, Filtered
<1>3. Reach(q) = Reach(p)
  BY <1>1 DEF Reach
<1>4. Ascending(q, q.batch)
  BY <1>1, <1>2 DEF Arranged, Ascending, Own
<1>5. Above(q, D, q.batch)
  BY <1>1, <1>2 DEF Arranged, Above, Own
<1>6. Reached(q, q.batch) /\ \A d \in D : Own(q, d) => d[2] <= Reach(q)
  BY <1>1, <1>2, <1>3 DEF Arranged, Reached, Own
<1>7. q.grow # 0 => \A m \in P : m <= q.grow
  BY <1>1 DEF Arranged
<1> QED BY <1>1, <1>4, <1>5, <1>6, <1>7 DEF Arranged, Ascending, Above, Reached

(* A batch that was posted is shown; one that is to be posted again after   *)
(* its edit seemed to fail may be.                                          *)
LEMMA ArrangedPosts ==
  ASSUME NEW p \in Relay, NEW q \in Relay, NEW D \in SUBSET Item, NEW P, NEW E, NEW R, Arranged(p, D, P),
         Stays(p, q), q.pend = p.pend, ~q.edit,
         \/ E = D \cup ToSet(p.batch) /\ q.batch \in {<<>>, p.batch}
         \/ E = D /\ q.batch = <<>>
         \/ E = D /\ q.batch = p.batch /\ p.edit,
         q.grow # 0 => \A m \in R : m <= q.grow
  PROVE  Arranged(q, E, R)
<1>1. q.s = p.s /\ q.pc = p.pc /\ q.file = p.file /\ q.pos = p.pos
  BY DEF Stays
<1>2. Reach(q) = Reach(p)
  BY <1>1 DEF Reach
<1>3. ToSet(q.batch) \subseteq ToSet(p.batch) /\ D \subseteq E /\ E \cup ToSet(q.batch) \subseteq D \cup ToSet(p.batch)
  BY DEF ToSet
<1>4. Ascending(q, q.pend) /\ Ascending(q, q.batch)
  BY <1>1 DEF Arranged, Ascending, Own
<1>5. Above(q, E \cup ToSet(q.batch), q.pend)
  BY <1>1, <1>3 DEF Arranged, Above, Own
<1>6. Above(q, E, q.batch) \/ (~q.edit /\ ToSet(q.batch) \subseteq E)
  <2>1. CASE q.batch = <<>>
    BY <2>1 DEF Above
  <2>2. CASE E = D \cup ToSet(p.batch)
    BY <1>3, <2>2
  <2>3. CASE E = D /\ q.batch = p.batch /\ p.edit
    BY <1>1, <2>3 DEF Arranged, Above, Own
  <2> QED BY <2>1, <2>2, <2>3
<1>7. Reached(q, q.pend) /\ Reached(q, q.batch)
  BY <1>1, <1>2 DEF Arranged, Reached, Own
<1>8. \A d \in E : Own(q, d) => d[2] <= Reach(q)
  <2>1. \A d \in ToSet(p.batch) : Own(p, d) => d[2] <= Reach(p)
    BY DEF Arranged, Reached, ToSet
  <2> QED BY <1>1, <1>2, <1>3, <2>1 DEF Arranged, Own
<1> QED BY <1>4, <1>5, <1>6, <1>7, <1>8 DEF Arranged

(* What a relay shows is what stands at its places. *)
Placed == \A r \in Relays : /\ Shown(r) = {ItemAt(p) : p \in Places(r)}
                            /\ \A p : p \in Places(r) <=> \E m \in Posts(r) : \E j \in DOMAIN chat[m].items : p = <<m, j>>
LEMMA PlacedNow == Placed
<1> SUFFICES ASSUME NEW r \in Relays
             PROVE  /\ Shown(r) = {ItemAt(p) : p \in Places(r)}
                    /\ \A p : p \in Places(r) <=> \E m \in Posts(r) : \E j \in DOMAIN chat[m].items : p = <<m, j>>
  BY DEF Placed
<1>1. \A p : p \in Places(r) <=> \E m \in Posts(r) : \E j \in DOMAIN chat[m].items : p = <<m, j>>
  BY DEF Places
<1>2. \A e : e \in Shown(r) <=> \E m \in Posts(r) : \E j \in DOMAIN chat[m].items : e = chat[m].items[j]
  BY DEF Shown, ToSet
<1>3. \A m \in Posts(r) : \A j \in DOMAIN chat[m].items : ItemAt(<<m, j>>) = chat[m].items[j]
  BY DEF ItemAt
<1> HIDE DEF Posts
<1>4. Shown(r) \subseteq {ItemAt(p) : p \in Places(r)}
  <2>1. SUFFICES ASSUME NEW e \in Shown(r)
                 PROVE  \E p \in Places(r) : e = ItemAt(p)
    OBVIOUS
  <2>2. PICK m \in Posts(r) : \E j \in DOMAIN chat[m].items : e = chat[m].items[j]
    BY <1>2, <2>1
  <2>3. PICK j \in DOMAIN chat[m].items : e = chat[m].items[j]
    BY <2>2
  <2>4. <<m, j>> \in Places(r) /\ e = ItemAt(<<m, j>>)
    BY <1>1, <1>3, <2>3
  <2> QED BY <2>4
<1>5. {ItemAt(p) : p \in Places(r)} \subseteq Shown(r)
  BY <1>1, <1>2, <1>3
<1> QED BY <1>1, <1>4, <1>5
LEMMA PlacedNext == Placed'
BY PlacedNow, PTL

LEMMA ShownTyped ==
  ASSUME Chatted, NEW r \in Relays
  PROVE  /\ Posts(r) \subseteq DOMAIN chat /\ DOMAIN chat = 1..Len(chat) /\ Len(chat) \in Nat
         /\ Shown(r) \subseteq Item
         /\ \A p \in Places(r) : /\ p[1] \in Posts(r) /\ p[1] \in Nat /\ p[2] \in Nat /\ p[2] \in DOMAIN chat[p[1]].items
                                 /\ p = <<p[1], p[2]>> /\ ItemAt(p) \in Item
<1>1. Posts(r) \subseteq DOMAIN chat /\ DOMAIN chat = 1..Len(chat) /\ Len(chat) \in Nat
  BY DEF Chatted, Posts
<1>2. \A m \in DOMAIN chat : chat[m].items \in Seq(Item)
  <2>1. \A m \in DOMAIN chat : chat[m] \in Post
    BY DEF Chatted
  <2> QED BY <2>1 DEF Post
<1>3. ASSUME NEW p \in Places(r)
      PROVE  /\ p[1] \in Posts(r) /\ p[1] \in Nat /\ p[2] \in Nat /\ p[2] \in DOMAIN chat[p[1]].items
             /\ p = <<p[1], p[2]>> /\ ItemAt(p) \in Item
  <2>1. PICK m \in Posts(r) : \E j \in DOMAIN chat[m].items : p = <<m, j>>
    BY <1>3, PlacedNow DEF Placed
  <2>2. PICK j \in DOMAIN chat[m].items : p = <<m, j>>
    BY <2>1
  <2>3. m \in DOMAIN chat /\ m \in Nat /\ chat[m].items \in Seq(Item)
    BY <1>1, <1>2
  <2>4. j \in Nat /\ chat[m].items[j] \in Item
    BY <2>2, <2>3
  <2> QED BY <2>2, <2>3, <2>4 DEF ItemAt
<1>4. Shown(r) \subseteq Item
  BY <1>3, PlacedNow DEF Placed
<1> QED BY <1>1, <1>3, <1>4

SamePlaces(r) == Posts(r)' = Posts(r) /\ Places(r)' = Places(r) /\ \A p \in Places(r) : ItemAt(p)' = ItemAt(p)

LEMMA PlacesKept ==
  ASSUME NEW r \in Relays,
         \A m \in DOMAIN chat : m \in DOMAIN chat' /\ chat'[m].by = chat[m].by,
         \A m \in DOMAIN chat' : chat'[m].by = r => m \in DOMAIN chat /\ chat'[m] = chat[m]
  PROVE  SamePlaces(r)
<1>1. Posts(r)' = Posts(r)
  BY DEF Posts
<1>2. \A m \in Posts(r) : chat'[m] = chat[m]
  BY DEF Posts
<1> HIDE DEF Posts
<1>3. \A p : p \in Places(r)' <=> p \in Places(r)
  BY <1>1, <1>2, PlacedNow, PlacedNext DEF Placed
<1>4. \A p \in Places(r) : ItemAt(p)' = ItemAt(p)
  BY <1>2, PlacedNow DEF Placed, ItemAt
<1>5. Places(r)' = Places(r)
  BY <1>3
<1> QED BY <1>1, <1>4, <1>5 DEF SamePlaces

LEMMA SameOrder ==
  ASSUME NEW r \in Relays, SamePlaces(r)
  PROVE  /\ Shown(r)' = Shown(r)
         /\ \A L : Firm(r, L)' = Firm(r, L) /\ Mended(r, L)' = Mended(r, L)
         /\ \A s, L : L \subseteq Places(r) /\ Neat(r, s, L) => Neat(r, s, L)'
<1>1. Places(r)' = Places(r) /\ \A p \in Places(r) : ItemAt(p)' = ItemAt(p)
  BY DEF SamePlaces
<1>2. Shown(r)' = Shown(r)
  <2>1. Shown(r) = {ItemAt(p) : p \in Places(r)}
    BY PlacedNow DEF Placed
  <2>2. Shown(r)' = {ItemAt(p)' : p \in Places(r)'}
    BY PlacedNext DEF Placed
  <2>3. {ItemAt(p)' : p \in Places(r)'} = {ItemAt(p) : p \in Places(r)}
    BY <1>1
  <2> QED BY <2>1, <2>2, <2>3
<1>3. \A L : Firm(r, L)' = Firm(r, L) /\ Mended(r, L)' = Mended(r, L)
  BY <1>1 DEF Firm, Mended
<1>4. ASSUME NEW s, NEW L, L \subseteq Places(r), Neat(r, s, L)
      PROVE  Neat(r, s, L)'
  <2>1. SUFFICES ASSUME NEW p \in Places(r), NEW q \in Places(r), ItemAt(p)'[1] = s, ItemAt(q)'[1] = s, Before(p, q)
                 PROVE  \/ ItemAt(p)'[2] < ItemAt(q)'[2]
                        \/ p \in L /\ \E o \in L : Before(o, q) /\ ItemAt(o)' = ItemAt(q)'
    BY <1>1 DEF Neat, Before
  <2>2. \/ ItemAt(p)[2] < ItemAt(q)[2]
        \/ p \in L /\ \E o \in L : Before(o, q) /\ ItemAt(o) = ItemAt(q)
    BY <1>1, <1>4, <2>1 DEF Neat
  <2> QED BY <1>1, <1>4, <2>1, <2>2
<1> QED BY <1>2, <1>3, <1>4

(* New places, all of them behind those there were. *)
Gains(r, g, b, es) ==
  /\ Posts(r)' = Posts(r) \cup {g}
  /\ Places(r)' = Places(r) \cup {<<g, b + k>> : k \in DOMAIN es}
  /\ \A p \in Places(r) : ItemAt(p)' = ItemAt(p) /\ (p[1] < g \/ (p[1] = g /\ p[2] <= b))
  /\ \A k \in DOMAIN es : ItemAt(<<g, b + k>>)' = es[k]

LEMMA GainsShown ==
  ASSUME NEW r \in Relays, NEW g, NEW b, NEW es, Gains(r, g, b, es)
  PROVE  Shown(r)' = Shown(r) \cup ToSet(es)
<1> DEFINE N == {<<g, b + k>> : k \in DOMAIN es}
<1>1. /\ Places(r)' = Places(r) \cup N
      /\ \A p \in Places(r) : ItemAt(p)' = ItemAt(p)
      /\ \A k \in DOMAIN es : ItemAt(<<g, b + k>>)' = es[k]
  BY DEF Gains
<1>2. /\ Shown(r) = {ItemAt(p) : p \in Places(r)}
      /\ Shown(r)' = {ItemAt(p)' : p \in Places(r)'}
  BY PlacedNow, PlacedNext DEF Placed
<1>3. Shown(r)' \subseteq Shown(r) \cup ToSet(es)
  <2>1. SUFFICES ASSUME NEW p \in Places(r)'
                 PROVE  ItemAt(p)' \in Shown(r) \cup ToSet(es)
    BY <1>2
  <2>2. CASE p \in Places(r)
    BY <1>1, <1>2, <2>2
  <2>3. CASE p \in N
    <3>1. PICK k \in DOMAIN es : p = <<g, b + k>>
      BY <2>3
    <3>2. ItemAt(p)' = es[k]
      BY <1>1, <3>1
    <3> QED BY <3>2 DEF ToSet
  <2> QED BY <1>1, <2>2, <2>3
<1>4. Shown(r) \subseteq Shown(r)'
  BY <1>1, <1>2
<1>5. ToSet(es) \subseteq Shown(r)'
  <2>1. SUFFICES ASSUME NEW k \in DOMAIN es
                 PROVE  es[k] \in Shown(r)'
    BY DEF ToSet
  <2>2. <<g, b + k>> \in Places(r)' /\ ItemAt(<<g, b + k>>)' = es[k]
    BY <1>1
  <2> QED BY <1>2, <2>2
<1> QED BY <1>3, <1>4, <1>5

LEMMA GainsNeat ==
  ASSUME Chatted, NEW r \in Relays, NEW p \in Relay, NEW g \in Nat, NEW b \in Nat, NEW es \in Seq(Item),
         Gains(r, g, b, es), NEW L \in SUBSET Places(r), NEW K, L \subseteq K, Neat(r, p.s, L), Ascending(p, es),
         Above(p, Shown(r), es) \/ (Above(p, Firm(r, L), es) /\ ToSet(es) \subseteq Mended(r, L))
  PROVE  Neat(r, p.s, K)'
<1> DEFINE N == {<<g, b + k>> : k \in DOMAIN es}
<1>1. /\ Places(r)' = Places(r) \cup N
      /\ \A x \in Places(r) : ItemAt(x)' = ItemAt(x) /\ (x[1] < g \/ (x[1] = g /\ x[2] <= b))
      /\ \A k \in DOMAIN es : ItemAt(<<g, b + k>>)' = es[k]
      /\ \A k \in DOMAIN es : k \in Nat /\ k > 0
  BY DEF Gains
<1>2. /\ Shown(r) = {ItemAt(x) : x \in Places(r)}
      /\ \A x \in Places(r) : x[1] \in Nat /\ x[2] \in Nat
  BY PlacedNow, ShownTyped DEF Placed
<1>3. SUFFICES ASSUME NEW x \in Places(r)', NEW y \in Places(r)', ItemAt(x)'[1] = p.s, ItemAt(y)'[1] = p.s,
                      Before(x, y)
               PROVE  \/ ItemAt(x)'[2] < ItemAt(y)'[2]
                      \/ x \in K /\ \E o \in K : Before(o, y) /\ ItemAt(o)' = ItemAt(y)'
  BY DEF Neat, Before
<1>4. CASE y \in Places(r)
  <2>1. x \notin N
    <3>1. SUFFICES ASSUME NEW k \in DOMAIN es, x = <<g, b + k>>
                   PROVE  FALSE
      OBVIOUS
    <3> QED BY <1>1, <1>2, <1>3, <1>4, <3>1 DEF Before
  <2>2. x \in Places(r)
    BY <1>1, <2>1
  <2>3. ItemAt(x)' = ItemAt(x) /\ ItemAt(y)' = ItemAt(y)
    BY <1>1, <1>4, <2>2
  <2>4. \/ ItemAt(x)[2] < ItemAt(y)[2]
        \/ x \in L /\ \E o \in L : Before(o, y) /\ ItemAt(o) = ItemAt(y)
    BY <1>3, <1>4, <2>2, <2>3 DEF Neat
  <2> QED BY <1>1, <2>3, <2>4
<1>5. CASE y \in N
  <2>1. PICK k \in DOMAIN es : y = <<g, b + k>>
    BY <1>5
  <2>2. ItemAt(y)' = es[k] /\ Own(p, es[k])
    BY <1>1, <1>3, <2>1 DEF Own
  <2>3. CASE x \in Places(r)
    <3>1. ItemAt(x)' = ItemAt(x) /\ Own(p, ItemAt(x)) /\ ItemAt(x) \in Shown(r)
      BY <1>1, <1>2, <1>3, <2>3 DEF Own
    <3>2. CASE Above(p, Shown(r), es)
      BY <2>2, <3>1, <3>2 DEF Above
    <3>3. CASE Above(p, Firm(r, L), es) /\ x \notin L
      <4>1. ItemAt(x) \in Firm(r, L)
        BY <2>3, <3>3 DEF Firm
      <4> QED BY <2>2, <3>1, <3>3, <4>1 DEF Above
    <3>4. CASE x \in L /\ ToSet(es) \subseteq Mended(r, L)
      <4>1. PICK o \in Places(r) \cap L : es[k] = ItemAt(o)
        BY <3>4 DEF ToSet, Mended
      <4>2. Before(o, y) /\ ItemAt(o)' = ItemAt(y)'
        BY <1>1, <1>2, <2>1, <2>2, <4>1 DEF Before
      <4> QED BY <3>4, <4>1, <4>2
    <3> QED BY <3>2, <3>3, <3>4
  <2>4. CASE x \in N
    <3>1. PICK j \in DOMAIN es : x = <<g, b + j>>
      BY <2>4
    <3>2. ItemAt(x)' = es[j] /\ Own(p, es[j])
      BY <1>1, <1>3, <3>1 DEF Own
    <3>3. j < k
      BY <1>1, <1>3, <2>1, <3>1 DEF Before
    <3> QED BY <2>2, <3>2, <3>3 DEF Ascending
  <2> QED BY <1>1, <2>3, <2>4
<1> QED BY <1>1, <1>4, <1>5

(* The order is kept by a message with the batch, or an edit that adds it,  *)
(* although its answer may be lost and the batch be sent once more.         *)
LEMMA GainsOrder ==
  ASSUME Chatted, Chatted', NEW r \in Relays, NEW p \in Relay, NEW q \in Relay, NEW g \in Nat, NEW b \in Nat,
         p.batch \in Seq(Item), Gains(r, g, b, p.batch), Ordered(r, p), Stays(p, q), q.pend = p.pend, ~q.edit,
         \/ q.lost = p.lost /\ q.batch = <<>>
         \/ /\ q.lost = p.lost \cup {<<g, b + k>> : k \in DOMAIN p.batch}
            /\ q.batch = p.batch /\ Above(p, Shown(r), p.batch),
         q.grow # 0 => \A m \in Posts(r) \cup {g} : m <= q.grow
  PROVE  Ordered(r, q)'
<1> DEFINE N == {<<g, b + k>> : k \in DOMAIN p.batch}
<1>1. /\ Places(r)' = Places(r) \cup N /\ Posts(r)' = Posts(r) \cup {g}
      /\ \A x \in Places(r) : ItemAt(x)' = ItemAt(x)
      /\ \A k \in DOMAIN p.batch : ItemAt(<<g, b + k>>)' = p.batch[k]
      /\ Shown(r)' = Shown(r) \cup ToSet(p.batch) /\ q.s = p.s
  <2>1. Shown(r)' = Shown(r) \cup ToSet(p.batch)
    BY GainsShown
  <2>2. q.s = p.s
    BY DEF Stays
  <2> QED BY <2>1, <2>2 DEF Gains
<1>2. q.lost \subseteq Places(r)' /\ p.lost \subseteq q.lost /\ p.lost \in SUBSET Places(r)
  BY <1>1 DEF Ordered
<1>3. Neat(r, p.s, q.lost)'
  BY <1>2, GainsNeat DEF Ordered, Arranged, Fits
<1>4. Arranged(q, Shown(r)', Posts(r)')
  <2>1. PICK E, R : E = Shown(r)' /\ R = Posts(r)'
    OBVIOUS
  <2>2. Shown(r) \in SUBSET Item
    BY ShownTyped
  <2>3. /\ E = Shown(r) \cup ToSet(p.batch) /\ q.batch \in {<<>>, p.batch}
        /\ q.grow # 0 => \A m \in R : m <= q.grow
    BY <1>1, <2>1
  <2>4. Arranged(q, E, R)
    BY <2>2, <2>3, ArrangedPosts DEF Ordered
  <2> QED BY <2>1, <2>4
<1>5. Fits(q, Shown(r)', Firm(r, q.lost)', Mended(r, q.lost)')
  <2>1. CASE q.batch = <<>>
    BY <2>1 DEF Fits, Above
  <2>2. CASE q.lost = p.lost \cup N /\ q.batch = p.batch /\ Above(p, Shown(r), p.batch)
    <3>1. Firm(r, q.lost)' \subseteq Shown(r)
      <4>1. SUFFICES ASSUME NEW x \in Places(r)' \ q.lost
                     PROVE  ItemAt(x)' \in Shown(r)
        BY DEF Firm
      <4>2. x \in Places(r)
        BY <1>1, <2>2, <4>1
      <4> QED BY <1>1, <4>2, PlacedNow DEF Placed
    <3>2. Above(q, Firm(r, q.lost)', q.batch)
      BY <1>1, <2>2, <3>1 DEF Above, Own
    <3>3. ToSet(q.batch) \subseteq Mended(r, q.lost)'
      <4>1. SUFFICES ASSUME NEW k \in DOMAIN p.batch
                     PROVE  p.batch[k] \in Mended(r, q.lost)'
        BY <2>2 DEF ToSet
      <4>2. <<g, b + k>> \in Places(r)' \cap q.lost /\ ItemAt(<<g, b + k>>)' = p.batch[k]
        BY <1>1, <2>2
      <4> QED BY <4>2 DEF Mended
    <3> QED BY <3>2, <3>3 DEF Fits
  <2> QED BY <2>1, <2>2
<1>6. q.lost \subseteq Places(r)' /\ q.s = p.s
  BY <1>1, <1>2
<1>7. Neat(r, q.s, q.lost)'
  BY <1>3, <1>6
<1> QED BY <1>4, <1>5, <1>6, <1>7 DEF Ordered

LEMMA SentGains ==
  ASSUME Chatted, NEW r \in Relays, NEW es \in Seq(Item), NEW g, g = Len(chat) + 1,
         DOMAIN chat' = DOMAIN chat \cup {g}, chat'[g].by = r, chat'[g].items = es,
         \A m \in DOMAIN chat : chat'[m] = chat[m]
  PROVE  Gains(r, g, 0, es)
<1>1. /\ DOMAIN chat = 1..Len(chat) /\ Len(chat) \in Nat /\ Posts(r) \subseteq DOMAIN chat
      /\ \A p \in Places(r) : p[1] \in Posts(r)
  BY ShownTyped
<1>2. g \notin DOMAIN chat
  BY <1>1
<1>3. Posts(r)' = Posts(r) \cup {g}
  BY DEF Posts
<1>4. \A m \in Posts(r) : chat'[m] = chat[m]
  BY <1>1
<1>5. \A p \in Places(r) : ItemAt(p)' = ItemAt(p) /\ p[1] < g
  BY <1>1, <1>4 DEF ItemAt
<1>6. /\ \A k \in DOMAIN es : 0 + k = k
      /\ \A k \in DOMAIN es : ItemAt(<<g, k>>)' = es[k]
  BY DEF ItemAt
<1> HIDE DEF Posts
<1>7. ASSUME NEW p
      PROVE  p \in Places(r)' <=> p \in Places(r) \/ \E k \in DOMAIN es : p = <<g, k>>
  <2>1. p \in Places(r)' <=> \E m \in Posts(r)' : \E j \in DOMAIN chat'[m].items : p = <<m, j>>
    BY PlacedNext DEF Placed
  <2>2. p \in Places(r) <=> \E m \in Posts(r) : \E j \in DOMAIN chat[m].items : p = <<m, j>>
    BY PlacedNow DEF Placed
  <2> QED BY <1>3, <1>4, <2>1, <2>2
<1>8. Places(r)' = Places(r) \cup {<<g, 0 + k>> : k \in DOMAIN es}
  BY <1>6, <1>7
<1> QED BY <1>3, <1>5, <1>6, <1>8 DEF Gains

LEMMA EditedGains ==
  ASSUME Chatted, NEW r \in Relays, NEW es \in Seq(Item), NEW g \in Posts(r), \A m \in Posts(r) : m <= g,
         DOMAIN chat' = DOMAIN chat, chat'[g].by = chat[g].by, chat'[g].items = chat[g].items \o es,
         \A m \in DOMAIN chat \ {g} : chat'[m] = chat[m]
  PROVE  Gains(r, g, Len(chat[g].items), es) /\ Len(chat[g].items) \in Nat
<1>1. /\ DOMAIN chat = 1..Len(chat) /\ Len(chat) \in Nat /\ Posts(r) \subseteq DOMAIN chat
      /\ \A p \in Places(r) : p[1] \in Posts(r) /\ p[1] \in Nat /\ p[2] \in Nat /\ p[2] \in DOMAIN chat[p[1]].items
  BY ShownTyped
<1>2. PICK a : a = chat[g].items
  OBVIOUS
<1>3. a \in Seq(Item)
  <2>1. chat[g] \in Post
    BY <1>1 DEF Chatted
  <2> QED BY <1>2, <2>1 DEF Post
<1>4. PICK b : b = Len(a)
  OBVIOUS
<1>5. /\ \A i \in DOMAIN a : i \in DOMAIN (a \o es) /\ (a \o es)[i] = a[i]
      /\ \A i \in DOMAIN es : b + i \in DOMAIN (a \o es) /\ (a \o es)[b + i] = es[i]
      /\ \A i \in DOMAIN (a \o es) : i \in DOMAIN a \/ i - b \in DOMAIN es
      /\ DOMAIN a = 1..b /\ b \in Nat /\ DOMAIN (a \o es) = 1..(b + Len(es)) /\ DOMAIN es = 1..Len(es) /\ Len(es) \in Nat
  BY <1>3, <1>4, Joined
<1>6. PICK c : c = a \o es
  OBVIOUS
<1>7. /\ \A i \in DOMAIN a : i \in DOMAIN c /\ c[i] = a[i]
      /\ \A i \in DOMAIN es : b + i \in DOMAIN c /\ c[b + i] = es[i]
      /\ \A i \in DOMAIN c : i \in DOMAIN a \/ \E k \in DOMAIN es : i = b + k
      /\ chat'[g].items = c
  <2>1. \A i \in DOMAIN c : i \in DOMAIN a \/ (i - b \in DOMAIN es /\ i = b + (i - b))
    BY <1>5, <1>6
  <2>2. \A i \in DOMAIN c : i \in DOMAIN a \/ \E k \in DOMAIN es : i = b + k
    BY <2>1
  <2> QED BY <1>2, <1>5, <1>6, <2>2
<1>8. Posts(r)' = Posts(r) \cup {g}
  <2>1. \A m \in DOMAIN chat : chat'[m].by = chat[m].by
    OBVIOUS
  <2> QED BY <2>1 DEF Posts
<1>9. \A m \in Posts(r) \ {g} : chat'[m] = chat[m]
  BY <1>1
<1> HIDE DEF Posts
<1>10. ASSUME NEW p \in Places(r)
       PROVE  ItemAt(p)' = ItemAt(p) /\ (p[1] < g \/ (p[1] = g /\ p[2] <= b))
  <2>1. g \in Nat /\ p[1] \in Nat /\ p[1] <= g /\ p[1] \in Posts(r) /\ p[2] \in DOMAIN chat[p[1]].items
    BY <1>1
  <2>2. CASE p[1] = g
    BY <1>2, <1>5, <1>7, <2>1, <2>2 DEF ItemAt
  <2>3. CASE p[1] # g
    BY <1>9, <2>1, <2>3 DEF ItemAt
  <2> QED BY <2>2, <2>3
<1>11. \A k \in DOMAIN es : ItemAt(<<g, b + k>>)' = es[k]
  BY <1>7 DEF ItemAt
<1>12. ASSUME NEW p
       PROVE  p \in Places(r)' <=> p \in Places(r) \/ \E k \in DOMAIN es : p = <<g, b + k>>
  <2>1. p \in Places(r)' <=> \E m \in Posts(r)' : \E j \in DOMAIN chat'[m].items : p = <<m, j>>
    BY PlacedNext DEF Placed
  <2>2. p \in Places(r) <=> \E m \in Posts(r) : \E j \in DOMAIN chat[m].items : p = <<m, j>>
    BY PlacedNow DEF Placed
  <2>3. \A j : j \in DOMAIN chat'[g].items <=> j \in DOMAIN chat[g].items \/ \E k \in DOMAIN es : j = b + k
    BY <1>2, <1>7
  <2> QED BY <1>8, <1>9, <2>1, <2>2, <2>3
<1>13. Places(r)' = Places(r) \cup {<<g, b + k>> : k \in DOMAIN es}
  BY <1>12
<1>14. Gains(r, g, b, es)
  BY <1>8, <1>10, <1>11, <1>13 DEF Gains
<1> QED BY <1>2, <1>4, <1>5, <1>14

LEMMA OrderStep ==
  ASSUME OrderInv, [Next]_vars
  PROVE  OrderInv'
<1>0. /\ Typed /\ Typed' /\ Grows /\ Sessioned /\ Chatted /\ Chatted' /\ made \in Nat
      /\ relay \in [Relays -> Relay] /\ relay' \in [Relays -> Relay]
      /\ Len(chat) \in Nat /\ DOMAIN chat = 1..Len(chat) /\ Relays = 1..MaxRelays /\ MaxRelays \in Nat
  BY TypedStep, Limits DEF OrderInv, Typed, Relayed, Chatted, Bridged
<1>1. ASSUME NEW r \in Relays, NEW p \in Relay, p = relay[r]
      PROVE  /\ Relaying(r, p) /\ (p.again = 0 => Ordered(r, p))
             /\ Shown(r) \in SUBSET Item
  <2>1. Shown(r) \in SUBSET Item
    BY <1>0, ShownTyped
  <2> QED BY <1>1, <2>1 DEF OrderInv, Typed, Relayed
<1>2. ASSUME \A r \in Relays : \E q \in Relay : q = relay'[r] /\ (q.again = 0 => Ordered(r, q)')
      PROVE  OrderInv'
  <2>1. \A r \in Relays : (relay[r].again = 0 => Ordered(r, relay[r]))'
    <3> SUFFICES ASSUME NEW r \in Relays, relay'[r].again = 0 PROVE Ordered(r, relay[r])'
      BY DEF Relays
    <3>1. PICK q \in Relay : q = relay'[r] /\ (q.again = 0 => Ordered(r, q)')
      BY <1>2
    <3>2. Ordered(r, q)'
      BY <3>1
    <3> QED BY <3>1, <3>2
            DEF Ordered, Neat, Arranged, Ascending, Above, Reached, Reach, Own, Fits, Before, Firm, Mended
  <2> QED BY <1>0, <2>1 DEF OrderInv, Relays
<1>3. ASSUME NEW r \in Relays, NEW q \in Relay, Ordered(r, q),
             \A m \in DOMAIN chat' : chat'[m].by = r => m \in DOMAIN chat /\ chat'[m] = chat[m]
      PROVE  Ordered(r, q)'
  <2>1. SamePlaces(r)
    BY <1>0, <1>3, PlacesKept DEF Grows
  <2>2. /\ Shown(r)' = Shown(r) /\ Posts(r)' = Posts(r) /\ Places(r)' = Places(r)
        /\ Firm(r, q.lost)' = Firm(r, q.lost) /\ Mended(r, q.lost)' = Mended(r, q.lost)
    BY <2>1, SameOrder DEF SamePlaces
  <2>3. Neat(r, q.s, q.lost)'
    BY <1>3, <2>1, SameOrder DEF Ordered
  <2>4. /\ Arranged(q, Shown(r)', Posts(r)') /\ Fits(q, Shown(r)', Firm(r, q.lost)', Mended(r, q.lost)')
        /\ q.lost \subseteq Places(r)'
    BY <1>3, <2>2 DEF Ordered
  <2> QED BY <2>3, <2>4
          DEF Ordered, Neat, Arranged, Ascending, Above, Reached, Reach, Own, Fits, Before, Firm, Mended
<1>4. ASSUME relay' = relay, \A r \in Relays, m \in DOMAIN chat' :
                               chat'[m].by = r => m \in DOMAIN chat /\ chat'[m] = chat[m]
      PROVE  OrderInv'
  <2>1. ASSUME NEW r \in Relays
        PROVE  \E q \in Relay : q = relay'[r] /\ (q.again = 0 => Ordered(r, q)')
    <3>1. PICK p \in Relay : p = relay[r]
      BY <1>0
    <3>2. p.again = 0 => Ordered(r, p)
      BY <1>1, <3>1
    <3>3. p.again = 0 => Ordered(r, p)'
      BY <1>3, <1>4, <3>2
    <3> QED BY <1>4, <3>1, <3>3
  <2> QED BY <1>2, <2>1
<1>5. CASE Elsewhere
  BY <1>4, <1>5 DEF Elsewhere
<1>6. CASE Written
  <2>1. PICK from \in {"user", "bridge"} : chat' = Append(chat, Message(from, 0, <<>>))
    BY <1>6 DEF Written
  <2> DEFINE m == Message(from, 0, <<>>)
  <2>2. m.by = 0
    BY DEF Message
  <2> HIDE DEF m
  <2>3. /\ DOMAIN chat' = 1..(Len(chat) + 1) /\ chat'[Len(chat) + 1] = m
        /\ \A i \in DOMAIN chat : chat'[i] = chat[i]
    BY <1>0, <2>1 DEF m, Chatted
  <2>4. \A r \in Relays, i \in DOMAIN chat' : chat'[i].by = r => i \in DOMAIN chat /\ chat'[i] = chat[i]
    BY <1>0, <2>2, <2>3
  <2> QED BY <1>4, <1>6, <2>4 DEF Written
<1>7. CASE BreakGrowth \/ Reconcile \/ BridgeStops
  <2>1. /\ UNCHANGED <<chat, agent>>
        /\ \A r \in Relays : Reset(relay[r], relay'[r]) \/ Begins(r, relay'[r])
    BY <1>0, <1>7, BridgeSteps
  <2>2. ASSUME NEW r \in Relays
        PROVE  \E q \in Relay : q = relay'[r] /\ (q.again = 0 => Ordered(r, q)')
    <3>1. PICK p \in Relay, q \in Relay : p = relay[r] /\ q = relay'[r]
      BY <1>0
    <3>2. CASE Reset(p, q)
      <4>1. /\ q.s = p.s /\ q.batch = p.batch /\ q.lost = p.lost /\ q.again = p.again /\ Reach(q) = Reach(p)
        BY <3>2 DEF Reset, Reach
      <4>2. q.again = 0 => Arranged(p, Shown(r), Posts(r)) /\ Ordered(r, p)
        BY <1>1, <3>1, <4>1 DEF Ordered
      <4>3. q.again = 0 => Arranged(q, Shown(r), Posts(r))
        BY <3>2, <4>1, <4>2 DEF Arranged, Reset, Ascending, Above, Reached, Own
      <4>4. q.again = 0 => Ordered(r, q)
        BY <4>1, <4>2, <4>3 DEF Ordered, Fits, Above, Own
      <4>5. q.again = 0 => Ordered(r, q)'
        BY <1>3, <2>1, <4>4
      <4> QED BY <3>1, <4>5
    <3>3. CASE Begins(r, q)
      <4>1. Posts(r) = {} /\ Shown(r) = {} /\ Places(r) = {}
        <5>1. \A m \in DOMAIN chat : chat[m].by <= made /\ chat[m].by \in Nat /\ r = made + 1
          <6>1. \A m \in DOMAIN chat : chat[m] \in Post /\ chat[m].by <= made
            BY <1>0 DEF Chatted
          <6> QED BY <1>0, <3>3, <6>1 DEF Post, Begins
        <5>2. Posts(r) = {}
          BY <1>0, <5>1 DEF Posts
        <5> QED BY <5>2 DEF Shown, Places
      <4>2. q.pend = <<>> \/ q.pend = <<<<q.s, 0>>>>
        BY <3>3 DEF Begins, Start
      <4>3. q.batch = <<>> /\ ~q.edit /\ q.grow = 0 /\ q.file = 0 /\ q.pos = 0 /\ q.pc = "tail" /\ q.lost = {}
        BY <3>3 DEF Begins
      <4>4. Reach(q) = 0
        BY <4>3 DEF Reach
      <4>5. \A i \in DOMAIN q.pend : i = 1 /\ q.pend[i][2] = 0
        BY <4>2
      <4>6. Arranged(q, Shown(r), Posts(r))
        BY <4>1, <4>3, <4>4, <4>5 DEF Arranged, Ascending, Above, Reached, ToSet
      <4>7. Ordered(r, q)
        BY <4>1, <4>3, <4>6 DEF Ordered, Neat, Fits, Above
      <4> QED BY <1>3, <2>1, <3>1, <4>7
    <3> QED BY <2>1, <3>1, <3>2, <3>3
  <2> QED BY <1>2, <2>2
<1>8. ASSUME NEW r \in Relays, NEW q \in Relay, relay' = [relay EXCEPT ![r] = q], q.again = 0 => Ordered(r, q)',
             \A x \in Relays \ {r} : \A m \in DOMAIN chat' :
               chat'[m].by = x => m \in DOMAIN chat /\ chat'[m] = chat[m]
      PROVE  OrderInv'
  <2>1. ASSUME NEW x \in Relays
        PROVE  \E z \in Relay : z = relay'[x] /\ (z.again = 0 => Ordered(x, z)')
    <3>1. CASE x = r
      <4>1. relay'[x] = q
        BY <1>0, <1>8, <3>1
      <4> QED BY <1>8, <3>1, <4>1
    <3>2. CASE x # r
      <4>1. PICK z \in Relay : z = relay[x]
        BY <1>0
      <4>2. relay'[x] = z
        BY <1>0, <1>8, <3>2, <4>1
      <4>3. z.again = 0 => Ordered(x, z)
        BY <1>1, <4>1
      <4>4. z.again = 0 => Ordered(x, z)'
        BY <1>3, <1>8, <3>2, <4>3
      <4> QED BY <4>2, <4>4
    <3> QED BY <3>1, <3>2
  <2> QED BY <1>2, <2>1
<1>9. ASSUME NEW r \in Relays, NEW q \in Relay, relay' = [relay EXCEPT ![r] = q],
             UNCHANGED chat, q.again = 0 => Ordered(r, q)
      PROVE  OrderInv'
  <2>1. q.again = 0 => Ordered(r, q)'
    BY <1>3, <1>9
  <2> QED BY <1>8, <1>9, <2>1
<1>10. CASE \E r \in Relays : Moves(r)
  <2>1. PICK r \in Relays : Moves(r)
    BY <1>10
  <2>2. PICK l, m, q \in Relay :
           /\ relay' = [relay EXCEPT ![r] = q] /\ Tailed(relay[r], l, m, q)
           /\ UNCHANGED <<agent, chat, user, cur, made, dropped>>
    BY <1>0, <2>1, TailingSteps
  <2>3. PICK p \in Relay : p = relay[r]
    BY <1>0
  <2>4. PICK D, P : D = Shown(r) /\ P = Posts(r)
    OBVIOUS
  <2>5. ASSUME q.again = 0
        PROVE  Ordered(r, q)
    <3>1. l.again = 0
      BY <2>2, <2>5 DEF Tailed, Reads, Closes, Marks, Keeps
    <3>2. p.again = 0 /\ (l = p \/ Rewinds(p, l))
      BY <2>2, <2>3, <3>1 DEF Tailed, Rewinds, Renews
    <3>3. Relaying(r, p) /\ Arranged(p, D, P) /\ D \in SUBSET Item /\ Ordered(r, p)
      BY <1>1, <2>3, <2>4, <3>2 DEF Ordered
    <3>4. Relaying(r, l) /\ Arranged(l, D, P) /\ l.s = p.s /\ l.batch = p.batch /\ l.lost = p.lost
      BY <1>0, <3>2, <3>3, RelayingRewinds, ArrangedRewinds DEF Rewinds, Posting
    <3>5. Relaying(r, m) /\ Arranged(m, D, P) /\ m.s = p.s /\ m.batch = p.batch /\ m.lost = p.lost
      BY <1>0, <2>2, <3>3, <3>4, RelayingReads, ArrangedReads DEF Tailed, Reads, Posting
    <3>6. Relaying(r, q) /\ q.s = p.s /\ q.batch = p.batch /\ q.lost = p.lost
      BY <1>0, <2>2, <3>5, RelayingCloses DEF Tailed, Closes, Marks, Keeps, Posting
    <3>7. Arranged(q, D, P)
      BY <1>0, <2>2, <3>3, <3>5, <3>6, ArrangedCloses DEF Tailed
    <3> QED BY <2>4, <3>3, <3>6, <3>7 DEF Ordered, Fits, Above, Own
  <2> QED BY <1>9, <2>2, <2>5
<1>11. CASE \E r \in Relays : Sender(r)
  <2>1. PICK r \in Relays : Sender(r)
    BY <1>11
  <2>2. PICK p \in Relay : p = relay[r]
    BY <1>0
  <2>3. PICK q \in Relay :
           /\ relay' = [relay EXCEPT ![r] = q] /\ UNCHANGED <<agent, user, cur, made>>
           /\ \/ Collects(p, q) /\ UNCHANGED <<chat, dropped>>
              \/ /\ p.batch # <<>>
                 /\ \/ UNCHANGED dropped /\ (Adds(p, q) \/ Fails(p, q) \/ Sends(r, p, q))
                    \/ Loses(p, q) /\ dropped' = dropped \cup ToSet(p.batch)
    BY <1>0, <2>1, <2>2, SenderSteps
  <2>4. PICK D, P : D = Shown(r) /\ P = Posts(r)
    OBVIOUS
  <2>5. /\ Relaying(r, p) /\ D \in SUBSET Item /\ p.batch \in Seq(Item) /\ p.grow \in Nat
        /\ q.again = 0 => Ordered(r, p) /\ Arranged(p, D, P)
    <3>1. q.again = p.again
      BY <2>3 DEF Collects, Adds, Fails, Sends, Loses, Stays
    <3> QED BY <1>1, <2>2, <2>4, <3>1 DEF Relay, Ordered
  <2>6. CASE Collects(p, q) /\ UNCHANGED chat
    <3>1. q.again = 0 => Arranged(q, D, P) /\ Above(q, D, q.batch) /\ q.s = p.s /\ q.lost = p.lost
      BY <2>5, <2>6, ArrangedCollects DEF Collects, Stays
    <3>2. q.again = 0 => Ordered(r, q)
      BY <2>4, <2>5, <3>1 DEF Ordered, Fits
    <3> QED BY <1>9, <2>3, <2>6, <3>2
  <2>7. CASE (Loses(p, q) \/ Fails(p, q)) /\ UNCHANGED chat /\ q.lost = p.lost
    <3> SUFFICES ASSUME q.again = 0
                 PROVE  Ordered(r, q)
      BY <1>9, <2>3, <2>7
    <3>1. q.grow # 0 => \A m \in P : m <= q.grow
      BY <2>5, <2>7 DEF Loses, Fails, Arranged
    <3>2. Arranged(q, D, P) /\ q.s = p.s
      BY <2>5, <2>7, <3>1, ArrangedPosts DEF Loses, Fails, Stays
    <3>3. Above(q, D, q.batch)
      <4>1. CASE Loses(p, q)
        BY <4>1 DEF Loses, Above
      <4>2. CASE Fails(p, q)
        <5>1. p.edit /\ q.batch = p.batch
          BY <4>2 DEF Fails
        <5> QED BY <2>5, <3>2, <5>1 DEF Arranged, Above, Own
      <4> QED BY <2>7, <4>1, <4>2
    <3> QED BY <2>4, <2>5, <2>7, <3>2, <3>3 DEF Ordered, Fits
  <2>8. CASE (Adds(p, q) \/ Fails(p, q)) /\ EditsChat(p.grow, p.batch) /\ (q.batch = <<>> \/ q.lost = p.lost \cup New(p))
    <3>1. p.edit /\ p.grow # 0 /\ p.grow \in DOMAIN chat /\ chat[p.grow].by = r /\ Wholes(p.batch)
      BY <2>5, <2>8 DEF Relaying, Adds, Fails
    <3>2. /\ DOMAIN chat' = DOMAIN chat /\ \A m \in DOMAIN chat \ {p.grow} : chat'[m] = chat[m]
          /\ chat'[p.grow].by = chat[p.grow].by /\ chat'[p.grow].items = chat[p.grow].items \o p.batch
      BY <1>0, <2>3, <2>5, <2>8, <3>1, ChatEdited DEF Grows
    <3>3. \A x \in Relays \ {r} : \A m \in DOMAIN chat' :
            chat'[m].by = x => m \in DOMAIN chat /\ chat'[m] = chat[m]
      BY <3>1, <3>2
    <3>4. ASSUME q.again = 0
          PROVE  Ordered(r, q)'
      <4>1. p.grow \in Posts(r) /\ \A m \in Posts(r) : m <= p.grow
        BY <2>4, <2>5, <3>1, <3>4 DEF Posts, Arranged
      <4>2. PICK b \in Nat : b = Len(chat[p.grow].items) /\ Gains(r, p.grow, b, p.batch)
        BY <1>0, <2>5, <3>2, <4>1, EditedGains
      <4>3. q.grow # 0 => \A m \in Posts(r) \cup {p.grow} : m <= q.grow
        BY <2>5, <2>8, <4>1 DEF Adds, Fails
      <4>4. Above(p, Shown(r), p.batch)
        BY <2>4, <2>5, <3>1, <3>4 DEF Arranged
      <4>5. New(p) = {<<p.grow, b + k>> : k \in DOMAIN p.batch}
        BY <4>2 DEF New
      <4>6. /\ Stays(p, q) /\ q.pend = p.pend /\ ~q.edit
            /\ \/ q.lost = p.lost /\ q.batch = <<>>
               \/ q.lost = p.lost \cup New(p) /\ q.batch = p.batch
        BY <2>3, <2>8, <3>1 DEF Adds, Fails
      <4> QED BY <1>0, <2>5, <3>4, <4>2, <4>3, <4>4, <4>5, <4>6, GainsOrder
    <3> QED BY <1>8, <2>3, <3>3, <3>4
  <2>9. CASE Sends(r, p, q) /\ p.batch # <<>>
    <3> DEFINE m == Message("relay", r, p.batch)
    <3>1. m.items = p.batch /\ m.by = r
      BY DEF Message
    <3> HIDE DEF m
    <3>2. /\ DOMAIN chat' = DOMAIN chat \cup {Len(chat) + 1} /\ chat'[Len(chat) + 1] = m
          /\ \A i \in DOMAIN chat : chat'[i] = chat[i]
      <4>1. chat' = Append(chat, m) /\ chat \in Seq(Post)
        BY <1>0, <2>9 DEF Sends, m, Chatted
      <4> QED BY <1>0, <4>1
    <3>3. PICK g \in Nat : g = Len(chat) + 1
      BY <1>0
    <3>4. Gains(r, g, 0, p.batch)
      BY <1>0, <2>5, <3>1, <3>2, <3>3, SentGains
    <3>5. q.grow # 0 => \A i \in Posts(r) \cup {g} : i <= q.grow
      <4>1. Posts(r) \subseteq 1..Len(chat)
        BY <1>0 DEF Posts
      <4> QED BY <1>0, <2>9, <3>3, <4>1 DEF Sends
    <3>6. q.again = 0 => Ordered(r, q)'
      BY <1>0, <2>5, <2>9, <3>4, <3>5, GainsOrder DEF Sends
    <3>7. \A x \in Relays \ {r} : \A i \in DOMAIN chat' :
            chat'[i].by = x => i \in DOMAIN chat /\ chat'[i] = chat[i]
      BY <3>1, <3>2
    <3> QED BY <1>8, <2>3, <3>6, <3>7
  <2> QED BY <2>3, <2>6, <2>7, <2>8, <2>9 DEF Adds, Fails, Loses
<1> QED BY <1>0, <1>5, <1>6, <1>7, <1>10, <1>11, Steps

(* What a relay has posted of its session reads in the order of the         *)
(* transcript, and a line stands twice only if it was first posted by an    *)
(* edit whose answer was lost, unless the relay began a file again.         *)
THEOREM PostedInOrder == Spec => []RelayedInOrder
<1>1. Init => OrderInv
  <2> SUFFICES ASSUME Init PROVE OrderInv
    OBVIOUS
  <2>1. Typed
    BY TypedInit
  <2>2. chat = <<>> /\ relay = [r \in Relays |-> Idle]
    BY DEF Init
  <2>3. \A r \in Relays : Posts(r) = {} /\ Shown(r) = {} /\ Places(r) = {}
    BY <2>2 DEF Posts, Shown, Places
  <2>4. Arranged(Idle, {}, {})
    BY DEF Arranged, Idle, Ascending, Above, Reached, ToSet
  <2>5. Idle.lost = {} /\ Idle.batch = <<>>
    BY DEF Idle
  <2>6. \A r \in Relays : Ordered(r, Idle)
    BY <2>3, <2>4, <2>5 DEF Ordered, Neat, Fits, Above
  <2> QED BY <2>1, <2>2, <2>6 DEF OrderInv
<1>2. OrderInv /\ [Next]_vars => OrderInv'
  BY OrderStep
<1>3. OrderInv => RelayedInOrder
  <2> SUFFICES ASSUME OrderInv, NEW r \in Relays, relay[r].again = 0
               PROVE  Neat(r, relay[r].s, relay[r].lost)
    BY DEF RelayedInOrder, Neat
  <2> QED BY DEF OrderInv, Ordered
<1> QED BY <1>1, <1>2, <1>3, PTL DEF Spec

-----------------------------------------------------------------------------
(* Nothing that a relay has read is skipped.                                *)

LEMMA BreaksGrow ==
  ASSUME Sessioned, Sessioned', LinesGrow
  PROVE  Breaks \subseteq Breaks'
<1>1. \A e \in Item : IsWhole(e) /\ KindOf(e) = "break" => IsWhole(e)' /\ KindOf(e)' = "break"
  BY ItemGrows
<1> QED BY <1>1 DEF Breaks, Item

(* No message is taken back, and none loses a line. *)
LEMMA ShownGrows ==
  ASSUME NEW r \in Relays,
         \A m \in DOMAIN chat : /\ m \in DOMAIN chat' /\ chat'[m].by = chat[m].by
                                /\ ToSet(chat[m].items) \subseteq ToSet(chat'[m].items)
  PROVE  /\ Shown(r) \subseteq Shown(r)'
         /\ \A m \in DOMAIN chat' : chat'[m].by = r => ToSet(chat'[m].items) \subseteq Shown(r)'
BY DEF Shown, Posts

Within(p) == (p.pc # "off" => p.s \in 1..count) /\ (p.file # 0 => p.file \in {p.s - 1, p.s})

LEMMA FinishedGrows ==
  ASSUME Sessioned, Settled, NEW p \in Relay, Finished(p), Within(p)
  PROVE  Finished(p)'
<1> SUFFICES ASSUME p.pc # "off"
             PROVE  Finished(p)'
  BY DEF Finished
<1>1. p.s \in 1..count /\ p.s \in Sessions /\ count \in Nat /\ p.s \in Nat /\ p.file \in Nat
  BY Limits DEF Sessioned, Relay, Within
<1>2. sess'[p.s].kind = sess[p.s].kind /\ (~sess[p.s].live => ~sess'[p.s].live /\ Whole(p.s)' = Whole(p.s))
  BY <1>1 DEF Settled
<1>3. CASE p.file # 0 /\ ~sess[p.s].live
  <2>1. p.file \in 1..count /\ (p.file = p.s \/ p.file < count)
    BY <1>1, <1>3 DEF Within
  <2>2. ~sess[p.file].live
    BY <1>1, <1>3, <2>1, Limits DEF Sessioned
  <2>3. Whole(p.file)' = Whole(p.file)
    BY <2>1, <2>2 DEF Settled
  <2> HIDE DEF Whole
  <2> QED BY <1>2, <1>3, <2>3 DEF Finished
<1>4. CASE ~(p.file # 0 /\ ~sess[p.s].live)
  <2> HIDE DEF Whole
  <2> QED BY <1>2, <1>4 DEF Finished
<1> QED BY <1>3, <1>4

LEMMA AccountedReads ==
  ASSUME Sessioned, NEW r \in Relays, NEW p \in Relay, NEW q \in Relay, NEW B, NEW D,
         Relaying(r, p), Reads(p, q), Accounted(p, B, D)
  PROVE  Accounted(q, B, D)
<1>1. p.file # 0 /\ p.pos <= Whole(p.file) /\ q.file = p.file /\ q.pos = Whole(p.file) /\ q.batch = p.batch
  BY DEF Relaying, Reads, Posting
<1>2. /\ Lines(p) \in Seq(Item) /\ DOMAIN Lines(p) = 1..(Whole(p.file) - p.pos)
      /\ p.pos \in Nat /\ Whole(p.file) \in Nat
      /\ \A i \in DOMAIN Lines(p) : Lines(p)[i] = <<p.file, p.pos + i>>
  BY <1>1, LinesTyped
<1>3. ToSet(q.pend) = ToSet(p.pend) \cup ToSet(Lines(p))
  <2>1. p.pend \in Seq(Item) /\ q.pend = p.pend \o Lines(p)
    BY DEF Relay, Reads
  <2> HIDE DEF Lines
  <2> QED BY <1>2, <2>1, JoinedItems
<1>4. ASSUME NEW i \in 1..Whole(p.file)
      PROVE  <<p.file, i>> \in B \cup D \cup ToSet(q.pend) \cup ToSet(q.batch)
  <2> HIDE DEF Whole, Lines
  <2>1. CASE i <= p.pos
    <3>1. i \in 1..p.pos
      BY <1>2, <2>1
    <3> QED BY <1>1, <1>3, <3>1 DEF Accounted
  <2>2. CASE i > p.pos
    <3>1. PICK k : k = i - p.pos
      OBVIOUS
    <3>2. k \in 1..(Whole(p.file) - p.pos) /\ p.pos + k = i
      BY <1>2, <2>2, <3>1
    <3>3. k \in DOMAIN Lines(p) /\ Lines(p)[k] = <<p.file, i>>
      BY <1>2, <3>2
    <3>4. <<p.file, i>> \in ToSet(Lines(p))
      BY <3>3 DEF ToSet
    <3> QED BY <1>3, <3>4
  <2> QED BY <1>2, <2>1, <2>2
<1> HIDE DEF Whole
<1> QED BY <1>1, <1>4 DEF Accounted

LEMMA AccountedCloses ==
  ASSUME Sessioned, NEW p \in Relay, NEW q \in Relay, NEW B, NEW D, p.s \in Sessions,
         Closes(p, q) \/ Marks(p, q), Accounted(p, B, D), Finished(p)
  PROVE  Accounted(q, B, D) /\ Finished(q)
<1>1. q.s = p.s /\ q.batch = p.batch /\ q.file = p.file /\ q.pos = p.pos /\ q.cancelled = p.cancelled
  BY DEF Closes, Marks, Keeps, Posting
<1>2. ToSet(p.pend) \subseteq ToSet(q.pend)
  <2>1. p.pend \in Seq(Item) /\ <<Outcome(p.s)>> \in Seq(Item)
    BY Markers DEF Relay
  <2>2. q.pend = p.pend \/ q.pend = p.pend \o <<Outcome(p.s)>>
    BY DEF Closes, Marks
  <2>3. ToSet(p.pend \o <<Outcome(p.s)>>) = ToSet(p.pend) \cup ToSet(<<Outcome(p.s)>>)
    BY <2>1, JoinedItems
  <2> QED BY <2>2, <2>3
<1>3. Accounted(q, B, D)
  BY <1>1, <1>2 DEF Accounted
<1>4. Finished(q)
  <2> HIDE DEF Whole
  <2>1. CASE Closes(p, q)
    BY <1>1, <2>1 DEF Finished, Closes
  <2>2. CASE Marks(p, q)
    BY <1>1, <2>2 DEF Finished, Marks
  <2> QED BY <2>1, <2>2
<1> QED BY <1>3, <1>4

LEMMA AccountedCollects ==
  ASSUME NEW p \in Relay, NEW q \in Relay, NEW D, Wholes(p.pend), Collects(p, q), Accounted(p, Breaks, D)
  PROVE  Accounted(q, Breaks, D)
<1>1. /\ q.file = p.file /\ q.pos = p.pos /\ p.batch = <<>>
      /\ q.batch \in WithoutBreaks(p.pend) /\ p.pend \in Seq(Item)
  BY DEF Collects, Stays, Relay
<1>2. \A k \in DOMAIN p.pend : KindOf(p.pend[k]) # "break" => \E i \in DOMAIN q.batch : q.batch[i] = p.pend[k]
  BY <1>1, Filtered
<1>3. \A k \in DOMAIN p.pend : p.pend[k] \in Item /\ IsWhole(p.pend[k])
  BY <1>1 DEF Wholes
<1>4. ToSet(p.pend) \subseteq Breaks \cup ToSet(q.batch)
  BY <1>2, <1>3 DEF ToSet, Breaks
<1>5. ToSet(p.batch) = {}
  BY <1>1 DEF ToSet
<1> QED BY <1>1, <1>4, <1>5 DEF Accounted

(* A batch is out when it was posted or lost, and waits when its edit failed. *)
LEMMA AccountedPosts ==
  ASSUME NEW p, NEW q, NEW B, NEW D, NEW E, Accounted(p, B, D), Stays(p, q), q.pend = p.pend,
         D \subseteq E, ToSet(p.batch) \subseteq E \cup ToSet(q.batch)
  PROVE  Accounted(q, B, E)
<1>1. q.file = p.file /\ q.pos = p.pos
  BY DEF Stays
<1> QED BY <1>1 DEF Accounted

LEMMA FinishedStays ==
  ASSUME NEW p, NEW q, Finished(p), q.s = p.s /\ q.pc = p.pc /\ q.file = p.file /\ q.pos = p.pos,
         q.cancelled \in {p.cancelled, TRUE}, p.pc = "over" => q.pend = p.pend
  PROVE  Finished(q)
BY DEF Finished

LEMMA SkipStep ==
  ASSUME SkipInv, [Next]_vars
  PROVE  SkipInv'
<1>0. /\ Typed /\ Typed' /\ Sessioned /\ Sessioned' /\ LinesGrow /\ Settled /\ Chatted /\ made \in Nat
      /\ relay \in [Relays -> Relay] /\ relay' \in [Relays -> Relay]
      /\ Len(chat) \in Nat /\ DOMAIN chat = 1..Len(chat) /\ count \in Sessions /\ Sessions = 1..MaxSessions
      /\ \A m \in DOMAIN chat : m \in DOMAIN chat' /\ chat'[m].by = chat[m].by
  <2>1. Typed
    BY DEF SkipInv
  <2>2. Typed' /\ Grows /\ Sessioned' /\ LinesGrow /\ Settled
    BY <2>1, TypedStep, Steps
  <2>3. relay \in [Relays -> Relay] /\ relay' \in [Relays -> Relay]
    BY <2>1, <2>2 DEF Typed, Relayed
  <2>4. /\ Sessioned /\ Chatted /\ made \in Nat /\ count \in Sessions
        /\ \A m \in DOMAIN chat : m \in DOMAIN chat' /\ chat'[m].by = chat[m].by
    BY <2>1, <2>2, Zenon DEF Typed, Sessioned, Grows
  <2>5. Len(chat) \in Nat /\ DOMAIN chat = 1..Len(chat)
    BY <2>4 DEF Chatted
  <2> QED BY <2>1, <2>2, <2>3, <2>4, <2>5, Limits
<1>1. ASSUME NEW r \in Relays, NEW p \in Relay, p = relay[r]
      PROVE  /\ Relaying(r, p) /\ Accounted(p, Breaks, Out(r)) /\ Finished(p)
             /\ Within(p) /\ p.batch \in Seq(Item) /\ p.grow \in Nat
  <2>1. Relaying(r, p) /\ Accounted(p, Breaks, Out(r)) /\ Finished(p)
    BY <1>1 DEF SkipInv, Typed, Relayed
  <2> QED BY <1>1, <2>1 DEF Relaying, Within, Relay
<1>2. ASSUME \A r \in Relays : \E q \in Relay :
               /\ q = relay'[r] /\ Accounted(q, Breaks, Out(r)') /\ Finished(q) /\ Within(q)
      PROVE  SkipInv'
  <2> SUFFICES ASSUME NEW r \in Relays
               PROVE  (Accounted(relay[r], Breaks, Out(r)) /\ Finished(relay[r]))'
    BY <1>0 DEF SkipInv, Relays
  <2>1. PICK q \in Relay :
          /\ q = relay'[r] /\ Accounted(q, Breaks, Out(r)') /\ Finished(q) /\ Within(q)
    BY <1>2
  <2>2. Finished(q)'
    BY <1>0, <2>1, FinishedGrows
  <2>3. Breaks \subseteq Breaks'
    BY <1>0, BreaksGrow
  <2>4. PICK B, C, D : B = Breaks /\ C = Breaks' /\ D = Out(r)'
    OBVIOUS
  <2>5. Accounted(q, C, D)
    BY <2>1, <2>3, <2>4 DEF Accounted
  <2>6. Accounted(relay[r], Breaks, Out(r))'
    BY <2>1, <2>4, <2>5 DEF Accounted
  <2>7. Finished(relay[r])'
    BY <2>1, <2>2 DEF Finished
  <2> QED BY <2>6, <2>7
<1>3. ASSUME NEW r \in Relays, dropped \subseteq dropped',
             \A m \in DOMAIN chat : ToSet(chat[m].items) \subseteq ToSet(chat'[m].items)
      PROVE  /\ Out(r) \subseteq Out(r)'
             /\ \A m \in DOMAIN chat' : chat'[m].by = r => ToSet(chat'[m].items) \subseteq Out(r)'
  <2>1. /\ Shown(r) \subseteq Shown(r)'
        /\ \A m \in DOMAIN chat' : chat'[m].by = r => ToSet(chat'[m].items) \subseteq Shown(r)'
    BY <1>0, <1>3, ShownGrows
  <2>2. Out(r)' = dropped' \cup Shown(r)'
    BY DEF Out
  <2>3. Out(r) = dropped \cup Shown(r)
    BY DEF Out
  <2> QED BY <1>3, <2>1, <2>2, <2>3
<1>4. ASSUME NEW r \in Relays, NEW q \in Relay, relay' = [relay EXCEPT ![r] = q],
             dropped \subseteq dropped', \A m \in DOMAIN chat : ToSet(chat[m].items) \subseteq ToSet(chat'[m].items),
             Accounted(q, Breaks, Out(r)'), Finished(q), Within(q)
      PROVE  SkipInv'
  <2>1. ASSUME NEW x \in Relays
        PROVE  \E z \in Relay : /\ z = relay'[x] /\ Accounted(z, Breaks, Out(x)') /\ Finished(z) /\ Within(z)
    <3>1. CASE x = r
      <4>1. relay'[x] = q
        BY <1>0, <1>4, <3>1
      <4> QED BY <1>4, <3>1, <4>1
    <3>2. CASE x # r
      <4>1. PICK z \in Relay : z = relay[x]
        BY <1>0
      <4>2. relay'[x] = z
        BY <1>0, <1>4, <3>2, <4>1
      <4>3. /\ Accounted(z, Breaks, Out(x)) /\ Finished(z) /\ Within(z)
        BY <1>1, <4>1
      <4>4. Out(x) \subseteq Out(x)'
        BY <1>3, <1>4
      <4>5. Accounted(z, Breaks, Out(x)')
        BY <4>3, <4>4 DEF Accounted
      <4> QED BY <4>2, <4>3, <4>5
    <3> QED BY <3>1, <3>2
  <2> QED BY <1>2, <2>1
<1>5. CASE Elsewhere \/ Written
  <2>1. UNCHANGED <<relay, dropped>> /\ \A m \in DOMAIN chat : ToSet(chat[m].items) \subseteq ToSet(chat'[m].items)
    BY <1>0, <1>5 DEF Elsewhere, Written, Chatted
  <2>2. ASSUME NEW x \in Relays
        PROVE  \E z \in Relay : /\ z = relay'[x] /\ Accounted(z, Breaks, Out(x)') /\ Finished(z) /\ Within(z)
    <3>1. PICK z \in Relay : z = relay[x]
      BY <1>0
    <3>2. /\ Accounted(z, Breaks, Out(x)) /\ Finished(z) /\ Within(z)
      BY <1>1, <3>1
    <3>3. Out(x) \subseteq Out(x)'
      BY <1>3, <2>1
    <3>4. Accounted(z, Breaks, Out(x)')
      BY <3>2, <3>3 DEF Accounted
    <3> QED BY <2>1, <3>1, <3>2, <3>4
  <2> QED BY <1>2, <2>2
<1>6. CASE BreakGrowth \/ Reconcile \/ BridgeStops
  <2>1. /\ UNCHANGED <<agent, chat, dropped>>
        /\ \A r \in Relays : Reset(relay[r], relay'[r]) \/ Begins(r, relay'[r])
    BY <1>0, <1>6, BridgeSteps
  <2>2. ASSUME NEW r \in Relays
        PROVE  \E q \in Relay : /\ q = relay'[r] /\ Accounted(q, Breaks, Out(r)') /\ Finished(q) /\ Within(q)
    <3>1. PICK p \in Relay, q \in Relay : p = relay[r] /\ q = relay'[r]
      BY <1>0
    <3>2. /\ Accounted(p, Breaks, Out(r)) /\ Finished(p) /\ Out(r) \subseteq Out(r)' /\ Within(p)
      BY <1>1, <1>3, <2>1, <3>1
    <3>3. CASE Reset(p, q)
      <4>1. /\ q.s = p.s /\ q.pc = p.pc /\ q.file = p.file /\ q.pos = p.pos /\ q.pend = p.pend /\ q.batch = p.batch
            /\ q.cancelled \in {p.cancelled, TRUE}
        BY <3>3 DEF Reset
      <4>2. Accounted(q, Breaks, Out(r)')
        BY <3>2, <4>1 DEF Accounted
      <4>3. Finished(q)
        BY <3>2, <4>1, FinishedStays
      <4>4. Within(q)
        BY <3>2, <4>1 DEF Within
      <4> QED BY <3>1, <4>2, <4>3, <4>4
    <3>4. CASE Begins(r, q)
      <4>1. q.s = count /\ q.pc = "tail" /\ q.file = 0
        BY <3>4 DEF Begins
      <4>2. q.s \in 1..count
        BY <1>0, <4>1, Limits
      <4> QED BY <3>1, <4>1, <4>2 DEF Accounted, Finished, Within
    <3> QED BY <2>1, <3>1, <3>3, <3>4
  <2> QED BY <1>2, <2>2
<1>7. CASE \E r \in Relays : Moves(r)
  <2>1. PICK r \in Relays : Moves(r)
    BY <1>7
  <2>2. PICK l, m, q \in Relay :
           /\ relay' = [relay EXCEPT ![r] = q] /\ Tailed(relay[r], l, m, q)
           /\ UNCHANGED <<agent, chat, user, cur, made, dropped>>
    BY <1>0, <2>1, TailingSteps
  <2>3. PICK p \in Relay : p = relay[r]
    BY <1>0
  <2>4. PICK B, D : B = Breaks /\ D = Out(r)
    OBVIOUS
  <2>5. Relaying(r, p) /\ Accounted(p, B, D) /\ Finished(p)
    BY <1>1, <2>3, <2>4
  <2>6. Relaying(r, l) /\ Accounted(l, B, D) /\ Finished(l)
    <3>1. CASE l = p
      BY <2>5, <3>1
    <3>2. CASE Rewinds(p, l)
      <4>1. Relaying(r, l)
        BY <1>0, <2>5, <3>2, RelayingRewinds
      <4> QED BY <3>2, <4>1 DEF Rewinds, Posting, Accounted, Finished
    <3>3. CASE Renews(p, l)
      <4>1. Relaying(r, l)
        BY <1>0, <2>5, <3>3, RelayingRenews
      <4> QED BY <2>5, <3>3, <4>1 DEF Renews, Posting, Accounted, Finished
    <3> QED BY <2>2, <2>3, <3>1, <3>2, <3>3 DEF Tailed
  <2>7. Relaying(r, m) /\ Accounted(m, B, D) /\ Finished(m)
    <3>1. CASE m = l
      BY <2>6, <3>1
    <3>2. CASE Reads(l, m)
      <4>1. Relaying(r, m) /\ Accounted(m, B, D)
        BY <1>0, <2>6, <3>2, RelayingReads, AccountedReads
      <4> QED BY <3>2, <4>1 DEF Reads, Posting, Finished
    <3> QED BY <2>2, <3>1, <3>2 DEF Tailed
  <2>8. Relaying(r, q) /\ Accounted(q, B, D) /\ Finished(q)
    <3>1. CASE q = m
      BY <2>7, <3>1
    <3>2. CASE Closes(m, q) \/ Marks(m, q)
      <4>1. m.s \in Sessions
        <5>1. m.pc # "off"
          BY <3>2 DEF Closes, Marks
        <5> QED BY <1>0, <2>7, <5>1, Limits DEF Relaying
      <4> QED BY <1>0, <2>7, <3>2, <4>1, RelayingCloses, AccountedCloses
    <3> QED BY <2>2, <3>1, <3>2 DEF Tailed
  <2>9. Out(r)' = Out(r)
    <3>1. UNCHANGED <<chat, dropped>>
      BY <2>2
    <3> QED BY <3>1 DEF Out, Shown, Posts
  <2>10. Within(q)
    BY <2>8 DEF Relaying, Within
  <2> QED BY <1>4, <2>2, <2>4, <2>8, <2>9, <2>10
<1>8. CASE \E r \in Relays : Sender(r)
  <2>1. PICK r \in Relays : Sender(r)
    BY <1>8
  <2>2. PICK p \in Relay : p = relay[r]
    BY <1>0
  <2>3. PICK q \in Relay :
           /\ relay' = [relay EXCEPT ![r] = q] /\ UNCHANGED <<agent, user, cur, made>>
           /\ \/ Collects(p, q) /\ UNCHANGED <<chat, dropped>>
              \/ /\ p.batch # <<>>
                 /\ \/ UNCHANGED dropped /\ (Adds(p, q) \/ Fails(p, q) \/ Sends(r, p, q))
                    \/ Loses(p, q) /\ dropped' = dropped \cup ToSet(p.batch)
    BY <1>0, <2>1, <2>2, SenderSteps
  <2>4. /\ Relaying(r, p) /\ Accounted(p, Breaks, Out(r)) /\ Finished(p) /\ p.batch \in Seq(Item) /\ p.grow \in Nat
        /\ p.pend \in Seq(Item) /\ Wholes(p.pend) /\ Stays(p, q)
    <3>1. Stays(p, q)
      BY <2>3 DEF Collects, Adds, Fails, Sends, Loses
    <3> QED BY <1>1, <2>2, <3>1 DEF Relay, Relaying
  <2>5. q.file = p.file /\ q.pos = p.pos /\ q.s = p.s /\ q.pc = p.pc /\ q.cancelled = p.cancelled /\ Within(q)
    <3>1. Within(p)
      BY <1>1, <2>2
    <3> QED BY <2>4, <3>1 DEF Stays, Within
  <2>6. CASE Collects(p, q) /\ UNCHANGED <<chat, dropped>>
    <3>1. Out(r)' = Out(r)
      BY <2>6 DEF Out, Shown, Posts
    <3>2. Accounted(q, Breaks, Out(r)')
      BY <2>4, <2>6, <3>1, AccountedCollects
    <3>3. Finished(q)
      <4>1. p.pc # "over"
        BY <2>6 DEF Collects
      <4> QED BY <2>4, <2>5, <4>1, FinishedStays
    <3> QED BY <1>4, <2>3, <2>5, <2>6, <3>2, <3>3
  <2>7. ASSUME q.pend = p.pend, dropped \subseteq dropped', ToSet(p.batch) \subseteq Out(r)' \cup ToSet(q.batch),
               \A m \in DOMAIN chat : ToSet(chat[m].items) \subseteq ToSet(chat'[m].items)
        PROVE  SkipInv'
    <3>1. Out(r) \subseteq Out(r)'
      BY <1>3, <2>7
    <3>2. Accounted(q, Breaks, Out(r)')
      BY <2>4, <2>7, <3>1, AccountedPosts
    <3>3. Finished(q)
      BY <2>4, <2>5, <2>7, FinishedStays
    <3> QED BY <1>4, <2>3, <2>5, <2>7, <3>2, <3>3
  <2>8. CASE Fails(p, q) /\ UNCHANGED <<chat, dropped>>
    BY <2>7, <2>8 DEF Fails
  <2>9. CASE Loses(p, q) /\ dropped' = dropped \cup ToSet(p.batch)
    <3>1. ToSet(p.batch) \subseteq Out(r)'
      BY <2>9 DEF Out
    <3> QED BY <2>7, <2>9, <3>1 DEF Loses
  <2>10. CASE (Adds(p, q) \/ Fails(p, q)) /\ EditsChat(p.grow, p.batch) /\ UNCHANGED dropped
    <3>1. p.edit /\ p.grow # 0 /\ p.grow \in DOMAIN chat /\ chat[p.grow].by = r /\ Wholes(p.batch)
      BY <2>4, <2>10 DEF Relaying, Adds, Fails
    <3>2. /\ DOMAIN chat' = DOMAIN chat /\ \A m \in DOMAIN chat \ {p.grow} : chat'[m] = chat[m]
          /\ chat'[p.grow].by = chat[p.grow].by /\ chat'[p.grow].items = chat[p.grow].items \o p.batch
      BY <1>0, <2>3, <2>4, <2>10, <3>1, ChatEdited
    <3>3. chat[p.grow].items \in Seq(Item)
      <4>1. chat[p.grow] \in Post
        BY <1>0, <3>1 DEF Chatted
      <4> QED BY <4>1 DEF Post
    <3>4. ToSet(chat'[p.grow].items) = ToSet(chat[p.grow].items) \cup ToSet(p.batch)
      BY <2>4, <3>2, <3>3, JoinedItems
    <3>5. \A m \in DOMAIN chat : ToSet(chat[m].items) \subseteq ToSet(chat'[m].items)
      BY <3>2, <3>4
    <3>6. ToSet(p.batch) \subseteq Out(r)'
      BY <1>3, <2>10, <3>1, <3>2, <3>4, <3>5
    <3> QED BY <2>7, <2>10, <3>5, <3>6 DEF Adds, Fails
  <2>11. CASE Sends(r, p, q) /\ UNCHANGED dropped
    <3> DEFINE m == Message("relay", r, p.batch)
    <3>1. m.items = p.batch /\ m.by = r
      BY DEF Message
    <3> HIDE DEF m
    <3>2. /\ Len(chat) + 1 \in DOMAIN chat' /\ chat'[Len(chat) + 1] = m
          /\ \A i \in DOMAIN chat : chat'[i] = chat[i]
      <4>1. chat' = Append(chat, m) /\ chat \in Seq(Post)
        BY <1>0, <2>11 DEF Sends, m, Chatted
      <4> QED BY <1>0, <4>1
    <3>3. \A i \in DOMAIN chat : ToSet(chat[i].items) \subseteq ToSet(chat'[i].items)
      BY <3>2
    <3>4. ToSet(p.batch) \subseteq Out(r)'
      BY <1>3, <2>11, <3>1, <3>2, <3>3
    <3> QED BY <2>7, <2>11, <3>3, <3>4 DEF Sends
  <2> QED BY <2>3, <2>6, <2>8, <2>9, <2>10, <2>11 DEF Adds, Fails, Loses
<1> QED BY <1>0, <1>5, <1>6, <1>7, <1>8, Steps

(* A relay that was not cancelled leaves no line of the transcript it read  *)
(* unposted but those of failed sends, although lines arrive between its    *)
(* last look, the end of the session and the last flush.                    *)
THEOREM NothingLeftOut == Spec => []NothingSkipped
<1>1. Init => SkipInv
  <2> SUFFICES ASSUME Init PROVE SkipInv
    OBVIOUS
  <2>1. Typed
    BY TypedInit
  <2>2. \A r \in Relays : relay[r] = Idle
    BY DEF Init
  <2>3. Idle.file = 0 /\ Idle.pc = "off"
    BY DEF Idle
  <2> QED BY <2>1, <2>2, <2>3 DEF SkipInv, Accounted, Finished
<1>2. SkipInv /\ [Next]_vars => SkipInv'
  BY SkipStep
<1>3. SkipInv => NothingSkipped
  <2> SUFFICES ASSUME SkipInv, NEW r \in Relays, Over(r), ~relay[r].cancelled, relay[r].file # 0,
                      NEW i \in 1..Whole(relay[r].file)
               PROVE  LET e == <<relay[r].file, i>> IN
                      KindOf(e) = "break" \/ e \in dropped \/ e \in Shown(r)
    <3>1. 1..0 = {}
      OBVIOUS
    <3> QED BY <3>1 DEF NothingSkipped
  <2>1. PICK p \in Relay : p = relay[r] /\ Relaying(r, p) /\ Accounted(p, Breaks, Out(r)) /\ Finished(p)
    BY DEF SkipInv, Typed, Relayed
  <2>2. p.pc = "over" /\ ~p.cancelled /\ p.file # 0
    BY <2>1 DEF Over
  <2>3. p.pos = Whole(p.file) /\ p.pend = <<>>
    BY <2>2, <2>1 DEF Finished
  <2>4. p.batch = <<>>
    BY <2>1, <2>2 DEF Relaying
  <2>5. ToSet(p.pend) = {} /\ ToSet(p.batch) = {}
    BY <2>3, <2>4 DEF ToSet
  <2>6. <<p.file, i>> \in Breaks \cup Out(r)
    BY <2>1, <2>2, <2>3, <2>5 DEF Accounted
  <2> QED BY <2>1, <2>6 DEF Breaks, Out
<1> QED BY <1>1, <1>2, <1>3, PTL DEF Spec

===============================================================================
