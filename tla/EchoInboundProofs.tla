-------------------------- MODULE EchoInboundProofs --------------------------
(***************************************************************************)
(* What a listener remembers and charges, for any number of deliveries,    *)
(* request goroutines and listeners, any bucket and any cache.             *)
(***************************************************************************)
EXTENDS EchoInbound, FiniteSetTheorems, TLAPS

Gate    == {"verify", "check"}
Handler == {"load", "ask", "requeue", "stop", "await", "save", "reply"}
Agents  == {"none", "launching", "live", "doomed", "dead"}
Files   == [status : {"ready", "done"}, success : BOOLEAN]
Request == [pc : {"idle"} \cup Gate \cup Handler, id : Deliveries \cup {IdleW.id},
            srv : Servers, snap : Files]

(* A request that is handled is about a delivery. *)
RequestsTyped ==
  /\ w \in [Workers -> Request]
  /\ \A x \in Workers : ~At(x, "idle") => Id(x) \in Deliveries

Types ==
  /\ call \in [Deliveries -> Calls] /\ server \in Servers
  /\ srv \in [Servers -> {"off", "new", "listening", "stopped", "failed"}]
  /\ tokens \in [Servers -> 0..Rate] /\ charged \in [Servers -> Int]
  /\ cache \in [Servers -> [Providers -> Seq(Deliveries)]]
  /\ worked \in [Servers -> [Deliveries -> Nat]] /\ forgot \in [Servers -> SUBSET Deliveries]
  /\ task \in [Tasks -> Files] /\ running \in Tasks \cup {"none"} /\ agent \in Agents
  /\ RequestsTyped

(* A cache holds an id once, and no more ids than it may. *)
CachesBounded == \A s \in Servers, p \in Providers :
  Len(cache[s][p]) <= MaxEntries /\ IsInjective(cache[s][p])

(* What a listener has worked it knows, or has let go of. *)
WorkedIsKnown == \A s \in Servers, d \in Deliveries :
  worked[s][d] >= 1 => d \in ToSet(cache[s][call[d].from]) \cup forgot[s]

(* The requests that were charged and may yet turn out to be replays: they *)
(* are finitely many, and the bucket knows of each.                        *)
Pending(s) == {x \in Workers : w[x].pc \in Gate /\ w[x].srv = s}
PendingCharged == \A s \in Servers :
  IsFiniteSet(Pending(s)) /\ Cardinality(Pending(s)) <= charged[s]

DedupInv  == Types /\ CachesBounded /\ WorkedIsKnown /\ WorkedOnce
ChargeInv == Types /\ PendingCharged /\ RetriesAreFree

-----------------------------------------------------------------------------
(* The list behind a cache.                                                 *)

LEMMA RemoveAtProperties ==
  ASSUME NEW S, NEW ids \in Seq(S), NEW k \in 1..Len(ids)
  PROVE  LET r == RemoveAt(ids, k)
         IN  /\ r \in Seq(S) /\ Len(r) = Len(ids) - 1
             /\ \A i \in 1..Len(r) : r[i] = IF i < k THEN ids[i] ELSE ids[i + 1]
<1> DEFINE a == SubSeq(ids, 1, k - 1)
           b == SubSeq(ids, k + 1, Len(ids))
<1>1. /\ a \in Seq(S) /\ Len(a) = k - 1
      /\ \A i \in 1..(k - 1) : a[i] = ids[i]
  OBVIOUS
<1>2. /\ b \in Seq(S) /\ Len(b) = Len(ids) - k
      /\ \A i \in 1..(Len(ids) - k) : b[i] = ids[k + i]
  OBVIOUS
<1> HIDE DEF a, b
<1>3. /\ a \o b \in Seq(S) /\ Len(a \o b) = Len(ids) - 1
      /\ \A i \in 1..(Len(ids) - 1) : (a \o b)[i] = IF i < k THEN ids[i] ELSE ids[i + 1]
  <2>1. a \o b \in Seq(S) /\ Len(a \o b) = Len(ids) - 1
    BY <1>1, <1>2
  <2>2. ASSUME NEW i \in 1..(Len(ids) - 1), i < k PROVE (a \o b)[i] = ids[i]
    BY <1>1, <1>2, <2>2
  <2>3. ASSUME NEW i \in 1..(Len(ids) - 1), ~(i < k) PROVE (a \o b)[i] = ids[i + 1]
    <3>1. (a \o b)[i] = b[i - (k - 1)] /\ i - (k - 1) \in 1..(Len(ids) - k)
      BY <1>1, <1>2, <2>3
    <3> QED BY <1>2, <2>3, <3>1
  <2> QED BY <2>1, <2>2, <2>3
<1> QED BY <1>3 DEF RemoveAt, a, b

LEMMA ConsProperties ==
  ASSUME NEW S, NEW d \in S, NEW r \in Seq(S)
  PROVE  /\ <<d>> \o r \in Seq(S) /\ Len(<<d>> \o r) = Len(r) + 1
         /\ (<<d>> \o r)[1] = d
         /\ \A i \in 2..(Len(r) + 1) : (<<d>> \o r)[i] = r[i - 1]
OBVIOUS

(* Cache.Seen puts an id in front: none is lost, none is there twice, and   *)
(* the list grows only by an id that was not in it.                         *)
LEMMA InFrontProperties ==
  ASSUME NEW S, NEW ids \in Seq(S), NEW d \in S
  PROVE  /\ InFront(d, ids) \in Seq(S)
         /\ Len(InFront(d, ids)) = IF d \in ToSet(ids) THEN Len(ids) ELSE Len(ids) + 1
         /\ ToSet(ids) \cup {d} \subseteq ToSet(InFront(d, ids))
         /\ IsInjective(ids) => IsInjective(InFront(d, ids))
<1>1. CASE d \notin ToSet(ids)
  <2> DEFINE f == <<d>> \o ids
  <2>1. InFront(d, ids) = f
    BY <1>1 DEF InFront
  <2>2. /\ f \in Seq(S) /\ Len(f) = Len(ids) + 1 /\ f[1] = d
        /\ \A i \in 2..(Len(ids) + 1) : f[i] = ids[i - 1]
    BY ConsProperties
  <2> HIDE DEF f
  <2>3. ToSet(ids) \cup {d} \subseteq ToSet(f)
    <3>1. ASSUME NEW i \in DOMAIN ids PROVE ids[i] \in ToSet(f)
      <4>1. i + 1 \in DOMAIN f /\ f[i + 1] = ids[i]
        BY <2>2
      <4> QED BY <4>1 DEF ToSet
    <3>2. d \in ToSet(f)
      BY <2>2 DEF ToSet
    <3> QED BY <3>1, <3>2 DEF ToSet
  <2>4. ASSUME IsInjective(ids) PROVE IsInjective(f)
    <3> SUFFICES ASSUME NEW i \in DOMAIN f, NEW j \in DOMAIN f, f[i] = f[j], i < j PROVE FALSE
      BY <2>2 DEF IsInjective
    <3>1. j - 1 \in DOMAIN ids /\ f[j] = ids[j - 1]
      BY <2>2
    <3>2. i # 1
      BY <1>1, <2>2, <3>1 DEF ToSet
    <3>3. i - 1 \in DOMAIN ids /\ f[i] = ids[i - 1]
      BY <2>2, <3>2
    <3> QED BY <2>2, <2>4, <3>1, <3>3 DEF IsInjective
  <2> QED BY <1>1, <2>1, <2>2, <2>3, <2>4
<1>2. CASE d \in ToSet(ids)
  <2> DEFINE k == Place(d, ids)
             r == RemoveAt(ids, k)
             f == <<d>> \o r
  <2>1. InFront(d, ids) = f
    BY <1>2 DEF InFront
  <2>2. k \in 1..Len(ids) /\ ids[k] = d
    BY <1>2 DEF Place, ToSet
  <2> HIDE DEF k
  <2>3. /\ r \in Seq(S) /\ Len(r) = Len(ids) - 1
        /\ \A i \in 1..Len(r) : r[i] = IF i < k THEN ids[i] ELSE ids[i + 1]
    BY <2>2, RemoveAtProperties
  <2> HIDE DEF r
  <2>4. /\ f \in Seq(S) /\ Len(f) = Len(r) + 1 /\ f[1] = d
        /\ \A i \in 2..(Len(r) + 1) : f[i] = r[i - 1]
    BY <2>3, ConsProperties
  <2> HIDE DEF f
  <2>5. \A i \in 2..Len(ids) : f[i] = IF i <= k THEN ids[i - 1] ELSE ids[i]
    BY <2>2, <2>3, <2>4
  <2>6. ToSet(ids) \cup {d} \subseteq ToSet(f)
    <3>1. ASSUME NEW i \in DOMAIN ids PROVE \E j \in DOMAIN f : f[j] = ids[i]
      <4>1. CASE i = k
        <5>1. 1 \in DOMAIN f
          BY <2>2, <2>3, <2>4
        <5> QED BY <2>2, <2>4, <4>1, <5>1
      <4>2. CASE i < k
        <5>1. i + 1 \in DOMAIN f /\ f[i + 1] = ids[i]
          BY <2>2, <2>3, <2>4, <2>5, <4>2
        <5> QED BY <5>1
      <4>3. CASE i > k
        <5>1. i \in 2..Len(ids) /\ ~(i <= k)
          BY <2>2, <4>3
        <5>2. i \in DOMAIN f
          BY <2>3, <2>4, <5>1
        <5> QED BY <2>5, <5>1, <5>2
      <4> QED BY <2>2, <4>1, <4>2, <4>3
    <3> QED BY <1>2, <3>1 DEF ToSet
  <2>7. ASSUME IsInjective(ids) PROVE IsInjective(f)
    <3> DEFINE p(i) == IF i = 1 THEN k ELSE IF i <= k THEN i - 1 ELSE i
    <3>1. \A i \in DOMAIN f : p(i) \in DOMAIN ids /\ f[i] = ids[p(i)]
      BY <2>2, <2>3, <2>4, <2>5
    <3>2. \A i, j \in DOMAIN f : p(i) = p(j) => i = j
      BY <2>2, <2>3, <2>4
    <3> QED BY <2>7, <3>1, <3>2 DEF IsInjective
  <2> QED BY <1>2, <2>1, <2>3, <2>4, <2>6, <2>7
<1> QED BY <1>1, <1>2

LEMMA KeptProperties ==
  ASSUME NEW S, NEW ids \in Seq(S)
  PROVE  /\ Kept(ids) \in Seq(S) /\ Len(Kept(ids)) <= MaxEntries
         /\ IsInjective(ids) => IsInjective(Kept(ids))
<1> DEFINE n == Smaller(Len(ids), MaxEntries)
<1>1. n \in 0..Len(ids) /\ n <= MaxEntries
  BY EchoAssumption DEF Smaller
<1> HIDE DEF n
<1>2. /\ SubSeq(ids, 1, n) \in Seq(S) /\ Len(SubSeq(ids, 1, n)) = n
      /\ \A i \in 1..n : SubSeq(ids, 1, n)[i] = ids[i]
  BY <1>1
<1> QED BY <1>1, <1>2 DEF Kept, n, IsInjective

-----------------------------------------------------------------------------
(* Types.                                                                   *)

LEMMA IdleTyped == IdleW \in Request /\ IdleW.pc = "idle" /\ Ready \in Files
                   /\ \A ok \in BOOLEAN : Done(ok) \in Files
BY EchoAssumption DEF IdleW, Request, Ready, Done, Files, Servers

LEMMA TypesInit == Init => Types
<1> SUFFICES ASSUME Init PROVE Types
  OBVIOUS
<1>1. RequestsTyped
  BY IdleTyped DEF Init, RequestsTyped, At
<1>2. task \in [Tasks -> Files]
  BY IdleTyped DEF Init
<1> QED BY <1>1, <1>2, EchoAssumption DEF Init, Types, Agents, Servers

(* Goroutine x goes on, as r says, with the request it has. *)
LEMMA RequestsStep ==
  ASSUME RequestsTyped, NEW x \in Workers, NEW r \in Request, w' = [w EXCEPT ![x] = r],
         r.pc # "idle" => r.id \in Deliveries
  PROVE  RequestsTyped' /\ w'[x] = r /\ \A y \in Workers \ {x} : w'[y] = w[y]
BY DEF RequestsTyped, At, Id

(* The steps between the gate and the answer: what x does, it does to the   *)
(* task files and the agent, and what it has been charged is settled.       *)
WorkStep(x) ==
  /\ w[x].pc \in Handler
  /\ \E r \in Request : /\ w' = [w EXCEPT ![x] = r]
                        /\ r.pc \notin Gate /\ (r.pc # "idle" => r.id = Id(x))
  /\ task' \in [Tasks -> Files] /\ running' = running /\ agent' \in Agents
  /\ UNCHANGED <<provider, listener, dedup, bucket>>

LEMMA Handled ==
  ASSUME Types, NEW x \in Workers,
         Route(x) \/ \E kinds : Flushes(x, kinds)
  PROVE  WorkStep(x)
<1>1. /\ w \in [Workers -> Request] /\ w[x] \in Request
      /\ task \in [Tasks -> Files] /\ agent \in Agents
  BY DEF Types, RequestsTyped
<1>2. ~At(x, "idle") => Call(x) \in Calls /\ File(x) \in Files
  BY DEF Types, RequestsTyped, Call, File, Calls
<1>3. ASSUME Answers(x), w[x].pc \in Handler, Quiet PROVE WorkStep(x)
  BY <1>1, <1>3, IdleTyped DEF Answers, Quiet, tasks, bucket, WorkStep, Gate
<1>4. ASSUME NEW pc \in Handler, Goto(x, pc), w[x].pc \in Handler,
             task' \in [Tasks -> Files], running' = running, agent' \in Agents,
             UNCHANGED <<provider, listener, dedup, bucket>>
      PROVE  WorkStep(x)
  <2> DEFINE r == [w[x] EXCEPT !.pc = pc]
  <2>1. r \in Request /\ r.pc = pc /\ r.id = Id(x)
    BY <1>1 DEF Request, Id
  <2>2. w' = [w EXCEPT ![x] = r]
    BY <1>4 DEF Goto
  <2> QED BY <1>4, <2>1, <2>2 DEF WorkStep, Gate, Handler
<1>5. ASSUME NEW pc \in Handler, NEW f \in Files, w' = [w EXCEPT ![x].pc = pc, ![x].snap = f],
             w[x].pc \in Handler, Quiet
      PROVE  WorkStep(x)
  <2> DEFINE r == [w[x] EXCEPT !.pc = pc, !.snap = f]
  <2>1. r \in Request /\ r.pc = pc /\ r.id = Id(x)
    BY <1>1 DEF Request, Id
  <2>2. w' = [w EXCEPT ![x] = r]
    BY <1>1, <1>5 DEF Request
  <2> QED BY <1>1, <1>5, <2>1, <2>2 DEF WorkStep, Gate, Handler, Quiet, tasks, bucket
<1>6. CASE NoWork(x) \/ Reply(x)
  BY <1>3, <1>6 DEF NoWork, Reply, At, Handler
<1>7. CASE \E kinds : FlushTask(x, kinds)
  <2>1. Done(Call(x).kind = "merged") \in Files
    BY IdleTyped
  <2> QED BY <1>1, <1>4, <1>5, <1>7, <2>1 DEF FlushTask, Saves, At, Handler, Quiet, tasks, bucket
<1>8. CASE Load(x)
  BY <1>1, <1>2, <1>4, <1>5, <1>8 DEF Load, At, Handler, Quiet, tasks, bucket
<1>13. CASE Retry(x)
  BY <1>1, <1>4, <1>13 DEF Retry, Asks, At, Handler, Quiet, tasks, bucket
<1>9. CASE Requeue(x)
  <2>1. task' \in [Tasks -> Files]
    BY <1>1, <1>9, IdleTyped DEF Requeue
  <2> QED BY <1>1, <1>4, <1>9, <2>1 DEF Requeue, At, Handler, bucket
<1>10. CASE Cancel(x)
  <2>1. Done(FALSE) \in Files
    BY IdleTyped
  <2>2. (IF running = Call(x).task THEN "stop" ELSE "save") \in Handler /\ w[x].pc \in Handler
    BY <1>10 DEF Handler, Cancel, Asks, At
  <2> QED BY <1>5, <1>10, <2>1, <2>2 DEF Cancel
<1>11. CASE StopAgentByUser(x)
  <2>1. agent' \in Agents
    BY <1>1, <1>11 DEF StopAgentByUser, Agents
  <2>2. (CASE agent = "none" -> "reply" [] agent = "dead" -> "save" [] OTHER -> "await") \in Handler
    BY DEF Handler
  <2> QED BY <1>1, <1>4, <1>11, <2>1, <2>2 DEF StopAgentByUser, At, Handler, bucket
<1>12. CASE SaveTask(x)
  <2>1. task' \in [Tasks -> Files]
    BY <1>1, <1>12 DEF SaveTask, Request
  <2> QED BY <1>1, <1>4, <1>12, <2>1 DEF SaveTask, At, Handler, bucket
<1> QED BY <1>6, <1>7, <1>8, <1>9, <1>10, <1>11, <1>12, <1>13 DEF Route, Flushes

(* Those who waited for the agent go on; no request comes to the gate or    *)
(* leaves it.                                                               *)
LEMMA AwaitedTyped ==
  ASSUME RequestsTyped, AgentEnds
  PROVE  /\ RequestsTyped'
         /\ \A y \in Workers : w'[y].srv = w[y].srv /\ (w'[y].pc \in Gate <=> w[y].pc \in Gate)
<1>1. \A y \in Workers : w'[y] = IF At(y, "await") THEN [w[y] EXCEPT !.pc = "save"] ELSE w[y]
  BY DEF AgentEnds
<1>2. ASSUME NEW y \in Workers
      PROVE  /\ w'[y] \in Request /\ (w'[y].pc = "idle" <=> w[y].pc = "idle") /\ w'[y].id = w[y].id
             /\ w'[y].srv = w[y].srv /\ (w'[y].pc \in Gate <=> w[y].pc \in Gate)
  <2>1. w[y] \in Request
    BY DEF RequestsTyped
  <2>2. CASE At(y, "await")
    BY <1>1, <2>1, <2>2 DEF Request, Gate, Handler, At
  <2>3. CASE ~At(y, "await")
    BY <1>1, <2>1, <2>3
  <2> QED BY <2>2, <2>3
<1>3. w' \in [Workers -> Request]
  BY <1>2 DEF AgentEnds
<1> QED BY <1>2, <1>3 DEF RequestsTyped, At, Id

LEMMA Served ==
  ASSUME Types, NEW x \in Workers, ServeHTTP(x)
  PROVE  Rejects(x) \/ Verified(x) \/ Replay(x) \/ Deliver(x) \/ WorkStep(x)
<1>1. Admits(x) \/ Route(x) \/ \E kinds : Flushes(x, kinds)
  BY DEF ServeHTTP, GithubWebhook, GitlabWebhook, BitbucketWebhook, SlackCommand,
         SlackInteraction, DiscordInteraction
<1> QED BY <1>1, Handled DEF Admits

(* A step of the gate that leaves the request with r. *)
LEMMA GateTyped ==
  ASSUME Types, NEW x \in Workers, w[x].pc \in Gate,
         Answers(x) \/ \E pc \in Gate \cup Handler : Goto(x, pc)
  PROVE  /\ RequestsTyped'
         /\ Answers(x) => w'[x].pc = "idle"
         /\ \A pc : Goto(x, pc) => w'[x].pc = pc /\ w'[x].srv = w[x].srv
         /\ \A y \in Workers \ {x} : w'[y] = w[y]
<1>1. w \in [Workers -> Request] /\ w[x] \in Request /\ RequestsTyped
  BY DEF Types, RequestsTyped
<1>2. Id(x) \in Deliveries
  BY DEF Types, RequestsTyped, At, Gate
<1>a. \A pc : Goto(x, pc) => w'[x].pc = pc /\ w'[x].srv = w[x].srv
  BY <1>1 DEF Goto, Request
<1>3. CASE Answers(x)
  <2>1. RequestsTyped' /\ w'[x] = IdleW /\ \A y \in Workers \ {x} : w'[y] = w[y]
    BY <1>1, <1>3, IdleTyped, RequestsStep DEF Answers
  <2> QED BY <1>a, <2>1, IdleTyped
<1>4. CASE \E pc \in Gate \cup Handler : Goto(x, pc)
  <2>1. PICK pc \in Gate \cup Handler : Goto(x, pc)
    BY <1>4
  <2> DEFINE r == [w[x] EXCEPT !.pc = pc]
  <2>2. r \in Request /\ r.pc = pc /\ r.id = Id(x) /\ r.srv = w[x].srv
    BY <1>1 DEF Request, Id
  <2>3. w' = [w EXCEPT ![x] = r]
    BY <2>1 DEF Goto
  <2>4. RequestsTyped' /\ w'[x] = r /\ \A y \in Workers \ {x} : w'[y] = w[y]
    BY <1>1, <1>2, <2>2, <2>3, RequestsStep
  <2>6. ~Answers(x)
    BY <1>1, <2>1, <2>4, <2>2, IdleTyped DEF Answers, Gate, Handler
  <2> QED BY <1>a, <2>4, <2>6
<1> QED BY <1>3, <1>4

LEMMA SmallerTyped ==
  ASSUME NEW m \in Nat, NEW n \in Nat
  PROVE  Smaller(m, n) \in 0..n /\ (Smaller(m, n) = m \/ Smaller(m, n) = n)
BY DEF Smaller

(* What the two outcomes of Cache.Seen do to the cache of one provider. *)
LEMMA ReplayEffect ==
  ASSUME Types, NEW x \in Workers, Replay(x)
  PROVE  LET s == w[x].srv
             p == Call(x).from
         IN  /\ s \in Servers /\ p \in Providers /\ Id(x) \in Deliveries
             /\ cache' = [cache EXCEPT ![s] = [cache[s] EXCEPT ![p] = InFront(Id(x), cache[s][p])]]
             /\ InFront(Id(x), cache[s][p]) \in Seq(Deliveries)
             /\ charged' = [charged EXCEPT ![s] = charged[s] - 1]
             /\ \E have \in tokens[s]..Rate : tokens' = [tokens EXCEPT ![s] = Smaller(have + 1, Rate)]
<1>1. w[x].srv \in Servers /\ Id(x) \in Deliveries
  BY DEF Types, RequestsTyped, Replay, At, Request
<1>2. Call(x).from \in Providers
  BY <1>1 DEF Types, Call, Calls
<1>3. cache[w[x].srv][Call(x).from] \in Seq(Deliveries)
  BY <1>1, <1>2 DEF Types
<1>4. InFront(Id(x), cache[w[x].srv][Call(x).from]) \in Seq(Deliveries)
  BY <1>1, <1>3, InFrontProperties
<1> QED BY <1>1, <1>2, <1>4 DEF Replay, Refund, Refilled

LEMMA DeliverEffect ==
  ASSUME Types, NEW x \in Workers, Deliver(x)
  PROVE  LET s == w[x].srv
             d == Id(x)
             p == Call(x).from
             ids == InFront(d, cache[s][p])
             expired == IF d \in ToSet(cache[s][p]) THEN {d} ELSE {}
         IN  /\ s \in Servers /\ p \in Providers /\ d \in Deliveries /\ p = call[d].from
             /\ ids \in Seq(Deliveries) /\ Kept(ids) \in Seq(Deliveries)
             /\ cache' = [cache EXCEPT ![s] = [cache[s] EXCEPT ![p] = Kept(ids)]]
             /\ forgot' = [forgot EXCEPT ![s] = @ \cup expired \cup (ToSet(ids) \ ToSet(Kept(ids)))]
             /\ worked' = [worked EXCEPT ![s] = [worked[s] EXCEPT ![d] = worked[s][d] + 1]]
<1>1. w[x].srv \in Servers /\ Id(x) \in Deliveries
  BY DEF Types, RequestsTyped, Deliver, At, Request
<1>2. Call(x).from \in Providers
  BY <1>1 DEF Types, Call, Calls
<1>3. cache[w[x].srv][Call(x).from] \in Seq(Deliveries)
  BY <1>1, <1>2 DEF Types
<1>4. InFront(Id(x), cache[w[x].srv][Call(x).from]) \in Seq(Deliveries)
  BY <1>1, <1>3, InFrontProperties
<1>5. Kept(InFront(Id(x), cache[w[x].srv][Call(x).from])) \in Seq(Deliveries)
  BY <1>4, KeptProperties
<1> QED BY <1>1, <1>2, <1>4, <1>5 DEF Deliver, Remembered, Call

LEMMA TypesStep == Types /\ [Next]_vars => Types'
<1> SUFFICES ASSUME Types, [Next]_vars PROVE Types'
  OBVIOUS
<1> USE EchoAssumption
<1>1. ASSUME NEW x \in Workers, NEW d \in Deliveries, NEW s \in Servers, Allow(x, d, s) PROVE Types'
  <2> DEFINE r == [IdleW EXCEPT !.pc = "verify", !.id = d, !.srv = s]
  <2>1. r \in Request /\ r.id = d
    BY IdleTyped DEF Request, Gate
  <2>2. RequestsTyped'
    BY <1>1, <2>1, RequestsStep DEF Allow, Types
  <2>3. tokens' \in [Servers -> 0..Rate] /\ charged' \in [Servers -> Int]
    BY <1>1 DEF Allow, Refilled, Types
  <2> QED BY <1>1, <2>2, <2>3 DEF Allow, Types, listener, dedup, tasks
<1>2. CASE \E x \in Workers, d \in Deliveries, s \in Servers : TooManyRequests(x, s)
  BY <1>2 DEF TooManyRequests, Types, RequestsTyped, At, Id, listener, dedup, bucket, tasks
<1>3. ASSUME NEW x \in Workers, Rejects(x) \/ Verified(x) PROVE Types'
  <2>1. RequestsTyped'
    BY <1>3, GateTyped DEF Rejects, Verified, At, Gate
  <2> QED BY <1>3, <2>1 DEF Rejects, Verified, Quiet, Types, provider, listener, dedup, bucket, tasks
<1>4. ASSUME NEW x \in Workers, Replay(x) PROVE Types'
  <2>1. RequestsTyped'
    BY <1>4, GateTyped DEF Replay, At, Gate
  <2> DEFINE s == w[x].srv
             p == Call(x).from
             new == InFront(Id(x), cache[s][p])
  <2>a. /\ s \in Servers /\ p \in Providers /\ new \in Seq(Deliveries)
        /\ cache' = [cache EXCEPT ![s] = [cache[s] EXCEPT ![p] = new]]
        /\ charged' = [charged EXCEPT ![s] = charged[s] - 1]
    BY <1>4, ReplayEffect
  <2>b. PICK have \in tokens[s]..Rate : tokens' = [tokens EXCEPT ![s] = Smaller(have + 1, Rate)]
    BY <1>4, ReplayEffect
  <2> HIDE DEF s, p, new
  <2>2. cache' \in [Servers -> [Providers -> Seq(Deliveries)]] /\ charged' \in [Servers -> Int]
    BY <2>a DEF Types
  <2>3. tokens' \in [Servers -> 0..Rate]
    <3>1. tokens \in [Servers -> 0..Rate] /\ have + 1 \in Nat /\ Rate \in Nat
      BY <2>a, <2>b DEF Types
    <3>2. Smaller(have + 1, Rate) \in 0..Rate
      BY <3>1, SmallerTyped
    <3> QED BY <2>a, <2>b, <3>1, <3>2
  <2> QED BY <1>4, <2>1, <2>2, <2>3 DEF Replay, Types, provider, listener, tasks
<1>5. ASSUME NEW x \in Workers, Deliver(x) PROVE Types'
  <2>1. RequestsTyped'
    BY <1>5, GateTyped DEF Deliver, At, Gate, Handler
  <2>2. cache' \in [Servers -> [Providers -> Seq(Deliveries)]] /\ worked' \in [Servers -> [Deliveries -> Nat]]
    <3> DEFINE s == w[x].srv
               p == Call(x).from
               d == Id(x)
               new == Kept(InFront(Id(x), cache[s][p]))
    <3>1. /\ s \in Servers /\ p \in Providers /\ d \in Deliveries /\ new \in Seq(Deliveries)
          /\ cache' = [cache EXCEPT ![s] = [cache[s] EXCEPT ![p] = new]]
          /\ worked' = [worked EXCEPT ![s] = [worked[s] EXCEPT ![d] = worked[s][d] + 1]]
      BY <1>5, DeliverEffect
    <3> HIDE DEF s, p, d, new
    <3> QED BY <3>1 DEF Types
  <2>3. forgot' \in [Servers -> SUBSET Deliveries]
    <3> DEFINE s == w[x].srv
               ids == InFront(Id(x), cache[s][Call(x).from])
               gone == (IF Id(x) \in ToSet(cache[s][Call(x).from]) THEN {Id(x)} ELSE {})
                         \cup (ToSet(ids) \ ToSet(Kept(ids)))
    <3>1. ids \in Seq(Deliveries) /\ Id(x) \in Deliveries /\ s \in Servers
          /\ forgot' = [forgot EXCEPT ![s] = @ \cup gone]
      BY <1>5, DeliverEffect
    <3>2. gone \in SUBSET Deliveries
      BY <3>1 DEF ToSet
    <3> QED BY <3>1, <3>2 DEF Types
  <2> QED BY <1>5, <2>1, <2>2, <2>3 DEF Deliver, Types, provider, listener, bucket, tasks
<1>6. ASSUME NEW x \in Workers, WorkStep(x) PROVE Types'
  <2>1. RequestsTyped'
    BY <1>6, RequestsStep DEF WorkStep, Types, RequestsTyped, At, Handler
  <2> QED BY <1>6, <2>1 DEF WorkStep, Types, provider, listener, dedup, bucket
<1>7. CASE \E s \in Servers : Run(s) \/ Shutdown(s)
  <2>1. srv' \in [Servers -> {"off", "new", "listening", "stopped", "failed"}]
    BY <1>7 DEF Run, Shutdown, Types
  <2> QED BY <1>7, <2>1 DEF Run, Shutdown, Types, RequestsTyped, At, Id, provider, dedup, bucket, tasks
<1>8. CASE RestartEchoServer
  <2>1. server' \in Servers
    BY <1>8 DEF RestartEchoServer, Types, Servers
  <2> QED BY <1>8, <2>1 DEF RestartEchoServer, Types, RequestsTyped, At, Id, provider, dedup, bucket, tasks
<1>9. CASE (\E t \in Tasks \cup {"none"} : AgentStarts(t)) \/ AgentStarted \/ AgentLeaves
  BY <1>9 DEF AgentStarts, AgentStarted, AgentLeaves, Agents, Types, RequestsTyped, At, Id,
     provider, listener, dedup, bucket
<1>10. CASE AgentEnds
  <2>1. task' \in [Tasks -> Files]
    BY <1>10, IdleTyped DEF AgentEnds, Types
  <2>2. RequestsTyped'
    BY <1>10, AwaitedTyped DEF Types
  <2> QED BY <1>10, <2>1, <2>2 DEF AgentEnds, Agents, Types, provider, listener, dedup, bucket
<1>11. CASE UNCHANGED vars
  BY <1>11 DEF vars, Types, RequestsTyped, At, Id
<1> QED BY <1>1, <1>2, <1>3, <1>4, <1>5, <1>6, <1>7, <1>8, <1>9, <1>10, <1>11, Served DEF Next

LEMMA TypesInvariant == Spec => []Types
BY TypesInit, TypesStep, PTL DEF Spec

-----------------------------------------------------------------------------
(* Deliveries.                                                              *)

LEMMA DedupInit == Init => DedupInv
<1> SUFFICES ASSUME Init PROVE DedupInv
  OBVIOUS
<1>1. \A s \in Servers, p \in Providers : cache[s][p] = <<>>
  BY DEF Init
<1>2. \A s \in Servers, d \in Deliveries : worked[s][d] = 0
  BY DEF Init
<1>3. CachesBounded
  BY <1>1, EchoAssumption DEF CachesBounded, IsInjective
<1>4. WorkedIsKnown /\ WorkedOnce
  BY <1>2 DEF WorkedIsKnown, WorkedOnce
<1> QED BY <1>3, <1>4, TypesInit DEF DedupInv

(* An id that comes again is renewed; nothing is forgotten. *)
LEMMA ReplayDedups ==
  ASSUME DedupInv, Types', NEW x \in Workers, Replay(x)
  PROVE  DedupInv'
<1> DEFINE s == w[x].srv
           p == Call(x).from
           ids == cache[s][p]
           new == InFront(Id(x), ids)
<1>1. /\ s \in Servers /\ p \in Providers /\ Id(x) \in Deliveries /\ ids \in Seq(Deliveries)
      /\ cache' = [cache EXCEPT ![s] = [cache[s] EXCEPT ![p] = new]]
      /\ Id(x) \in ToSet(ids)
      /\ cache \in [Servers -> [Providers -> Seq(Deliveries)]]
  <2>1. /\ s \in Servers /\ p \in Providers /\ Id(x) \in Deliveries
        /\ cache' = [cache EXCEPT ![s] = [cache[s] EXCEPT ![p] = new]]
    BY ReplayEffect DEF DedupInv
  <2>2. cache \in [Servers -> [Providers -> Seq(Deliveries)]]
    BY DEF DedupInv, Types
  <2>3. Id(x) \in ToSet(ids)
    BY DEF Replay, Remembered
  <2> HIDE DEF s, p, new
  <2> QED BY <2>1, <2>2, <2>3
<1>2. UNCHANGED <<call, worked, forgot>>
  BY DEF Replay, provider
<1>3. Len(new) = Len(ids) /\ ToSet(ids) \subseteq ToSet(new) /\ (IsInjective(ids) => IsInjective(new))
  BY <1>1, InFrontProperties
<1> HIDE DEF new, s, p
<1>4. \A r \in Servers, q \in Providers :
        cache'[r][q] = IF r = s /\ q = p THEN new ELSE cache[r][q]
  BY <1>1
<1>5. CachesBounded'
  <2> SUFFICES ASSUME NEW r \in Servers, NEW q \in Providers
               PROVE  Len(cache'[r][q]) <= MaxEntries /\ IsInjective(cache'[r][q])
    BY DEF CachesBounded
  <2>1. Len(cache[r][q]) <= MaxEntries /\ IsInjective(cache[r][q])
    BY DEF DedupInv, CachesBounded
  <2> QED BY <1>3, <1>4, <2>1
<1>6. WorkedIsKnown'
  <2> SUFFICES ASSUME NEW r \in Servers, NEW e \in Deliveries, worked[r][e] >= 1
               PROVE  e \in ToSet(cache'[r][call[e].from]) \cup forgot[r]
    BY <1>2 DEF WorkedIsKnown
  <2>1. call[e].from \in Providers
    BY DEF DedupInv, Types, Calls
  <2>2. e \in ToSet(cache[r][call[e].from]) \cup forgot[r]
    BY DEF DedupInv, WorkedIsKnown
  <2> QED BY <1>3, <1>4, <2>1, <2>2
<1>7. WorkedOnce'
  BY <1>2 DEF DedupInv, WorkedOnce
<1> QED BY <1>5, <1>6, <1>7 DEF DedupInv

(* An id is worked and remembered in the same step.  What falls out of the  *)
(* cache, or comes again after a day in it, is forgotten.                   *)
LEMMA DeliverDedups ==
  ASSUME DedupInv, Types', NEW x \in Workers, Deliver(x)
  PROVE  DedupInv'
<1> DEFINE s == w[x].srv
           d == Id(x)
           p == Call(x).from
           old == cache[s][p]
           ids == InFront(d, old)
           new == Kept(ids)
           expired == IF d \in ToSet(old) THEN {d} ELSE {}
           gone == expired \cup (ToSet(ids) \ ToSet(new))
<1>1. /\ s \in Servers /\ p \in Providers /\ d \in Deliveries /\ p = call[d].from
      /\ ids \in Seq(Deliveries) /\ old \in Seq(Deliveries)
      /\ cache' = [cache EXCEPT ![s] = [cache[s] EXCEPT ![p] = new]]
      /\ forgot' = [forgot EXCEPT ![s] = @ \cup gone]
      /\ worked' = [worked EXCEPT ![s] = [worked[s] EXCEPT ![d] = worked[s][d] + 1]]
  <2>1. /\ s \in Servers /\ p \in Providers /\ d \in Deliveries /\ p = call[d].from
        /\ ids \in Seq(Deliveries)
        /\ cache' = [cache EXCEPT ![s] = [cache[s] EXCEPT ![p] = new]]
        /\ worked' = [worked EXCEPT ![s] = [worked[s] EXCEPT ![d] = worked[s][d] + 1]]
    BY DeliverEffect DEF DedupInv
  <2>2. forgot' = [forgot EXCEPT ![s] = @ \cup expired \cup (ToSet(ids) \ ToSet(new))]
    BY DeliverEffect DEF DedupInv
  <2>3. forgot' = [forgot EXCEPT ![s] = @ \cup gone]
    <3> HIDE DEF s, ids, new, expired
    <3> QED BY <2>2
  <2>4. cache \in [Servers -> [Providers -> Seq(Deliveries)]]
    BY DEF DedupInv, Types
  <2>5. old \in Seq(Deliveries)
    <3> HIDE DEF s, p
    <3> QED BY <2>1, <2>4
  <2> QED BY <2>1, <2>3, <2>5
<1>2. /\ cache \in [Servers -> [Providers -> Seq(Deliveries)]]
      /\ forgot \in [Servers -> SUBSET Deliveries]
      /\ worked \in [Servers -> [Deliveries -> Nat]] /\ call' = call
  BY DEF DedupInv, Types, Deliver, provider
<1>3. /\ ToSet(old) \cup {d} \subseteq ToSet(new) \cup gone
      /\ d \in ToSet(old) => d \in gone
  <2>1. ToSet(old) \cup {d} \subseteq ToSet(ids)
    <3> HIDE DEF d, old
    <3> QED BY <1>1, InFrontProperties
  <2> HIDE DEF ids, new, old, d
  <2> QED BY <2>1
<1>4. Len(new) <= MaxEntries /\ (IsInjective(old) => IsInjective(new))
  <2>1. IsInjective(old) => IsInjective(ids)
    <3> HIDE DEF d, old
    <3> QED BY <1>1, InFrontProperties
  <2> HIDE DEF ids, old
  <2> QED BY <1>1, <2>1, KeptProperties
<1> HIDE DEF s, d, p, new, gone, ids, old
<1>5. \A r \in Servers, q \in Providers :
        cache'[r][q] = IF r = s /\ q = p THEN new ELSE cache[r][q]
  BY <1>1, <1>2
<1>6. \A r \in Servers : forgot[r] \subseteq forgot'[r] /\ (r = s => gone \subseteq forgot'[r])
  BY <1>1, <1>2
<1>7. \A r \in Servers, e \in Deliveries :
        worked'[r][e] = IF r = s /\ e = d THEN worked[r][e] + 1 ELSE worked[r][e]
  BY <1>1, <1>2
<1>8. CachesBounded'
  <2> SUFFICES ASSUME NEW r \in Servers, NEW q \in Providers
               PROVE  Len(cache'[r][q]) <= MaxEntries /\ IsInjective(cache'[r][q])
    BY DEF CachesBounded
  <2>1. Len(cache[r][q]) <= MaxEntries /\ IsInjective(cache[r][q])
    BY DEF DedupInv, CachesBounded
  <2> QED BY <1>4, <1>5, <2>1 DEF old
<1>9. WorkedIsKnown'
  <2> SUFFICES ASSUME NEW r \in Servers, NEW e \in Deliveries, worked'[r][e] >= 1
               PROVE  e \in ToSet(cache'[r][call[e].from]) \cup forgot'[r]
    BY <1>2 DEF WorkedIsKnown
  <2>1. call[e].from \in Providers
    BY DEF DedupInv, Types, Calls
  <2>2. CASE r = s /\ e = d
    BY <1>1, <1>3, <1>5, <1>6, <2>2
  <2>3. CASE ~(r = s /\ e = d)
    <3>1. e \in ToSet(cache[r][call[e].from]) \cup forgot[r]
      BY <1>7, <2>3 DEF DedupInv, WorkedIsKnown
    <3> QED BY <1>3, <1>5, <1>6, <2>1, <3>1 DEF old
  <2> QED BY <2>2, <2>3
<1>10. WorkedOnce'
  <2> SUFFICES ASSUME NEW r \in Servers, NEW e \in Deliveries, worked'[r][e] > 1
               PROVE  e \in forgot'[r]
    BY DEF WorkedOnce
  <2>1. CASE r = s /\ e = d
    <3>1. worked[s][d] >= 1
      BY <1>2, <1>7, <2>1
    <3>2. d \in ToSet(old) \cup forgot[s]
      BY <1>1, <3>1 DEF DedupInv, WorkedIsKnown, old
    <3> QED BY <1>1, <1>3, <1>6, <2>1, <3>2
  <2>2. CASE ~(r = s /\ e = d)
    BY <1>6, <1>7, <2>2 DEF DedupInv, WorkedOnce
  <2> QED BY <2>1, <2>2
<1> QED BY <1>8, <1>9, <1>10 DEF DedupInv

LEMMA DedupStep == DedupInv /\ [Next]_vars => DedupInv'
<1> SUFFICES ASSUME DedupInv, [Next]_vars PROVE DedupInv'
  OBVIOUS
<1>0. Types /\ Types'
  BY TypesStep DEF DedupInv
<1>1. ASSUME UNCHANGED <<call, cache, worked, forgot>> PROVE DedupInv'
  BY <1>0, <1>1 DEF DedupInv, CachesBounded, WorkedIsKnown, WorkedOnce
<1>2. CASE \E x \in Workers, d \in Deliveries, s \in Servers : Allow(x, d, s) \/ TooManyRequests(x, s)
  BY <1>1, <1>2 DEF Allow, TooManyRequests, dedup
<1>3. CASE \E x \in Workers : Rejects(x) \/ Verified(x) \/ WorkStep(x)
  BY <1>1, <1>3 DEF Rejects, Verified, WorkStep, Quiet, provider, dedup
<1>4. CASE \E x \in Workers : Replay(x)
  BY <1>0, <1>4, ReplayDedups
<1>5. CASE \E x \in Workers : Deliver(x)
  BY <1>0, <1>5, DeliverDedups
<1>6. CASE \E s \in Servers : Run(s) \/ Shutdown(s)
  BY <1>1, <1>6 DEF Run, Shutdown, provider, dedup
<1>7. CASE \/ \E t \in Tasks \cup {"none"} : AgentStarts(t)
           \/ AgentStarted \/ AgentEnds \/ AgentLeaves \/ RestartEchoServer
  BY <1>1, <1>7 DEF AgentStarts, AgentStarted, AgentEnds, AgentLeaves, RestartEchoServer,
     provider, dedup
<1>8. CASE UNCHANGED vars
  BY <1>1, <1>8 DEF vars
<1> QED BY <1>0, <1>2, <1>3, <1>4, <1>5, <1>6, <1>7, <1>8, Served DEF Next

LEMMA DedupInvariant == Spec => []DedupInv
BY DedupInit, DedupStep, PTL DEF Spec

(* Every variable of the listeners keeps its type, a bucket its size; a     *)
(* cache holds no id twice and no more ids than it may.                     *)
THEOREM TypeCorrect == Spec => []TypeOK
<1>1. DedupInv => TypeOK
  BY DEF DedupInv, Types, CachesBounded, Agents, TypeOK, ToSet
<1> QED BY <1>1, DedupInvariant, PTL

(* idempotency.go, Cache.Seen: copies of a delivery that are handled at     *)
(* once are worked once; a listener works an id again only when it has      *)
(* fallen out of its cache.                                                 *)
THEOREM DeliveriesWorkedOnce == Spec => []WorkedOnce
<1>1. DedupInv => WorkedOnce
  BY DEF DedupInv
<1> QED BY <1>1, DedupInvariant, PTL

-----------------------------------------------------------------------------
(* Tokens.                                                                  *)

LEMMA ChargeInit == Init => ChargeInv
<1> SUFFICES ASSUME Init PROVE ChargeInv
  OBVIOUS
<1>1. \A s \in Servers : Pending(s) = {} /\ charged[s] = 0 /\ tokens[s] = Rate
  BY IdleTyped DEF Init, Pending, Gate
<1>2. PendingCharged
  BY <1>1, FS_EmptySet DEF PendingCharged
<1>3. RetriesAreFree
  BY <1>1, EchoAssumption DEF RetriesAreFree
<1> QED BY <1>2, <1>3, TypesInit DEF ChargeInv

(* A listener that pays for what still waits, and that loses a waiting      *)
(* request with every charge it takes back, has paid for what still waits.  *)
LEMMA PendingStep ==
  ASSUME Types, NEW s \in Servers, NEW x \in Workers,
         IsFiniteSet(Pending(s)), Cardinality(Pending(s)) <= charged[s],
         \A y \in Workers \ {x} : w'[y] = w[y],
         \/ charged'[s] = charged[s] /\ (x \in Pending(s)' => x \in Pending(s))
         \/ charged'[s] = charged[s] + 1
         \/ charged'[s] = charged[s] - 1 /\ x \in Pending(s) /\ x \notin Pending(s)'
  PROVE  /\ IsFiniteSet(Pending(s)') /\ Cardinality(Pending(s)') <= charged'[s]
         /\ Cardinality(Pending(s)) \in Nat
<1> DEFINE S == Pending(s)
           T == Pending(s)'
<1>1. charged[s] \in Int
  BY DEF Types
<1>2. S \subseteq Workers /\ T \subseteq Workers /\ \A y \in Workers \ {x} : y \in T <=> y \in S
  BY DEF Pending
<1>3. IsFiniteSet(S) /\ Cardinality(S) \in Nat
  BY FS_CardinalityType
<1> HIDE DEF S, T
<1>4. CASE x \in T
  <2>1. T = S \cup {x}
    BY <1>2, <1>4
  <2>2. /\ IsFiniteSet(S \cup {x})
        /\ Cardinality(S \cup {x}) = IF x \in S THEN Cardinality(S) ELSE Cardinality(S) + 1
    BY <1>3, FS_AddElement, Zenon
  <2> QED BY <1>1, <1>3, <1>4, <2>1, <2>2 DEF S, T
<1>5. CASE x \notin T
  <2>1. T = S \ {x}
    BY <1>2, <1>5
  <2>2. /\ IsFiniteSet(S \ {x})
        /\ Cardinality(S \ {x}) = IF x \in S THEN Cardinality(S) - 1 ELSE Cardinality(S)
    BY <1>3, FS_RemoveElement, Zenon
  <2> QED BY <1>1, <1>3, <1>5, <2>1, <2>2 DEF S, T
<1> QED BY <1>4, <1>5

(* Steps that charge nobody, and send no request back to the gate. *)
LEMMA ChargeFrame ==
  ASSUME ChargeInv, Types', NEW x \in Workers, UNCHANGED <<tokens, charged>>,
         \A y \in Workers \ {x} : w'[y] = w[y],
         w'[x].pc \in Gate => w[x].pc \in Gate /\ w'[x].srv = w[x].srv
  PROVE  ChargeInv'
<1>1. PendingCharged'
  <2> SUFFICES ASSUME NEW s \in Servers
               PROVE  IsFiniteSet(Pending(s)') /\ Cardinality(Pending(s)') <= charged'[s]
    BY DEF PendingCharged
  <2>1. x \in Pending(s)' => x \in Pending(s)
    BY DEF Pending
  <2>2. IsFiniteSet(Pending(s)) /\ Cardinality(Pending(s)) <= charged[s]
    BY DEF ChargeInv, PendingCharged
  <2> QED BY <2>1, <2>2, PendingStep DEF ChargeInv
<1>2. RetriesAreFree'
  BY DEF ChargeInv, RetriesAreFree
<1> QED BY <1>1, <1>2 DEF ChargeInv

LEMMA ChargeIdle ==
  ASSUME ChargeInv, Types', UNCHANGED <<tokens, charged, w>>
  PROVE  ChargeInv'
BY DEF ChargeInv, PendingCharged, Pending, RetriesAreFree

LEMMA AllowCharges ==
  ASSUME ChargeInv, Types', NEW x \in Workers, NEW d \in Deliveries, NEW s \in Servers, Allow(x, d, s)
  PROVE  ChargeInv'
<1>1. PICK have \in tokens[s]..Rate \ {0} : tokens' = [tokens EXCEPT ![s] = have - 1]
  BY DEF Allow, Refilled
<1>2. /\ charged' = [charged EXCEPT ![s] = @ + 1]
      /\ charged \in [Servers -> Int] /\ tokens \in [Servers -> 0..Rate] /\ Rate \in Nat
      /\ \A y \in Workers \ {x} : w'[y] = w[y]
      /\ w'[x].srv = s
  BY EchoAssumption DEF Allow, ChargeInv, Types, RequestsTyped, IdleW
<1>3. PendingCharged'
  <2> SUFFICES ASSUME NEW r \in Servers
               PROVE  IsFiniteSet(Pending(r)') /\ Cardinality(Pending(r)') <= charged'[r]
    BY DEF PendingCharged
  <2>1. IsFiniteSet(Pending(r)) /\ Cardinality(Pending(r)) <= charged[r]
    BY DEF ChargeInv, PendingCharged
  <2>2. CASE r = s
    <3>1. charged'[r] = charged[r] + 1
      BY <1>2, <2>2
    <3> QED BY <1>2, <2>1, <3>1, PendingStep DEF ChargeInv
  <2>3. CASE r # s
    <3>1. charged'[r] = charged[r] /\ x \notin Pending(r)'
      BY <1>2, <2>3 DEF Pending
    <3> QED BY <1>2, <2>1, <3>1, PendingStep DEF ChargeInv
  <2> QED BY <2>2, <2>3
<1>4. RetriesAreFree'
  <2> SUFFICES ASSUME NEW r \in Servers PROVE Rate - tokens'[r] <= charged'[r]
    BY DEF RetriesAreFree
  <2>1. Rate - tokens[r] <= charged[r]
    BY DEF ChargeInv, RetriesAreFree
  <2> QED BY <1>1, <1>2, <2>1
<1> QED BY <1>3, <1>4 DEF ChargeInv

(* A replay gives back the token it was charged: that one of the charges is *)
(* its own is why the listener never gives back what it did not take.       *)
LEMMA ReplayRefunds ==
  ASSUME ChargeInv, Types', NEW x \in Workers, Replay(x)
  PROVE  ChargeInv'
<1> DEFINE s == w[x].srv
<1>1. s \in Servers /\ charged' = [charged EXCEPT ![s] = charged[s] - 1]
  BY ReplayEffect DEF ChargeInv
<1>2. PICK have \in tokens[s]..Rate : tokens' = [tokens EXCEPT ![s] = Smaller(have + 1, Rate)]
  BY ReplayEffect DEF ChargeInv
<1>3. charged \in [Servers -> Int] /\ tokens \in [Servers -> 0..Rate] /\ Rate \in Nat
  BY EchoAssumption DEF ChargeInv, Types
<1>4. /\ w[x].pc \in Gate /\ w'[x].pc = "idle"
      /\ \A y \in Workers \ {x} : w'[y] = w[y]
  BY GateTyped DEF ChargeInv, Replay, At, Gate
<1>5. \A r \in Servers : x \notin Pending(r)'
  BY <1>4 DEF Pending, Gate
<1>6. x \in Pending(s)
  BY <1>4 DEF Pending
<1> HIDE DEF s
<1>7. ASSUME NEW r \in Servers
      PROVE  /\ IsFiniteSet(Pending(r)') /\ Cardinality(Pending(r)') <= charged'[r]
             /\ r = s => charged[s] >= 1
  <2>1. IsFiniteSet(Pending(r)) /\ Cardinality(Pending(r)) <= charged[r]
    BY DEF ChargeInv, PendingCharged
  <2>2. \/ charged'[r] = charged[r]
        \/ charged'[r] = charged[r] - 1 /\ x \in Pending(r)
    BY <1>1, <1>3, <1>6
  <2>3. /\ IsFiniteSet(Pending(r)') /\ Cardinality(Pending(r)') <= charged'[r]
        /\ Cardinality(Pending(r)) \in Nat
    BY <1>4, <1>5, <2>1, <2>2, PendingStep DEF ChargeInv
  <2>4. ASSUME r = s PROVE charged[s] >= 1
    <3>1. Cardinality(Pending(r)) # 0
      BY <1>6, <2>1, <2>4, FS_EmptySet
    <3> QED BY <1>1, <1>3, <2>1, <2>3, <2>4, <3>1
  <2> QED BY <2>3, <2>4
<1>8. PendingCharged'
  BY <1>7 DEF PendingCharged
<1>9. RetriesAreFree'
  <2> SUFFICES ASSUME NEW r \in Servers PROVE Rate - tokens'[r] <= charged'[r]
    BY DEF RetriesAreFree
  <2>1. Rate - tokens[r] <= charged[r]
    BY DEF ChargeInv, RetriesAreFree
  <2>2. CASE r # s
    BY <1>1, <1>2, <1>3, <2>1, <2>2
  <2>3. CASE r = s
    <3>1. have + 1 \in Nat /\ have >= tokens[s] /\ charged[s] >= 1 /\ charged[s] \in Int /\ tokens[s] \in Nat
      BY <1>1, <1>2, <1>3, <1>7
    <3>2. tokens'[s] = Smaller(have + 1, Rate) /\ charged'[s] = charged[s] - 1
      BY <1>1, <1>2, <1>3
    <3>3. tokens'[s] = have + 1 \/ tokens'[s] = Rate
      BY <1>3, <3>1, <3>2, SmallerTyped
    <3> QED BY <1>2, <1>3, <2>1, <2>3, <3>1, <3>2, <3>3
  <2> QED BY <2>2, <2>3
<1> QED BY <1>8, <1>9 DEF ChargeInv

LEMMA ChargeStep == ChargeInv /\ [Next]_vars => ChargeInv'
<1> SUFFICES ASSUME ChargeInv, [Next]_vars PROVE ChargeInv'
  OBVIOUS
<1>0. Types /\ Types'
  BY TypesStep DEF ChargeInv
<1>1. CASE \E x \in Workers, d \in Deliveries, s \in Servers : Allow(x, d, s)
  BY <1>0, <1>1, AllowCharges
<1>2. CASE \E x \in Workers, d \in Deliveries, s \in Servers : TooManyRequests(x, s)
  BY <1>0, <1>2, ChargeIdle DEF TooManyRequests, bucket
<1>3. ASSUME NEW x \in Workers, Rejects(x) \/ Verified(x) \/ Deliver(x) PROVE ChargeInv'
  <2>1. w[x].pc \in Gate /\ (Answers(x) \/ \E pc \in Gate \cup Handler : Goto(x, pc))
    BY <1>3 DEF Rejects, Verified, Deliver, At, Gate, Handler
  <2>2. /\ \A y \in Workers \ {x} : w'[y] = w[y]
        /\ w'[x].pc \in Gate => w'[x].srv = w[x].srv
    BY <1>0, <2>1, GateTyped DEF Gate
  <2>3. UNCHANGED <<tokens, charged>>
    BY <1>3 DEF Rejects, Verified, Deliver, Quiet, bucket
  <2> QED BY <1>0, <2>1, <2>2, <2>3, ChargeFrame
<1>4. CASE \E x \in Workers : Replay(x)
  BY <1>0, <1>4, ReplayRefunds
<1>5. ASSUME NEW x \in Workers, WorkStep(x) PROVE ChargeInv'
  <2>1. /\ \A y \in Workers \ {x} : w'[y] = w[y]
        /\ w'[x].pc \notin Gate
    BY <1>0, <1>5 DEF WorkStep, Types, RequestsTyped
  <2> QED BY <1>0, <1>5, <2>1, ChargeFrame DEF WorkStep, bucket
<1>6. CASE \E s \in Servers : Run(s) \/ Shutdown(s)
  BY <1>0, <1>6, ChargeIdle DEF Run, Shutdown, bucket
<1>7. CASE \/ \E t \in Tasks \cup {"none"} : AgentStarts(t)
           \/ AgentStarted \/ AgentLeaves \/ RestartEchoServer
  BY <1>0, <1>7, ChargeIdle DEF AgentStarts, AgentStarted, AgentLeaves, RestartEchoServer, bucket
<1>9. CASE AgentEnds
  <2>1. \A s \in Servers : Pending(s)' = Pending(s)
    BY <1>0, <1>9, AwaitedTyped DEF Pending, Types
  <2> QED BY <1>0, <1>9, <2>1 DEF AgentEnds, bucket, ChargeInv, PendingCharged, RetriesAreFree
<1>8. CASE UNCHANGED vars
  BY <1>0, <1>8, ChargeIdle DEF vars
<1> QED BY <1>0, <1>1, <1>2, <1>3, <1>4, <1>5, <1>6, <1>7, <1>8, <1>9, Served DEF Next

(* ratelimit.go, Allow and Refund: what a bucket lacks was taken by         *)
(* requests that were no replays, however many are handled at once and      *)
(* whenever it refills.                                                     *)
THEOREM ReplaysAreFree == Spec => []RetriesAreFree
<1>1. Spec => []ChargeInv
  BY ChargeInit, ChargeStep, PTL DEF Spec
<1>2. ChargeInv => RetriesAreFree
  BY DEF ChargeInv
<1> QED BY <1>1, <1>2, PTL
==============================================================================
