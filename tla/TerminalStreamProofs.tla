------------------------- MODULE TerminalStreamProofs -------------------------
(***************************************************************************)
(* What a terminal shows is neither repeated nor out of order, for any     *)
(* number of processes and chunks, any buffer and any faults.              *)
(***************************************************************************)
EXTENDS TerminalStream, SequenceTheorems, TLAPS

Chunk == Nat \X Nat
Stream == [pc : {"none", "asked", "open", "ended", "forgotten"}, of : Nat, from : Nat,
           first : Seq(Chunk), queue : Seq(Chunk)]
Typed == /\ process \in Nat /\ total \in Nat /\ gap \in BOOLEAN /\ screen \in Seq(Chunk) /\ stream \in Stream

(* With t chunks written by the last process p: a chunk never stands above  *)
(* its own number, because a subscription resumes at the length of all that *)
(* is shown; and one of the process shown first stands exactly there.       *)
Sound(f, p, t) ==
  /\ \A i \in DOMAIN f : /\ f[i][1] <= p /\ f[i][2] <= i
                         /\ f[i][1] = p => f[i][2] <= t
                         /\ f[i][1] = f[1][1] => f[i][2] = i
  /\ \A i, j \in DOMAIN f : i < j => f[i][1] < f[j][1] \/ (f[i][1] = f[j][1] /\ f[i][2] < f[j][2])

(* The screen as it will be once what the subscription holds has arrived.   *)
Coming(st, sc) == (sc \o st.first) \o st.queue
Good(st, sc, p, t) ==
  /\ Sound(Coming(st, sc), p, t)
  /\ st.pc = "asked" => st.from = Len(sc)
  /\ st.pc = "open" /\ st.of = p => t <= Len(Coming(st, sc))
Proper(st, p) == st.of <= p /\ (st.pc # "open" => st.first = <<>> /\ st.queue = <<>>)
StreamInv == Typed /\ Proper(stream, process) /\ (~gap => Good(stream, screen, process, total))

-----------------------------------------------------------------------------
(* Sequences of chunks.                                                     *)

LEMMA JoinedChunks ==
  ASSUME NEW a \in Seq(Chunk), NEW b \in Seq(Chunk)
  PROVE  /\ a \o b \in Seq(Chunk) /\ Len(a \o b) = Len(a) + Len(b)
         /\ Len(a) \in Nat /\ Len(b) \in Nat /\ DOMAIN a = 1..Len(a) /\ DOMAIN b = 1..Len(b)
         /\ DOMAIN (a \o b) = 1..(Len(a) + Len(b))
         /\ \A i \in DOMAIN a : i \in DOMAIN (a \o b) /\ (a \o b)[i] = a[i]
         /\ \A i \in DOMAIN (a \o b) \ DOMAIN a : i - Len(a) \in DOMAIN b /\ (a \o b)[i] = b[i - Len(a)]
<1>1. /\ a \o b \in Seq(Chunk) /\ Len(a \o b) = Len(a) + Len(b) /\ Len(a) \in Nat /\ Len(b) \in Nat
      /\ DOMAIN a = 1..Len(a) /\ DOMAIN b = 1..Len(b)
      /\ \A i \in 1..(Len(a) + Len(b)) : (a \o b)[i] = IF i <= Len(a) THEN a[i] ELSE b[i - Len(a)]
  OBVIOUS
<1>2. DOMAIN (a \o b) = 1..(Len(a) + Len(b))
  BY <1>1
<1> HIDE <1>2
<1>3. \A i \in DOMAIN a : i \in DOMAIN (a \o b) /\ (a \o b)[i] = a[i]
  BY <1>1, <1>2
<1>4. \A i \in DOMAIN (a \o b) \ DOMAIN a : i - Len(a) \in DOMAIN b /\ (a \o b)[i] = b[i - Len(a)]
  BY <1>1, <1>2
<1> QED BY <1>1, <1>2, <1>3, <1>4

LEMMA ChunksTyped ==
  ASSUME NEW p \in Nat, NEW from \in Nat, NEW to \in Nat, from <= to
  PROVE  /\ Chunks(p, from, to) \in Seq(Chunk) /\ Len(Chunks(p, from, to)) = to - from
         /\ DOMAIN Chunks(p, from, to) = 1..(to - from)
         /\ \A i \in 1..(to - from) : Chunks(p, from, to)[i] = <<p, from + i>>
<1>1. to - from \in Nat /\ \A i \in 1..(to - from) : <<p, from + i>> \in Chunk
  BY DEF Chunk
<1>2. Chunks(p, from, to) \in Seq(Chunk)
  BY <1>1 DEF Chunks
<1> QED BY <1>1, <1>2 DEF Chunks

(* What is sound is so without its last chunks. *)
LEMMA SoundBegins ==
  ASSUME NEW a \in Seq(Chunk), NEW b \in Seq(Chunk), NEW p \in Nat, NEW t \in Nat, Sound(a \o b, p, t)
  PROVE  Sound(a, p, t)
<1> DEFINE c == a \o b
<1>1. DOMAIN a = 1..Len(a) /\ Len(a) \in Nat /\ \A i \in DOMAIN a : i \in DOMAIN c /\ c[i] = a[i]
  BY JoinedChunks
<1>2. \A i \in DOMAIN a : 1 \in DOMAIN a
  BY <1>1
<1> HIDE DEF c
<1>3. Sound(c, p, t)
  BY DEF c
<1> QED BY <1>1, <1>2, <1>3 DEF Sound

(* The process writes one more chunk, or another one is started. *)
LEMMA SoundLater ==
  ASSUME NEW f \in Seq(Chunk), NEW p \in Nat, NEW t \in Nat, Sound(f, p, t)
  PROVE  Sound(f, p, t + 1) /\ Sound(f, p + 1, 0)
<1>1. \A i \in DOMAIN f : f[i] \in Chunk
  OBVIOUS
<1>2. \A i \in DOMAIN f : f[i][1] \in Nat /\ f[i][2] \in Nat
  BY <1>1 DEF Chunk
<1> QED BY <1>2 DEF Sound

(* More chunks of the last process, from number n on.                       *)
LEMMA SoundJoins ==
  ASSUME NEW f \in Seq(Chunk), NEW p \in Nat, NEW t \in Nat, Sound(f, p, t),
         NEW n \in Nat, n <= Len(f), \A i \in DOMAIN f : f[i][1] = p => f[i][2] <= n,
         f # <<>> /\ f[1][1] = p => n = Len(f),
         NEW u \in Nat, n <= u
  PROVE  Sound(f \o Chunks(p, n, u), p, u)
<1> DEFINE b == Chunks(p, n, u)
           c == f \o b
           L == Len(f)
<1>1. /\ b \in Seq(Chunk) /\ DOMAIN b = 1..(u - n) /\ \A k \in 1..(u - n) : b[k] = <<p, n + k>>
  BY ChunksTyped
<1> HIDE DEF b
<1>2. /\ L \in Nat /\ DOMAIN f = 1..L /\ DOMAIN c \subseteq Nat \ {0}
      /\ \A i \in DOMAIN f : i \in DOMAIN c /\ c[i] = f[i]
      /\ \A i \in DOMAIN c \ DOMAIN f : i - L \in DOMAIN b /\ c[i] = b[i - L]
  <2>1. DOMAIN c = 1..(L + Len(b)) /\ L \in Nat /\ Len(b) \in Nat
    BY <1>1, JoinedChunks
  <2>2. DOMAIN c \subseteq Nat \ {0}
    BY <2>1
  <2> QED BY <1>1, <2>2, JoinedChunks
<1>3. \A i \in DOMAIN f : f[i][1] \in Nat /\ f[i][2] \in Nat
  <2>1. \A i \in DOMAIN f : f[i] \in Chunk
    OBVIOUS
  <2> QED BY <2>1 DEF Chunk
<1>4. f = <<>> => L = 0
  OBVIOUS
<1>5. L = 0 => f = <<>>
  OBVIOUS
<1> HIDE DEF c, L
<1>6. \A i \in DOMAIN c \ DOMAIN f : /\ c[i][1] = p /\ c[i][2] = n + (i - L)
                                     /\ i > L /\ i - L \in 1..(u - n)
  <2> SUFFICES ASSUME NEW i \in DOMAIN c \ DOMAIN f
               PROVE  c[i][1] = p /\ c[i][2] = n + (i - L) /\ i > L /\ i - L \in 1..(u - n)
    OBVIOUS
  <2>1. i > L
    BY <1>2
  <2>2. PICK k : k = i - L
    OBVIOUS
  <2>3. c[i] = b[k] /\ k \in 1..(u - n)
    BY <1>1, <1>2, <2>2
  <2>4. c[i] = <<p, n + k>>
    BY <1>1, <2>3
  <2> QED BY <2>1, <2>2, <2>3, <2>4
<1>7. n <= L
  BY DEF L
<1>8. ASSUME NEW i \in DOMAIN c
      PROVE  /\ c[i][1] <= p /\ c[i][2] <= i
             /\ c[i][1] = p => c[i][2] <= u
             /\ c[i][1] = c[1][1] => c[i][2] = i
  <2>1. CASE i \in DOMAIN f
    <3>1. c[i] = f[i] /\ c[1] = f[1]
      BY <1>2, <2>1
    <3>2. f[i][1] <= p /\ f[i][2] <= i /\ (f[i][1] = p => f[i][2] <= n) /\ (f[i][1] = f[1][1] => f[i][2] = i)
      BY <2>1 DEF Sound
    <3> QED BY <1>3, <2>1, <3>1, <3>2
  <2>2. CASE i \notin DOMAIN f
    <3>1. c[i][1] = p /\ c[i][2] = n + (i - L) /\ i - L \in 1..(u - n) /\ i \in Nat /\ i > L
      BY <1>2, <1>6, <2>2
    <3>2. c[1][1] = p => n = L
      <4>1. CASE L = 0
        BY <1>7, <4>1
      <4>2. CASE L # 0
        <5>1. 1 \in DOMAIN f /\ f # <<>>
          BY <1>2, <1>4, <4>2
        <5>2. c[1] = f[1]
          BY <1>2, <5>1
        <5> QED BY <5>1, <5>2 DEF L
      <4> QED BY <4>1, <4>2
    <3>3. PICK x : x = c[i][2]
      OBVIOUS
    <3>a. PICK k \in Nat : k = i
      BY <3>1
    <3>b. PICK l \in Nat : l = L
      BY <1>2
    <3>c. x = n + (k - l) /\ k - l \in 1..(u - n) /\ n <= l
      BY <1>7, <3>1, <3>3, <3>a, <3>b
    <3>d. x <= k /\ x <= u /\ (n = l => x = k)
      BY <3>c
    <3>4. x <= i /\ x <= u /\ (n = L => x = i)
      BY <3>a, <3>b, <3>d
    <3> QED BY <3>1, <3>2, <3>3, <3>4
  <2> QED BY <2>1, <2>2
<1>9. ASSUME NEW i \in DOMAIN c, NEW j \in DOMAIN c, i < j
      PROVE  c[i][1] < c[j][1] \/ (c[i][1] = c[j][1] /\ c[i][2] < c[j][2])
  <2>1. CASE j \in DOMAIN f
    <3>1. i \in DOMAIN f /\ c[i] = f[i] /\ c[j] = f[j]
      BY <1>2, <1>9, <2>1
    <3> QED BY <1>9, <2>1, <3>1 DEF Sound
  <2>2. CASE i \in DOMAIN f /\ j \notin DOMAIN f
    <3>1. c[i] = f[i] /\ f[i][1] <= p /\ (f[i][1] = p => f[i][2] <= n)
      BY <1>2, <2>2 DEF Sound
    <3>2. c[j][1] = p /\ c[j][2] = n + (j - L) /\ j \in Nat /\ j > L
      BY <1>2, <1>6, <2>2
    <3> QED BY <1>2, <1>3, <2>2, <3>1, <3>2
  <2>3. CASE i \notin DOMAIN f /\ j \notin DOMAIN f
    BY <1>2, <1>6, <1>9, <2>3
  <2> QED BY <2>1, <2>2, <2>3
<1>10. Sound(c, p, u)
  BY <1>8, <1>9 DEF Sound
<1> QED BY <1>10 DEF c, b

(* The next chunk, behind all that was written so far.                      *)
LEMMA SoundNext ==
  ASSUME NEW f \in Seq(Chunk), NEW p \in Nat, NEW t \in Nat, Sound(f, p, t), t <= Len(f)
  PROVE  Sound(Append(f, <<p, t + 1>>), p, t + 1)
<1>1. f # <<>> /\ f[1][1] = p => t = Len(f)
  <2> SUFFICES ASSUME f # <<>>, f[1][1] = p
               PROVE  Len(f) <= t
    OBVIOUS
  <2>1. PICK n \in Nat : n = Len(f) /\ n \in DOMAIN f /\ 1 \in DOMAIN f /\ n >= 1
    OBVIOUS
  <2>2. f[n] \in Chunk
    BY <2>1
  <2>3. f[n][1] <= p /\ (f[n][1] = p => f[n][2] <= t) /\ (f[n][1] = p => f[n][2] = n)
    BY <2>1 DEF Sound
  <2>4. n = 1 \/ f[n][1] >= p
    <3>1. 1 < n => f[1][1] < f[n][1] \/ f[1][1] = f[n][1]
      BY <2>1 DEF Sound
    <3> QED BY <2>1, <2>2, <3>1 DEF Chunk
  <2>5. f[n][1] = p
    BY <2>1, <2>2, <2>3, <2>4 DEF Chunk
  <2> QED BY <2>1, <2>3, <2>5
<1>2. \A i \in DOMAIN f : f[i][1] = p => f[i][2] <= t
  BY DEF Sound
<1>3. Sound(f \o Chunks(p, t, t + 1), p, t + 1)
  BY <1>1, <1>2, SoundJoins
<1>4. Chunks(p, t, t + 1) = <<<<p, t + 1>>>>
  <2>1. /\ Chunks(p, t, t + 1) \in Seq(Chunk) /\ Len(Chunks(p, t, t + 1)) = 1
        /\ Chunks(p, t, t + 1)[1] = <<p, t + 1>>
    <3>1. PICK u \in Nat : u = t + 1 /\ t <= u /\ u - t = 1
      OBVIOUS
    <3>2. /\ Chunks(p, t, u) \in Seq(Chunk) /\ Len(Chunks(p, t, u)) = u - t
          /\ \A i \in 1..(u - t) : Chunks(p, t, u)[i] = <<p, t + i>>
      <4>1. t <= u
        BY <3>1
      <4> QED BY <4>1, ChunksTyped, Zenon
    <3>3. Chunks(p, t, u)[1] = <<p, t + 1>>
      BY <3>1, <3>2
    <3> QED BY <3>1, <3>2, <3>3
  <2>2. <<<<p, t + 1>>>> \in Seq(Chunk) /\ Len(<<<<p, t + 1>>>>) = 1 /\ <<<<p, t + 1>>>>[1] = <<p, t + 1>>
    BY DEF Chunk
  <2>3. PICK a, b \in Seq(Chunk) : a = Chunks(p, t, t + 1) /\ b = <<<<p, t + 1>>>>
    BY <2>1, <2>2
  <2>4. Len(a) = Len(b) /\ \A i \in 1..Len(a) : a[i] = b[i]
    BY <2>1, <2>2, <2>3
  <2> QED BY <2>3, <2>4, SeqEqual
<1>5. <<p, t + 1>> \in Chunk
  BY DEF Chunk
<1>6. Append(f, <<p, t + 1>>) = f \o <<<<p, t + 1>>>>
  BY <1>5, AppendIsConcat
<1> QED BY <1>3, <1>4, <1>6

-----------------------------------------------------------------------------
(* What happens to the subscription.                                        *)

LEMMA ComingTyped ==
  ASSUME NEW st \in Stream, NEW sc \in Seq(Chunk)
  PROVE  /\ st.first \in Seq(Chunk) /\ st.queue \in Seq(Chunk) /\ sc \o st.first \in Seq(Chunk)
         /\ Coming(st, sc) \in Seq(Chunk) /\ Len(Coming(st, sc)) \in Nat
<1>1. st.first \in Seq(Chunk) /\ st.queue \in Seq(Chunk)
  BY DEF Stream
<1>2. sc \o st.first \in Seq(Chunk)
  BY <1>1, ConcatProperties
<1>3. Coming(st, sc) \in Seq(Chunk)
  BY <1>1, <1>2, ConcatProperties DEF Coming
<1> QED BY <1>1, <1>2, <1>3

LEMMA ComingEmpty ==
  ASSUME NEW st, NEW sc \in Seq(Chunk), st.first = <<>>, st.queue = <<>>
  PROVE  Coming(st, sc) = sc
<1>1. sc \o <<>> = sc
  BY ConcatEmptySeq
<1> QED BY <1>1 DEF Coming

(* The screen itself is sound. *)
LEMMA ScreenSound ==
  ASSUME NEW st \in Stream, NEW sc \in Seq(Chunk), NEW p \in Nat, NEW t \in Nat, Good(st, sc, p, t)
  PROVE  Sound(sc, p, t)
<1>1. Sound((sc \o st.first) \o st.queue, p, t)
  BY DEF Good, Coming
<1>2. st.first \in Seq(Chunk) /\ st.queue \in Seq(Chunk) /\ sc \o st.first \in Seq(Chunk)
  BY ComingTyped
<1>3. Sound(sc \o st.first, p, t)
  BY <1>1, <1>2, SoundBegins
<1> QED BY <1>2, <1>3, SoundBegins

(* A subscription that holds nothing: none, ended, or one just asked for.   *)
Bare(x, sc) ==
  /\ x \in Stream /\ x.first = <<>> /\ x.queue = <<>> /\ x.of = Nobody
  /\ x.pc # "open" /\ (x.pc = "asked" => x.from = Len(sc))

LEMMA BareGood ==
  ASSUME NEW sc \in Seq(Chunk), NEW p \in Nat, NEW t \in Nat, NEW x, Bare(x, sc), Sound(sc, p, t)
  PROVE  Good(x, sc, p, t) /\ Proper(x, p)
<1>1. Coming(x, sc) = sc
  BY ComingEmpty DEF Bare
<1> QED BY <1>1 DEF Bare, Good, Proper, Nobody

LEMMA BareStreams ==
  ASSUME NEW sc \in Seq(Chunk)
  PROVE  /\ Bare(NoStream, sc) /\ Bare(Subscribed(sc), sc) /\ Bare([NoStream EXCEPT !.pc = "ended"], sc)
         /\ NoStream.pc = "none" /\ Subscribed(sc).pc = "asked"
<1>1. <<>> \in Seq(Chunk) /\ Len(sc) \in Nat
  OBVIOUS
<1> QED BY <1>1 DEF Bare, NoStream, Subscribed, Stream, Nobody

(* The hook keeps its subscription, or is left with a bare one; a terminal  *)
(* that starts over always is.                                              *)
Swaps(x) ==
  \/ screen' = <<>> /\ Bare(x, <<>>)
  \/ screen' = screen /\ gap' = gap /\ (x = stream \/ Bare(x, screen))

LEMMA EffectSwaps ==
  ASSUME Typed, NEW now, NEW again, Effect(now, again)
  PROVE  Swaps(After(now, again)) /\ gap' \in BOOLEAN
<1>0. screen \in Seq(Chunk) /\ <<>> \in Seq(Chunk) /\ gap \in BOOLEAN
  BY DEF Typed
<1>1. gap' \in BOOLEAN
  BY DEF Effect
<1>2. CASE GenerationChanged(now)
  <2>1. screen' = <<>> /\ Wiped(now) = <<>> /\ Left(now, again) = NoStream
    BY <1>2 DEF Effect, Wiped, Left, Drops
  <2>2. After(now, again) \in {NoStream, Subscribed(<<>>)}
    BY <2>1 DEF After
  <2>3. Bare(After(now, again), <<>>)
    BY <1>0, <2>2, BareStreams
  <2> QED BY <1>1, <2>1, <2>3 DEF Swaps
<1>3. CASE ~GenerationChanged(now)
  <2>1. screen' = screen /\ Wiped(now) = screen /\ Left(now, again) \in {NoStream, stream}
    BY <1>3 DEF Effect, Wiped, Left
  <2>2. gap' = gap
    BY <1>0, <1>3 DEF Effect
  <2>3. After(now, again) \in {NoStream, Subscribed(screen), stream}
    BY <2>1 DEF After
  <2>4. After(now, again) = stream \/ Bare(After(now, again), screen)
    BY <1>0, <2>3, BareStreams
  <2> QED BY <1>1, <2>1, <2>2, <2>4 DEF Swaps
<1> QED BY <1>2, <1>3

LEMMA InvNext ==
  ASSUME process' \in Nat, total' \in Nat, gap' \in BOOLEAN, screen' \in Seq(Chunk), stream' \in Stream,
         Proper(stream', process'), ~gap' => Good(stream', screen', process', total')
  PROVE  StreamInv'
<1>1. Typed'
  BY DEF Typed
<1>2. Proper(stream, process)'
  BY DEF Proper
<1>3. ~gap' => Good(stream, screen, process, total)'
  BY DEF Good, Coming, Sound
<1> QED BY <1>1, <1>2, <1>3 DEF StreamInv

LEMMA SwapsKeep ==
  ASSUME StreamInv, NEW x, Swaps(x), gap' \in BOOLEAN, UNCHANGED <<process, total>>,
         stream' = x \/ (x.pc = "ended" /\ stream' = [x EXCEPT !.pc = "forgotten"])
  PROVE  StreamInv'
<1>0. /\ process \in Nat /\ total \in Nat /\ gap \in BOOLEAN /\ screen \in Seq(Chunk) /\ stream \in Stream
      /\ Proper(stream, process) /\ (~gap => Good(stream, screen, process, total)) /\ <<>> \in Seq(Chunk)
  BY DEF StreamInv, Typed
<1>1. ASSUME NEW sc \in Seq(Chunk), screen' = sc, Bare(x, sc), ~gap' => Sound(sc, process, total)
      PROVE  StreamInv'
  <2>1. PICK y : y = stream'
    OBVIOUS
  <2>2. Bare(y, sc)
    <3>1. CASE stream' = x
      BY <1>1, <2>1, <3>1
    <3>2. CASE stream' = [x EXCEPT !.pc = "forgotten"]
      BY <1>1, <2>1, <3>2 DEF Bare, Stream
    <3> QED BY <3>1, <3>2
  <2>3. Proper(y, process) /\ (~gap' => Good(y, sc, process, total))
    <3>1. Proper(y, process)
      BY <1>0, <2>2 DEF Bare, Proper, Nobody
    <3>2. ~gap' => Good(y, sc, process, total)
      BY <1>0, <1>1, <2>2, BareGood
    <3> QED BY <3>1, <3>2
  <2>4. y \in Stream
    BY <2>2 DEF Bare
  <2>5. /\ stream' \in Stream /\ screen' \in Seq(Chunk) /\ Proper(stream', process')
        /\ ~gap' => Good(stream', screen', process', total')
    BY <1>1, <2>1, <2>3, <2>4
  <2> QED BY <1>0, <2>5, InvNext
<1>2. CASE screen' = <<>> /\ Bare(x, <<>>)
  <2>1. Sound(<<>>, process, total)
    BY DEF Sound
  <2> QED BY <1>0, <1>1, <1>2, <2>1
<1>3. CASE screen' = screen /\ gap' = gap /\ Bare(x, screen)
  <2>1. ~gap' => Sound(screen, process, total)
    BY <1>0, <1>3, ScreenSound
  <2> QED BY <1>0, <1>1, <1>3, <2>1
<1>4. CASE screen' = screen /\ gap' = gap /\ x = stream
  <2>1. CASE stream' = stream
    <3>1. ~gap' => Good(stream', screen', process', total')
      BY <1>0, <1>4, <2>1
    <3>2. Proper(stream', process')
      BY <1>0, <2>1
    <3> QED BY <1>0, <1>4, <2>1, <3>1, <3>2, InvNext
  <2>2. CASE x.pc = "ended" /\ stream' = [x EXCEPT !.pc = "forgotten"]
    <3>1. PICK y : y = stream'
      OBVIOUS
    <3>2. /\ y \in Stream /\ y.pc = "forgotten" /\ y.first = stream.first /\ y.queue = stream.queue
          /\ y.of = stream.of /\ stream.pc = "ended"
      BY <1>0, <1>4, <2>2, <3>1 DEF Stream
    <3>3. Proper(y, process)
      BY <1>0, <3>2 DEF Proper
    <3>4. ~gap => Good(y, screen, process, total)
      BY <1>0, <3>2 DEF Good, Coming
    <3>5. /\ stream' \in Stream /\ Proper(stream', process')
          /\ ~gap' => Good(stream', screen', process', total')
      BY <1>0, <1>4, <3>1, <3>2, <3>3, <3>4
    <3> QED BY <1>0, <1>4, <3>5, InvNext
  <2> QED BY <1>4, <2>1, <2>2
<1> QED BY <1>2, <1>3, <1>4 DEF Swaps

-----------------------------------------------------------------------------
(* The daemon and its handler.                                              *)

LEMMA LaunchKeeps ==
  ASSUME StreamInv, Launch
  PROVE  StreamInv'
<1>0. /\ process \in Nat /\ total \in Nat /\ gap \in BOOLEAN /\ screen \in Seq(Chunk) /\ stream \in Stream
      /\ Proper(stream, process) /\ (~gap => Good(stream, screen, process, total))
      /\ process' = process + 1 /\ total' = 0 /\ UNCHANGED <<stream, screen, gap>>
  BY DEF StreamInv, Typed, Launch, client, history
<1>1. PICK p \in Nat : p = process /\ process' = p + 1 /\ p + 1 \in Nat
  BY <1>0
<1>2. Coming(stream, screen) \in Seq(Chunk) /\ stream.of \in Nat /\ stream.of <= p
  BY <1>0, <1>1, ComingTyped DEF Proper, Stream
<1>3. Proper(stream, p + 1)
  BY <1>0, <1>1, <1>2 DEF Proper
<1>4. ~gap => Good(stream, screen, p + 1, 0)
  <2> SUFFICES ASSUME ~gap PROVE Good(stream, screen, p + 1, 0)
    OBVIOUS
  <2>1. Good(stream, screen, p, total)
    BY <1>0, <1>1
  <2>2. Sound(Coming(stream, screen), p, total)
    BY <2>1 DEF Good
  <2>3. Sound(Coming(stream, screen), p + 1, 0)
    BY <1>0, <1>2, <2>2, SoundLater
  <2>4. stream.of # p + 1
    BY <1>2
  <2> QED BY <2>1, <2>3, <2>4 DEF Good
<1>5. Proper(stream', process') /\ (~gap' => Good(stream', screen', process', total'))
  BY <1>0, <1>1, <1>3, <1>4
<1> QED BY <1>0, <1>1, <1>5, InvNext

LEMMA BroadcastKeeps ==
  ASSUME StreamInv, BroadcastRaw
  PROVE  StreamInv'
<1>0. /\ process \in Nat /\ total \in Nat /\ gap = FALSE /\ screen \in Seq(Chunk) /\ stream \in Stream
      /\ Proper(stream, process) /\ Good(stream, screen, process, total)
      /\ process' = process /\ total' = total + 1 /\ screen' = screen
  BY DEF StreamInv, Typed, BroadcastRaw, client
<1> DEFINE here == stream.pc = "open" /\ stream.of = process
           drops == here /\ Len(stream.queue) = Room
           c == <<process, total + 1>>
           x == [stream EXCEPT !.queue = Append(stream.queue, c)]
<1>1. PICK t \in Nat : t = total + 1
  BY <1>0
<1>2. PICK f \in Seq(Chunk) : f = Coming(stream, screen)
  BY <1>0, ComingTyped
<1>3. gap' = drops /\ stream' = IF here /\ ~drops THEN x ELSE stream
  BY DEF BroadcastRaw
<1>4. Sound(f, process, total)
  BY <1>0, <1>2 DEF Good
<1>5. CASE here /\ ~drops
  <2>1. c \in Chunk /\ stream.first \in Seq(Chunk) /\ stream.queue \in Seq(Chunk) /\ screen \o stream.first \in Seq(Chunk)
    <3>1. c \in Chunk
      BY <1>0 DEF Chunk
    <3> QED BY <1>0, <3>1, ComingTyped
  <2>2. total <= Len(f)
    BY <1>0, <1>2, <1>5 DEF Good
  <2>3. Sound(Append(f, c), process, t)
    BY <1>0, <1>1, <1>4, <2>2, SoundNext
  <2>4. Append(stream.queue, c) \in Seq(Chunk)
    BY <2>1
  <2> HIDE DEF c
  <2>5. x \in Stream /\ x.first = stream.first /\ x.queue = Append(stream.queue, c) /\ x.pc = "open" /\ x.of = process
    BY <1>0, <1>5, <2>4 DEF Stream
  <2>6. Coming(x, screen) = Append(f, c)
    <3>1. PICK a, b \in Seq(Chunk) : a = screen \o stream.first /\ b = stream.queue
      BY <2>1
    <3>2. Append(b, c) = b \o <<c>> /\ <<c>> \in Seq(Chunk)
      BY <2>1, AppendIsConcat
    <3>3. (a \o b) \o <<c>> = a \o (b \o <<c>>)
      BY <3>2, ConcatAssociative
    <3>4. a \o b = f
      BY <1>2, <3>1 DEF Coming
    <3>5. Append(f, c) = f \o <<c>>
      BY <2>1, AppendIsConcat
    <3>6. Coming(x, screen) = a \o Append(b, c)
      BY <2>5, <3>1 DEF Coming
    <3> QED BY <3>2, <3>3, <3>4, <3>5, <3>6
  <2>7. Len(Append(f, c)) = Len(f) + 1 /\ Len(f) \in Nat
    BY <2>1
  <2> HIDE DEF x
  <2>8. Good(x, screen, process, t) /\ Proper(x, process)
    <3>1. t <= Len(Coming(x, screen))
      BY <1>0, <1>1, <2>2, <2>6, <2>7
    <3> QED BY <1>0, <2>3, <2>5, <2>6, <3>1 DEF Good, Proper
  <2>9. stream' = x /\ gap' = FALSE
    BY <1>3, <1>5
  <2> QED BY <1>0, <1>1, <2>5, <2>8, <2>9, InvNext
<1>6. CASE ~here
  <2>1. stream' = stream /\ gap' = FALSE
    BY <1>3, <1>6
  <2>2. Sound(f, process, t)
    BY <1>0, <1>1, <1>4, SoundLater
  <2>3. Good(stream, screen, process, t)
    BY <1>0, <1>2, <1>6, <2>2 DEF Good
  <2> QED BY <1>0, <1>1, <2>1, <2>3, InvNext
<1>7. CASE drops
  <2>1. stream' = stream /\ gap' = TRUE
    BY <1>3, <1>7
  <2> QED BY <1>0, <1>1, <2>1, InvNext
<1> QED BY <1>5, <1>6, <1>7

LEMMA SubscribeKeeps ==
  ASSUME StreamInv, SubscribeRawOutput
  PROVE  StreamInv'
<1>0. /\ process \in Nat /\ total \in Nat /\ gap \in BOOLEAN /\ screen \in Seq(Chunk) /\ stream \in Stream
      /\ Proper(stream, process) /\ (~gap => Good(stream, screen, process, total))
      /\ UNCHANGED <<process, total, screen>> /\ stream.pc = "asked" /\ <<>> \in Seq(Chunk)
  BY DEF StreamInv, Typed, SubscribeRawOutput, daemon, client
<1>1. Missed \in Nat /\ stream.from \in Nat
  BY <1>0, StreamAssumption DEF Missed, Stream
<1>2. PICK n \in Nat : n = IF stream.from > Missed THEN stream.from ELSE Missed
  BY <1>1
<1>3. PICK g : g = IF n < total THEN Chunks(process, n, total) ELSE <<>>
  OBVIOUS
<1>4. stream' = [stream EXCEPT !.pc = "open", !.of = process, !.first = g] /\ gap' = (gap \/ stream.from < Missed)
  BY <1>2, <1>3 DEF SubscribeRawOutput
<1>5. g \in Seq(Chunk)
  BY <1>0, <1>3, ChunksTyped
<1>6. PICK x \in Stream : /\ x = stream' /\ x.pc = "open" /\ x.of = process /\ x.first = g /\ x.queue = <<>>
  <2>1. stream.queue = <<>>
    BY <1>0 DEF Proper
  <2>2. /\ stream' \in Stream /\ stream'.pc = "open" /\ stream'.of = process
        /\ stream'.first = g /\ stream'.queue = stream.queue
    BY <1>0, <1>4, <1>5 DEF Stream
  <2> QED BY <2>1, <2>2
<1>7. Proper(x, process)
  BY <1>0, <1>6 DEF Proper
<1>8. ~gap' => Good(x, screen, process, total)
  <2> SUFFICES ASSUME ~gap'
               PROVE  Good(x, screen, process, total)
    OBVIOUS
  <2>1. ~gap /\ ~(stream.from < Missed)
    BY <1>4
  <2>2. Good(stream, screen, process, total)
    BY <1>0, <2>1
  <2>3. n = Len(screen) /\ Sound(screen, process, total)
    <3>1. n = stream.from
      BY <1>1, <1>2, <2>1
    <3> QED BY <1>0, <2>2, <3>1, ScreenSound DEF Good
  <2>4. Coming(x, screen) = screen \o g
    <3>1. screen \o g \in Seq(Chunk)
      BY <1>0, <1>5, ConcatProperties
    <3>2. (screen \o g) \o <<>> = screen \o g
      BY <3>1, ConcatEmptySeq
    <3> QED BY <1>6, <3>2 DEF Coming
  <2>5. CASE n < total
    <3>1. g = Chunks(process, n, total)
      BY <1>3, <2>5
    <3>2. \A i \in DOMAIN screen : screen[i][1] = process => screen[i][2] <= n
      <4>1. \A i \in DOMAIN screen : screen[i] \in Chunk /\ i <= Len(screen) /\ i \in Nat
        BY <1>0
      <4>2. \A i \in DOMAIN screen : screen[i][2] \in Nat /\ screen[i][2] <= i
        BY <2>3, <4>1 DEF Sound, Chunk
      <4> QED BY <2>3, <4>1, <4>2
    <3>3. n <= total /\ n <= Len(screen)
      BY <1>0, <2>3, <2>5
    <3>4. Sound(screen \o g, process, total)
      BY <1>0, <2>3, <3>1, <3>2, <3>3, SoundJoins
    <3>5. Len(screen \o g) = total
      <4>1. Len(g) = total - n
        BY <1>0, <3>1, <3>3, ChunksTyped
      <4>2. Len(screen \o g) = Len(screen) + Len(g)
        BY <1>0, <1>5, ConcatProperties
      <4> QED BY <1>0, <2>3, <4>1, <4>2
    <3> QED BY <1>0, <1>6, <2>4, <3>4, <3>5 DEF Good
  <2>6. CASE ~(n < total)
    <3>1. g = <<>> /\ total <= n
      BY <1>0, <1>3, <2>6
    <3>2. screen \o g = screen
      BY <1>0, <3>1, ConcatEmptySeq
    <3> QED BY <1>0, <1>6, <2>3, <2>4, <3>1, <3>2 DEF Good
  <2> QED BY <2>5, <2>6
<1>9. gap' \in BOOLEAN
  BY <1>4
<1>10. stream' \in Stream /\ Proper(stream', process') /\ (~gap' => Good(stream', screen', process', total'))
  BY <1>0, <1>6, <1>7, <1>8
<1> QED BY <1>0, <1>9, <1>10, InvNext

(* What is delivered stands where it was coming to. *)
LEMMA DeliverKeeps ==
  ASSUME StreamInv, Deliver
  PROVE  StreamInv'
<1>0. /\ process \in Nat /\ total \in Nat /\ gap \in BOOLEAN /\ screen \in Seq(Chunk) /\ stream \in Stream
      /\ Proper(stream, process) /\ (~gap => Good(stream, screen, process, total))
      /\ UNCHANGED <<process, total, gap>> /\ stream.pc = "open" /\ <<>> \in Seq(Chunk)
  BY DEF StreamInv, Typed, Deliver, daemon, history
<1>1. PICK a, b \in Seq(Chunk) : a = stream.first /\ b = stream.queue
  BY <1>0, ComingTyped
<1>2. ASSUME NEW x \in Stream, NEW sc \in Seq(Chunk), stream' = x, screen' = sc,
             x.pc = "open", x.of = stream.of, Coming(x, sc) = Coming(stream, screen)
      PROVE  StreamInv'
  <2>1. Proper(x, process)
    BY <1>0, <1>2 DEF Proper
  <2>2. ~gap => Good(x, sc, process, total)
    BY <1>0, <1>2 DEF Good
  <2> QED BY <1>0, <1>2, <2>1, <2>2, InvNext
<1>3. CASE a # <<>>
  <2>1. screen' = screen \o a /\ stream' = [stream EXCEPT !.first = <<>>]
    BY <1>1, <1>3 DEF Deliver
  <2>2. PICK x \in Stream : x = stream' /\ x.pc = "open" /\ x.of = stream.of /\ x.first = <<>> /\ x.queue = b
    <3>1. stream'.pc = "open" /\ stream'.of = stream.of /\ stream'.first = <<>> /\ stream'.queue = b
      BY <1>0, <1>1, <2>1 DEF Stream
    <3>2. stream' \in Stream
      BY <1>0, <2>1 DEF Stream
    <3> QED BY <3>1, <3>2
  <2>3. screen \o a \in Seq(Chunk)
    BY <1>0, <1>1, ConcatProperties
  <2>4. (screen \o a) \o <<>> = screen \o a
    BY <2>3, ConcatEmptySeq
  <2>5. Coming(x, screen \o a) = Coming(stream, screen)
    BY <1>1, <2>2, <2>4 DEF Coming
  <2> QED BY <1>2, <2>1, <2>2, <2>3, <2>5
<1>4. CASE a = <<>>
  <2>1. screen \o a = screen
    BY <1>0, <1>4, ConcatEmptySeq
  <2>2. a \o b = b
    BY <1>1, <1>4, ConcatEmptySeq
  <2>3. b # <<>> /\ screen' = Append(screen, Head(b)) /\ stream' = [stream EXCEPT !.queue = Tail(b)]
    BY <1>1, <1>4, <2>2 DEF Deliver
  <2>4. PICK c \in Chunk, d \in Seq(Chunk) : c = Head(b) /\ d = Tail(b)
    BY <1>1, <2>3, HeadTailProperties
  <2>5. PICK x \in Stream : x = stream' /\ x.pc = "open" /\ x.of = stream.of /\ x.first = <<>> /\ x.queue = d
    <3>1. stream' = [stream EXCEPT !.queue = d]
      BY <2>3, <2>4
    <3>2. stream'.pc = "open" /\ stream'.of = stream.of /\ stream'.first = <<>> /\ stream'.queue = d
      BY <1>0, <1>1, <1>4, <3>1 DEF Stream
    <3>3. stream' \in Stream
      BY <1>0, <3>1 DEF Stream
    <3> QED BY <3>2, <3>3
  <2>6. b = <<c>> \o d /\ <<c>> \in Seq(Chunk)
    <3>1. <<c>> \in Seq(Chunk)
      OBVIOUS
    <3>2. PICK e \in Seq(Chunk) : e = <<c>> \o d
      BY <3>1, ConcatProperties
    <3>3. Len(e) = Len(d) + 1 /\ Len(b) = Len(d) + 1 /\ Len(d) \in Nat
      BY <1>1, <2>3, <2>4, <3>2
    <3>4. \A i \in 1..Len(b) : b[i] = e[i]
      BY <1>1, <2>3, <2>4, <3>2, <3>3
    <3>5. b = e
      BY <1>1, <3>3, <3>4, SeqEqual
    <3> QED BY <3>1, <3>2, <3>5
  <2>7. PICK sc \in Seq(Chunk) : sc = Append(screen, c) /\ sc = screen \o <<c>>
    BY <1>0, AppendIsConcat, AppendProperties
  <2>8. sc \o <<>> = sc
    BY ConcatEmptySeq
  <2>9. (screen \o <<c>>) \o d = screen \o (<<c>> \o d)
    BY <1>0, <2>6, ConcatAssociative
  <2>10. Coming(x, sc) = screen \o b
    BY <2>5, <2>6, <2>7, <2>8, <2>9 DEF Coming
  <2>11. Coming(stream, screen) = screen \o b
    BY <1>1, <2>1 DEF Coming
  <2> QED BY <1>2, <2>3, <2>4, <2>5, <2>7, <2>10, <2>11
<1> QED BY <1>3, <1>4

-----------------------------------------------------------------------------
LEMMA StreamStep == StreamInv /\ [Next]_vars => StreamInv'
<1> SUFFICES ASSUME StreamInv, [Next]_vars PROVE StreamInv'
  OBVIOUS
<1>0. Typed /\ gap \in BOOLEAN /\ screen \in Seq(Chunk)
  BY DEF StreamInv, Typed
<1>1. CASE Launch
  BY <1>1, LaunchKeeps
<1>2. CASE BroadcastRaw
  BY <1>2, BroadcastKeeps
<1>3. CASE SubscribeRawOutput
  BY <1>3, SubscribeKeeps
<1>4. CASE Deliver
  BY <1>4, DeliverKeeps
<1>5. CASE HandlerReturns \/ StreamBreaks
  <2>1. UNCHANGED <<process, total, screen, gap>> /\ stream' = [NoStream EXCEPT !.pc = "ended"]
    BY <1>5 DEF HandlerReturns, StreamBreaks, Ends, daemon, history
  <2>2. Swaps([NoStream EXCEPT !.pc = "ended"])
    BY <1>0, <2>1, BareStreams DEF Swaps
  <2> QED BY <1>0, <2>1, <2>2, SwapsKeep
<1>6. CASE ReconnectTimer
  <2>1. UNCHANGED <<process, total>> /\ Effect(status, TRUE) /\ stream' = After(status, TRUE)
    BY <1>6 DEF ReconnectTimer, daemon
  <2> QED BY <1>0, <2>1, EffectSwaps, SwapsKeep
<1>7. CASE UnsubDelay
  <2>1. UNCHANGED <<process, total, screen, gap>> /\ stream' = NoStream
    BY <1>7 DEF UnsubDelay, daemon, history
  <2>2. Swaps(NoStream)
    BY <1>0, <2>1, BareStreams DEF Swaps
  <2> QED BY <1>0, <2>1, <2>2, SwapsKeep
<1>8. CASE OnEnd
  <2>1. UNCHANGED <<process, total, screen, gap>> /\ (UNCHANGED stream \/ Finally(status, stream))
    BY <1>8 DEF OnEnd, daemon, history
  <2>2. Swaps(stream)
    BY <2>1 DEF Swaps
  <2> QED BY <1>0, <2>1, <2>2, SwapsKeep DEF Finally
<1>9. CASE \E x \in Origins : FetchReturns(x) \/ FetchFails(x)
  <2>1. PICK x, now : Returns(x, now)
    BY <1>9 DEF FetchReturns, FetchFails
  <2>2. /\ UNCHANGED <<process, total>> /\ Effect(now, FALSE)
        /\ Finally(now, After(now, FALSE)) \/ stream' = After(now, FALSE)
    BY <2>1 DEF Returns, daemon
  <2>3. Swaps(After(now, FALSE)) /\ gap' \in BOOLEAN
    BY <1>0, <2>2, EffectSwaps
  <2> QED BY <2>2, <2>3, SwapsKeep DEF Finally
<1>10. CASE StartReturns \/ StopAgent
  <2>1. PICK now : Effect(now, FALSE) /\ stream' = After(now, FALSE) /\ UNCHANGED <<process, total>>
    BY <1>10 DEF StartReturns, StopAgent, daemon
  <2> QED BY <1>0, <2>1, EffectSwaps, SwapsKeep
<1>11. CASE Exits \/ LeavesSlot \/ Poll \/ StartAgent \/ StartFails \/ UNCHANGED vars
  <2>1. UNCHANGED <<process, total, screen, gap, stream>>
    BY <1>11 DEF Exits, LeavesSlot, Poll, StartAgent, StartFails, vars, daemon, client, history
  <2>2. Swaps(stream)
    BY <2>1 DEF Swaps
  <2> QED BY <1>0, <2>1, <2>2, SwapsKeep
<1> QED BY <1>1, <1>2, <1>3, <1>4, <1>5, <1>6, <1>7, <1>8, <1>9, <1>10, <1>11 DEF Next, Daemon, Handler, Store

(* The terminal shows nothing twice and nothing out of order as long as no  *)
(* chunk was missed, whichever process a subscription, an answer that comes *)
(* late or a resumption at another process's place turns out to be of.      *)
THEOREM ShownOnce == Spec => []NothingRepeated
<1>1. Init => StreamInv
  <2> SUFFICES ASSUME Init PROVE StreamInv
    OBVIOUS
  <2>1. process = 0 /\ total = 0 /\ gap = FALSE /\ screen = <<>> /\ stream = NoStream /\ <<>> \in Seq(Chunk)
    BY DEF Init
  <2>2. Sound(<<>>, 0, 0) /\ Bare(NoStream, <<>>)
    <3>1. Sound(<<>>, 0, 0)
      BY DEF Sound
    <3>2. Bare(NoStream, <<>>)
      BY <2>1, BareStreams
    <3> QED BY <3>1, <3>2
  <2>3. Good(NoStream, <<>>, 0, 0) /\ Proper(NoStream, 0)
    BY <2>1, <2>2, BareGood
  <2> QED BY <2>1, <2>2, <2>3 DEF StreamInv, Typed, Bare
<1>2. StreamInv /\ [Next]_vars => StreamInv'
  BY StreamStep
<1>3. StreamInv => NothingRepeated
  <2> SUFFICES ASSUME StreamInv, ~gap PROVE NothingRepeated
    BY DEF NothingRepeated
  <2>1. /\ screen \in Seq(Chunk) /\ process \in Nat /\ total \in Nat /\ stream \in Stream
        /\ Sound(screen, process, total)
    BY ScreenSound DEF StreamInv, Typed
  <2>2. PICK f \in Seq(Chunk), p \in Nat, t \in Nat : f = screen /\ Sound(f, p, t)
    BY <2>1
  <2>3. \A i, j \in DOMAIN f : i < j => f[i][1] < f[j][1] \/ (f[i][1] = f[j][1] /\ f[i][2] < f[j][2])
    BY <2>2 DEF Sound
  <2>4. ASSUME f # <<>>, f[1][1] = f[Len(f)][1]
        PROVE  f = Chunks(f[1][1], 0, Len(f))
    <3>1. PICK n \in Nat : n = Len(f) /\ n >= 1 /\ DOMAIN f = 1..n
      BY <2>4
    <3>2. \A i \in 1..n : f[i] \in Chunk
      BY <3>1
    <3>3. \A i \in 1..n : f[i] = <<f[i][1], f[i][2]>> /\ f[i][1] \in Nat
      BY <3>2 DEF Chunk
    <3>4. ASSUME NEW i \in 1..n
          PROVE  f[i] = <<f[1][1], i>>
      <4>1. f[1][1] <= f[i][1] /\ f[i][1] <= f[n][1]
        <5>1. 1 < i => f[1][1] < f[i][1] \/ f[1][1] = f[i][1]
          BY <2>3, <3>1
        <5>2. i < n => f[i][1] < f[n][1] \/ f[i][1] = f[n][1]
          BY <2>3, <3>1
        <5> QED BY <3>1, <3>3, <5>1, <5>2
      <4>2. f[i][1] = f[1][1]
        BY <2>4, <3>1, <3>3, <4>1
      <4>3. f[i][2] = i
        BY <2>2, <3>1, <4>2 DEF Sound
      <4> QED BY <3>3, <4>2, <4>3
    <3>5. PICK q \in Nat : q = f[1][1]
      BY <3>1, <3>3
    <3>6. /\ Chunks(q, 0, n) \in Seq(Chunk) /\ Len(Chunks(q, 0, n)) = n
          /\ \A i \in 1..n : Chunks(q, 0, n)[i] = <<q, i>>
      <4>1. 0 \in Nat /\ 0 <= n /\ n - 0 = n
        BY <3>1
      <4>2. /\ Chunks(q, 0, n) \in Seq(Chunk) /\ Len(Chunks(q, 0, n)) = n - 0
            /\ \A i \in 1..(n - 0) : Chunks(q, 0, n)[i] = <<q, 0 + i>>
        BY <4>1, ChunksTyped, Zenon
      <4>3. \A i \in 1..n : 0 + i = i
        BY <3>1
      <4> QED BY <4>1, <4>2, <4>3
    <3>7. PICK g \in Seq(Chunk) : g = Chunks(q, 0, n)
      BY <3>6
    <3>8. Len(f) = Len(g) /\ \A i \in 1..Len(f) : f[i] = g[i]
      BY <3>1, <3>4, <3>5, <3>6, <3>7
    <3>9. f = g
      BY <3>8, SeqEqual
    <3> QED BY <3>1, <3>5, <3>7, <3>9
  <2> QED BY <2>2, <2>3, <2>4 DEF NothingRepeated
<1> QED BY <1>1, <1>2, <1>3, PTL DEF Spec

=============================================================================
