--------------------------- MODULE PlaybackProofs ---------------------------
(***************************************************************************)
(* Proofs about Playback: the line of sound from the last frame through    *)
(* pending_pcm and the channel to the decoder's hand, and how far ahead of *)
(* it the position may be.                                                 *)
(*                                                                         *)
(* The places between the parts of the line (way) say where each part      *)
(* begins.  A decoder step adds a place at the end, a pull takes one from  *)
(* the front, a cut moves along the first stretch: none of them leaves a   *)
(* gap.  The newest seek is reached, lost, or still under way; then what   *)
(* may be cut before it (pending_pcm, the chunks with sound before the     *)
(* mark, one more for each command) and what the position already ran on   *)
(* add up to SeekSlack at most, and playing only moves sound from one term *)
(* of that sum to the other.                                               *)
(*                                                                         *)
(* TapeLags is proved on top of the line: a frame that is cut comes after  *)
(* every sample the tape still has, and a ramp reads from the front.       *)
(***************************************************************************)
EXTENDS Playback, FiniteSetTheorems, FunctionTheorems, SequenceTheorems,
        WellFoundedInduction, TLAPS

-----------------------------------------------------------------------------
(***************************************************************************)
(* Packets, samples and chunks.                                            *)
(***************************************************************************)
\* There is a longest packet.
LEMMA LongestChunk ==
  /\ MaxChunk \in ChunkLens /\ MaxChunk \in Nat \ {0}
  /\ \A k \in ChunkLens : k \in Nat /\ k <= MaxChunk
<1> DEFINE Less == OpToRel(<, Nat)
           Short == {SourceLen - k : k \in ChunkLens}
<1>1. SourceLen \in Nat /\ ChunkLens # {} /\ \A k \in ChunkLens : k \in Nat \ {0} /\ k <= SourceLen
  BY PlaybackAssumption
<1>2. Short # {} /\ Short \subseteq Nat
  BY <1>1
<1>3. IsWellFoundedOn(Less, Nat)
  BY NatLessThanWellFounded
<1>4. \A x, y \in Nat : x < y => <<x, y>> \in Less
  BY DEF OpToRel
<1> HIDE DEF Less, Short
<1>5. PICK n \in Short : \A m \in Short : ~(<<m, n>> \in Less)
  BY <1>2, <1>3, WFMin, Zenon
<1>6. \A m \in Short : n \in Nat /\ m \in Nat /\ ~(m < n)
  BY <1>2, <1>4, <1>5
<1>7. PICK l \in ChunkLens : n = SourceLen - l
  BY <1>5 DEF Short
<1>8. ASSUME NEW k \in ChunkLens PROVE k <= l
  <2>1. SourceLen - k \in Short
    BY DEF Short
  <2> QED BY <1>1, <1>6, <1>7, <2>1
<1>9. MaxChunk \in ChunkLens /\ \A k \in ChunkLens : k <= MaxChunk
  BY <1>7, <1>8 DEF MaxChunk
<1> QED BY <1>1, <1>9

\* Products with the length of the longest packet.
LEMMA Products ==
  ASSUME NEW M \in Nat, NEW a \in Nat, NEW b \in Nat
  PROVE  /\ a * M \in Nat
         /\ (a + b) * M = a * M + b * M
         /\ a <= b => a * M <= b * M
<1>1. a * M \in Nat /\ (a + b) * M = a * M + b * M
  OBVIOUS
<1>2. ASSUME a <= b PROVE a * M <= b * M
  <2>1. PICK c \in Nat : b = a + c
    <3>1. b - a \in Nat /\ b = a + (b - a)
      BY <1>2
    <3> QED BY <3>1
  <2>2. b * M = a * M + c * M /\ c * M \in Nat /\ a * M \in Nat
    BY <2>1
  <2> QED BY <2>2
<1> QED BY <1>1, <1>2

\* The samples of a packet follow the place the decoder was at.
LEMMA ChunkFollows ==
  ASSUME NEW p \in Places, NEW k \in Nat, p.at + k <= SourceLen
  PROVE  /\ Chunk(p.seek, p.at, k) \in Seq(Sound)
         /\ Len(Chunk(p.seek, p.at, k)) = k
         /\ Follow(Chunk(p.seek, p.at, k), p)
<1> DEFINE c == Chunk(p.seek, p.at, k)
<1>0. SourceLen \in Nat /\ p.seek \in 0 .. MaxSeeks /\ p.at \in 0 .. SourceLen
  BY PlaybackAssumption DEF Places
<1>1. \A i \in 1 .. k : p.at + i \in 1 .. SourceLen
  BY <1>0
<1>2. \A i \in 1 .. k : [seek |-> p.seek, at |-> p.at + i] \in Sound
  BY <1>0, <1>1 DEF Sound
<1>3. c = [i \in 1 .. k |-> [seek |-> p.seek, at |-> p.at + i]]
  BY DEF Chunk
<1>4. c \in [1 .. k -> Sound] /\ DOMAIN c = 1 .. k
  BY <1>2, <1>3
<1>5. c \in Seq(Sound) /\ Len(c) = k
  BY <1>4
<1>6. Follow(c, p)
  BY <1>3, <1>4 DEF Follow
<1> QED BY <1>5, <1>6

\* Samples that follow samples.
LEMMA FollowsOn ==
  ASSUME NEW s \in Seq(Sound), NEW t \in Seq(Sound), NEW p \in Places, NEW q \in Places,
         Follow(s, p), Follow(t, q), q = [seek |-> p.seek, at |-> p.at + Len(s)]
  PROVE  Follow(s \o t, p) /\ s \o t \in Seq(Sound) /\ Len(s \o t) = Len(s) + Len(t)
<1>1. /\ s \o t \in Seq(Sound) /\ Len(s \o t) = Len(s) + Len(t)
      /\ \A i \in 1 .. Len(s) + Len(t) :
            (s \o t)[i] = IF i <= Len(s) THEN s[i] ELSE t[i - Len(s)]
  BY ConcatProperties
<1>2. DOMAIN (s \o t) = 1 .. Len(s) + Len(t) /\ Len(s) \in Nat /\ Len(t) \in Nat
  BY <1>1
<1>3. p.at \in Nat /\ q.seek = p.seek /\ q.at = p.at + Len(s)
  BY PlaybackAssumption DEF Places
<1>4. ASSUME NEW i \in 1 .. Len(s) + Len(t)
      PROVE  (s \o t)[i] = [seek |-> p.seek, at |-> p.at + i]
  <2>1. CASE i <= Len(s)
    <3>1. i \in DOMAIN s
      BY <1>2, <2>1
    <3> QED BY <1>1, <2>1, <3>1 DEF Follow
  <2>2. CASE ~(i <= Len(s))
    <3>1. i - Len(s) \in DOMAIN t
      BY <1>2, <2>2
    <3>2. t[i - Len(s)] = [seek |-> q.seek, at |-> q.at + (i - Len(s))]
      BY <3>1 DEF Follow
    <3>3. q.at + (i - Len(s)) = p.at + i
      BY <1>2, <1>3
    <3> QED BY <1>1, <1>3, <2>2, <3>2, <3>3
  <2> QED BY <2>1, <2>2
<1> QED BY <1>1, <1>2, <1>4 DEF Follow

\* A frame cut from the front of samples, and the rest.
LEMMA CutFrame ==
  ASSUME NEW s \in Seq(Sound), NEW p \in Places, Follow(s, p),
         NEW n \in Nat \ {0}, n <= Len(s)
  PROVE  LET f == SubSeq(s, 1, n)
             r == SubSeq(s, n + 1, Len(s))
             q == [seek |-> p.seek, at |-> p.at + n]
         IN  /\ f \in Seq(Sound) /\ Len(f) = n /\ Follow(f, p)
             /\ r \in Seq(Sound) /\ Len(r) = Len(s) - n /\ Follow(r, q)
             /\ q \in Places
<1> DEFINE f == SubSeq(s, 1, n)
           r == SubSeq(s, n + 1, Len(s))
           q == [seek |-> p.seek, at |-> p.at + n]
<1>0. /\ p.at \in Nat /\ p.seek \in 0 .. MaxSeeks /\ Len(s) \in Nat /\ SourceLen \in Nat
      /\ DOMAIN s = 1 .. Len(s) /\ \A i \in 1 .. Len(s) : s[i] \in Sound
  BY PlaybackAssumption DEF Places
<1>1. f \in Seq(Sound) /\ Len(f) = n /\ \A i \in 1 .. n : f[i] = s[i]
  <2>1. \A i \in 1 .. n : s[i] \in Sound
    BY <1>0
  <2>2. /\ f \in Seq(Sound) /\ Len(f) = IF 1 <= n THEN n - 1 + 1 ELSE 0
        /\ \A i \in 1 .. n - 1 + 1 : f[i] = s[1 + i - 1]
    BY <2>1, SubSeqProperties
  <2> QED BY <2>2
<1>2. r \in Seq(Sound) /\ Len(r) = Len(s) - n /\ \A i \in 1 .. Len(s) - n : r[i] = s[n + i]
  <2>1. \A i \in n + 1 .. Len(s) : s[i] \in Sound
    BY <1>0
  <2>2. /\ r \in Seq(Sound) /\ Len(r) = IF n + 1 <= Len(s) THEN Len(s) - (n + 1) + 1 ELSE 0
        /\ \A i \in 1 .. Len(s) - (n + 1) + 1 : r[i] = s[(n + 1) + i - 1]
    BY <1>0, <2>1, SubSeqProperties
  <2>3. \A i \in 1 .. Len(s) - n : r[i] = s[n + i]
    <3> TAKE i \in 1 .. Len(s) - n
    <3>1. i \in 1 .. Len(s) - (n + 1) + 1 /\ (n + 1) + i - 1 = n + i
      BY <1>0
    <3> QED BY <2>2, <3>1
  <2> HIDE DEF r
  <2>4. Len(r) = Len(s) - n
    <3>1. CASE n + 1 <= Len(s)
      BY <1>0, <2>2, <3>1
    <3>2. CASE ~(n + 1 <= Len(s))
      <4>1. \A a, b \in Nat : a <= b /\ ~(a + 1 <= b) => a = b
        OBVIOUS
      <4>2. n = Len(s)
        BY <1>0, <3>2, <4>1
      <4>3. Len(r) = 0
        BY <2>2, <3>2
      <4> QED BY <1>0, <4>2, <4>3
    <3> QED BY <3>1, <3>2
  <2> QED BY <2>2, <2>3, <2>4
<1> HIDE DEF f, r
<1>3. Follow(f, p)
  <2> SUFFICES ASSUME NEW i \in DOMAIN f PROVE f[i] = [seek |-> p.seek, at |-> p.at + i]
    BY DEF Follow
  <2>1. i \in 1 .. n /\ i \in DOMAIN s
    BY <1>0, <1>1
  <2> QED BY <1>1, <2>1 DEF Follow
<1>4. Follow(r, q)
  <2> SUFFICES ASSUME NEW i \in DOMAIN r PROVE r[i] = [seek |-> p.seek, at |-> p.at + n + i]
    BY DEF Follow
  <2>1. i \in 1 .. Len(s) - n /\ n + i \in DOMAIN s
    BY <1>0, <1>2
  <2>2. s[n + i] = [seek |-> p.seek, at |-> p.at + (n + i)]
    BY <2>1 DEF Follow
  <2>3. p.at + (n + i) = p.at + n + i
    BY <1>0, <2>1
  <2> QED BY <1>2, <2>1, <2>2, <2>3
<1>5. q \in Places
  <2>1. s[n] = [seek |-> p.seek, at |-> p.at + n] /\ s[n] \in Sound
    BY <1>0 DEF Follow
  <2>2. p.at + n \in 1 .. SourceLen
    BY <2>1 DEF Sound
  <2> QED BY <1>0, <2>2 DEF Places
<1> QED BY <1>1, <1>2, <1>3, <1>4, <1>5 DEF f, r

-----------------------------------------------------------------------------
(***************************************************************************)
(* Counting the chunks with sound.                                         *)
(***************************************************************************)
\* Sounding, of any sequence of chunks.
Loud(q, n)  == {i \in 1 .. n : q[i] # <<>>}
Count(q, n) == Cardinality(Loud(q, n))

\* It is a number, and n at most.
LEMMA CountType ==
  ASSUME NEW q, NEW n \in Nat
  PROVE  IsFiniteSet(Loud(q, n)) /\ Count(q, n) \in Nat /\ Count(q, n) <= n
<1>1. IsFiniteSet(1 .. n) /\ Cardinality(1 .. n) = n
  BY FS_Interval
<1>2. Loud(q, n) \subseteq 1 .. n
  BY DEF Loud
<1>3. IsFiniteSet(Loud(q, n)) /\ Cardinality(Loud(q, n)) <= Cardinality(1 .. n)
  BY <1>1, <1>2, FS_Subset
<1> QED BY <1>1, <1>3, FS_CardinalityType DEF Count

\* A chunk is pushed.
LEMMA CountAppend ==
  ASSUME NEW S, NEW q \in Seq(S), NEW c \in S
  PROVE  /\ \A n \in 0 .. Len(q) : Count(Append(q, c), n) = Count(q, n)
         /\ Count(Append(q, c), Len(q) + 1)
              = Count(q, Len(q)) + (IF c # <<>> THEN 1 ELSE 0)
<1>1. /\ Len(q) \in Nat /\ Append(q, c)[Len(q) + 1] = c
      /\ \A i \in 1 .. Len(q) : Append(q, c)[i] = q[i]
  BY AppendProperties
<1>2. \A n \in 0 .. Len(q) : Loud(Append(q, c), n) = Loud(q, n)
  BY <1>1 DEF Loud
<1>3. CASE c = <<>>
  <2>1. Loud(Append(q, c), Len(q) + 1) = Loud(q, Len(q))
    BY <1>1, <1>3 DEF Loud
  <2> QED BY <1>1, <1>2, <1>3, <2>1, CountType DEF Count
<1>4. CASE c # <<>>
  <2>1. Loud(Append(q, c), Len(q) + 1) = Loud(q, Len(q)) \cup {Len(q) + 1}
    BY <1>1, <1>4 DEF Loud
  <2>2. Len(q) + 1 \notin Loud(q, Len(q))
    BY <1>1 DEF Loud
  <2>3. Cardinality(Loud(q, Len(q)) \cup {Len(q) + 1}) = Cardinality(Loud(q, Len(q))) + 1
    BY <1>1, <2>2, CountType, FS_AddElement
  <2> QED BY <1>2, <1>4, <2>1, <2>3 DEF Count
<1> QED BY <1>3, <1>4

\* A chunk is pulled.
LEMMA CountTail ==
  ASSUME NEW S, NEW q \in Seq(S), q # <<>>, NEW n \in 1 .. Len(q)
  PROVE  Count(Tail(q), n - 1) = Count(q, n) - (IF q[1] # <<>> THEN 1 ELSE 0)
<1>0. Len(q) \in Nat /\ n \in Nat /\ n - 1 \in Nat
  OBVIOUS
<1>1. \A i \in 1 .. n - 1 : Tail(q)[i] = q[i + 1]
  BY <1>0, HeadTailProperties
<1> DEFINE T == Loud(Tail(q), n - 1)
           R == Loud(q, n) \ {1}
           f == [i \in T |-> i + 1]
<1>2. \A i \in T : i \in 1 .. n - 1 /\ i + 1 \in R
  BY <1>0, <1>1 DEF Loud
<1>3. \A j \in R : j - 1 \in T /\ j = (j - 1) + 1
  <2> TAKE j \in R
  <2>1. j \in 2 .. n /\ q[j] # <<>> /\ j - 1 \in 1 .. n - 1 /\ (j - 1) + 1 = j
    BY <1>0 DEF Loud
  <2> QED BY <1>1, <2>1 DEF Loud
<1>4. f \in [T -> R] /\ (\A a, b \in T : f[a] = f[b] => a = b) /\ \A j \in R : \E i \in T : f[i] = j
  BY <1>2, <1>3
<1>5. f \in Bijection(T, R)
  BY <1>4 DEF Bijection, Injection, Surjection, IsInjective
<1>6. IsFiniteSet(T) /\ Count(Tail(q), n - 1) = Cardinality(T) /\ IsFiniteSet(Loud(q, n))
  BY <1>0, CountType DEF Count
<1>7. Cardinality(R) = Cardinality(T)
  BY <1>5, <1>6, FS_Bijection DEF ExistsBijection
<1>8. CASE q[1] # <<>>
  <2>1. 1 \in Loud(q, n)
    BY <1>0, <1>8 DEF Loud
  <2>2. Cardinality(R) = Cardinality(Loud(q, n)) - 1
    BY <1>6, <2>1, FS_RemoveElement
  <2> QED BY <1>6, <1>7, <1>8, <2>2 DEF Count
<1>9. CASE q[1] = <<>>
  <2>1. R = Loud(q, n)
    BY <1>9 DEF Loud
  <2>2. Count(q, n) = Cardinality(R) /\ Count(q, n) \in Nat
    BY <1>0, <2>1, CountType DEF Count
  <2> QED BY <1>6, <1>7, <1>9, <2>2
<1> QED BY <1>8, <1>9

-----------------------------------------------------------------------------
(***************************************************************************)
(* The line of sound, as a relation of its parts: pending_pcm pcm of       *)
(* length m, channel ch, decoder d, last frame hd, commands cm, position   *)
(* told and number of seeks k.                                             *)
(***************************************************************************)
DecType == [pc : {"command", "mark", "packet", "push", "ended"},
            seek : 0 .. MaxSeeks, at : 0 .. SourceLen, out : Seq(Sound)]

Before(p, m) == [seek |-> p.seek, at |-> p.at - m]
Slack(k) == IF k = 0 THEN 0 ELSE FrameLen - 1 + (Capacity + 1 + k) * MaxChunk
Blur(k) == IF k = 0 THEN 0 ELSE Coarse

InHand(d, end) ==
    IF d.pc = "mark"
      THEN d.at \in Landings
      ELSE /\ d.seek = end.seek /\ d.at = end.at + Len(d.out)
           /\ Follow(d.out, end)

Lined(way, pcm, ch, d) ==
    /\ way \in [0 .. Len(ch) -> Places]
    /\ way[0].at >= Len(pcm)
    /\ Follow(pcm, Before(way[0], Len(pcm)))
    /\ \A i \in DOMAIN ch : Leads(way[i - 1], ch[i], way[i])
    /\ \A i \in 0 .. Len(ch) : /\ way[i].seek <= d.seek
                               /\ d.pc = "mark" => way[i].seek < d.seek
    /\ InHand(d, way[Len(ch)])

Ended(p, m, hd) ==
    hd # <<>> => \/ hd[FrameLen] = Before(p, m)
                 \/ hd[FrameLen].seek < p.seek /\ p.at - m \in Landings

Near(t, n, told, m, k) == told >= t /\ told - t + m + n * MaxChunk <= Slack(k)
Landed(l, n, told, m, k) == \E t \in Targets : LandsAt(t, l) /\ Near(t, n, told, m, k)

Reached(p, m, told, k) ==
    p.seek = k /\ told - (p.at - m) \in -Blur(k) .. Slack(k) + Blur(k)
Lost(p, d, cm, k)      == p.seek < k /\ d.seek + Len(cm) < k
Asked(p, m, n, d, cm, told, k) ==
    /\ p.seek < k /\ cm # <<>>
    /\ Near(cm[Len(cm)], n + Len(cm) - (IF d.pc = "command" THEN 1 ELSE 0), told, m, k)
Sought(p, m, n, d, cm, told, k) ==
    p.seek < k /\ cm = <<>> /\ d.pc = "mark" /\ Landed(d.at, n, told, m, k)
Marked(way, m, ch, cm, told, k) ==
    \E i \in DOMAIN ch : /\ cm = <<>> /\ ch[i] = <<>> /\ way[i].seek = k
                         /\ \A j \in 0 .. i - 1 : way[j].seek < k
                         /\ Landed(way[i].at, Count(ch, i), told, m, k)

Newest(way, m, ch, d, cm, told, k) ==
    \/ Reached(way[0], m, told, k)
    \/ Lost(way[0], d, cm, k)
    \/ Asked(way[0], m, Count(ch, Len(ch)), d, cm, told, k)
    \/ Sought(way[0], m, Count(ch, Len(ch)), d, cm, told, k)
    \/ Marked(way, m, ch, cm, told, k)

\* SoundIsInLine says just this.
LEMMA LineIs ==
  SoundIsInLine <=>
    (mixed => \E way \in [0 .. Len(chan) -> Places] :
                 /\ Lined(way, flow.pcm, chan, dec)
                 /\ Ended(way[0], Len(flow.pcm), cut)
                 /\ Newest(way, Len(flow.pcm), chan, dec, cmds, Told, seeks))
<1>1. ASSUME NEW way \in [0 .. Len(chan) -> Places]
      PROVE  InLine(way) <=> Lined(way, flow.pcm, chan, dec)
  BY DEF InLine, Lined, InHand, Front, Before
<1>2. ASSUME NEW way \in [0 .. Len(chan) -> Places]
      PROVE  FollowsCut(way) <=> Ended(way[0], Len(flow.pcm), cut)
  BY DEF FollowsCut, Ended, Front, Before
<1>3. /\ SeekSlack = Slack(seeks) /\ Off = Blur(seeks)
      /\ \A n : Sounding(n) = Count(chan, n)
  BY DEF SeekSlack, Slack, Off, Blur, Sounding, Count, Loud
<1>4. /\ \A t, n : OnItsWay(t, n) <=> Near(t, n, Told, Len(flow.pcm), seeks)
      /\ \A l, n : LandedOnItsWay(l, n) <=> Landed(l, n, Told, Len(flow.pcm), seeks)
  BY <1>3 DEF OnItsWay, Near, LandedOnItsWay, Landed
<1>5. ASSUME NEW way \in [0 .. Len(chan) -> Places]
      PROVE  SeekIsNear(way) <=> Newest(way, Len(flow.pcm), chan, dec, cmds, Told, seeks)
  <2>1. Front(way[0]).at = way[0].at - Len(flow.pcm)
    BY DEF Front
  <2> QED BY <1>3, <1>4, <2>1, Zenon DEF SeekIsNear, Newest, Reached, Lost, Asked, Sought, Marked
<1> QED BY <1>1, <1>2, <1>5 DEF SoundIsInLine

\* The sizes of the model.
LEMMA Sizes ==
  /\ SourceLen \in Nat /\ MaxSeeks \in Nat /\ FrameLen \in Nat \ {0} /\ Capacity \in Nat \ {0}
  /\ MaxChunk \in Nat \ {0} /\ Coarse \in Nat
<1> QED BY LongestChunk, PlaybackAssumption

\* The numbers of the model.
LEMMA Numbers ==
  /\ SourceLen \in Nat /\ MaxSeeks \in Nat /\ FrameLen \in Nat \ {0} /\ Capacity \in Nat \ {0}
  /\ MaxChunk \in Nat \ {0}
  /\ \A t \in Targets : t \in 0 .. SourceLen
  /\ \A p \in Places : p.seek \in 0 .. MaxSeeks /\ p.at \in 0 .. SourceLen
                       /\ p = [seek |-> p.seek, at |-> p.at]
  /\ \A k \in Nat : Slack(k) \in Nat
<1>1. MaxChunk \in Nat \ {0}
  BY LongestChunk
<1>2. ASSUME NEW k \in Nat PROVE Slack(k) \in Nat
  <2>1. Capacity + 1 + k \in Nat /\ FrameLen - 1 \in Nat
    BY PlaybackAssumption
  <2>2. (Capacity + 1 + k) * MaxChunk \in Nat
    BY <1>1, <2>1, Products
  <2> QED BY <2>1, <2>2 DEF Slack
<1> QED BY <1>1, <1>2, PlaybackAssumption DEF Places

\* A seek stays as near when what is played is added to the position.
LEMMA NearKept ==
  ASSUME NEW t \in Nat, NEW k \in Nat,
         NEW n \in Nat, NEW told \in Nat, NEW m \in Nat,
         NEW n1 \in Nat, NEW told1 \in Nat, NEW m1 \in Nat,
         Near(t, n, told, m, k), told1 >= told,
         told1 + m1 + n1 * MaxChunk <= told + m + n * MaxChunk
  PROVE  Near(t, n1, told1, m1, k)
<1>1. n * MaxChunk \in Nat /\ n1 * MaxChunk \in Nat /\ Slack(k) \in Nat
  BY Numbers, Products
<1> DEFINE a == n * MaxChunk
           b == n1 * MaxChunk
<1>2. told >= t /\ told - t + m + a <= Slack(k)
  BY DEF Near
<1> HIDE DEF a, b
<1>3. a \in Nat /\ b \in Nat /\ told1 + m1 + b <= told + m + a
  BY <1>1 DEF a, b
<1>4. told1 >= t /\ told1 - t + m1 + b <= Slack(k)
  BY <1>1, <1>2, <1>3
<1> QED BY <1>4 DEF Near, b

-----------------------------------------------------------------------------
(***************************************************************************)
(* What the decoder does to the line.                                      *)
(***************************************************************************)
\* The places of the line and the seeks that led there.
LEMMA WayParts ==
  ASSUME NEW way, NEW pcm, NEW ch \in Seq(Seq(Sound)), NEW d \in DecType,
         Lined(way, pcm, ch, d)
  PROVE  /\ Len(ch) \in Nat /\ DOMAIN ch = 1 .. Len(ch) /\ d.seek \in Nat
         /\ \A i \in 0 .. Len(ch) :
               /\ way[i] \in Places /\ way[i].seek \in Nat /\ way[i].at \in Nat
               /\ way[i].seek <= d.seek /\ (d.pc = "mark" => way[i].seek < d.seek)
<1>1. \A i \in 0 .. Len(ch) : /\ way[i] \in Places
                              /\ way[i].seek <= d.seek /\ (d.pc = "mark" => way[i].seek < d.seek)
  <2>1. way \in [0 .. Len(ch) -> Places]
    BY Zenon DEF Lined
  <2>2. \A i \in 0 .. Len(ch) : /\ way[i].seek <= d.seek
                                /\ d.pc = "mark" => way[i].seek < d.seek
    BY Zenon DEF Lined
  <2>3. \A i \in 0 .. Len(ch) : way[i] \in Places
    BY ONLY <2>1, Zenon
  <2> QED BY ONLY <2>2, <2>3, Zenon
<1>2. \A p \in Places : p.seek \in Nat /\ p.at \in Nat
  BY DEF Places
<1> QED BY <1>1, <1>2 DEF DecType

\* Samples, or none, in hand at the end of the line.
LEMMA LineHand ==
  ASSUME NEW way, NEW pcm \in Seq(Sound), NEW ch \in Seq(Seq(Sound)),
         NEW d \in DecType, NEW e \in DecType,
         Lined(way, pcm, ch, d), d.pc # "mark", e.pc # "mark", d.out = <<>>,
         e.seek = d.seek, e.at = d.at + Len(e.out),
         Follow(e.out, [seek |-> d.seek, at |-> d.at])
  PROVE  Lined(way, pcm, ch, e)
<1>1. way[Len(ch)] \in Places /\ Len(ch) \in Nat
  <2>1. way \in [0 .. Len(ch) -> Places]
    BY Zenon DEF Lined
  <2>2. Len(ch) \in Nat /\ Len(ch) \in 0 .. Len(ch)
    OBVIOUS
  <2> QED BY ONLY <2>1, <2>2
<1>2. /\ d.seek = way[Len(ch)].seek /\ d.at = way[Len(ch)].at + Len(d.out)
      /\ d.at \in 0 .. SourceLen
  BY DEF Lined, InHand, DecType
<1>3. d.at = way[Len(ch)].at
  BY <1>1, <1>2, Numbers
<1>4. InHand(e, way[Len(ch)])
  BY <1>2, <1>3 DEF InHand, Follow
<1> QED BY <1>4 DEF Lined

\* A seek in hand.
LEMMA LineSought ==
  ASSUME NEW way, NEW pcm \in Seq(Sound), NEW ch \in Seq(Seq(Sound)),
         NEW d \in DecType, NEW e \in DecType,
         Lined(way, pcm, ch, d), e.pc = "mark", e.seek = d.seek + 1, e.at \in Landings
  PROVE  Lined(way, pcm, ch, e)
<1>1. \A i \in 0 .. Len(ch) : way[i].seek \in Nat /\ d.seek \in Nat /\ way[i].seek <= d.seek
  BY WayParts
<1>2. \A i \in 0 .. Len(ch) : way[i].seek <= e.seek /\ way[i].seek < e.seek
  BY <1>1
<1>3. InHand(e, way[Len(ch)])
  BY DEF InHand
<1> QED BY <1>2, <1>3 DEF Lined

\* The line with a place more at its end.
Longer(way, n, p) == [i \in 0 .. n + 1 |-> IF i = n + 1 THEN p ELSE way[i]]

\* A chunk is pushed, or a mark.
LEMMA LineAppend ==
  ASSUME NEW way, NEW pcm \in Seq(Sound), NEW ch \in Seq(Seq(Sound)),
         NEW d \in DecType, NEW e \in DecType, NEW c \in Seq(Sound), NEW p \in Places,
         Lined(way, pcm, ch, d), Leads(way[Len(ch)], c, p),
         e.pc # "mark", e.out = <<>>, e.seek = d.seek,
         p = [seek |-> e.seek, at |-> e.at]
  PROVE  Lined(Longer(way, Len(ch), p), pcm, Append(ch, c), e)
<1> DEFINE w == Longer(way, Len(ch), p)
           q == Append(ch, c)
<1>0. Len(ch) \in Nat /\ DOMAIN ch = 1 .. Len(ch) /\ way \in [0 .. Len(ch) -> Places]
  BY DEF Lined
<1>1. /\ q \in Seq(Seq(Sound)) /\ Len(q) = Len(ch) + 1 /\ DOMAIN q = 1 .. Len(ch) + 1
      /\ \A i \in 1 .. Len(ch) : q[i] = ch[i]
      /\ q[Len(ch) + 1] = c
  BY <1>0, AppendProperties
<1>2. /\ w \in [0 .. Len(ch) + 1 -> Places]
      /\ w[Len(ch) + 1] = p
      /\ \A i \in 0 .. Len(ch) : w[i] = way[i]
      /\ w[0] = way[0]
  BY <1>0 DEF Longer
<1> HIDE DEF w, q
<1>3. ASSUME NEW i \in DOMAIN q PROVE Leads(w[i - 1], q[i], w[i])
  <2>1. CASE i = Len(ch) + 1
    <3>1. w[i - 1] = way[Len(ch)] /\ w[i] = p /\ q[i] = c
      BY <1>0, <1>1, <1>2, <2>1
    <3> QED BY <3>1
  <2>2. CASE i # Len(ch) + 1
    <3>1. i \in DOMAIN ch /\ i \in 0 .. Len(ch) /\ i - 1 \in 0 .. Len(ch) /\ i \in 1 .. Len(ch)
      BY <1>0, <1>1, <2>2
    <3> QED BY <1>1, <1>2, <3>1 DEF Lined
  <2> QED BY <2>1, <2>2
<1>4. ASSUME NEW i \in 0 .. Len(q) PROVE w[i].seek <= e.seek
  <2>1. CASE i = Len(ch) + 1
    BY <1>2, <2>1, Numbers DEF DecType
  <2>2. CASE i # Len(ch) + 1
    <3>1. i \in 0 .. Len(ch)
      BY <1>0, <1>1, <2>2
    <3> QED BY <1>2, <3>1, WayParts
  <2> QED BY <2>1, <2>2
<1>5. InHand(e, w[Len(q)])
  <2>1. w[Len(q)] = p /\ p.seek = e.seek /\ p.at = e.at /\ e.at \in 0 .. SourceLen
    BY <1>1, <1>2 DEF DecType
  <2>2. Len(e.out) = 0 /\ Follow(e.out, p)
    BY DEF Follow
  <2>3. p.at + Len(e.out) = e.at
    BY <2>1, <2>2
  <2> QED BY <2>1, <2>2, <2>3 DEF InHand
<1>6. w[0].at >= Len(pcm) /\ Follow(pcm, Before(w[0], Len(pcm)))
  BY <1>2 DEF Lined
<1>7. Lined(w, pcm, q, e)
  BY <1>1, <1>2, <1>3, <1>4, <1>5, <1>6 DEF Lined
<1> QED BY <1>7 DEF w, q

-----------------------------------------------------------------------------
(***************************************************************************)
(* What the mixer does to the line.                                        *)
(***************************************************************************)
\* The line without its first place.
Shorter(way, n) == [i \in 0 .. n - 1 |-> way[i + 1]]
Pulled(pcm, ch) == IF Head(ch) = <<>> THEN <<>> ELSE pcm \o Head(ch)

\* A chunk is pulled, or a mark.
LEMMA LineTail ==
  ASSUME NEW way, NEW pcm \in Seq(Sound), NEW ch \in Seq(Seq(Sound)), NEW d \in DecType,
         Lined(way, pcm, ch, d), ch # <<>>
  PROVE  LET w == Shorter(way, Len(ch))
             r == Pulled(pcm, ch)
         IN  /\ Lined(w, r, Tail(ch), d) /\ r \in Seq(Sound)
             /\ w[0] = way[1]
             /\ IF ch[1] = <<>>
                  THEN r = <<>> /\ way[1].seek > way[0].seek /\ way[1].at \in Landings
                  ELSE /\ Len(r) = Len(pcm) + Len(ch[1]) /\ way[1].seek = way[0].seek
                       /\ way[1].at = way[0].at + Len(ch[1])
                       /\ Before(way[1], Len(r)) = Before(way[0], Len(pcm))
<1> DEFINE w == Shorter(way, Len(ch))
           q == Tail(ch)
           r == Pulled(pcm, ch)
<1>0. /\ Len(ch) \in Nat \ {0} /\ DOMAIN ch = 1 .. Len(ch) /\ way \in [0 .. Len(ch) -> Places]
      /\ ch[1] = Head(ch) /\ ch[1] \in Seq(Sound)
  BY DEF Lined
<1>1. /\ q \in Seq(Seq(Sound)) /\ Len(q) = Len(ch) - 1 /\ DOMAIN q = 1 .. Len(ch) - 1
      /\ \A i \in 1 .. Len(ch) - 1 : q[i] = ch[i + 1]
  BY <1>0, HeadTailProperties
<1>2. /\ w \in [0 .. Len(ch) - 1 -> Places]
      /\ \A i \in 0 .. Len(ch) - 1 : w[i] = way[i + 1]
      /\ w[0] = way[1]
  BY <1>0 DEF Shorter
<1>3. Leads(way[0], ch[1], way[1]) /\ way[0] \in Places /\ way[1] \in Places
  <2>1. 1 \in DOMAIN ch /\ 1 - 1 = 0 /\ 0 \in 0 .. Len(ch) /\ 1 \in 0 .. Len(ch)
    BY <1>0
  <2> QED BY <1>0, <2>1 DEF Lined
<1> HIDE DEF w, q
<1>4. ASSUME NEW i \in DOMAIN q PROVE Leads(w[i - 1], q[i], w[i])
  <2>0. i \in 1 .. Len(ch) - 1 /\ i \in Nat
    BY <1>1
  <2>1. /\ i + 1 \in DOMAIN ch /\ i - 1 \in 0 .. Len(ch) - 1 /\ i \in 0 .. Len(ch) - 1
        /\ (i - 1) + 1 = i /\ (i + 1) - 1 = i
    BY <1>0, <2>0
  <2>2. Leads(way[(i + 1) - 1], ch[i + 1], way[i + 1])
    BY <2>1 DEF Lined
  <2>3. w[i - 1] = way[i] /\ w[i] = way[i + 1] /\ q[i] = ch[i + 1]
    BY <1>1, <1>2, <2>0, <2>1
  <2> QED BY <2>1, <2>2, <2>3
<1>5. ASSUME NEW i \in 0 .. Len(q)
      PROVE  w[i].seek <= d.seek /\ (d.pc = "mark" => w[i].seek < d.seek)
  <2>1. i + 1 \in 0 .. Len(ch) /\ w[i] = way[i + 1]
    BY <1>0, <1>1, <1>2
  <2> QED BY <2>1, WayParts
<1>6. InHand(d, w[Len(q)])
  <2>1. Len(q) \in 0 .. Len(ch) - 1 /\ Len(q) + 1 = Len(ch)
    BY <1>0, <1>1
  <2>2. w[Len(q)] = way[Len(ch)]
    BY <1>2, <2>1
  <2> QED BY <2>2 DEF Lined
<1>7. CASE ch[1] = <<>>
  <2>1. r = <<>> /\ r \in Seq(Sound) /\ Len(r) = 0 /\ DOMAIN r = {}
    BY <1>0, <1>7 DEF Pulled
  <2>2. way[1].seek > way[0].seek /\ way[1].at \in Landings
    BY <1>3, <1>7 DEF Leads
  <2>3. w[0].at >= Len(r) /\ Follow(r, Before(w[0], Len(r)))
    BY <1>2, <1>3, <2>1, Numbers DEF Follow
  <2>4. Lined(w, r, q, d)
    BY <1>1, <1>2, <1>4, <1>5, <1>6, <2>3 DEF Lined
  <2> QED BY <1>2, <1>7, <2>1, <2>2, <2>4 DEF w, q
<1>8. CASE ch[1] # <<>>
  <2>1. r = pcm \o ch[1]
    BY <1>0, <1>8 DEF Pulled
  <2>2. Follow(ch[1], way[0]) /\ way[1] = [seek |-> way[0].seek, at |-> way[0].at + Len(ch[1])]
    BY <1>3, <1>8 DEF Leads
  <2> DEFINE p == Before(way[0], Len(pcm))
  <2>3. way[0].at \in 0 .. SourceLen /\ way[0].seek \in 0 .. MaxSeeks
        /\ way[0] = [seek |-> way[0].seek, at |-> way[0].at]
    BY <1>3, Numbers
  <2>4. Len(pcm) \in Nat /\ way[0].at >= Len(pcm) /\ Follow(pcm, p) /\ Len(ch[1]) \in Nat
    BY <1>0 DEF Lined
  <2>5. p.seek = way[0].seek /\ p.at = way[0].at - Len(pcm)
    BY DEF Before
  <2>6. way[0].at - Len(pcm) \in 0 .. SourceLen /\ (way[0].at - Len(pcm)) + Len(pcm) = way[0].at
    <3> DEFINE x == way[0].at
               y == Len(pcm)
    <3>1. x \in 0 .. SourceLen /\ y \in Nat /\ x >= y /\ SourceLen \in Nat
      BY <2>3, <2>4, Sizes
    <3> HIDE DEF x, y
    <3>2. x - y \in 0 .. SourceLen /\ (x - y) + y = x
      BY ONLY <3>1
    <3> QED BY ONLY <3>2 DEF x, y
  <2>7. p \in Places /\ way[0] = [seek |-> p.seek, at |-> p.at + Len(pcm)]
    BY <2>3, <2>5, <2>6 DEF Before, Places
  <2> HIDE DEF p
  <2>8. Follow(r, p) /\ r \in Seq(Sound) /\ Len(r) = Len(pcm) + Len(ch[1])
    BY <1>0, <1>3, <2>1, <2>2, <2>4, <2>7, FollowsOn
  <2>9. way[1].seek = way[0].seek /\ way[1].at = way[0].at + Len(ch[1])
    BY <2>2
  <2>10. way[1].at - Len(r) = way[0].at - Len(pcm) /\ way[1].at >= Len(r)
    <3>1. /\ way[0].at \in Nat /\ Len(pcm) \in Nat /\ Len(ch[1]) \in Nat
          /\ way[0].at >= Len(pcm) /\ way[1].at = way[0].at + Len(ch[1])
          /\ Len(r) = Len(pcm) + Len(ch[1])
      BY <2>3, <2>4, <2>8, <2>9, PlaybackAssumption
    <3> QED BY ONLY <3>1
  <2>11. Before(way[1], Len(r)) = p
    BY <2>9, <2>10 DEF p, Before
  <2>12. Lined(w, r, q, d)
    BY <1>1, <1>2, <1>4, <1>5, <1>6, <2>8, <2>10, <2>11 DEF Lined
  <2> QED BY <1>2, <1>8, <2>8, <2>9, <2>11, <2>12 DEF w, q, p
<1> QED BY <1>7, <1>8

\* A frame is cut.
LEMMA LineCut ==
  ASSUME NEW way, NEW pcm \in Seq(Sound), NEW ch \in Seq(Seq(Sound)), NEW d \in DecType,
         Lined(way, pcm, ch, d), Len(pcm) >= FrameLen
  PROVE  LET f == SubSeq(pcm, 1, FrameLen)
             r == SubSeq(pcm, FrameLen + 1, Len(pcm))
         IN  /\ f \in Seq(Sound) /\ Len(f) = FrameLen /\ Follow(f, Before(way[0], Len(pcm)))
             /\ r \in Seq(Sound) /\ Len(r) = Len(pcm) - FrameLen
             /\ f[FrameLen] = Before(way[0], Len(r))
             /\ Lined(way, r, ch, d)
<1> DEFINE f == SubSeq(pcm, 1, FrameLen)
           r == SubSeq(pcm, FrameLen + 1, Len(pcm))
           p == Before(way[0], Len(pcm))
<1>0. Len(ch) \in Nat /\ way[0] \in Places /\ Len(pcm) \in Nat
  BY DEF Lined
<1>1. way[0].at \in 0 .. SourceLen /\ way[0].seek \in 0 .. MaxSeeks
  BY <1>0, Numbers
<1>2. way[0].at >= Len(pcm) /\ Follow(pcm, p)
  BY DEF Lined
<1>3. way[0].at - Len(pcm) \in 0 .. SourceLen
  BY <1>0, <1>1, <1>2, Numbers
<1>4. p \in Places /\ p.seek = way[0].seek /\ p.at = way[0].at - Len(pcm)
  BY <1>1, <1>3 DEF Before, Places
<1> HIDE DEF p
<1>5. /\ f \in Seq(Sound) /\ Len(f) = FrameLen /\ Follow(f, p)
      /\ r \in Seq(Sound) /\ Len(r) = Len(pcm) - FrameLen
      /\ Follow(r, [seek |-> p.seek, at |-> p.at + FrameLen])
  BY <1>2, <1>4, Numbers, CutFrame
<1> HIDE DEF f, r
<1>6. p.at + FrameLen = way[0].at - Len(r) /\ way[0].at >= Len(r)
  <2>1. FrameLen \in Nat /\ SourceLen \in Nat /\ Len(r) = Len(pcm) - FrameLen
    BY <1>5, PlaybackAssumption
  <2>2. \A a, l, n \in Nat : l >= n /\ a >= l => (a - l) + n = a - (l - n) /\ a >= l - n
    OBVIOUS
  <2>3. way[0].at \in Nat
    BY <1>1, <2>1
  <2> QED BY <1>0, <1>2, <1>4, <2>1, <2>2, <2>3
<1>7. FrameLen \in DOMAIN f
  BY <1>5, Numbers
<1>8. f[FrameLen] = Before(way[0], Len(r)) /\ Follow(r, Before(way[0], Len(r)))
  BY <1>4, <1>5, <1>6, <1>7 DEF Follow, Before
<1>9. Lined(way, r, ch, d)
  BY <1>6, <1>8 DEF Lined
<1> QED BY <1>5, <1>8, <1>9 DEF f, r, p

-----------------------------------------------------------------------------
(***************************************************************************)
(* How near the newest seek is.                                            *)
(***************************************************************************)
\* What NearKept needs when the position and pending_pcm are left alone.
LEMMA NearFewer ==
  ASSUME NEW t \in Nat, NEW k \in Nat, NEW told \in Nat, NEW m \in Nat,
         NEW n \in Nat, NEW n1 \in Nat, n1 <= n, Near(t, n, told, m, k)
  PROVE  Near(t, n1, told, m, k)
<1>1. n1 * MaxChunk <= n * MaxChunk /\ n * MaxChunk \in Nat /\ n1 * MaxChunk \in Nat
  BY Products, Numbers
<1> DEFINE a == n * MaxChunk
           b == n1 * MaxChunk
<1>2. a \in Nat /\ b \in Nat /\ b <= a
  BY <1>1
<1> HIDE DEF a, b
<1>3. told + m + b <= told + m + a /\ told >= told
  BY <1>2
<1> QED BY <1>3, NearKept DEF a, b

\* What is near for one target is so for where a seek landed.
LEMMA LandedKept ==
  ASSUME NEW l, NEW k, NEW n, NEW told, NEW m, NEW n1, NEW told1, NEW m1,
         Landed(l, n, told, m, k),
         \A t \in Nat : Near(t, n, told, m, k) => Near(t, n1, told1, m1, k)
  PROVE  Landed(l, n1, told1, m1, k)
<1>1. PICK t \in Targets : LandsAt(t, l) /\ Near(t, n, told, m, k)
  BY DEF Landed
<1>2. t \in Nat
  BY PlaybackAssumption
<1> QED BY <1>1, <1>2 DEF Landed

\* A seek that is reached is as far from the position as it was on its way.
LEMMA LandedReached ==
  ASSUME NEW l \in Nat, NEW n \in Nat, NEW told \in Nat, NEW k \in Nat \ {0},
         Landed(l, n, told, 0, k)
  PROVE  told - (l - 0) \in -Blur(k) .. Slack(k) + Blur(k)
<1>1. PICK t \in Targets : LandsAt(t, l) /\ Near(t, n, told, 0, k)
  BY DEF Landed
<1> DEFINE x == n * MaxChunk
<1>2. t \in Nat /\ x \in Nat /\ Slack(k) \in Nat /\ Coarse \in Nat /\ Blur(k) = Coarse
  BY PlaybackAssumption, Numbers, Sizes, Products DEF Blur
<1>3. told >= t /\ told - t + 0 + x <= Slack(k)
  BY <1>1 DEF Near
<1> HIDE DEF x
<1>4. l - t \in -Coarse .. Coarse
  BY <1>1 DEF LandsAt
<1> QED BY <1>2, <1>3, <1>4

\* A sequence is empty if its length is 0.
LEMMA EmptyLen ==
  ASSUME NEW S, NEW s \in Seq(S)
  PROVE  s = <<>> <=> Len(s) = 0
<1> QED BY EmptySeq

\* The commands: targets, the newest the last.
LEMMA Commands ==
  ASSUME NEW cm \in Seq(Targets), cm # <<>>
  PROVE  /\ Len(cm) \in Nat \ {0} /\ cm[Len(cm)] \in Targets /\ cm[Len(cm)] \in Nat
         /\ Head(cm) = cm[1] /\ Head(cm) \in Targets
         /\ Tail(cm) \in Seq(Targets) /\ Len(Tail(cm)) = Len(cm) - 1
         /\ Len(cm) = 1 => Tail(cm) = <<>>
         /\ Len(cm) > 1 => Tail(cm) # <<>> /\ Tail(cm)[Len(Tail(cm))] = cm[Len(cm)]
<1>1. Len(cm) \in Nat \ {0} /\ cm[Len(cm)] \in Targets
  OBVIOUS
<1>2. /\ Tail(cm) \in Seq(Targets) /\ Len(Tail(cm)) = Len(cm) - 1
      /\ Head(cm) = cm[1] /\ Head(cm) \in Targets
      /\ \A i \in 1 .. Len(cm) - 1 : Tail(cm)[i] = cm[i + 1]
  BY <1>1, HeadTailProperties
<1> DEFINE t == Tail(cm)
<1>3. t = <<>> <=> Len(t) = 0
  BY <1>2, EmptyLen
<1> HIDE DEF t
<1>4. Len(t) = Len(cm) - 1
  BY <1>2 DEF t
<1>5. Len(cm) = 1 => t = <<>>
  BY <1>3, <1>4
<1>6. ASSUME Len(cm) > 1 PROVE Tail(cm) # <<>> /\ Tail(cm)[Len(Tail(cm))] = cm[Len(cm)]
  <2>1. Len(Tail(cm)) \in 1 .. Len(cm) - 1 /\ Len(Tail(cm)) + 1 = Len(cm)
    BY <1>1, <1>2, <1>6
  <2>2. t # <<>>
    BY <1>1, <1>3, <1>4, <1>6
  <2>3. Tail(cm)[Len(Tail(cm))] = cm[Len(Tail(cm)) + 1]
    BY <1>2, <2>1
  <2> QED BY <2>1, <2>2, <2>3 DEF t
<1>7. cm[Len(cm)] \in Nat
  <2>1. \A u \in Targets : u \in Nat
    BY PlaybackAssumption
  <2> QED BY <1>1, <2>1
<1> QED BY <1>1, <1>2, <1>5, <1>6, <1>7 DEF t

\* The decoder goes on with what is in the commands and in the channel.
LEMMA NewestHand ==
  ASSUME NEW way, NEW m \in Nat, NEW ch \in Seq(Seq(Sound)), NEW d, NEW e,
         NEW cm \in Seq(Targets), NEW told \in Nat, NEW k \in Nat,
         Newest(way, m, ch, d, cm, told, k),
         d.pc # "mark", e.seek = d.seek,
         cm # <<>> => e.pc = "command" \/ d.pc # "command"
  PROVE  Newest(way, m, ch, e, cm, told, k)
<1>1. CASE Lost(way[0], d, cm, k)
  BY <1>1 DEF Newest, Lost
<1>2. CASE Asked(way[0], m, Count(ch, Len(ch)), d, cm, told, k)
  <2>1. cm # <<>> /\ Len(cm) \in Nat \ {0} /\ cm[Len(cm)] \in Nat
    BY <1>2, Commands DEF Asked
  <2>2. Count(ch, Len(ch)) \in Nat
    BY CountType
  <2> DEFINE a == Count(ch, Len(ch)) + Len(cm) - (IF d.pc = "command" THEN 1 ELSE 0)
             b == Count(ch, Len(ch)) + Len(cm) - (IF e.pc = "command" THEN 1 ELSE 0)
  <2>3. a \in Nat /\ b \in Nat /\ b <= a
    BY <2>1, <2>2
  <2>4. Near(cm[Len(cm)], a, told, m, k) /\ way[0].seek < k
    BY <1>2 DEF Asked
  <2> HIDE DEF a, b
  <2>5. Near(cm[Len(cm)], b, told, m, k)
    BY <2>1, <2>3, <2>4, NearFewer
  <2> QED BY <2>1, <2>4, <2>5 DEF Newest, Asked, b
<1>3. CASE Reached(way[0], m, told, k) \/ Marked(way, m, ch, cm, told, k)
  BY <1>3 DEF Newest
<1> QED BY <1>1, <1>2, <1>3 DEF Newest, Sought

\* The decoder takes a seek that fails: it will not be reached.
LEMMA NewestFails ==
  ASSUME NEW way, NEW pcm \in Seq(Sound), NEW ch \in Seq(Seq(Sound)),
         NEW d \in DecType, NEW e \in DecType, NEW m,
         NEW cm \in Seq(Targets), NEW told, NEW k \in Nat,
         Lined(way, pcm, ch, d), cm # <<>>, d.seek + Len(cm) <= k, e.seek = d.seek
  PROVE  Newest(way, m, ch, e, Tail(cm), told, k)
<1>0. Len(ch) \in Nat /\ 0 \in 0 .. Len(ch)
  OBVIOUS
<1>1. way[0].seek \in Nat /\ d.seek \in Nat /\ way[0].seek <= d.seek
  BY <1>0, WayParts
<1>2. Len(cm) \in Nat \ {0} /\ Len(Tail(cm)) = Len(cm) - 1
  BY Commands
<1>3. way[0].seek < k /\ e.seek + Len(Tail(cm)) < k
  BY <1>1, <1>2
<1> QED BY <1>3 DEF Newest, Lost

\* The decoder takes a seek and does it.
LEMMA NewestSought ==
  ASSUME NEW way, NEW pcm \in Seq(Sound), NEW ch \in Seq(Seq(Sound)),
         NEW d \in DecType, NEW e \in DecType, NEW m \in Nat,
         NEW cm \in Seq(Targets), NEW told \in Nat, NEW k \in Nat,
         Lined(way, pcm, ch, d), cm # <<>>, d.seek + Len(cm) <= k,
         Newest(way, m, ch, d, cm, told, k),
         d.pc = "command", e.pc = "mark", e.seek = d.seek + 1, LandsAt(Head(cm), e.at)
  PROVE  Newest(way, m, ch, e, Tail(cm), told, k)
<1>0. Len(ch) \in Nat /\ 0 \in 0 .. Len(ch)
  OBVIOUS
<1>1. way[0].seek \in Nat /\ d.seek \in Nat /\ way[0].seek <= d.seek
  BY <1>0, WayParts
<1>2. Len(cm) \in Nat \ {0} /\ Len(Tail(cm)) = Len(cm) - 1 /\ Head(cm) = cm[1]
  BY Commands
<1>3. way[0].seek < k
  BY <1>1, <1>2
<1>4. CASE Lost(way[0], d, cm, k)
  <2>1. e.seek + Len(Tail(cm)) < k
    BY <1>1, <1>2, <1>4 DEF Lost
  <2> QED BY <1>3, <2>1 DEF Newest, Lost
<1>5. CASE Asked(way[0], m, Count(ch, Len(ch)), d, cm, told, k)
  <2>1. Count(ch, Len(ch)) \in Nat
    BY CountType
  <2>2. Near(cm[Len(cm)], Count(ch, Len(ch)) + Len(cm) - 1, told, m, k)
    BY <1>5 DEF Asked
  <2>3. CASE Len(cm) = 1
    <3>1. Count(ch, Len(ch)) + Len(cm) - 1 = Count(ch, Len(ch))
      BY <2>1, <2>3
    <3>2. Landed(e.at, Count(ch, Len(ch)), told, m, k)
      <4>1. Head(cm) \in Targets /\ cm[Len(cm)] = Head(cm)
        BY <1>2, <2>3, Commands
      <4> QED BY <2>2, <3>1, <4>1 DEF Landed
    <3>3. Tail(cm) = <<>>
      BY <2>3, Commands
    <3> QED BY <1>3, <3>2, <3>3 DEF Newest, Sought
  <2>4. CASE Len(cm) # 1
    <3>1. Len(cm) > 1
      BY <1>2, <2>4
    <3>2. Tail(cm) # <<>> /\ Tail(cm)[Len(Tail(cm))] = cm[Len(cm)]
      BY <3>1, Commands
    <3>3. Count(ch, Len(ch)) + Len(Tail(cm)) - 0 = Count(ch, Len(ch)) + Len(cm) - 1
      BY <1>2, <2>1
    <3>4. Near(Tail(cm)[Len(Tail(cm))], Count(ch, Len(ch)) + Len(Tail(cm)) - 0, told, m, k)
      BY <2>2, <3>2, <3>3
    <3> QED BY <1>3, <3>2, <3>4 DEF Newest, Asked
  <2> QED BY <2>3, <2>4
<1>6. ~Reached(way[0], m, told, k)
  BY <1>1, <1>3 DEF Reached
<1>7. ~Sought(way[0], m, Count(ch, Len(ch)), d, cm, told, k) /\ ~Marked(way, m, ch, cm, told, k)
  BY DEF Sought, Marked
<1> QED BY <1>4, <1>5, <1>6, <1>7 DEF Newest

\* A chunk is pushed, or the mark of a seek.
LEMMA NewestAppend ==
  ASSUME NEW way, NEW pcm \in Seq(Sound), NEW ch \in Seq(Seq(Sound)),
         NEW d \in DecType, NEW e \in DecType, NEW m \in Nat, NEW c \in Seq(Sound), NEW p,
         NEW cm \in Seq(Targets), NEW told \in Nat, NEW k \in Nat,
         Lined(way, pcm, ch, d), d.seek + Len(cm) <= k,
         Newest(way, m, ch, d, cm, told, k),
         e.seek = d.seek, p.seek = d.seek, p.at = e.at,
         \/ c = <<>> /\ d.pc = "mark" /\ e.pc = "packet" /\ e.at = d.at
         \/ c # <<>> /\ d.pc = "push" /\ e.pc = "command"
  PROVE  Newest(Longer(way, Len(ch), p), m, Append(ch, c), e, cm, told, k)
<1> DEFINE w == Longer(way, Len(ch), p)
           q == Append(ch, c)
<1>0. Len(ch) \in Nat /\ DOMAIN ch = 1 .. Len(ch) /\ d.seek \in Nat /\ Len(cm) \in Nat
  BY DEF DecType
<1>1. /\ Len(q) = Len(ch) + 1 /\ DOMAIN q = 1 .. Len(ch) + 1
      /\ \A i \in 1 .. Len(ch) : q[i] = ch[i]
      /\ q[Len(ch) + 1] = c
  BY <1>0, AppendProperties
<1>2. /\ w[Len(ch) + 1] = p
      /\ \A i \in 0 .. Len(ch) : w[i] = way[i]
      /\ w[0] = way[0]
  BY <1>0 DEF Longer
<1>3. /\ \A n \in 0 .. Len(ch) : Count(q, n) = Count(ch, n)
      /\ Count(q, Len(q)) = Count(ch, Len(ch)) + (IF c # <<>> THEN 1 ELSE 0)
      /\ Count(ch, Len(ch)) \in Nat
  BY <1>0, <1>1, CountAppend, CountType
<1> HIDE DEF w, q
<1>4. CASE Reached(way[0], m, told, k)
  <2>1. Newest(w, m, q, e, cm, told, k)
    BY <1>2, <1>4 DEF Newest
  <2> QED BY <2>1 DEF w, q
<1>5. CASE Lost(way[0], d, cm, k)
  <2>1. Lost(w[0], e, cm, k)
    BY <1>2, <1>5 DEF Lost
  <2>2. Newest(w, m, q, e, cm, told, k)
    BY <2>1 DEF Newest
  <2> QED BY <2>2 DEF w, q
<1>6. CASE Asked(way[0], m, Count(ch, Len(ch)), d, cm, told, k)
  <2>1. Count(q, Len(q)) + Len(cm) - (IF e.pc = "command" THEN 1 ELSE 0)
          = Count(ch, Len(ch)) + Len(cm) - (IF d.pc = "command" THEN 1 ELSE 0)
    BY <1>0, <1>3
  <2>2. Asked(w[0], m, Count(q, Len(q)), e, cm, told, k)
    BY <1>2, <1>6, <2>1 DEF Asked
  <2>3. Newest(w, m, q, e, cm, told, k)
    BY <2>2 DEF Newest
  <2> QED BY <2>3 DEF w, q
<1>7. CASE Sought(way[0], m, Count(ch, Len(ch)), d, cm, told, k)
  <2>1. d.pc = "mark" /\ cm = <<>> /\ c = <<>> /\ way[0].seek < k /\ Len(cm) = 0
    BY <1>7 DEF Sought
  <2>2. CASE d.seek < k
    <3>1. Lost(w[0], e, cm, k)
      BY <1>0, <1>2, <2>1, <2>2 DEF Lost
    <3>2. Newest(w, m, q, e, cm, told, k)
      BY <3>1 DEF Newest
    <3> QED BY <3>2 DEF w, q
  <2>3. CASE d.seek = k
    <3> DEFINE n == Len(ch) + 1
    <3>1. n \in DOMAIN q /\ q[n] = <<>> /\ w[n].seek = k /\ w[n].at = d.at
      BY <1>0, <1>1, <1>2, <2>1, <2>3
    <3>2. ASSUME NEW j \in 0 .. n - 1 PROVE w[j].seek < k
      <4>1. j \in 0 .. Len(ch)
        BY <1>0
      <4>2. w[j] = way[j] /\ way[j].seek < d.seek
        BY <1>2, <2>1, <4>1, WayParts
      <4> QED BY <2>3, <4>2
    <3>3. Count(q, n) = Count(ch, Len(ch))
      BY <1>1, <1>3, <2>1
    <3>4. Landed(w[n].at, Count(q, n), told, m, k)
      BY <1>7, <3>1, <3>3 DEF Sought
    <3> HIDE DEF n
    <3>5. Marked(w, m, q, cm, told, k)
      BY <2>1, <3>1, <3>2, <3>4 DEF Marked
    <3>6. Newest(w, m, q, e, cm, told, k)
      BY <3>5 DEF Newest
    <3> QED BY <3>6 DEF w, q
  <2>4. d.seek < k \/ d.seek = k
    BY <1>0, <2>1
  <2> QED BY <2>2, <2>3, <2>4
<1>8. CASE Marked(way, m, ch, cm, told, k)
  <2>1. PICK i \in DOMAIN ch : /\ cm = <<>> /\ ch[i] = <<>> /\ way[i].seek = k
                               /\ \A j \in 0 .. i - 1 : way[j].seek < k
                               /\ Landed(way[i].at, Count(ch, i), told, m, k)
    BY <1>8 DEF Marked
  <2>2. i \in 1 .. Len(ch) /\ i \in 0 .. Len(ch) /\ i \in DOMAIN q
    BY <1>0, <1>1
  <2>3. q[i] = <<>> /\ w[i] = way[i] /\ Count(q, i) = Count(ch, i)
    BY <1>1, <1>2, <1>3, <2>1, <2>2
  <2>4. ASSUME NEW j \in 0 .. i - 1 PROVE w[j].seek < k
    <3>1. j \in 0 .. Len(ch)
      BY <1>0, <2>2
    <3> QED BY <1>2, <2>1, <3>1
  <2>5. Marked(w, m, q, cm, told, k)
    BY <2>1, <2>2, <2>3, <2>4 DEF Marked
  <2>6. Newest(w, m, q, e, cm, told, k)
    BY <2>5 DEF Newest
  <2> QED BY <2>6 DEF w, q
<1> QED BY <1>4, <1>5, <1>6, <1>7, <1>8 DEF Newest, w, q

\* A chunk is pulled, or a mark: the chunk's sound is pending now, and the place
\* behind a mark is reached.
LEMMA NewestTail ==
  ASSUME NEW way, NEW pcm \in Seq(Sound), NEW ch \in Seq(Seq(Sound)), NEW d \in DecType,
         NEW cm \in Seq(Targets), NEW told \in Nat, NEW k \in Nat,
         Lined(way, pcm, ch, d), ch # <<>>, d.seek + Len(cm) <= k,
         Newest(way, Len(pcm), ch, d, cm, told, k),
         Len(ch[1]) \in ChunkLens \cup {0}
  PROVE  Newest(Shorter(way, Len(ch)), Len(Pulled(pcm, ch)), Tail(ch), d, cm, told, k)
<1> DEFINE w == Shorter(way, Len(ch))
           q == Tail(ch)
           r == Pulled(pcm, ch)
           m == Len(pcm)
           n == Len(r)
           C == Count(ch, Len(ch))
           D == Count(q, Len(q))
<1>0. Len(ch) \in Nat \ {0} /\ DOMAIN ch = 1 .. Len(ch) /\ d.seek \in Nat /\ Len(cm) \in Nat
      /\ m \in Nat
  BY DEF DecType
<1>1. /\ Len(q) = Len(ch) - 1 /\ DOMAIN q = 1 .. Len(ch) - 1
      /\ \A i \in 1 .. Len(ch) - 1 : q[i] = ch[i + 1]
  BY <1>0, HeadTailProperties
<1>2. w[0] = way[1] /\ \A i \in 0 .. Len(ch) - 1 : w[i] = way[i + 1]
  BY <1>0 DEF Shorter
<1>3. /\ r \in Seq(Sound)
      /\ ch[1] = <<>> => r = <<>> /\ way[1].seek > way[0].seek
      /\ ch[1] # <<>> => /\ n = m + Len(ch[1]) /\ way[1].seek = way[0].seek
                         /\ way[1].at = way[0].at + Len(ch[1])
  <2>1. /\ r \in Seq(Sound)
        /\ IF ch[1] = <<>>
             THEN r = <<>> /\ way[1].seek > way[0].seek /\ way[1].at \in Landings
             ELSE /\ Len(r) = Len(pcm) + Len(ch[1]) /\ way[1].seek = way[0].seek
                  /\ way[1].at = way[0].at + Len(ch[1])
                  /\ Before(way[1], Len(r)) = Before(way[0], Len(pcm))
    BY LineTail, Zenon
  <2> HIDE DEF r
  <2> QED BY <2>1
<1>4. n \in Nat /\ (ch[1] = <<>> => n = 0)
  BY <1>3
<1>5. /\ 0 \in 0 .. Len(ch) /\ 1 \in 0 .. Len(ch)
      /\ way[0].seek \in Nat /\ way[0].at \in Nat /\ way[0].seek <= d.seek
      /\ way[1].seek \in Nat /\ way[1].at \in Nat /\ way[1].seek <= d.seek
      /\ d.pc = "mark" => way[1].seek < d.seek
  <2>1. 0 \in 0 .. Len(ch) /\ 1 \in 0 .. Len(ch)
    BY <1>0
  <2> QED BY <2>1, WayParts
<1>6. /\ C \in Nat /\ D \in Nat
      /\ D = C - (IF ch[1] # <<>> THEN 1 ELSE 0)
      /\ \A i \in 1 .. Len(ch) : /\ Count(ch, i) \in Nat /\ Count(q, i - 1) \in Nat
                                 /\ Count(q, i - 1) = Count(ch, i) - (IF ch[1] # <<>> THEN 1 ELSE 0)
  <2>1. \A i \in 1 .. Len(ch) : i \in Nat /\ i - 1 \in Nat
    BY <1>0
  <2>2. \A i \in 1 .. Len(ch) : Count(ch, i) \in Nat /\ Count(q, i - 1) \in Nat
    BY <2>1, CountType
  <2>3. \A i \in 1 .. Len(ch) : Count(q, i - 1) = Count(ch, i) - (IF ch[1] # <<>> THEN 1 ELSE 0)
    BY CountTail
  <2>4. Len(ch) \in 1 .. Len(ch) /\ Len(q) = Len(ch) - 1
    BY <1>0, <1>1
  <2> QED BY <2>2, <2>3, <2>4
\* What is pulled weighs no more than it did in the channel.
<1>7. ASSUME NEW t \in Nat, NEW a \in Nat, NEW b \in Nat, Near(t, a, told, m, k),
             b <= a, b = a - (IF ch[1] # <<>> THEN 1 ELSE 0)
      PROVE  Near(t, b, told, n, k)
  <2>1. CASE ch[1] = <<>>
    <3>1. b = a /\ n = 0
      BY <1>4, <1>7, <2>1
    <3> DEFINE x == a * MaxChunk
    <3>2. told + n + x <= told + m + x /\ told >= told
      <4>1. x \in Nat
        BY Sizes, Products
      <4> HIDE DEF x
      <4> QED BY <1>0, <3>1, <4>1
    <3>3. Near(t, a, told, n, k)
      BY <1>0, <1>4, <1>7, <3>2, NearKept
    <3> QED BY <3>1, <3>3
  <2>2. CASE ch[1] # <<>>
    <3>1. a = b + 1 /\ n = m + Len(ch[1])
      BY <1>3, <1>7, <2>2
    <3>2. Len(ch[1]) \in Nat /\ Len(ch[1]) <= MaxChunk
      BY LongestChunk
    <3>3. a * MaxChunk = b * MaxChunk + 1 * MaxChunk /\ b * MaxChunk \in Nat
      <4>1. b \in Nat /\ 1 \in Nat /\ MaxChunk \in Nat
        BY Sizes
      <4>2. (b + 1) * MaxChunk = b * MaxChunk + 1 * MaxChunk /\ b * MaxChunk \in Nat
        BY <4>1, Products
      <4> QED BY <3>1, <4>2
    <3>4. a * MaxChunk = b * MaxChunk + MaxChunk
      BY <3>3, Sizes
    <3> DEFINE x == a * MaxChunk
               y == b * MaxChunk
    <3>5. told + n + y <= told + m + x /\ told >= told
      <4>1. y \in Nat /\ x = y + MaxChunk /\ MaxChunk \in Nat
        BY <3>3, <3>4, Sizes
      <4> HIDE DEF x, y
      <4> QED BY <1>0, <3>1, <3>2, <4>1
    <3> QED BY <1>0, <1>4, <1>7, <3>5, NearKept
  <2> QED BY <2>1, <2>2
<1> HIDE DEF w, q, r, n, C, D
<1>8. CASE Reached(way[0], m, told, k)
  <2>1. way[0].seek = k /\ told - (way[0].at - m) \in -Blur(k) .. Slack(k) + Blur(k)
    BY <1>8 DEF Reached
  <2>2. ch[1] # <<>>
    <3>1. \A a, b, c, l, j \in Nat : b <= c /\ c + l <= j /\ a = j => ~(b > a)
      OBVIOUS
    <3>2. ~(way[1].seek > way[0].seek)
      BY <1>0, <1>5, <2>1, <3>1
    <3> QED BY <1>3, <3>2
  <2>3. way[1].seek = k /\ way[1].at - n = way[0].at - m
    <3>1. Len(ch[1]) \in Nat /\ n = m + Len(ch[1]) /\ way[1].at = way[0].at + Len(ch[1])
      BY <1>0, <1>3, <2>2
    <3>2. way[1].at - n = way[0].at - m
      BY <1>0, <1>5, <3>1
    <3> QED BY <1>3, <2>1, <2>2, <3>2
  <2>4. Reached(w[0], n, told, k)
    BY <1>2, <2>1, <2>3 DEF Reached
  <2>5. Newest(w, n, q, d, cm, told, k)
    BY <2>4 DEF Newest
  <2> QED BY <2>5 DEF w, q, r, n
<1>9. CASE Lost(way[0], d, cm, k)
  <2>1. Lost(w[0], d, cm, k)
    BY <1>0, <1>2, <1>5, <1>9 DEF Lost
  <2>2. Newest(w, n, q, d, cm, told, k)
    BY <2>1 DEF Newest
  <2> QED BY <2>2 DEF w, q, r, n
<1>10. CASE Asked(way[0], m, C, d, cm, told, k)
  <2>1. cm # <<>> /\ Len(cm) \in Nat \ {0} /\ cm[Len(cm)] \in Nat
    BY <1>10, Commands DEF Asked
  <2> DEFINE x == IF d.pc = "command" THEN 1 ELSE 0
  <2>2. Near(cm[Len(cm)], C + Len(cm) - x, told, m, k)
    BY <1>10 DEF Asked
  <2>3. C + Len(cm) - x \in Nat /\ D + Len(cm) - x \in Nat
        /\ D + Len(cm) - x <= C + Len(cm) - x
        /\ D + Len(cm) - x = (C + Len(cm) - x) - (IF ch[1] # <<>> THEN 1 ELSE 0)
    <3> DEFINE y == IF ch[1] # <<>> THEN 1 ELSE 0
    <3>1. x \in {0, 1} /\ y \in {0, 1} /\ D = C - y /\ C \in Nat /\ D \in Nat
      BY <1>6
    <3> HIDE DEF x, y
    <3>2. \A a, b, l \in Nat, u, v \in {0, 1} :
             l # 0 /\ b = a - v =>
                   /\ a + l - u \in Nat /\ b + l - u \in Nat /\ b + l - u <= a + l - u
                   /\ b + l - u = (a + l - u) - v
      OBVIOUS
    <3>3. /\ C + Len(cm) - x \in Nat /\ D + Len(cm) - x \in Nat
          /\ D + Len(cm) - x <= C + Len(cm) - x
          /\ D + Len(cm) - x = (C + Len(cm) - x) - y
      BY <2>1, <3>1, <3>2
    <3> QED BY <3>3 DEF y
  <2>4. Near(cm[Len(cm)], D + Len(cm) - x, told, n, k)
    BY <1>7, <2>1, <2>2, <2>3
  <2>5. w[0].seek < k
    BY <1>0, <1>2, <1>5, <2>1
  <2>6. Asked(w[0], n, D, d, cm, told, k)
    BY <2>1, <2>4, <2>5 DEF Asked
  <2>7. Newest(w, n, q, d, cm, told, k)
    BY <2>6 DEF Newest, D
  <2> QED BY <2>7 DEF w, q, r, n
<1>11. CASE Sought(way[0], m, C, d, cm, told, k)
  <2>1. cm = <<>> /\ d.pc = "mark" /\ Landed(d.at, C, told, m, k)
    BY <1>11 DEF Sought
  <2>2. D <= C
    BY <1>6
  <2>3. Landed(d.at, D, told, n, k)
    <3>1. \A t \in Nat : Near(t, C, told, m, k) => Near(t, D, told, n, k)
      BY <1>6, <1>7, <2>2
    <3> QED BY <2>1, <3>1, LandedKept
  <2>4. w[0].seek < k
    BY <1>0, <1>2, <1>5, <2>1
  <2>5. Sought(w[0], n, D, d, cm, told, k)
    BY <2>1, <2>3, <2>4 DEF Sought
  <2>6. Newest(w, n, q, d, cm, told, k)
    BY <2>5 DEF Newest, D
  <2> QED BY <2>6 DEF w, q, r, n
<1>12. CASE Marked(way, m, ch, cm, told, k)
  <2>1. PICK i \in DOMAIN ch : /\ cm = <<>> /\ ch[i] = <<>> /\ way[i].seek = k
                               /\ \A j \in 0 .. i - 1 : way[j].seek < k
                               /\ Landed(way[i].at, Count(ch, i), told, m, k)
    BY <1>12 DEF Marked
  <2>2. i \in 1 .. Len(ch) /\ i \in 0 .. Len(ch)
    BY <1>0
  <2>3. way[i].at \in Nat
    BY <2>2, WayParts
  <2>4. /\ Count(ch, i) \in Nat /\ Count(q, i - 1) \in Nat
        /\ Count(q, i - 1) = Count(ch, i) - (IF ch[1] # <<>> THEN 1 ELSE 0)
    BY <1>6, <2>2
  <2>5. Count(q, i - 1) <= Count(ch, i)
    BY <2>4
  <2>6. Landed(way[i].at, Count(q, i - 1), told, n, k)
    <3>1. \A t \in Nat : Near(t, Count(ch, i), told, m, k) => Near(t, Count(q, i - 1), told, n, k)
      BY <1>7, <2>4, <2>5
    <3> QED BY <2>1, <3>1, LandedKept
  <2>7. CASE i = 1
    <3>1. ch[1] = <<>> /\ n = 0 /\ way[1].seek = k
      BY <1>4, <2>1, <2>7
    <3>2. k # 0
      BY <1>3, <1>5, <3>1
    <3>3. Landed(way[1].at, Count(q, i - 1), told, 0, k) /\ way[1].at \in Nat
      BY <1>5, <2>6, <2>7, <3>1
    <3>4. told - (way[1].at - 0) \in -Blur(k) .. Slack(k) + Blur(k)
      BY <2>4, <3>2, <3>3, LandedReached
    <3>5. told - (way[1].at - n) \in -Blur(k) .. Slack(k) + Blur(k)
      BY <3>1, <3>4
    <3>6. Reached(w[0], n, told, k)
      BY <1>2, <3>1, <3>5 DEF Reached
    <3>7. Newest(w, n, q, d, cm, told, k)
      BY <3>6 DEF Newest
    <3> QED BY <3>7 DEF w, q, r, n
  <2>8. CASE i # 1
    <3> DEFINE l == i - 1
    <3>1. l \in 1 .. Len(ch) - 1 /\ l \in 0 .. Len(ch) - 1 /\ l + 1 = i
      <4>1. \A a, b \in Nat :
               b \in 1 .. a /\ b # 1 =>
                  b - 1 \in 1 .. a - 1 /\ b - 1 \in 0 .. a - 1 /\ (b - 1) + 1 = b
        OBVIOUS
      <4>2. i \in 1 .. Len(ch) /\ Len(ch) \in Nat /\ i \in Nat
        BY <1>0, <2>2
      <4> QED BY <2>8, <4>1, <4>2
    <3> HIDE DEF l
    <3>2. l \in DOMAIN q /\ q[l] = <<>> /\ w[l] = way[i]
      BY <1>1, <1>2, <2>1, <3>1
    <3>3. ASSUME NEW j \in 0 .. l - 1 PROVE w[j].seek < k
      <4>1. j + 1 \in 0 .. i - 1 /\ j \in 0 .. Len(ch) - 1
        BY <1>0, <2>2, <3>1
      <4> QED BY <1>2, <2>1, <4>1
    <3>4. Landed(w[l].at, Count(q, l), told, n, k)
      BY <2>6, <3>2 DEF l
    <3>5. Marked(w, n, q, cm, told, k)
      BY <2>1, <3>2, <3>3, <3>4 DEF Marked
    <3>6. Newest(w, n, q, d, cm, told, k)
      BY <3>5 DEF Newest
    <3> QED BY <3>6 DEF w, q, r, n
  <2> QED BY <2>7, <2>8
<1> QED BY <1>8, <1>9, <1>10, <1>11, <1>12 DEF Newest, C

\* A frame is cut: the position goes on by what is no longer pending.
LEMMA NewestCut ==
  ASSUME NEW way, NEW pcm \in Seq(Sound), NEW ch \in Seq(Seq(Sound)), NEW d \in DecType,
         NEW cm \in Seq(Targets), NEW told \in Nat, NEW k \in Nat, NEW m \in Nat, NEW n \in Nat,
         Lined(way, pcm, ch, d), Newest(way, m, ch, d, cm, told, k), m = n + FrameLen
  PROVE  Newest(way, n, ch, d, cm, told + FrameLen, k)
<1>0. /\ Len(ch) \in Nat /\ DOMAIN ch = 1 .. Len(ch) /\ d.seek \in Nat /\ Len(cm) \in Nat
      /\ FrameLen \in Nat /\ told + FrameLen \in Nat /\ Slack(k) \in Nat /\ d.at \in Nat
  <2>1. FrameLen \in Nat /\ Slack(k) \in Nat
    BY Numbers
  <2> QED BY <2>1 DEF DecType
<1>1. 0 \in 0 .. Len(ch) /\ way[0].at \in Nat
  <2>1. 0 \in 0 .. Len(ch)
    BY <1>0
  <2> QED BY <2>1, WayParts
<1>2. ASSUME NEW t \in Nat, NEW a \in Nat, Near(t, a, told, m, k)
      PROVE  Near(t, a, told + FrameLen, n, k)
  <2> DEFINE x == a * MaxChunk
  <2>1. x \in Nat
    BY Products, Numbers
  <2>2. (told + FrameLen) + n + x <= told + m + x /\ told + FrameLen >= told
    <3> HIDE DEF x
    <3> QED BY <1>0, <2>1
  <2> QED BY <1>0, <1>2, <2>2, NearKept
<1>3. CASE Reached(way[0], m, told, k)
  <2>1. (told + FrameLen) - (way[0].at - n) = told - (way[0].at - m)
    <3> DEFINE p == way[0].at
    <3>1. /\ told \in Nat /\ FrameLen \in Nat /\ n \in Nat /\ p \in Nat
          /\ m = n + FrameLen
      BY <1>0, <1>1
    <3>2. (told + FrameLen) - (p - n) = told - (p - m)
      <4> HIDE DEF p
      <4> QED BY <3>1
    <3> QED BY <3>2
  <2>2. Reached(way[0], n, told + FrameLen, k)
    BY <1>3, <2>1 DEF Reached
  <2> QED BY <2>2 DEF Newest
<1>4. CASE Lost(way[0], d, cm, k)
  BY <1>4 DEF Newest
<1>5. CASE Asked(way[0], m, Count(ch, Len(ch)), d, cm, told, k)
  <2>1. cm # <<>> /\ Len(cm) \in Nat \ {0} /\ cm[Len(cm)] \in Nat
    BY <1>5, Commands DEF Asked
  <2>2. Count(ch, Len(ch)) \in Nat
    BY <1>0, CountType
  <2>3. Count(ch, Len(ch)) + Len(cm) - (IF d.pc = "command" THEN 1 ELSE 0) \in Nat
    BY <2>1, <2>2
  <2>4. Asked(way[0], n, Count(ch, Len(ch)), d, cm, told + FrameLen, k)
    BY <1>2, <1>5, <2>1, <2>3 DEF Asked
  <2> QED BY <2>4 DEF Newest
<1>6. CASE Sought(way[0], m, Count(ch, Len(ch)), d, cm, told, k)
  <2>1. Count(ch, Len(ch)) \in Nat
    BY <1>0, CountType
  <2>2. Landed(d.at, Count(ch, Len(ch)), told + FrameLen, n, k)
    <3>1. \A t \in Nat : Near(t, Count(ch, Len(ch)), told, m, k)
                           => Near(t, Count(ch, Len(ch)), told + FrameLen, n, k)
      BY <1>2, <2>1
    <3>2. Landed(d.at, Count(ch, Len(ch)), told, m, k)
      BY <1>6 DEF Sought
    <3> QED BY <3>1, <3>2, LandedKept
  <2>3. Sought(way[0], n, Count(ch, Len(ch)), d, cm, told + FrameLen, k)
    BY <1>6, <2>2 DEF Sought
  <2> QED BY <2>3 DEF Newest
<1>7. CASE Marked(way, m, ch, cm, told, k)
  <2>1. PICK i \in DOMAIN ch : /\ cm = <<>> /\ ch[i] = <<>> /\ way[i].seek = k
                               /\ \A j \in 0 .. i - 1 : way[j].seek < k
                               /\ Landed(way[i].at, Count(ch, i), told, m, k)
    BY <1>7 DEF Marked
  <2>2. i \in 0 .. Len(ch) /\ i \in Nat
    BY <1>0
  <2>3. way[i].at \in Nat /\ Count(ch, i) \in Nat
    BY <2>2, WayParts, CountType
  <2>4. Landed(way[i].at, Count(ch, i), told + FrameLen, n, k)
    <3>1. \A t \in Nat : Near(t, Count(ch, i), told, m, k)
                           => Near(t, Count(ch, i), told + FrameLen, n, k)
      BY <1>2, <2>3
    <3> QED BY <2>1, <3>1, LandedKept
  <2>5. Marked(way, n, ch, cm, told + FrameLen, k)
    BY <2>1, <2>4 DEF Marked
  <2> QED BY <2>5 DEF Newest
<1> QED BY <1>3, <1>4, <1>5, <1>6, <1>7 DEF Newest

\* A seek is sent: what is on its way then is no more than SeekSlack.
LEMMA NewestAsked ==
  ASSUME NEW way, NEW pcm \in Seq(Sound), NEW ch \in Seq(Seq(Sound)), NEW d \in DecType,
         NEW cm \in Seq(Targets), NEW k \in Nat, NEW m \in Nat, NEW x \in Nat,
         NEW t \in Targets,
         Lined(way, pcm, ch, d), Len(ch) <= Capacity, d.seek + Len(cm) <= k,
         m + x <= FrameLen - 1 + MaxChunk
  PROVE  Newest(way, m, ch, d, IF d.pc = "ended" THEN cm ELSE Append(cm, t), t + x, k + 1)
<1>0. /\ Len(ch) \in Nat /\ d.seek \in Nat /\ Len(cm) \in Nat /\ t \in Nat /\ Capacity \in Nat
      /\ FrameLen \in Nat /\ MaxChunk \in Nat
  <2>1. t \in Nat
    BY PlaybackAssumption
  <2> QED BY <2>1, Sizes DEF DecType
<1>1. way[0].seek \in Nat /\ way[0].seek <= d.seek
  <2>1. 0 \in 0 .. Len(ch)
    BY <1>0
  <2> QED BY <2>1, WayParts
<1>2. way[0].seek < k + 1
  BY <1>0, <1>1
<1> DEFINE c == IF d.pc = "ended" THEN cm ELSE Append(cm, t)
<1>3. c \in Seq(Targets) /\ (d.pc = "ended" => Len(c) = Len(cm))
      /\ (d.pc # "ended" => Len(c) = Len(cm) + 1 /\ c[Len(c)] = t /\ c # <<>>)
  <2>1. cm \in Seq(Targets) /\ t \in Targets
    OBVIOUS
  <2>2. /\ Append(cm, t) \in Seq(Targets) /\ Append(cm, t) # <<>>
        /\ Len(Append(cm, t)) = Len(cm) + 1 /\ Append(cm, t)[Len(cm) + 1] = t
    BY ONLY <2>1, AppendProperties
  <2> QED BY <2>2
<1> HIDE DEF c
<1>4. CASE d.seek + Len(c) < k + 1
  <2>1. Newest(way, m, ch, d, c, t + x, k + 1)
    BY <1>2, <1>4 DEF Newest, Lost
  <2> QED BY <2>1 DEF c
<1>5. CASE ~(d.seek + Len(c) < k + 1)
  <2>1. d.pc # "ended"
    <3>1. d.seek + Len(cm) < k + 1
      BY <1>0
    <3> QED BY <1>3, <1>5, <3>1
  <2>2. Count(ch, Len(ch)) \in Nat /\ Count(ch, Len(ch)) <= Len(ch)
    BY <1>0, CountType
  <2> DEFINE n == Count(ch, Len(ch)) + Len(c) - (IF d.pc = "command" THEN 1 ELSE 0)
  <2>3. n \in Nat /\ n <= Capacity + (k + 1)
    <3> DEFINE u == IF d.pc = "command" THEN 1 ELSE 0
    <3>1. u \in {0, 1} /\ Len(c) = Len(cm) + 1
      BY <1>3, <2>1
    <3> HIDE DEF u
    <3>2. \A a, b, e, l, g, h \in Nat, v \in {0, 1} :
             a <= l /\ l <= g /\ e + b <= h =>
                a + (b + 1) - v \in Nat /\ a + (b + 1) - v <= g + (h + 1)
      OBVIOUS
    <3>3. n = Count(ch, Len(ch)) + (Len(cm) + 1) - u
      BY <3>1 DEF u
    <3> HIDE DEF n
    <3> QED BY <1>0, <2>2, <3>1, <3>2, <3>3
  <2>4. Capacity + (k + 1) \in Nat /\ Capacity + 1 + (k + 1) = (Capacity + (k + 1)) + 1
        /\ k + 1 # 0 /\ k + 1 \in Nat
    BY <1>0
  <2>5. n * MaxChunk <= (Capacity + (k + 1)) * MaxChunk
    BY <1>0, <2>3, <2>4, Products
  <2>6. /\ ((Capacity + (k + 1)) + 1) * MaxChunk = (Capacity + (k + 1)) * MaxChunk + 1 * MaxChunk
        /\ (Capacity + (k + 1)) * MaxChunk \in Nat /\ n * MaxChunk \in Nat
    BY <1>0, <2>3, <2>4, Products
  <2> HIDE DEF n
  <2>7. Slack(k + 1) = FrameLen - 1 + (Capacity + 1 + (k + 1)) * MaxChunk
    BY <2>4 DEF Slack
  <2> DEFINE y == n * MaxChunk
             z == (Capacity + (k + 1)) * MaxChunk
  <2>8. /\ y \in Nat /\ z \in Nat /\ y <= z
        /\ Slack(k + 1) = FrameLen - 1 + (z + MaxChunk)
    <3>1. 1 * MaxChunk = MaxChunk
      BY <1>0
    <3> QED BY <2>4, <2>5, <2>6, <2>7, <3>1
  <2> HIDE DEF y, z
  <2>9. t + x >= t /\ (t + x) - t + m + y <= Slack(k + 1)
    BY <1>0, <2>8
  <2>10. Near(t, n, t + x, m, k + 1)
    BY <2>9 DEF Near, y
  <2>11. Asked(way[0], m, Count(ch, Len(ch)), d, c, t + x, k + 1)
    BY <1>2, <1>3, <2>1, <2>10 DEF Asked, n
  <2>12. Newest(way, m, ch, d, c, t + x, k + 1)
    BY <2>11 DEF Newest
  <2> QED BY <2>12 DEF c
<1> QED BY <1>4, <1>5

-----------------------------------------------------------------------------
(***************************************************************************)
(* From the line to the specification.                                     *)
(***************************************************************************)
\* PlaybackInv without the tape: the invariant of the line.
LineInv ==
    /\ PlaybackTypeOK
    /\ OneStretch
    /\ PositionAhead
    /\ BuffersInShape
    /\ SoundIsInLine

\* The line in a state, with the numbers that go with it.
LEMMA LineNow ==
  ASSUME LineInv, mixed
  PROVE  /\ \E way : /\ Lined(way, flow.pcm, chan, dec)
                     /\ Ended(way[0], Len(flow.pcm), cut)
                     /\ Newest(way, Len(flow.pcm), chan, dec, cmds, Told, seeks)
<1> QED BY LineIs DEF LineInv

\* The types as the lemmas above use them.
LEMMA TypesNow ==
  ASSUME LineInv
  PROVE  /\ dec \in DecType /\ chan \in Seq(Seq(Sound)) /\ flow.pcm \in Seq(Sound)
         /\ cmds \in Seq(Targets) /\ seeks \in Nat /\ Told \in Nat /\ pos \in Nat
         /\ Len(flow.pcm) \in Nat /\ Len(chan) \in Nat /\ Len(cmds) \in Nat
         /\ flow \in [pcm : Seq(Sound), done : BOOLEAN]
         /\ mix \in [pc : {"idle", "load", "pull", "end"}, seen : States, filled : BOOLEAN]
<1>1. /\ dec \in DecType /\ chan \in Seq(Seq(Sound)) /\ cmds \in Seq(Targets)
      /\ flow \in [pcm : Seq(Sound), done : BOOLEAN] /\ seeks \in 0 .. MaxSeeks /\ pos \in Nat
      /\ mix \in [pc : {"idle", "load", "pull", "end"}, seen : States, filled : BOOLEAN]
  BY DEF LineInv, PlaybackTypeOK, DecType
<1>2. Told \in Nat
  BY <1>1, Numbers DEF Told
<1> QED BY <1>1, <1>2

\* The line in the next state.
LEMMA LineNext ==
  ASSUME NEW way, Lined(way, flow'.pcm, chan', dec'),
         Ended(way[0], Len(flow'.pcm), cut'),
         Newest(way, Len(flow'.pcm), chan', dec', cmds', Told', seeks')
  PROVE  SoundIsInLine'
<1>0. way \in [0 .. Len(chan') -> Places]
  BY DEF Lined
<1>1. InLine(way)'
  BY DEF InLine, Lined, InHand, Front, Before
<1>2. FollowsCut(way)'
  BY DEF FollowsCut, Ended, Front, Before
<1>3. /\ SeekSlack' = Slack(seeks') /\ Off' = Blur(seeks')
      /\ \A n : Sounding(n)' = Count(chan', n)
  BY DEF SeekSlack, Slack, Off, Blur, Sounding, Count, Loud
<1>5. SeekIsNear(way)'
  <2>1. CASE Reached(way[0], Len(flow'.pcm), Told', seeks')
    BY <1>3, <2>1 DEF SeekIsNear, Reached, Front
  <2>2. CASE Lost(way[0], dec', cmds', seeks')
    BY <2>2 DEF SeekIsNear, Lost
  <2>3. CASE Asked(way[0], Len(flow'.pcm), Count(chan', Len(chan')), dec', cmds', Told', seeks')
    <3>1. /\ way[0].seek < seeks' /\ cmds' # <<>>
          /\ OnItsWay(cmds[Len(cmds)],
                Sounding(Len(chan)) + Len(cmds) - (IF dec.pc = "command" THEN 1 ELSE 0))'
      BY <2>3, <1>3 DEF Asked, OnItsWay, Near, Sounding, Count, Loud
    <3> QED BY <3>1 DEF SeekIsNear
  <2>4. CASE Sought(way[0], Len(flow'.pcm), Count(chan', Len(chan')), dec', cmds', Told', seeks')
    <3>1. /\ way[0].seek < seeks' /\ cmds' = <<>> /\ dec'.pc = "mark"
          /\ LandedOnItsWay(dec.at, Sounding(Len(chan)))'
      BY <2>4, <1>3
      DEF Sought, Landed, LandedOnItsWay, OnItsWay, Near, Sounding, Count, Loud
    <3> QED BY <3>1 DEF SeekIsNear
  <2>5. CASE Marked(way, Len(flow'.pcm), chan', cmds', Told', seeks')
    <3>1. PICK i \in DOMAIN chan' :
                         /\ cmds' = <<>> /\ chan'[i] = <<>> /\ way[i].seek = seeks'
                         /\ \A j \in 0 .. i - 1 : way[j].seek < seeks'
                         /\ Landed(way[i].at, Count(chan', i), Told', Len(flow'.pcm), seeks')
      BY <2>5 DEF Marked
    <3>2. LandedOnItsWay(way[i].at, Sounding(i))'
      BY <3>1, <1>3 DEF Landed, LandedOnItsWay, OnItsWay, Near, Sounding, Count, Loud
    <3> QED BY <3>1, <3>2 DEF SeekIsNear
  <2> QED BY <2>1, <2>2, <2>3, <2>4, <2>5 DEF Newest
<1> QED BY <1>0, <1>1, <1>2, <1>5 DEF SoundIsInLine

\* The position follows from the line.
LEMMA AheadOf ==
  ASSUME PlaybackTypeOK, BuffersInShape, SoundIsInLine, mixed
  PROVE  PositionAhead
<1>1. PICK way : /\ Lined(way, flow.pcm, chan, dec)
                 /\ Ended(way[0], Len(flow.pcm), cut)
                 /\ Newest(way, Len(flow.pcm), chan, dec, cmds, Told, seeks)
  BY LineIs
<1> SUFFICES ASSUME cut # <<>>, mix.pc # "end", cut[FrameLen].seek = seeks
             PROVE  pos - cut[FrameLen].at \in -Off .. SeekSlack + Off
  BY DEF PositionAhead
<1>2. /\ dec \in DecType /\ chan \in Seq(Seq(Sound)) /\ cmds \in Seq(Targets)
      /\ seeks \in Nat /\ pos \in Nat /\ Len(cmds) \in Nat /\ dec.seek \in Nat
  BY DEF PlaybackTypeOK, DecType
<1>3. Told = pos
  BY <1>2 DEF Told, BuffersInShape, PlaybackTypeOK
<1>4. dec.seek + Len(cmds) <= seeks
  BY DEF BuffersInShape
<1>5. \A i \in 0 .. Len(chan) : way[i].seek \in Nat /\ way[i].seek <= dec.seek
  BY <1>1, <1>2, WayParts
<1>6. 0 \in 0 .. Len(chan) /\ DOMAIN chan = 1 .. Len(chan) /\ Len(chan) \in Nat
  BY <1>2
<1>7. way[0].seek \in Nat /\ way[0].seek <= seeks
  BY <1>2, <1>4, <1>5, <1>6
<1>8. cut[FrameLen] = Before(way[0], Len(flow.pcm))
  BY <1>1, <1>2, <1>7 DEF Ended
<1>9. way[0].seek = seeks /\ cut[FrameLen].at = way[0].at - Len(flow.pcm)
  BY <1>8 DEF Before
<1>10. ~Marked(way, Len(flow.pcm), chan, cmds, Told, seeks)
  <2> SUFFICES ASSUME NEW i \in DOMAIN chan, \A j \in 0 .. i - 1 : way[j].seek < seeks PROVE FALSE
    BY DEF Marked
  <2>1. 0 \in 0 .. i - 1
    BY <1>6
  <2> QED BY <1>2, <1>9, <2>1
<1>11. ~(way[0].seek < seeks)
  BY <1>2, <1>9
<1>12. Reached(way[0], Len(flow.pcm), pos, seeks)
  BY <1>1, <1>3, <1>10, <1>11 DEF Newest, Lost, Asked, Sought
<1>13. SeekSlack = Slack(seeks) /\ Off = Blur(seeks)
  BY DEF SeekSlack, Slack, Off, Blur
<1> QED BY <1>9, <1>12, <1>13 DEF Reached

\* In the next state too.
LEMMA AheadNext ==
  (PlaybackTypeOK /\ BuffersInShape /\ SoundIsInLine /\ mixed)' => PositionAhead'
<1>1. PlaybackTypeOK /\ BuffersInShape /\ SoundIsInLine /\ mixed => PositionAhead
  BY AheadOf
<1> QED BY <1>1, PTL

-----------------------------------------------------------------------------
(***************************************************************************)
(* The steps.                                                              *)
(***************************************************************************)
\* What every step has to give.
LEMMA Together ==
  ASSUME PlaybackTypeOK', OneStretch', BuffersInShape', SoundIsInLine',
         ~mixed' => PositionAhead', mixed' \in BOOLEAN
  PROVE  LineInv'
<1> QED BY AheadNext DEF LineInv

\* The types of the flow controller, a tick and the tape effect.
FlowType == [pcm : Seq(Sound), done : BOOLEAN]
TickType == [pc : {"idle", "load", "pull", "end"}, seen : States, filled : BOOLEAN]
TapeType == [rate : {"full", "between", "still"}, ramp : {"none", "stop", "start"},
             left : 0 .. RampLen, done : BOOLEAN, unread : Seq(Sound)]

\* The types of what a track starts with, and of what is left of one that was
\* dropped.
LEMMA EmptyTypes ==
  /\ <<>> \in Seq(Targets) /\ <<>> \in Seq(Seq(Sound)) /\ <<>> \in Seq(Sound)
  /\ EmptyFlow \in FlowType /\ IdleTick \in TickType /\ FullSpeed \in TapeType
  /\ Len(<<>>) <= Capacity /\ 0 \in 0 .. RampLen /\ RampLen \in 0 .. RampLen
<1>1. <<>> \in Seq(Targets) /\ <<>> \in Seq(Seq(Sound)) /\ <<>> \in Seq(Sound)
  BY EmptySeq
<1>2. Len(<<>>) <= Capacity /\ 0 \in 0 .. RampLen /\ RampLen \in 0 .. RampLen
  BY PlaybackAssumption
<1>3. FullSpeed \in TapeType
  BY <1>1, <1>2 DEF FullSpeed, TapeType
<1> QED BY <1>1, <1>2, <1>3 DEF EmptyFlow, FlowType, IdleTick, TickType, States

\* A track is added to the mixer before anything was decoded.
LEMMA InitInv == Init => LineInv
<1> SUFFICES ASSUME Init PROVE LineInv
  OBVIOUS
<1> USE DEF Init
<1>1. PlaybackTypeOK
  <2>1. /\ dec \in [pc : {"command", "mark", "packet", "push", "ended"},
                   seek : 0 .. MaxSeeks, at : 0 .. SourceLen, out : Seq(Sound)]
        /\ Len(chan) <= Capacity /\ flips \in 0 .. MaxFlips /\ seeks \in 0 .. MaxSeeks
    BY PlaybackAssumption, EmptyTypes
  <2>2. /\ cmds \in Seq(Targets) /\ chan \in Seq(Seq(Sound))
        /\ cut \in Seq(Sound) /\ heard \in Seq(Sound)
        /\ flow \in FlowType /\ mix \in TickType /\ tape \in TapeType
    BY EmptyTypes
  <2>3. /\ cell \in States /\ asked \in {"play", "pause", "stop"}
        /\ holders \in SUBSET {"player", "monitor"}
        /\ monitor \in {"watching", "clearing", "ended"}
        /\ tapeStop \in BOOLEAN /\ reaping \in BOOLEAN /\ mixed \in BOOLEAN /\ pos \in Nat
    BY DEF States
  <2> QED BY ONLY <2>1, <2>2, <2>3 DEF PlaybackTypeOK, FlowType, TickType, TapeType
<1>2. OneStretch
  BY DEF OneStretch
<1>3. BuffersInShape
  <2>1. MaxChunk \in Nat \ {0} /\ FrameLen \in Nat \ {0}
    BY Numbers
  <2> QED BY <2>1 DEF BuffersInShape, IdleTick, EmptyFlow
<1>4. SoundIsInLine
  <2> DEFINE p == [seek |-> 0, at |-> 0]
             way == [i \in 0 .. 0 |-> p]
  <2>1. p \in Places /\ p.seek = 0 /\ p.at = 0
    BY PlaybackAssumption DEF Places
  <2>2. way \in [0 .. 0 -> Places] /\ way[0] = p /\ \A i \in 0 .. 0 : way[i] = p
    BY <2>1
  <2>3. Len(chan) = 0 /\ DOMAIN chan = {} /\ Len(flow.pcm) = 0 /\ DOMAIN flow.pcm = {}
        /\ Len(cmds) = 0 /\ Len(dec.out) = 0 /\ DOMAIN dec.out = {}
    BY DEF EmptyFlow
  <2> HIDE DEF way, p
  <2>4. Lined(way, flow.pcm, chan, dec)
    BY <2>1, <2>2, <2>3 DEF Lined, InHand, Follow
  <2>5. Ended(way[0], Len(flow.pcm), cut)
    BY DEF Ended
  <2>6. Reached(way[0], Len(flow.pcm), Told, seeks)
    <3>1. Told = 0 /\ Slack(0) = 0 /\ Blur(0) = 0
      BY DEF Told, Slack, Blur, IdleTick
    <3> QED BY <2>1, <2>2, <2>3, <3>1 DEF Reached
  <2>7. Newest(way, Len(flow.pcm), chan, dec, cmds, Told, seeks)
    BY <2>6 DEF Newest
  <2>8. way \in [0 .. Len(chan) -> Places]
    BY <2>2, <2>3
  <2> QED BY <2>4, <2>5, <2>7, <2>8, LineIs
<1>5. PositionAhead
  BY DEF PositionAhead
<1> QED BY <1>1, <1>2, <1>3, <1>4, <1>5 DEF LineInv

\* Steps that leave the sound, the seeks and the position alone.
LEMMA QuietInv ==
  ASSUME LineInv, PlaybackTypeOK',
         UNCHANGED <<cmds, pos, dec, chan, mixed, flow, cut, heard, seeks>>,
         mix'.filled = mix.filled,
         mix' = mix \/ (mixed /\ mix.pc # "end" /\ mix'.pc # "end")
  PROVE  LineInv'
<1> USE DEF LineInv
<1>1. OneStretch'
  BY DEF OneStretch
<1>2. BuffersInShape'
  BY DEF BuffersInShape
<1>3. SoundIsInLine'
  <2>1. CASE mixed
    <3>1. PICK way : /\ Lined(way, flow.pcm, chan, dec)
                     /\ Ended(way[0], Len(flow.pcm), cut)
                     /\ Newest(way, Len(flow.pcm), chan, dec, cmds, Told, seeks)
      BY <2>1, LineNow
    <3>2. Told' = Told
      BY DEF Told
    <3>3. /\ Lined(way, flow'.pcm, chan', dec') /\ Ended(way[0], Len(flow'.pcm), cut')
          /\ Newest(way, Len(flow'.pcm), chan', dec', cmds', Told', seeks')
      BY <3>1, <3>2
    <3> QED BY <3>3, LineNext
  <2>2. CASE ~mixed
    BY <2>2 DEF SoundIsInLine
  <2> QED BY <2>1, <2>2
<1>4. ~mixed => PositionAhead'
  BY DEF PositionAhead, SeekSlack, Off
<1>5. mixed' \in BOOLEAN
  BY DEF PlaybackTypeOK
<1> QED BY <1>1, <1>2, <1>3, <1>4, <1>5, Together

\* Pause, stop and the monitor write the state cell and the handle alone.
LEMMA HandleInv ==
  ASSUME LineInv, SetPaused \/ (\E reap \in BOOLEAN : Stop(reap)) \/ GetState \/ Clear
  PROVE  LineInv'
<1>1. /\ UNCHANGED <<cmds, pos, dec, chan, mixed, flow, cut, heard, seeks, mix, tape, tapeStop>>
  BY DEF SetPaused, Stop, GetState, Clear, mixerVars
<1>2. PlaybackTypeOK'
  <2>0. PlaybackTypeOK
    BY DEF LineInv
  <2>1. CASE SetPaused
    <3>1. flips' \in 0 .. MaxFlips
      BY <2>0, <2>1, PlaybackAssumption DEF SetPaused, PlaybackTypeOK
    <3>2. /\ cell' \in States /\ asked' \in {"play", "pause", "stop"}
          /\ UNCHANGED <<holders, monitor, reaping>>
      BY <2>1 DEF SetPaused, States
    <3> QED BY <1>1, <2>0, <3>1, <3>2 DEF PlaybackTypeOK
  <2>2. CASE \E reap \in BOOLEAN : Stop(reap)
    <3>1. /\ cell' \in States /\ asked' \in {"play", "pause", "stop"} /\ flips' = flips
          /\ holders' \in SUBSET {"player", "monitor"} /\ monitor' = "ended" /\ reaping' \in BOOLEAN
      BY <2>2 DEF Stop, States
    <3> QED BY <1>1, <2>0, <3>1 DEF PlaybackTypeOK
  <2>3. CASE GetState
    <3>1. /\ cell' \in States /\ monitor' = "clearing"
          /\ UNCHANGED <<asked, holders, reaping, flips>>
      BY <2>3 DEF GetState, States
    <3> QED BY <1>1, <2>0, <3>1 DEF PlaybackTypeOK
  <2>4. CASE Clear
    <3>1. /\ cell' = cell /\ monitor' = "ended" /\ holders' = {}
          /\ UNCHANGED <<asked, reaping, flips>>
      BY <2>4 DEF Clear
    <3> QED BY <1>1, <2>0, <3>1 DEF PlaybackTypeOK
  <2> QED BY <2>1, <2>2, <2>3, <2>4
<1> QED BY <1>1, <1>2, QuietInv

\* The state is loaded.
LEMMA LoadInv ==
  ASSUME LineInv, Load
  PROVE  LineInv'
<1>0. PlaybackTypeOK /\ BuffersInShape
  BY DEF LineInv
<1>1. UNCHANGED <<cmds, pos, dec, chan, mixed, flow, cut, heard, seeks>> /\ mix.pc = "load"
  BY DEF Load, mixRest
<1>2. ~mix.filled /\ mixed
  BY <1>0, <1>1 DEF BuffersInShape, PlaybackTypeOK
<1>3. /\ mix' \in [pc : {"idle", "load", "pull", "end"}, seen : States, filled : BOOLEAN]
      /\ mix'.pc # "end" /\ mix'.filled = FALSE
  <2>1. mix' = IdleTick \/ mix' = [mix EXCEPT !.pc = "pull", !.seen = cell]
    BY DEF Load
  <2>2. CASE mix' = IdleTick
    BY <2>2, EmptyTypes DEF TickType, IdleTick
  <2>3. CASE mix' = [mix EXCEPT !.pc = "pull", !.seen = cell]
    <3>1. mix \in TickType /\ cell \in States /\ mix.filled = FALSE
      BY <1>0, <1>2 DEF PlaybackTypeOK, TickType
    <3> QED BY <2>3, <3>1 DEF TickType
  <2> QED BY <2>1, <2>2, <2>3
<1>4. tape' \in TapeType
  <2>1. \A r \in {"stop", "start"} :
           TapeTo(r) \in TapeType
    <3>1. tape \in TapeType
      BY <1>0 DEF PlaybackTypeOK, TapeType
    <3> QED BY <3>1, EmptyTypes DEF TapeTo, RateAfter, TapeType
  <2> QED BY <1>0, <2>1 DEF Load, PlaybackTypeOK, TapeType
<1>5. PlaybackTypeOK'
  BY <1>0, <1>1, <1>3, <1>4 DEF Load, mixRest, handleVars, PlaybackTypeOK, TapeType
<1>6. mix.filled = FALSE
  BY <1>0, <1>2 DEF PlaybackTypeOK
<1> QED BY <1>1, <1>2, <1>3, <1>5, <1>6, QuietInv

\* The mixer drops the track.
LEMMA DroppedInv ==
  ASSUME LineInv, PlaybackTypeOK', mixed' = FALSE, chan' = <<>>, flow' = EmptyFlow,
         mix.pc = "idle", UNCHANGED <<cmds, pos, dec, mix, cut, heard, seeks>>
  PROVE  LineInv'
<1> USE DEF LineInv
<1>1. OneStretch'
  BY DEF OneStretch
<1>2. BuffersInShape'
  <2>1. MaxChunk \in Nat \ {0} /\ FrameLen \in Nat \ {0}
    BY Numbers
  <2>2. DOMAIN chan' = {} /\ Len(flow'.pcm) = 0 /\ mix'.filled = mix.filled
    BY DEF EmptyFlow
  <2>3. Len(flow'.pcm) + (IF mix'.filled THEN FrameLen ELSE 0) <= FrameLen - 1 + MaxChunk
    BY <2>1, <2>2 DEF BuffersInShape, PlaybackTypeOK
  <2> QED BY <2>2, <2>3 DEF BuffersInShape
<1>3. SoundIsInLine'
  BY DEF SoundIsInLine
<1>4. PositionAhead'
  BY DEF PositionAhead, SeekSlack, Off
<1> QED BY <1>1, <1>2, <1>3, <1>4, Together

\* Mixer::stop_track or stop_all.
LEMMA ReapInv ==
  ASSUME LineInv, Reap
  PROVE  LineInv'
<1>0. PlaybackTypeOK
  BY DEF LineInv
<1>1. PlaybackTypeOK'
  <2>1. /\ chan' = <<>> /\ flow' = EmptyFlow /\ tape' = FullSpeed /\ mixed' = FALSE
        /\ reaping' = FALSE /\ cell' \in States
        /\ UNCHANGED <<tapeStop, asked, holders, monitor, flips, cmds, pos, dec, mix, cut, heard, seeks>>
    BY <1>0 DEF Reap, PlaybackTypeOK, States
  <2>2. /\ chan' \in Seq(Seq(Sound)) /\ Len(chan') <= Capacity /\ mixed' \in BOOLEAN
        /\ flow' \in FlowType /\ tape' \in TapeType /\ reaping' \in BOOLEAN
    BY <2>1, EmptyTypes
  <2> QED BY <1>0, <2>1, <2>2 DEF PlaybackTypeOK, FlowType, TapeType
<1> QED BY <1>1, DroppedInv DEF Reap

\* retain.
LEMMA RetainInv ==
  ASSUME LineInv, Retain
  PROVE  LineInv'
<1>0. PlaybackTypeOK /\ BuffersInShape
  BY DEF LineInv
<1>1. CASE cell = "Stopped"
  <2>1. PlaybackTypeOK'
    <3>1. /\ chan' = <<>> /\ flow' = EmptyFlow /\ tape' = FullSpeed /\ mixed' = FALSE
          /\ UNCHANGED <<tapeStop, cell, asked, holders, monitor, reaping, flips, cmds, pos, dec,
                         mix, cut, heard, seeks>>
      BY <1>1 DEF Retain, mixRest, handleVars
    <3>2. /\ chan' \in Seq(Seq(Sound)) /\ Len(chan') <= Capacity /\ mixed' \in BOOLEAN
          /\ flow' \in FlowType /\ tape' \in TapeType
      BY <3>1, EmptyTypes
    <3> QED BY <1>0, <3>1, <3>2 DEF PlaybackTypeOK, FlowType, TapeType
  <2> QED BY <1>1, <2>1, DroppedInv DEF Retain, mixRest
<1>2. CASE cell # "Stopped"
  <2>1. mix' = [mix EXCEPT !.pc = "load"] /\ mixed /\ mix.pc = "idle"
        /\ UNCHANGED <<cmds, pos, dec, chan, mixed, flow, cut, heard, seeks>>
    BY <1>2 DEF Retain, mixRest
  <2>2. PlaybackTypeOK'
    <3>1. UNCHANGED <<tapeStop, asked, holders, monitor, reaping, flips, cell, tape>>
      BY <1>2 DEF Retain, mixRest, handleVars
    <3>2. mix \in TickType
      BY <1>0 DEF PlaybackTypeOK, TickType
    <3>3. mix' \in TickType
      BY <2>1, <3>2 DEF TickType
    <3> QED BY <1>0, <2>1, <3>1, <3>3 DEF PlaybackTypeOK, TickType
  <2>3. mix'.filled = mix.filled /\ mix'.pc = "load"
    BY <1>0, <2>1 DEF PlaybackTypeOK
  <2> QED BY <2>1, <2>2, <2>3, QuietInv
<1> QED BY <1>1, <1>2

\* What a step of the decoder has to give.
LEMMA DecoderInv ==
  ASSUME LineInv, UNCHANGED decRest,
         dec' \in DecType, cmds' \in Seq(Targets), chan' \in Seq(Seq(Sound)),
         Len(chan') <= Capacity,
         \A i \in DOMAIN chan' : Len(chan'[i]) \in ChunkLens \cup {0},
         IF dec'.pc = "push" THEN Len(dec'.out) \in ChunkLens ELSE dec'.out = <<>>,
         dec'.seek + Len(cmds') <= seeks,
         mixed => SoundIsInLine'
  PROVE  LineInv'
<1> USE DEF LineInv
<1>0. UNCHANGED <<tapeStop, cell, asked, holders, monitor, reaping, flips, pos,
                  mixed, mix, flow, tape, cut, heard, seeks>>
  BY DEF decRest, handleVars, mixerVars
<1>1. PlaybackTypeOK'
  BY <1>0 DEF PlaybackTypeOK, DecType
<1>2. OneStretch'
  BY <1>0 DEF OneStretch
<1>3. BuffersInShape'
  BY <1>0 DEF BuffersInShape
<1>4. SoundIsInLine'
  BY <1>0 DEF SoundIsInLine
<1>5. PositionAhead'
  BY <1>0 DEF PositionAhead, SeekSlack, Off
<1>6. mixed' \in BOOLEAN
  BY <1>1 DEF PlaybackTypeOK
<1> QED BY <1>1, <1>2, <1>3, <1>4, <1>5, <1>6, Together

\* check_commands: nothing was asked, or a seek succeeds or fails.
LEMMA CheckCommandsInv ==
  ASSUME LineInv, CheckCommands
  PROVE  LineInv'
<1>0. /\ UNCHANGED decRest /\ chan' = chan /\ dec.pc = "command"
      /\ UNCHANGED <<pos, mix, mixed, flow, cut, heard, seeks>> /\ Told' = Told
  BY DEF CheckCommands, decRest, mixerVars, Told
<1>1. /\ dec \in DecType /\ chan \in Seq(Seq(Sound)) /\ flow.pcm \in Seq(Sound)
      /\ cmds \in Seq(Targets) /\ seeks \in Nat /\ Told \in Nat
      /\ Len(flow.pcm) \in Nat /\ Len(cmds) \in Nat
  BY TypesNow
<1>2. /\ \A i \in DOMAIN chan : Len(chan[i]) \in ChunkLens \cup {0}
      /\ dec.out = <<>> /\ dec.seek + Len(cmds) <= seeks
      /\ Len(chan) <= Capacity /\ seeks <= MaxSeeks
  BY <1>0 DEF LineInv, BuffersInShape, PlaybackTypeOK
<1>3. dec.seek \in Nat /\ dec.at \in Nat /\ dec.at + Len(<<>>) = dec.at
  BY <1>1 DEF DecType
<1>4. Follow(<<>>, [seek |-> dec.seek, at |-> dec.at])
  BY DEF Follow
<1>5. ASSUME NEW l \in 0 .. SourceLen, LandsAt(Head(cmds), l),
             cmds # <<>>, cmds' = Tail(cmds),
             dec' = [dec EXCEPT !.pc = "mark", !.seek = @ + 1, !.at = l]
      PROVE  LineInv'
  <2>1. /\ Len(cmds) \in Nat \ {0} /\ Head(cmds) \in Targets
        /\ Tail(cmds) \in Seq(Targets) /\ Len(Tail(cmds)) = Len(cmds) - 1
    BY <1>1, <1>5, Commands
  <2>2. /\ dec'.pc = "mark" /\ dec'.seek = dec.seek + 1 /\ dec'.at = l /\ dec'.out = <<>>
        /\ l \in Landings
    BY <1>1, <1>2, <1>5, <2>1 DEF DecType, Landings
  <2>3. dec.seek + 1 \in 0 .. MaxSeeks /\ l \in 0 .. SourceLen
    <3>1. MaxSeeks \in Nat
      BY PlaybackAssumption
    <3>2. \A a, c, k, b \in Nat : c # 0 /\ a + c <= k /\ k <= b => a + 1 \in 0 .. b
      OBVIOUS
    <3>3. dec.seek + 1 \in 0 .. MaxSeeks
      BY <1>1, <1>2, <1>3, <2>1, <3>1, <3>2
    <3> QED BY <2>1, <3>1, <3>3
  <2>4. dec' \in DecType
    BY <1>1, <1>5, <2>3 DEF DecType
  <2>5. dec'.seek + Len(cmds') <= seeks
    BY <1>1, <1>2, <1>3, <1>5, <2>1, <2>2
  <2>6. ASSUME mixed PROVE SoundIsInLine'
    <3>1. PICK way : /\ Lined(way, flow.pcm, chan, dec)
                     /\ Ended(way[0], Len(flow.pcm), cut)
                     /\ Newest(way, Len(flow.pcm), chan, dec, cmds, Told, seeks)
      BY <2>6, LineNow
    <3>2. Lined(way, flow.pcm, chan, dec')
      BY <1>1, <2>1, <2>2, <2>4, <3>1, LineSought
    <3>3. Newest(way, Len(flow.pcm), chan, dec', Tail(cmds), Told, seeks)
      <4>1. /\ LandsAt(Head(cmds), dec'.at) /\ cmds # <<>> /\ dec'.pc = "mark"
            /\ dec'.seek = dec.seek + 1
        BY <1>5, <2>2
      <4> QED BY <1>0, <1>1, <1>2, <2>4, <3>1, <4>1, NewestSought
    <3>4. /\ Lined(way, flow'.pcm, chan', dec') /\ Ended(way[0], Len(flow'.pcm), cut')
          /\ Newest(way, Len(flow'.pcm), chan', dec', cmds', Told', seeks')
      BY <1>0, <1>5, <3>1, <3>2, <3>3
    <3> QED BY <3>4, LineNext
  <2> QED BY <1>0, <1>1, <1>2, <1>5, <2>1, <2>2, <2>4, <2>5, <2>6, DecoderInv
<1>6. CASE cmds # <<>> /\ cmds' = Tail(cmds) /\ dec' = [dec EXCEPT !.pc = "packet"]
  <2>1. /\ Len(cmds) \in Nat \ {0}
        /\ Tail(cmds) \in Seq(Targets) /\ Len(Tail(cmds)) = Len(cmds) - 1
    BY <1>1, <1>6, Commands
  <2>2. /\ dec'.pc = "packet" /\ dec'.seek = dec.seek /\ dec'.at = dec.at /\ dec'.out = <<>>
        /\ dec' \in DecType
    BY <1>1, <1>2, <1>6 DEF DecType
  <2>3. dec'.seek + Len(cmds') <= seeks
    BY <1>1, <1>2, <1>3, <1>6, <2>1, <2>2
  <2>4. ASSUME mixed PROVE SoundIsInLine'
    <3>1. PICK way : /\ Lined(way, flow.pcm, chan, dec)
                     /\ Ended(way[0], Len(flow.pcm), cut)
      BY <2>4, LineNow
    <3>2. Lined(way, flow.pcm, chan, dec')
      BY <1>0, <1>1, <1>2, <1>3, <1>4, <2>2, <3>1, LineHand
    <3>3. Newest(way, Len(flow.pcm), chan, dec', Tail(cmds), Told, seeks)
      BY <1>1, <1>2, <1>6, <2>2, <3>1, NewestFails
    <3>4. /\ Lined(way, flow'.pcm, chan', dec') /\ Ended(way[0], Len(flow'.pcm), cut')
          /\ Newest(way, Len(flow'.pcm), chan', dec', cmds', Told', seeks')
      BY <1>0, <1>6, <3>1, <3>2, <3>3
    <3> QED BY <3>4, LineNext
  <2> QED BY <1>0, <1>1, <1>2, <1>6, <2>1, <2>2, <2>3, <2>4, DecoderInv
<1>7. CASE /\ cmds = <<>> /\ cmds' = cmds
           /\ dec' = [dec EXCEPT !.pc = IF holders = {} THEN "ended" ELSE "packet"]
  <2>1. /\ dec'.pc \in {"packet", "ended"} /\ dec'.seek = dec.seek /\ dec'.at = dec.at
        /\ dec'.out = <<>> /\ dec' \in DecType
    BY <1>1, <1>2, <1>7 DEF DecType
  <2>2. ASSUME mixed PROVE SoundIsInLine'
    <3>1. PICK way : /\ Lined(way, flow.pcm, chan, dec)
                     /\ Ended(way[0], Len(flow.pcm), cut)
                     /\ Newest(way, Len(flow.pcm), chan, dec, cmds, Told, seeks)
      BY <2>2, LineNow
    <3>2. Lined(way, flow.pcm, chan, dec')
      BY <1>0, <1>1, <1>2, <1>3, <1>4, <2>1, <3>1, LineHand
    <3>3. Newest(way, Len(flow.pcm), chan, dec', cmds, Told, seeks)
      BY <1>0, <1>1, <1>7, <2>1, <3>1, NewestHand
    <3>4. /\ Lined(way, flow'.pcm, chan', dec') /\ Ended(way[0], Len(flow'.pcm), cut')
          /\ Newest(way, Len(flow'.pcm), chan', dec', cmds', Told', seeks')
      BY <1>0, <1>7, <3>1, <3>2, <3>3
    <3> QED BY <3>4, LineNext
  <2> QED BY <1>0, <1>1, <1>2, <1>7, <2>1, <2>2, DecoderInv
<1> QED BY <1>5, <1>6, <1>7 DEF CheckCommands

\* next_packet: a packet's sound, nothing, or the end.
LEMMA NextPacketInv ==
  ASSUME LineInv, NextPacket
  PROVE  LineInv'
<1>0. /\ UNCHANGED decRest /\ chan' = chan /\ cmds' = cmds /\ dec.pc = "packet"
      /\ UNCHANGED <<pos, mix, mixed, flow, cut, heard, seeks>> /\ Told' = Told
  BY DEF NextPacket, decRest, mixerVars, Told
<1>1. /\ dec \in DecType /\ chan \in Seq(Seq(Sound)) /\ flow.pcm \in Seq(Sound)
      /\ cmds \in Seq(Targets) /\ seeks \in Nat /\ Told \in Nat
      /\ Len(flow.pcm) \in Nat /\ Len(cmds) \in Nat
  BY TypesNow
<1>2. /\ \A i \in DOMAIN chan : Len(chan[i]) \in ChunkLens \cup {0}
      /\ dec.out = <<>> /\ dec.seek + Len(cmds) <= seeks
      /\ Len(chan) <= Capacity
  BY <1>0 DEF LineInv, BuffersInShape, PlaybackTypeOK
<1>3. dec.seek \in 0 .. MaxSeeks /\ dec.at \in 0 .. SourceLen /\ dec.at \in Nat
  BY <1>1 DEF DecType
<1> DEFINE p == [seek |-> dec.seek, at |-> dec.at]
<1>4. p \in Places /\ p.seek = dec.seek /\ p.at = dec.at
  BY <1>3 DEF Places
<1>5. ASSUME NEW c \in Seq(Sound), NEW pc \in {"command", "push", "ended"},
             dec' = [pc |-> pc, seek |-> dec.seek, at |-> dec.at + Len(c), out |-> c],
             dec' \in DecType, Follow(c, p),
             IF pc = "push" THEN Len(c) \in ChunkLens ELSE c = <<>>
      PROVE  LineInv'
  <2>1. dec'.pc = pc /\ dec'.seek = dec.seek /\ dec'.at = dec.at + Len(c) /\ dec'.out = c
    BY <1>5
  <2>2. ASSUME mixed PROVE SoundIsInLine'
    <3>1. PICK way : /\ Lined(way, flow.pcm, chan, dec)
                     /\ Ended(way[0], Len(flow.pcm), cut)
                     /\ Newest(way, Len(flow.pcm), chan, dec, cmds, Told, seeks)
      BY <2>2, LineNow
    <3>2. Lined(way, flow.pcm, chan, dec')
      BY <1>0, <1>1, <1>2, <1>5, <2>1, <3>1, LineHand
    <3>3. Newest(way, Len(flow.pcm), chan, dec', cmds, Told, seeks)
      BY <1>0, <1>1, <1>5, <2>1, <3>1, NewestHand
    <3>4. /\ Lined(way, flow'.pcm, chan', dec') /\ Ended(way[0], Len(flow'.pcm), cut')
          /\ Newest(way, Len(flow'.pcm), chan', dec', cmds', Told', seeks')
      BY <1>0, <3>1, <3>2, <3>3
    <3> QED BY <3>4, LineNext
  <2> QED BY <1>0, <1>1, <1>2, <1>5, <2>1, <2>2, DecoderInv
<1> HIDE DEF p
<1>6. ASSUME NEW k \in ChunkLens, dec.at + k <= SourceLen,
             dec' = [dec EXCEPT !.pc = "push", !.at = @ + k, !.out = Chunk(dec.seek, dec.at, k)]
      PROVE  LineInv'
  <2> DEFINE c == Chunk(dec.seek, dec.at, k)
  <2>1. k \in Nat
    BY LongestChunk
  <2>2. c \in Seq(Sound) /\ Len(c) = k /\ Follow(c, p)
    BY <1>4, <1>6, <2>1, ChunkFollows
  <2> HIDE DEF c
  <2>3. dec.at + k \in 0 .. SourceLen
    BY <1>3, <1>6, <2>1
  <2>4. /\ dec' = [pc |-> "push", seek |-> dec.seek, at |-> dec.at + Len(c), out |-> c]
        /\ dec' \in DecType
    BY <1>1, <1>6, <2>2, <2>3 DEF DecType, c
  <2> QED BY <1>5, <2>2, <2>4
<1>7. ASSUME NEW pc \in {"command", "ended"}, dec' = [dec EXCEPT !.pc = pc]
      PROVE  LineInv'
  <2>1. <<>> \in Seq(Sound) /\ Follow(<<>>, p) /\ dec.at + Len(<<>>) = dec.at
    BY <1>3, EmptyTypes DEF Follow
  <2>2. dec' = [pc |-> pc, seek |-> dec.seek, at |-> dec.at, out |-> <<>>] /\ dec' \in DecType
    BY <1>1, <1>2, <1>7 DEF DecType
  <2> QED BY <1>5, <2>1, <2>2
<1> QED BY <1>6, <1>7 DEF NextPacket

\* engine.push of a mark or of a chunk; when the mixer is gone it is dropped.
LEMMA PushedInv ==
  ASSUME LineInv, UNCHANGED decRest, cmds' = cmds, NEW c \in Seq(Sound),
         Len(chan) < Capacity \/ ~mixed,
         chan' = IF mixed THEN Append(chan, c) ELSE chan,
         dec' \in DecType, dec'.seek = dec.seek, dec'.at = dec.at, dec'.out = <<>>,
         \/ c = <<>> /\ dec.pc = "mark" /\ dec'.pc = "packet"
         \/ c = dec.out /\ dec.pc = "push" /\ dec'.pc = IF mixed THEN "command" ELSE "ended"
  PROVE  LineInv'
<1>0. UNCHANGED <<pos, mix, mixed, flow, cut, heard, seeks>> /\ Told' = Told
  BY DEF decRest, mixerVars, Told
<1>1. /\ dec \in DecType /\ chan \in Seq(Seq(Sound)) /\ flow.pcm \in Seq(Sound)
      /\ cmds \in Seq(Targets) /\ seeks \in Nat /\ Told \in Nat
      /\ Len(flow.pcm) \in Nat /\ Len(cmds) \in Nat /\ Len(chan) \in Nat
  BY TypesNow
<1>2. /\ \A i \in DOMAIN chan : Len(chan[i]) \in ChunkLens \cup {0}
      /\ dec.pc = "push" => Len(dec.out) \in ChunkLens
      /\ dec.seek + Len(cmds) <= seeks
      /\ Len(chan) <= Capacity
  BY DEF LineInv, BuffersInShape, PlaybackTypeOK
<1>3. Len(c) \in ChunkLens \cup {0} /\ (dec.pc = "push" => c # <<>>)
  <2>1. Len(<<>>) = 0 /\ \A k \in ChunkLens : k # 0
    BY PlaybackAssumption
  <2> QED BY <1>2, <2>1
<1>4. /\ chan' \in Seq(Seq(Sound)) /\ Len(chan') <= Capacity
      /\ \A i \in DOMAIN chan' : Len(chan'[i]) \in ChunkLens \cup {0}
  <2>1. CASE ~mixed
    BY <1>1, <1>2, <2>1
  <2>2. CASE mixed
    <3>1. /\ Append(chan, c) \in Seq(Seq(Sound)) /\ Len(Append(chan, c)) = Len(chan) + 1
          /\ \A i \in 1 .. Len(chan) : Append(chan, c)[i] = chan[i]
          /\ Append(chan, c)[Len(chan) + 1] = c
      BY <1>1, AppendProperties
    <3>2. /\ chan' = Append(chan, c) /\ DOMAIN chan' = 1 .. Len(chan) + 1
          /\ DOMAIN chan = 1 .. Len(chan)
      BY <1>1, <2>2, <3>1
    <3>3. Len(chan) + 1 <= Capacity
      BY <1>1, <2>2, PlaybackAssumption
    <3>4. \A i \in 1 .. Len(chan) + 1 : i \in 1 .. Len(chan) \/ i = Len(chan) + 1
      BY <1>1
    <3>5. \A i \in DOMAIN chan' : Len(chan'[i]) \in ChunkLens \cup {0}
      BY <1>2, <1>3, <3>1, <3>2, <3>4
    <3> QED BY <3>1, <3>2, <3>3, <3>5
  <2> QED BY <2>1, <2>2
<1>5. ASSUME mixed PROVE SoundIsInLine'
  <2>1. PICK way : /\ Lined(way, flow.pcm, chan, dec)
                   /\ Ended(way[0], Len(flow.pcm), cut)
                   /\ Newest(way, Len(flow.pcm), chan, dec, cmds, Told, seeks)
    BY <1>5, LineNow
  <2> DEFINE p == [seek |-> dec.seek, at |-> dec.at]
  <2>2. p \in Places /\ p.seek = dec.seek /\ p.at = dec.at
    BY <1>1 DEF DecType, Places
  <2>3. 0 \in 0 .. Len(chan) /\ Len(chan) \in 0 .. Len(chan)
    BY <1>1
  <2>4. InHand(dec, way[Len(chan)])
    BY <2>1 DEF Lined
  <2>5. /\ way[Len(chan)].seek \in Nat /\ dec.seek \in Nat
        /\ dec.pc = "mark" => way[Len(chan)].seek < dec.seek
    BY <1>1, <2>1, <2>3, WayParts
  <2>6. Leads(way[Len(chan)], c, p)
    <3>1. CASE dec.pc = "mark"
      <4>1. c = <<>> /\ dec.at \in Landings
        BY <2>4, <3>1 DEF InHand
      <4>2. p.seek > way[Len(chan)].seek
        BY <2>2, <2>4, <2>5, <3>1
      <4> QED BY <2>2, <4>1, <4>2 DEF Leads
    <3>2. CASE dec.pc = "push"
      <4>1. /\ c # <<>> /\ c = dec.out /\ Follow(c, way[Len(chan)])
            /\ dec.seek = way[Len(chan)].seek /\ dec.at = way[Len(chan)].at + Len(c)
        BY <1>3, <2>4, <3>2 DEF InHand
      <4> QED BY <4>1 DEF Leads
    <3> QED BY <3>1, <3>2
  <2> HIDE DEF p
  <2>7. p = [seek |-> dec'.seek, at |-> dec'.at] /\ dec'.pc # "mark"
    BY <1>5 DEF p
  <2>8. Lined(Longer(way, Len(chan), p), flow.pcm, Append(chan, c), dec')
    BY <1>1, <2>1, <2>2, <2>6, <2>7, LineAppend
  <2>9. Newest(Longer(way, Len(chan), p), Len(flow.pcm), Append(chan, c), dec', cmds, Told, seeks)
    BY <1>1, <1>2, <1>3, <1>5, <2>1, <2>2, NewestAppend
  <2>10. Longer(way, Len(chan), p)[0] = way[0]
    BY <1>1 DEF Longer
  <2> DEFINE w == Longer(way, Len(chan), p)
  <2> HIDE DEF w
  <2>11. /\ Lined(w, flow'.pcm, chan', dec') /\ Ended(w[0], Len(flow'.pcm), cut')
         /\ Newest(w, Len(flow'.pcm), chan', dec', cmds', Told', seeks')
    BY <1>0, <1>5, <2>1, <2>8, <2>9, <2>10 DEF w
  <2> QED BY <2>11, LineNext
<1>6. IF dec'.pc = "push" THEN Len(dec'.out) \in ChunkLens ELSE dec'.out = <<>>
  OBVIOUS
<1> QED BY <1>1, <1>2, <1>4, <1>5, <1>6, DecoderInv

\* A successful seek is marked.
LEMMA MarkInv ==
  ASSUME LineInv, Mark
  PROVE  LineInv'
<1>1. dec \in DecType
  BY TypesNow
<1>2. dec.out = <<>>
  BY DEF Mark, LineInv, BuffersInShape
<1>3. /\ dec' \in DecType /\ dec'.seek = dec.seek /\ dec'.at = dec.at /\ dec'.out = <<>>
      /\ dec'.pc = "packet"
  BY <1>1, <1>2 DEF Mark, DecType
<1>4. <<>> \in Seq(Sound)
  BY EmptyTypes
<1> QED BY <1>3, <1>4, PushedInv DEF Mark

\* The sound of a packet is pushed.
LEMMA PushInv ==
  ASSUME LineInv, Push
  PROVE  LineInv'
<1>1. dec \in DecType /\ dec.out \in Seq(Sound)
  BY TypesNow DEF DecType
<1>2. /\ dec' \in DecType /\ dec'.seek = dec.seek /\ dec'.at = dec.at /\ dec'.out = <<>>
      /\ dec'.pc = IF mixed THEN "command" ELSE "ended"
  BY <1>1, EmptyTypes DEF Push, DecType
<1> QED BY <1>1, <1>2, PushedInv DEF Push

\* TrackHandle::seek: the position is set before the sound gets there.
LEMMA SeekInv ==
  ASSUME LineInv, Seek
  PROVE  LineInv'
<1>0. PICK t \in Targets : pos' = t /\ cmds' = IF dec.pc = "ended" THEN cmds ELSE Append(cmds, t)
  BY DEF Seek
<1>1. /\ UNCHANGED <<tapeStop, cell, asked, holders, monitor, reaping, flips, dec, chan,
                     mixed, mix, flow, tape, cut, heard>>
      /\ seeks' = seeks + 1 /\ seeks < MaxSeeks
  BY DEF Seek, handleVars, mixerVars
<1>2. /\ dec \in DecType /\ chan \in Seq(Seq(Sound)) /\ flow.pcm \in Seq(Sound)
      /\ cmds \in Seq(Targets) /\ seeks \in Nat
      /\ Len(flow.pcm) \in Nat /\ Len(cmds) \in Nat
  BY TypesNow
<1>3. PlaybackTypeOK /\ OneStretch /\ BuffersInShape
  BY DEF LineInv
<1>4. t \in Nat /\ seeks + 1 \in 0 .. MaxSeeks /\ dec.seek \in Nat
  BY <1>1, <1>2, PlaybackAssumption DEF DecType
<1>5. cmds' \in Seq(Targets) /\ Len(cmds') \in Nat /\ Len(cmds') <= Len(cmds) + 1
  <2>1. Append(cmds, t) \in Seq(Targets) /\ Len(Append(cmds, t)) = Len(cmds) + 1
    BY <1>2, AppendProperties
  <2>2. cmds' = cmds \/ cmds' = Append(cmds, t)
    BY <1>0
  <2>3. CASE cmds' = cmds
    BY <1>2, <2>3
  <2>4. CASE cmds' = Append(cmds, t)
    BY <1>2, <2>1, <2>4
  <2> QED BY <2>2, <2>3, <2>4
<1>6. PlaybackTypeOK'
  <2>1. pos' \in Nat /\ seeks' \in 0 .. MaxSeeks
    BY <1>0, <1>1, <1>4
  <2> QED BY <1>1, <1>3, <1>5, <2>1 DEF PlaybackTypeOK
<1>7. cut # <<>> => Len(cut) = FrameLen /\ cut[FrameLen].seek \in Nat
                      /\ cut[FrameLen].seek <= seeks
  <2> SUFFICES ASSUME cut # <<>> PROVE cut[FrameLen].seek \in Nat
    BY <1>3 DEF BuffersInShape
  <2>1. cut \in Seq(Sound) /\ Len(cut) = FrameLen
    BY <1>3 DEF BuffersInShape, PlaybackTypeOK
  <2>2. FrameLen \in 1 .. Len(cut)
    BY <2>1, PlaybackAssumption
  <2>3. cut[FrameLen] \in Sound
    BY <2>1, <2>2
  <2> QED BY <2>3 DEF Sound
<1>8. BuffersInShape'
  <2>1. dec.seek + Len(cmds) <= seeks
    BY <1>3 DEF BuffersInShape
  <2>2. dec'.seek + Len(cmds') <= seeks'
    BY <1>1, <1>2, <1>4, <1>5, <2>1
  <2>3. cut' # <<>> => Len(cut') = FrameLen /\ cut'[FrameLen].seek <= seeks'
    BY <1>1, <1>2, <1>7
  <2> QED BY <1>1, <1>3, <2>2, <2>3 DEF BuffersInShape
<1>9. OneStretch'
  BY <1>1, <1>3 DEF OneStretch
<1>10. PositionAhead'
  <2>1. cut # <<>> => cut[FrameLen].seek # seeks + 1
    BY <1>2, <1>7
  <2> QED BY <1>1, <2>1 DEF PositionAhead
<1>11. SoundIsInLine'
  <2>1. CASE ~mixed
    BY <1>1, <2>1 DEF SoundIsInLine
  <2>2. CASE mixed
    <3>1. PICK way : /\ Lined(way, flow.pcm, chan, dec)
                     /\ Ended(way[0], Len(flow.pcm), cut)
      BY <2>2, LineNow
    <3> DEFINE x == IF mix.filled THEN FrameLen ELSE 0
    <3>2. x \in Nat /\ Told' = t + x
      BY <1>0, <1>1, PlaybackAssumption DEF Told
    <3>3. Len(flow.pcm) + x <= FrameLen - 1 + MaxChunk /\ dec.seek + Len(cmds) <= seeks
          /\ Len(chan) <= Capacity
      BY <1>3 DEF BuffersInShape, PlaybackTypeOK
    <3> HIDE DEF x
    <3>4. Newest(way, Len(flow.pcm), chan, dec,
                 IF dec.pc = "ended" THEN cmds ELSE Append(cmds, t), t + x, seeks + 1)
      BY <1>2, <3>1, <3>2, <3>3, NewestAsked
    <3>5. /\ Lined(way, flow'.pcm, chan', dec') /\ Ended(way[0], Len(flow'.pcm), cut')
          /\ Newest(way, Len(flow'.pcm), chan', dec', cmds', Told', seeks')
      BY <1>0, <1>1, <3>1, <3>2, <3>4
    <3> QED BY <3>5, LineNext
  <2>3. mixed \in BOOLEAN
    BY <1>3 DEF PlaybackTypeOK
  <2> QED BY <2>1, <2>2, <2>3
<1>12. mixed' \in BOOLEAN
  BY <1>6 DEF PlaybackTypeOK
<1> QED BY <1>6, <1>8, <1>9, <1>10, <1>11, <1>12, Together

\* A tick that looks for a frame is under way.
LEMMA Pulling ==
  ASSUME LineInv, mix.pc = "pull"
  PROVE  mixed = TRUE /\ mix.filled = FALSE /\ Told = pos /\ mix \in TickType /\ pos \in Nat
<1>1. mixed = TRUE /\ mix.filled = FALSE
  BY DEF LineInv, PlaybackTypeOK, BuffersInShape
<1>2. mix \in TickType /\ pos \in Nat
  BY DEF LineInv, PlaybackTypeOK, TickType
<1> QED BY <1>1, <1>2 DEF Told

\* A frame is a stretch of one line.
LEMMA Stretch ==
  ASSUME NEW f \in Seq(Sound), NEW q, q.at \in Nat, Follow(f, q)
  PROVE  \A i \in DOMAIN f : f[i].seek = f[1].seek /\ f[i].at = f[1].at + i - 1
<1> TAKE i \in DOMAIN f
<1>1. DOMAIN f = 1 .. Len(f) /\ Len(f) \in Nat
  OBVIOUS
<1>2. i \in Nat /\ 1 \in DOMAIN f
  BY <1>1
<1>3. f[i] = [seek |-> q.seek, at |-> q.at + i] /\ f[1] = [seek |-> q.seek, at |-> q.at + 1]
  BY <1>2 DEF Follow
<1>4. f[i].seek = q.seek /\ f[1].seek = q.seek /\ f[i].at = q.at + i /\ f[1].at = q.at + 1
  BY <1>3
<1>5. \A a, j \in Nat : a + j = (a + 1) + j - 1
  OBVIOUS
<1> QED BY <1>2, <1>4, <1>5

\* Samples put behind samples.
LEMMA JoinParts ==
  ASSUME NEW s \in Seq(Sound), NEW f \in Seq(Sound)
  PROVE  /\ s \o f \in Seq(Sound) /\ Len(s \o f) = Len(s) + Len(f)
         /\ \A i \in 1 .. Len(s) : (s \o f)[i] = s[i]
         /\ \A i \in Len(s) + 1 .. Len(s) + Len(f) : (s \o f)[i] = f[i - Len(s)]
<1> QED BY ConcatProperties

\* The samples that a ramp reads, and the rest.
LEMMA ReadParts ==
  ASSUME NEW s \in Seq(Sound), NEW f \in Seq(Sound), Len(f) = FrameLen, NEW n \in ReadLens
  PROVE  LET b == s \o f
             h == SubSeq(b, 1, n)
             r == SubSeq(b, n + 1, Len(b))
         IN  /\ b \in Seq(Sound) /\ n \in Nat /\ n <= Len(b) /\ Len(b) = Len(s) + Len(f)
             /\ h \in Seq(Sound) /\ Len(h) = n /\ \A i \in 1 .. n : h[i] = b[i]
             /\ r \in Seq(Sound) /\ Len(r) = Len(b) - n
             /\ \A i \in 1 .. Len(b) - n : r[i] = b[n + i]
<1> DEFINE b == s \o f
           h == SubSeq(b, 1, n)
           r == SubSeq(b, n + 1, Len(b))
<1>1. /\ b \in Seq(Sound) /\ Len(b) = Len(s) + Len(f)
      /\ \A i \in 1 .. Len(s) : b[i] = s[i]
      /\ \A i \in Len(s) + 1 .. Len(s) + Len(f) : b[i] = f[i - Len(s)]
  BY JoinParts
<1>2. n \in Nat /\ n <= FrameLen /\ FrameLen \in Nat /\ Len(s) \in Nat /\ Len(b) \in Nat
  BY <1>1, PlaybackAssumption
<1> HIDE DEF b
<1>3. n <= Len(b) /\ \A i \in 1 .. Len(b) : b[i] \in Sound
  BY <1>1, <1>2
<1>4. h \in Seq(Sound) /\ Len(h) = n /\ \A i \in 1 .. n : h[i] = b[i]
  <2>1. \A i \in 1 .. n : b[i] \in Sound
    BY <1>2, <1>3
  <2>2. /\ h \in Seq(Sound) /\ Len(h) = IF 1 <= n THEN n - 1 + 1 ELSE 0
        /\ \A i \in 1 .. n - 1 + 1 : h[i] = b[1 + i - 1]
    BY <1>2, <2>1, SubSeqProperties
  <2> QED BY <1>2, <2>2
<1>5. /\ r \in Seq(Sound) /\ Len(r) = Len(b) - n
      /\ \A i \in 1 .. Len(b) - n : r[i] = b[n + i]
  <2>1. \A i \in n + 1 .. Len(b) : b[i] \in Sound
    BY <1>2, <1>3
  <2>2. /\ r \in Seq(Sound) /\ Len(r) = IF n + 1 <= Len(b) THEN Len(b) - (n + 1) + 1 ELSE 0
        /\ \A i \in 1 .. Len(b) - (n + 1) + 1 : r[i] = b[(n + 1) + i - 1]
    BY <1>2, <2>1, SubSeqProperties
  <2>3. \A i \in 1 .. Len(b) - n : r[i] = b[n + i]
    <3> TAKE i \in 1 .. Len(b) - n
    <3>1. i \in 1 .. Len(b) - (n + 1) + 1 /\ (n + 1) + i - 1 = n + i
      BY <1>2
    <3> QED BY <2>2, <3>1
  <2> HIDE DEF r
  <2>4. Len(r) = Len(b) - n
    <3>1. CASE n + 1 <= Len(b)
      BY <1>2, <2>2, <3>1
    <3>2. CASE ~(n + 1 <= Len(b))
      <4>1. \A x, y \in Nat : x <= y /\ ~(x + 1 <= y) => x = y
        OBVIOUS
      <4>2. n = Len(b)
        BY <1>2, <1>3, <3>2, <4>1
      <4>3. Len(r) = 0
        BY <2>2, <3>2
      <4> QED BY <1>2, <4>2, <4>3
    <3> QED BY <3>1, <3>2
  <2> QED BY <2>2, <2>3, <2>4
<1> QED BY <1>1, <1>2, <1>3, <1>4, <1>5 DEF b

\* TapeEffect::process keeps samples.
LEMMA TapeTypes ==
  ASSUME tape \in TapeType, NEW f \in Seq(Sound), Len(f) = FrameLen, TapeProcess(f)
  PROVE  tape' \in TapeType /\ heard' \in Seq(Sound)
<1> DEFINE b == tape.unread \o f
<1>1. /\ tape.unread \in Seq(Sound) /\ tape.left \in 0 .. RampLen /\ RampLen \in Nat
      /\ b \in Seq(Sound) /\ <<>> \in Seq(Sound)
  BY PlaybackAssumption, ConcatProperties, EmptySeq DEF TapeType
<1> HIDE DEF b
<1>2. CASE tape.ramp = "none" /\ tape.rate = "full" /\ heard' = f /\ tape' = tape
  BY <1>2
<1>3. CASE heard' = <<>> /\ tape' = [tape EXCEPT !.unread = b]
  BY <1>1, <1>3 DEF TapeType
<1>4. ASSUME NEW n \in ReadLens, heard' = SubSeq(b, 1, n),
             tape' = [TapeTurns EXCEPT !.unread = SubSeq(b, n + 1, Len(b))]
      PROVE  tape' \in TapeType /\ heard' \in Seq(Sound)
  <2>1. SubSeq(b, 1, n) \in Seq(Sound) /\ SubSeq(b, n + 1, Len(b)) \in Seq(Sound)
    BY <1>1, ReadParts DEF b
  <2>2. TapeTurns \in TapeType
    <3>1. CASE tape.left > 1
      <4>1. tape.left - 1 \in 0 .. RampLen
        BY <1>1, <3>1
      <4> QED BY <3>1, <4>1 DEF TapeTurns, TapeType
    <3>2. CASE ~(tape.left > 1)
      <4>1. 0 \in 0 .. RampLen
        BY <1>1
      <4> QED BY <3>2, <4>1 DEF TapeTurns, RateAfter, TapeType
    <3> QED BY <3>1, <3>2
  <2> QED BY <1>4, <2>1, <2>2 DEF TapeType
<1> QED BY <1>2, <1>3, <1>4 DEF TapeProcess, b

\* A whole frame is cut from pending_pcm.
LEMMA PopFrameInv ==
  ASSUME LineInv, PopFrame
  PROVE  LineInv'
<1> DEFINE f == SubSeq(flow.pcm, 1, FrameLen)
           r == SubSeq(flow.pcm, FrameLen + 1, Len(flow.pcm))
<1>0. /\ mix.pc = "pull" /\ Len(flow.pcm) >= FrameLen
      /\ cut' = f /\ flow' = [flow EXCEPT !.pcm = r] /\ TapeProcess(f)
      /\ mix' = [mix EXCEPT !.pc = "end", !.filled = TRUE]
      /\ UNCHANGED <<tapeStop, asked, holders, monitor, reaping, flips, cmds, dec, seeks,
                     cell, pos, chan, mixed>>
  BY DEF PopFrame, mixRest, handleVars
<1>1. /\ dec \in DecType /\ chan \in Seq(Seq(Sound)) /\ flow.pcm \in Seq(Sound)
      /\ cmds \in Seq(Targets) /\ seeks \in Nat /\ Told \in Nat
      /\ Len(flow.pcm) \in Nat /\ Len(cmds) \in Nat /\ Len(chan) \in Nat
      /\ flow \in FlowType /\ FrameLen \in Nat \ {0} /\ 0 \in 0 .. Len(chan)
  BY TypesNow, PlaybackAssumption DEF FlowType
<1>2. mixed = TRUE /\ mix.filled = FALSE /\ Told = pos /\ mix \in TickType /\ pos \in Nat
  BY <1>0, Pulling
<1>3. PlaybackTypeOK /\ BuffersInShape
  BY DEF LineInv
<1>4. PICK way : /\ Lined(way, flow.pcm, chan, dec)
                 /\ Newest(way, Len(flow.pcm), chan, dec, cmds, Told, seeks)
  BY <1>2, LineNow
<1>5. /\ f \in Seq(Sound) /\ Len(f) = FrameLen /\ Follow(f, Before(way[0], Len(flow.pcm)))
      /\ r \in Seq(Sound) /\ Len(r) = Len(flow.pcm) - FrameLen
      /\ f[FrameLen] = Before(way[0], Len(r))
      /\ Lined(way, r, chan, dec)
  BY <1>0, <1>1, <1>4, LineCut
<1> HIDE DEF f, r
<1>6. /\ way[0].seek \in Nat /\ way[0].at \in Nat /\ way[0].seek <= dec.seek /\ dec.seek \in Nat
      /\ way[0].at >= Len(flow.pcm)
  BY <1>1, <1>4, WayParts DEF Lined
<1>7. /\ flow' \in FlowType /\ flow'.pcm = r
      /\ mix' \in TickType /\ mix'.filled = TRUE /\ mix'.pc = "end"
  BY <1>0, <1>1, <1>2, <1>5 DEF FlowType, TickType
<1>8. tape' \in TapeType /\ heard' \in Seq(Sound)
  <2>1. tape \in TapeType
    BY <1>3 DEF PlaybackTypeOK, TapeType
  <2> QED BY <1>0, <1>5, <2>1, TapeTypes
<1>9. PlaybackTypeOK'
  <2>1. cut' \in Seq(Sound)
    BY <1>0, <1>5
  <2> QED BY <1>0, <1>3, <1>7, <1>8, <2>1 DEF PlaybackTypeOK, FlowType, TickType, TapeType
<1>10. OneStretch'
  <2> DEFINE q == Before(way[0], Len(flow.pcm))
  <2>1. q.at \in Nat
    BY <1>1, <1>6 DEF Before
  <2> HIDE DEF q
  <2>2. Follow(f, q)
    BY <1>5 DEF q
  <2>3. \A i \in DOMAIN f : f[i].seek = f[1].seek /\ f[i].at = f[1].at + i - 1
    BY <1>5, <2>1, <2>2, Stretch
  <2> QED BY <1>0, <2>3 DEF OneStretch
<1>11. BuffersInShape'
  <2>1. /\ Len(flow.pcm) + 0 <= FrameLen - 1 + MaxChunk /\ dec.seek + Len(cmds) <= seeks
    BY <1>2, <1>3 DEF BuffersInShape
  <2>2. Len(flow'.pcm) + (IF mix'.filled THEN FrameLen ELSE 0) <= FrameLen - 1 + MaxChunk
    <3>1. Len(r) + FrameLen = Len(flow.pcm) + 0
      BY <1>1, <1>5
    <3> QED BY <1>7, <2>1, <3>1
  <2>3. cut'[FrameLen].seek = way[0].seek
    BY <1>0, <1>5 DEF Before
  <2>4. way[0].seek <= seeks
    BY <1>1, <1>6, <2>1
  <2>5. cut' # <<>> => Len(cut') = FrameLen /\ cut'[FrameLen].seek <= seeks'
    BY <1>0, <1>5, <2>3, <2>4
  <2> QED BY <1>0, <1>2, <1>3, <1>7, <2>2, <2>5 DEF BuffersInShape
<1>12. SoundIsInLine'
  <2>1. Len(r) \in Nat /\ Len(flow.pcm) = Len(r) + FrameLen
    BY <1>0, <1>1, <1>5
  <2>2. Newest(way, Len(r), chan, dec, cmds, Told + FrameLen, seeks)
    BY <1>1, <1>4, <2>1, NewestCut
  <2>3. Told' = Told + FrameLen
    BY <1>0, <1>2, <1>7 DEF Told
  <2>4. Ended(way[0], Len(r), f)
    BY <1>5 DEF Ended
  <2>5. /\ Lined(way, flow'.pcm, chan', dec') /\ Ended(way[0], Len(flow'.pcm), cut')
        /\ Newest(way, Len(flow'.pcm), chan', dec', cmds', Told', seeks')
    BY <1>0, <1>5, <1>7, <2>2, <2>3, <2>4
  <2> QED BY <2>5, LineNext
<1>13. mixed' = TRUE
  BY <1>0, <1>2
<1> QED BY <1>9, <1>10, <1>11, <1>12, <1>13, Together

\* A chunk of the channel is added to pending_pcm, or a mark clears it.
LEMMA PullChunkInv ==
  ASSUME LineInv, PullChunk
  PROVE  LineInv'
<1> DEFINE r == Pulled(flow.pcm, chan)
<1>0. /\ mix.pc = "pull" /\ Len(flow.pcm) < FrameLen /\ chan # <<>>
      /\ chan' = Tail(chan) /\ flow' = [flow EXCEPT !.pcm = r]
      /\ UNCHANGED <<tapeStop, asked, holders, monitor, reaping, flips, cmds, dec, seeks,
                     cell, pos, mixed, mix, tape, cut, heard>>
  BY DEF PullChunk, Pulled, mixRest, handleVars
<1>1. /\ dec \in DecType /\ chan \in Seq(Seq(Sound)) /\ flow.pcm \in Seq(Sound)
      /\ cmds \in Seq(Targets) /\ seeks \in Nat /\ Told \in Nat
      /\ Len(flow.pcm) \in Nat /\ Len(cmds) \in Nat /\ Len(chan) \in Nat
      /\ flow \in FlowType /\ FrameLen \in Nat \ {0}
  BY TypesNow, PlaybackAssumption DEF FlowType
<1>2. mixed = TRUE /\ mix.filled = FALSE
  BY <1>0, Pulling
<1>3. /\ PlaybackTypeOK /\ OneStretch /\ BuffersInShape
      /\ \A i \in DOMAIN chan : Len(chan[i]) \in ChunkLens \cup {0}
      /\ dec.seek + Len(cmds) <= seeks /\ Len(chan) <= Capacity
  BY DEF LineInv, BuffersInShape, PlaybackTypeOK
<1>4. PICK way : /\ Lined(way, flow.pcm, chan, dec)
                 /\ Ended(way[0], Len(flow.pcm), cut)
                 /\ Newest(way, Len(flow.pcm), chan, dec, cmds, Told, seeks)
  BY <1>2, LineNow
<1> DEFINE w == Shorter(way, Len(chan))
<1>5. /\ Lined(w, r, Tail(chan), dec) /\ r \in Seq(Sound)
      /\ w[0] = way[1]
      /\ IF chan[1] = <<>>
           THEN r = <<>> /\ way[1].seek > way[0].seek /\ way[1].at \in Landings
           ELSE /\ Len(r) = Len(flow.pcm) + Len(chan[1]) /\ way[1].seek = way[0].seek
                /\ way[1].at = way[0].at + Len(chan[1])
                /\ Before(way[1], Len(r)) = Before(way[0], Len(flow.pcm))
  <2>1. chan # <<>> /\ Lined(way, flow.pcm, chan, dec)
    BY <1>0, <1>4
  <2> QED BY <1>1, <2>1, LineTail, ZenonT(30)
<1>6. /\ Tail(chan) \in Seq(Seq(Sound)) /\ Len(Tail(chan)) = Len(chan) - 1
      /\ \A i \in 1 .. Len(Tail(chan)) : Tail(chan)[i] = chan[i + 1]
      /\ Len(chan) >= 1 /\ DOMAIN chan = 1 .. Len(chan)
      /\ DOMAIN Tail(chan) = 1 .. Len(chan) - 1
  <2>1. /\ Tail(chan) \in Seq(Seq(Sound)) /\ Len(Tail(chan)) = Len(chan) - 1
        /\ \A i \in 1 .. Len(Tail(chan)) : Tail(chan)[i] = chan[i + 1]
    BY <1>0, <1>1, HeadTailProperties
  <2>2. Len(chan) # 0
    BY <1>0, <1>1, EmptyLen
  <2>3. DOMAIN Tail(chan) = 1 .. Len(Tail(chan))
    BY <2>1
  <2> QED BY <1>1, <2>1, <2>2, <2>3
<1>7. 1 \in DOMAIN chan /\ 0 \in 0 .. Len(chan) /\ 1 \in 0 .. Len(chan)
  BY <1>1, <1>6
<1>8. /\ way[0].seek \in Nat /\ way[0].at \in Nat /\ way[1].seek \in Nat /\ way[1].at \in Nat
  BY <1>1, <1>4, <1>7, WayParts
<1>9. Newest(w, Len(r), Tail(chan), dec, cmds, Told, seeks)
  BY <1>0, <1>1, <1>3, <1>4, <1>7, NewestTail
<1> HIDE DEF r, w
<1>10. flow' \in FlowType /\ flow'.pcm = r
  BY <1>0, <1>1, <1>5 DEF FlowType
<1>11. PlaybackTypeOK'
  <2>1. chan' \in Seq(Seq(Sound)) /\ Len(chan') <= Capacity
    BY <1>0, <1>1, <1>3, <1>6, PlaybackAssumption
  <2> QED BY <1>0, <1>3, <1>10, <2>1 DEF PlaybackTypeOK, FlowType
<1>12. OneStretch'
  BY <1>0, <1>3 DEF OneStretch
<1>13. BuffersInShape'
  <2>1. \A i \in DOMAIN chan' : Len(chan'[i]) \in ChunkLens \cup {0}
    <3> TAKE i \in DOMAIN chan'
    <3>1. i \in 1 .. Len(Tail(chan)) /\ i + 1 \in DOMAIN chan /\ chan'[i] = chan[i + 1]
      BY <1>0, <1>1, <1>6
    <3> QED BY <1>3, <3>1
  <2>2. Len(r) <= FrameLen - 1 + MaxChunk
    <3>1. MaxChunk \in Nat \ {0} /\ \A k \in ChunkLens : k \in Nat /\ k <= MaxChunk
      BY LongestChunk
    <3>2. Len(chan[1]) \in Nat /\ Len(chan[1]) <= MaxChunk
      BY <1>3, <1>7, <3>1
    <3>3. CASE chan[1] = <<>>
      <4>1. Len(r) = 0
        BY <1>5, <3>3
      <4> QED BY <1>1, <3>1, <4>1
    <3>4. CASE chan[1] # <<>>
      <4>1. Len(r) = Len(flow.pcm) + Len(chan[1])
        BY <1>5, <3>4
      <4>2. \A a, b, m, n \in Nat : a < n /\ b <= m => a + b <= n - 1 + m
        OBVIOUS
      <4> QED BY <1>0, <1>1, <3>1, <3>2, <4>1, <4>2
    <3> QED BY <3>3, <3>4
  <2>3. Len(flow'.pcm) + (IF mix'.filled THEN FrameLen ELSE 0) <= FrameLen - 1 + MaxChunk
    <3>1. Len(r) + 0 = Len(r)
      BY <1>5
    <3> QED BY <1>0, <1>2, <1>10, <2>2, <3>1
  <2> QED BY <1>0, <1>3, <2>1, <2>3 DEF BuffersInShape
<1>14. Ended(w[0], Len(r), cut)
  <2> SUFFICES ASSUME cut # <<>>
               PROVE  \/ cut[FrameLen] = Before(way[1], Len(r))
                      \/ cut[FrameLen].seek < way[1].seek /\ way[1].at - Len(r) \in Landings
    BY <1>5 DEF Ended
  <2>1. cut[FrameLen] \in Sound
    <3>1. cut \in Seq(Sound) /\ Len(cut) = FrameLen
      BY <1>3 DEF BuffersInShape, PlaybackTypeOK
    <3>2. FrameLen \in 1 .. Len(cut)
      BY <1>1, <3>1
    <3> QED BY <3>1, <3>2
  <2>2. cut[FrameLen].seek \in Nat
    BY <2>1 DEF Sound
  <2>3. \/ cut[FrameLen] = Before(way[0], Len(flow.pcm))
        \/ cut[FrameLen].seek < way[0].seek /\ way[0].at - Len(flow.pcm) \in Landings
    BY <1>4 DEF Ended
  <2>4. CASE chan[1] = <<>>
    <3>1. cut[FrameLen].seek <= way[0].seek
      BY <1>8, <2>2, <2>3 DEF Before
    <3>2. cut[FrameLen].seek < way[1].seek
      BY <1>5, <1>8, <2>2, <2>4, <3>1
    <3>3. way[1].at - Len(r) = way[1].at
      BY <1>5, <1>8, <2>4
    <3> QED BY <1>5, <2>4, <3>2, <3>3
  <2>5. CASE chan[1] # <<>>
    <3>1. Before(way[1], Len(r)) = Before(way[0], Len(flow.pcm)) /\ way[1].seek = way[0].seek
      BY <1>5, <2>5
    <3>2. way[1].at - Len(r) = way[0].at - Len(flow.pcm)
      BY <3>1 DEF Before
    <3> QED BY <2>3, <3>1, <3>2
  <2> QED BY <2>4, <2>5
<1>15. SoundIsInLine'
  <2>1. Told' = Told
    BY <1>0 DEF Told
  <2>2. /\ Lined(w, flow'.pcm, chan', dec') /\ Ended(w[0], Len(flow'.pcm), cut')
        /\ Newest(w, Len(flow'.pcm), chan', dec', cmds', Told', seeks')
    BY <1>0, <1>5, <1>9, <1>10, <1>14, <2>1
  <2> QED BY <2>2, LineNext
<1>16. mixed' = TRUE
  BY <1>0, <1>2
<1> QED BY <1>11, <1>12, <1>13, <1>15, <1>16, Together

\* What is left of a tick without a frame, and its end: nothing moves, and the
\* frame is counted.
LEMMA CountedInv ==
  ASSUME LineInv, PlaybackTypeOK', mixed, mixed' = mixed,
         UNCHANGED <<cmds, dec, chan, cut, heard, seeks>>, flow'.pcm = flow.pcm,
         mix'.filled = FALSE, Told' = Told
  PROVE  LineInv'
<1>0. BuffersInShape /\ OneStretch /\ PlaybackTypeOK
  BY DEF LineInv
<1>1. OneStretch'
  BY <1>0 DEF OneStretch
<1>2. BuffersInShape'
  <2>1. /\ Len(flow.pcm) \in Nat /\ FrameLen \in Nat \ {0} /\ MaxChunk \in Nat
        /\ mix.filled \in BOOLEAN
    BY TypesNow, Numbers
  <2> DEFINE x == IF mix.filled THEN FrameLen ELSE 0
  <2>2. x \in Nat /\ Len(flow.pcm) + x <= FrameLen - 1 + MaxChunk
    BY <1>0, <2>1 DEF BuffersInShape
  <2> HIDE DEF x
  <2>3. Len(flow.pcm) + 0 <= FrameLen - 1 + MaxChunk
    BY <2>1, <2>2
  <2>4. Len(flow'.pcm) + (IF mix'.filled THEN FrameLen ELSE 0) <= FrameLen - 1 + MaxChunk
    BY <2>3
  <2> QED BY <1>0, <2>4 DEF BuffersInShape
<1>3. SoundIsInLine'
  <2>1. PICK way : /\ Lined(way, flow.pcm, chan, dec)
                   /\ Ended(way[0], Len(flow.pcm), cut)
                   /\ Newest(way, Len(flow.pcm), chan, dec, cmds, Told, seeks)
    BY LineNow
  <2>2. /\ Lined(way, flow'.pcm, chan', dec') /\ Ended(way[0], Len(flow'.pcm), cut')
        /\ Newest(way, Len(flow'.pcm), chan', dec', cmds', Told', seeks')
    BY <2>1
  <2> QED BY <2>2, LineNext
<1> QED BY <1>1, <1>2, <1>3, Together DEF PlaybackTypeOK

\* No frame this time.
LEMMA NoFrameInv ==
  ASSUME LineInv, NoFrame
  PROVE  LineInv'
<1>0. /\ mix.pc = "pull"
      /\ flow' = [flow EXCEPT !.done = @ \/ dec.pc = "ended"]
      /\ mix' = [mix EXCEPT !.pc = "end", !.filled = FALSE]
      /\ UNCHANGED <<tapeStop, asked, holders, monitor, reaping, flips, cmds, dec, seeks,
                     cell, pos, chan, mixed, tape, cut, heard>>
  BY DEF NoFrame, mixRest, handleVars
<1>1. /\ mixed = TRUE /\ mix.filled = FALSE /\ Told = pos /\ mix \in TickType /\ pos \in Nat
  BY <1>0, Pulling
<1>2. flow \in FlowType /\ PlaybackTypeOK
  BY TypesNow DEF FlowType, LineInv
<1>3. flow' \in FlowType /\ flow'.pcm = flow.pcm
  BY <1>0, <1>2 DEF FlowType
<1>4. mix' \in TickType /\ mix'.filled = FALSE
  BY <1>0, <1>1 DEF TickType
<1>5. Told' = Told
  BY <1>0, <1>1, <1>4 DEF Told
<1>6. PlaybackTypeOK'
  BY <1>0, <1>2, <1>3, <1>4 DEF PlaybackTypeOK, FlowType, TickType
<1> QED BY <1>0, <1>1, <1>3, <1>4, <1>5, <1>6, CountedInv

\* The end of a tick.
LEMMA FinishInv ==
  ASSUME LineInv, Finish
  PROVE  LineInv'
<1>0. /\ mix.pc = "end" /\ pos' = (IF mix.filled THEN pos + FrameLen ELSE pos)
      /\ tape' = [tape EXCEPT !.done = FALSE] /\ mix' = IdleTick
      /\ UNCHANGED <<tapeStop, asked, holders, monitor, reaping, flips, cmds, dec, seeks,
                     chan, mixed, flow, cut, heard>>
  BY DEF Finish, mixRest, handleVars
<1>1. PlaybackTypeOK /\ pos \in Nat /\ mix.filled \in BOOLEAN /\ FrameLen \in Nat
  BY TypesNow, PlaybackAssumption DEF LineInv
<1>2. mixed
  BY <1>0 DEF LineInv, BuffersInShape
<1>3. cell' \in States
  <2>1. cell' \in {"Paused", "Playing", "Stopped", cell}
    BY DEF Finish
  <2> QED BY <1>1, <2>1 DEF PlaybackTypeOK, States
<1>4. tape' \in TapeType
  <2>1. tape \in TapeType
    BY <1>1 DEF PlaybackTypeOK, TapeType
  <2> QED BY <1>0, <2>1 DEF TapeType
<1>5. mix' \in TickType /\ mix'.filled = FALSE /\ pos' \in Nat
  BY <1>0, <1>1, EmptyTypes DEF IdleTick
<1>6. Told' = Told
  BY <1>0, <1>1, <1>5 DEF Told
<1>7. PlaybackTypeOK'
  BY <1>0, <1>1, <1>3, <1>4, <1>5 DEF PlaybackTypeOK, TickType, TapeType
<1> QED BY <1>0, <1>2, <1>5, <1>6, <1>7, CountedInv

\* Every step of the handle, the monitor, the decoder and the mixer.
LEMMA NextInv ==
  ASSUME LineInv, [Next]_vars
  PROVE  LineInv'
<1>1. CASE UNCHANGED vars
  <2>1. UNCHANGED <<tapeStop, cell, asked, holders, monitor, reaping, flips, cmds, pos, dec, chan,
                    mixed, mix, flow, tape, cut, heard, seeks>>
    BY <1>1 DEF vars, handleVars, mixerVars
  <2>2. PlaybackTypeOK'
    BY <2>1 DEF LineInv, PlaybackTypeOK
  <2> QED BY <2>1, <2>2, QuietInv
<1>2. CASE Handle
  BY <1>2, HandleInv, SeekInv, ReapInv DEF Handle
<1>3. CASE Monitor
  BY <1>3, HandleInv DEF Monitor
<1>4. CASE Decoder
  BY <1>4, CheckCommandsInv, MarkInv, NextPacketInv, PushInv DEF Decoder
<1>5. CASE Tick
  BY <1>5, RetainInv, LoadInv, PullChunkInv, PopFrameInv, NoFrameInv, FinishInv DEF Tick
<1> QED BY <1>1, <1>2, <1>3, <1>4, <1>5 DEF Next

\* A frame comes right after the frame before it, or starts where a later
\* seek landed.
LEMMA CutNext ==
  ASSUME LineInv, PopFrame, cut # <<>>
  PROVE  LET old == cut[FrameLen]
             new == cut'[1]
         IN \/ new.seek = old.seek /\ new.at = old.at + 1
            \/ new.seek > old.seek /\ new.at - 1 \in Landings
<1> DEFINE f == SubSeq(flow.pcm, 1, FrameLen)
<1>0. mix.pc = "pull" /\ Len(flow.pcm) >= FrameLen /\ cut' = f
  BY DEF PopFrame
<1>1. /\ dec \in DecType /\ chan \in Seq(Seq(Sound)) /\ flow.pcm \in Seq(Sound)
      /\ Len(flow.pcm) \in Nat /\ FrameLen \in Nat \ {0} /\ 0 \in 0 .. Len(chan)
  BY TypesNow, PlaybackAssumption
<1>2. mixed = TRUE
  BY <1>0, Pulling
<1>3. PICK way : Lined(way, flow.pcm, chan, dec) /\ Ended(way[0], Len(flow.pcm), cut)
  BY <1>2, LineNow
<1> DEFINE q == Before(way[0], Len(flow.pcm))
<1>4. f \in Seq(Sound) /\ Len(f) = FrameLen /\ Follow(f, q)
  BY <1>0, <1>1, <1>3, LineCut
<1>5. /\ way[0].seek \in Nat /\ way[0].at \in Nat /\ way[0].at >= Len(flow.pcm)
  BY <1>1, <1>3, WayParts DEF Lined
<1>6. q.seek = way[0].seek /\ q.at = way[0].at - Len(flow.pcm) /\ q.at \in Nat
  BY <1>1, <1>5 DEF Before
<1>7. cut[FrameLen] = q \/ (cut[FrameLen].seek < way[0].seek /\ q.at \in Landings)
  BY <1>3, <1>6 DEF Ended
<1> HIDE DEF f, q
<1>8. 1 \in DOMAIN f
  BY <1>1, <1>4
<1>9. f[1] = [seek |-> q.seek, at |-> q.at + 1]
  BY <1>4, <1>8 DEF Follow
<1>10. cut'[1].seek = q.seek /\ cut'[1].at = q.at + 1 /\ cut'[1].at - 1 = q.at
  BY <1>0, <1>6, <1>9
<1>11. cut[FrameLen].seek \in Nat
  <2>1. cut \in Seq(Sound) /\ Len(cut) = FrameLen
    BY DEF LineInv, BuffersInShape, PlaybackTypeOK
  <2>2. FrameLen \in 1 .. Len(cut)
    BY <1>1, <2>1
  <2>3. cut[FrameLen] \in Sound
    BY <2>1, <2>2
  <2> QED BY <2>3 DEF Sound
<1>12. CASE cut[FrameLen] = q
  BY <1>10, <1>12
<1>13. CASE cut[FrameLen].seek < way[0].seek /\ q.at \in Landings
  <2>1. cut'[1].seek > cut[FrameLen].seek
    BY <1>5, <1>6, <1>10, <1>11, <1>13
  <2> QED BY <1>10, <1>13, <2>1
<1> QED BY <1>7, <1>12, <1>13

-----------------------------------------------------------------------------
(***************************************************************************)
(* The tape.                                                               *)
(***************************************************************************)
Ordered(s) == \A i, j \in DOMAIN s : i < j => Earlier(s[i], s[j])
UpTo(s, a) == \A i \in DOMAIN s : ~Earlier(a, s[i])

\* Samples are in a linear order.
LEMMA OrderFacts ==
  ASSUME NEW a \in Sound, NEW b \in Sound, NEW c \in Sound
  PROVE  /\ Earlier(a, b) => ~Earlier(b, a)
         /\ ~Earlier(b, a) /\ Earlier(b, c) => Earlier(a, c)
<1>1. /\ a.seek \in Nat /\ b.seek \in Nat /\ c.seek \in Nat
      /\ a.at \in Nat /\ b.at \in Nat /\ c.at \in Nat
  BY DEF Sound
<1> QED BY <1>1 DEF Earlier

\* Samples behind samples.
LEMMA OrderedJoin ==
  ASSUME NEW s \in Seq(Sound), NEW f \in Seq(Sound), Ordered(s), Ordered(f),
         \A i \in DOMAIN s, j \in DOMAIN f : Earlier(s[i], f[j])
  PROVE  Ordered(s \o f)
<1> DEFINE b == s \o f
<1>1. /\ b \in Seq(Sound) /\ Len(b) = Len(s) + Len(f)
      /\ \A i \in 1 .. Len(s) : b[i] = s[i]
      /\ \A i \in Len(s) + 1 .. Len(s) + Len(f) : b[i] = f[i - Len(s)]
  BY JoinParts
<1>2. /\ Len(s) \in Nat /\ Len(f) \in Nat /\ DOMAIN s = 1 .. Len(s) /\ DOMAIN f = 1 .. Len(f)
      /\ DOMAIN b = 1 .. Len(b)
  BY <1>1
<1> HIDE DEF b
<1>3. ASSUME NEW i \in DOMAIN b, NEW j \in DOMAIN b, i < j PROVE Earlier(b[i], b[j])
  <2>1. CASE j <= Len(s)
    <3>1. i \in DOMAIN s /\ j \in DOMAIN s /\ b[i] = s[i] /\ b[j] = s[j]
      BY <1>1, <1>2, <1>3, <2>1
    <3> QED BY <1>3, <3>1 DEF Ordered
  <2>2. CASE i <= Len(s) /\ ~(j <= Len(s))
    <3>1. i \in DOMAIN s /\ b[i] = s[i]
      BY <1>1, <1>2, <2>2
    <3>2. j - Len(s) \in DOMAIN f /\ b[j] = f[j - Len(s)]
      BY <1>1, <1>2, <2>2
    <3> QED BY <3>1, <3>2
  <2>3. CASE ~(i <= Len(s))
    <3>0. i \in Len(s) + 1 .. Len(s) + Len(f)
      BY <1>1, <1>2, <2>3
    <3>1. i - Len(s) \in DOMAIN f /\ b[i] = f[i - Len(s)]
      BY <1>1, <1>2, <3>0
    <3>2. j - Len(s) \in DOMAIN f /\ b[j] = f[j - Len(s)] /\ i - Len(s) < j - Len(s)
      BY <1>1, <1>2, <1>3, <2>3
    <3> QED BY <3>1, <3>2 DEF Ordered
  <2> QED BY <1>2, <1>3, <2>1, <2>2, <2>3
<1> QED BY <1>3 DEF Ordered, b

\* A stretch of ordered samples.
LEMMA OrderedPart ==
  ASSUME NEW b \in Seq(Sound), Ordered(b), NEW a, UpTo(b, a),
         NEW h \in Seq(Sound), NEW n \in Nat, n + Len(h) <= Len(b),
         \A i \in 1 .. Len(h) : h[i] = b[n + i]
  PROVE  Ordered(h) /\ UpTo(h, a)
<1>1. /\ Len(h) \in Nat /\ Len(b) \in Nat /\ DOMAIN h = 1 .. Len(h) /\ DOMAIN b = 1 .. Len(b)
  OBVIOUS
<1>2. ASSUME NEW i \in DOMAIN h PROVE n + i \in DOMAIN b /\ h[i] = b[n + i] /\ i \in Nat
  BY <1>1
<1>3. ASSUME NEW i \in DOMAIN h, NEW j \in DOMAIN h, i < j PROVE Earlier(h[i], h[j])
  <2>1. n + i \in DOMAIN b /\ h[i] = b[n + i] /\ n + j \in DOMAIN b /\ h[j] = b[n + j]
    BY <1>2
  <2>2. n + i < n + j
    BY <1>2, <1>3
  <2> QED BY <2>1, <2>2 DEF Ordered
<1>4. ASSUME NEW i \in DOMAIN h PROVE ~Earlier(a, h[i])
  BY <1>2 DEF UpTo
<1> QED BY <1>3, <1>4 DEF Ordered, UpTo

\* What TapeLags says of samples, in this state and in the next.
LEMMA InOrderIs ==
  /\ \A s : InOrder(s) <=> Ordered(s) /\ (DOMAIN s # {} => cut # <<>> /\ UpTo(s, cut[FrameLen]))
  /\ InOrder(heard)' <=> /\ Ordered(heard')
                         /\ DOMAIN heard' # {} => cut' # <<>> /\ UpTo(heard', cut'[FrameLen])
  /\ InOrder(tape.unread)' <=>
        /\ Ordered(tape'.unread)
        /\ DOMAIN tape'.unread # {} => cut' # <<>> /\ UpTo(tape'.unread, cut'[FrameLen])
<1> QED BY DEF InOrder, Ordered, UpTo

\* The frame that is cut is in order, and comes after everything the tape has.
LEMMA FrameAfter ==
  ASSUME PlaybackInv, PopFrame
  PROVE  /\ cut' \in Seq(Sound) /\ Len(cut') = FrameLen /\ cut' # <<>>
         /\ Ordered(cut') /\ UpTo(cut', cut'[FrameLen])
         /\ \A i \in DOMAIN tape.unread, j \in DOMAIN cut' : Earlier(tape.unread[i], cut'[j])
<1>0. LineInv /\ TapeLags
  BY DEF PlaybackInv, LineInv
<1>1. LineInv'
  BY <1>0, PopFrameInv
<1>2. FrameLen \in Nat \ {0}
  BY PlaybackAssumption
<1>3. cut' \in Seq(Sound) /\ Len(cut') = FrameLen /\ cut' # <<>>
  <2>1. Len(cut') = FrameLen
    <3>1. flow.pcm \in Seq(Sound) /\ Len(flow.pcm) >= FrameLen /\ Len(flow.pcm) \in Nat
          /\ cut' = SubSeq(flow.pcm, 1, FrameLen)
      BY <1>0, TypesNow DEF PopFrame
    <3>2. \A i \in 1 .. FrameLen : flow.pcm[i] \in Sound
      BY <1>2, <3>1
    <3>3. Len(SubSeq(flow.pcm, 1, FrameLen)) = IF 1 <= FrameLen THEN FrameLen - 1 + 1 ELSE 0
      BY <1>2, <3>2, SubSeqProperties
    <3> QED BY <1>2, <3>1, <3>3
  <2>2. cut' \in Seq(Sound)
    BY <1>1 DEF LineInv, PlaybackTypeOK
  <2> QED BY <1>2, <2>1, <2>2, EmptyLen
<1>4. DOMAIN cut' = 1 .. FrameLen /\ \A i \in 1 .. FrameLen : cut'[i] \in Sound
  BY <1>3
<1>5. \A i \in 1 .. FrameLen : cut'[i].seek = cut'[1].seek /\ cut'[i].at = cut'[1].at + i - 1
  BY <1>1, <1>4 DEF LineInv, OneStretch
<1>6. cut'[1].at \in Nat /\ cut'[1].seek \in Nat
  BY <1>2, <1>4 DEF Sound
<1>7. ASSUME NEW i \in 1 .. FrameLen, NEW j \in 1 .. FrameLen
      PROVE  Earlier(cut'[i], cut'[j]) <=> i < j
  <2>1. /\ cut'[i].seek = cut'[1].seek /\ cut'[j].seek = cut'[1].seek
        /\ cut'[i].at = cut'[1].at + i - 1 /\ cut'[j].at = cut'[1].at + j - 1
    BY <1>5
  <2> DEFINE a == cut'[1].at
  <2>2. a \in Nat /\ i \in Nat /\ j \in Nat
    BY <1>2, <1>6
  <2> HIDE DEF a
  <2>3. a + i - 1 < a + j - 1 <=> i < j
    BY <2>2
  <2>4. Earlier(cut'[i], cut'[j]) <=> a + i - 1 < a + j - 1
    BY <1>6, <2>1 DEF Earlier, a
  <2> QED BY <2>3, <2>4
<1>8. Ordered(cut')
  BY <1>4, <1>7 DEF Ordered
<1>9. UpTo(cut', cut'[FrameLen])
  <2>1. \A i \in 1 .. FrameLen : ~(FrameLen < i) /\ FrameLen \in 1 .. FrameLen
    BY <1>2
  <2> QED BY <1>4, <1>7, <2>1 DEF UpTo
<1>10. ASSUME NEW i \in DOMAIN tape.unread, NEW j \in DOMAIN cut'
       PROVE  Earlier(tape.unread[i], cut'[j])
  <2>1. cut # <<>> /\ ~Earlier(cut[FrameLen], tape.unread[i])
    BY <1>0 DEF TapeLags, InOrder
  <2>2. cut[FrameLen] \in Sound /\ tape.unread[i] \in Sound /\ cut'[j] \in Sound
    <3>1. cut \in Seq(Sound) /\ Len(cut) = FrameLen /\ tape.unread \in Seq(Sound)
      BY <1>0, <2>1 DEF LineInv, PlaybackTypeOK, BuffersInShape
    <3>2. FrameLen \in 1 .. Len(cut)
      BY <1>2, <3>1
    <3> QED BY <1>4, <3>1, <3>2
  <2>3. Earlier(cut[FrameLen], cut'[j])
    <3> DEFINE a == cut[FrameLen]
               b == cut'[1]
    <3>1. \/ b.seek = a.seek /\ b.at = a.at + 1
          \/ b.seek > a.seek
      BY <1>0, <2>1, CutNext
    <3>2. a.seek \in Nat /\ a.at \in Nat /\ b.seek \in Nat /\ b.at \in Nat
      BY <1>6, <2>2 DEF Sound
    <3>3. cut'[j].seek = b.seek /\ cut'[j].at = b.at + j - 1 /\ j \in Nat /\ j >= 1
      BY <1>2, <1>4, <1>5
    <3> HIDE DEF a, b
    <3>4. Earlier(a, cut'[j])
      BY <3>1, <3>2, <3>3 DEF Earlier
    <3> QED BY <3>4 DEF a
  <2> QED BY <2>1, <2>2, <2>3, OrderFacts
<1> QED BY <1>3, <1>4, <1>8, <1>9, <1>10

\* A frame goes through the tape.
LEMMA PopFrameTape ==
  ASSUME PlaybackInv, PopFrame
  PROVE  TapeLags'
<1>0. LineInv /\ TapeLags /\ PlaybackTypeOK
  BY DEF PlaybackInv, LineInv
<1> DEFINE u == tape.unread
           f == cut'
           b == u \o f
<1>1. /\ f \in Seq(Sound) /\ Len(f) = FrameLen /\ f # <<>>
      /\ Ordered(f) /\ UpTo(f, f[FrameLen])
      /\ \A i \in DOMAIN u, j \in DOMAIN f : Earlier(u[i], f[j])
  BY FrameAfter
<1>2. tape \in TapeType /\ u \in Seq(Sound) /\ Ordered(u)
  BY <1>0, InOrderIs DEF PlaybackTypeOK, TapeType, TapeLags
<1>3. TapeProcess(f) /\ UNCHANGED <<tapeStop, cell>>
  BY DEF PopFrame, mixRest
<1> HIDE DEF f, u
<1>4. Ordered(b)
  BY <1>1, <1>2, OrderedJoin
<1>5. UpTo(u, f[FrameLen])
  <2> SUFFICES ASSUME NEW i \in DOMAIN u PROVE ~Earlier(f[FrameLen], u[i])
    BY DEF UpTo
  <2>1. FrameLen \in DOMAIN f /\ u[i] \in Sound /\ f[FrameLen] \in Sound
    BY <1>1, <1>2, PlaybackAssumption
  <2> QED BY <1>1, <2>1, OrderFacts
<1>6. UpTo(b, f[FrameLen]) /\ b \in Seq(Sound)
  <2>1. /\ b \in Seq(Sound) /\ Len(b) = Len(u) + Len(f)
        /\ \A i \in 1 .. Len(u) : b[i] = u[i]
        /\ \A i \in Len(u) + 1 .. Len(u) + Len(f) : b[i] = f[i - Len(u)]
    BY <1>1, <1>2, JoinParts
  <2> HIDE DEF b
  <2>2. ASSUME NEW i \in DOMAIN b PROVE ~Earlier(f[FrameLen], b[i])
    <3>0. Len(u) \in Nat /\ Len(f) \in Nat /\ i \in 1 .. Len(b)
          /\ DOMAIN u = 1 .. Len(u) /\ DOMAIN f = 1 .. Len(f)
      BY <1>1, <1>2, <2>1
    <3>1. CASE i <= Len(u)
      <4>1. i \in DOMAIN u /\ b[i] = u[i]
        BY <2>1, <3>0, <3>1
      <4> QED BY <1>5, <4>1 DEF UpTo
    <3>2. CASE ~(i <= Len(u))
      <4>1. i - Len(u) \in DOMAIN f /\ b[i] = f[i - Len(u)]
        BY <2>1, <3>0, <3>2
      <4> QED BY <1>1, <4>1 DEF UpTo
    <3> QED BY <3>1, <3>2
  <2> QED BY <2>1, <2>2 DEF UpTo
<1>7. ASSUME Ordered(heard'), UpTo(heard', f[FrameLen]),
             Ordered(tape'.unread), UpTo(tape'.unread, f[FrameLen])
      PROVE  InOrder(heard)' /\ InOrder(tape.unread)'
  BY <1>1, <1>7, InOrderIs DEF f
<1>8. CASE tape.ramp = "none" /\ tape.rate = "full" /\ heard' = f /\ tape' = tape
  <2>1. Ordered(heard') /\ UpTo(heard', f[FrameLen])
    BY <1>1, <1>8
  <2>2. Ordered(tape'.unread) /\ UpTo(tape'.unread, f[FrameLen])
    BY <1>2, <1>5, <1>8 DEF u
  <2>3. ~tapeStop' => tape' = FullSpeed /\ heard' = cut' /\ cell' \notin {"Stopping", "Starting"}
    BY <1>0, <1>3, <1>8 DEF TapeLags, f
  <2> QED BY <1>7, <2>1, <2>2, <2>3 DEF TapeLags
<1>9. tapeStop \/ (tape.ramp = "none" /\ tape.rate = "full")
  BY <1>0 DEF TapeLags, FullSpeed
<1>10. CASE tape.ramp = "none" /\ tape.rate # "full" /\ heard' = <<>>
            /\ tape' = [tape EXCEPT !.unread = b]
  <2>1. tape'.unread = b
    BY <1>2, <1>10 DEF TapeType
  <2>2. Ordered(heard') /\ UpTo(heard', f[FrameLen])
    BY <1>10 DEF Ordered, UpTo
  <2>3. tapeStop'
    BY <1>3, <1>9, <1>10
  <2> QED BY <1>4, <1>6, <1>7, <2>1, <2>2, <2>3 DEF TapeLags
<1>11. ASSUME tape.ramp # "none", NEW n \in ReadLens, heard' = SubSeq(b, 1, n),
              tape' = [TapeTurns EXCEPT !.unread = SubSeq(b, n + 1, Len(b))]
       PROVE  TapeLags'
  <2> DEFINE h == SubSeq(b, 1, n)
             r == SubSeq(b, n + 1, Len(b))
  <2>1. /\ n \in Nat /\ n <= Len(b)
        /\ h \in Seq(Sound) /\ Len(h) = n /\ \A i \in 1 .. n : h[i] = b[i]
        /\ r \in Seq(Sound) /\ Len(r) = Len(b) - n
        /\ \A i \in 1 .. Len(b) - n : r[i] = b[n + i]
    <3>1. u \in Seq(Sound) /\ f \in Seq(Sound) /\ Len(f) = FrameLen /\ n \in ReadLens
      BY <1>1, <1>2, <1>11
    <3> QED BY ONLY <3>1, ReadParts, ZenonT(30)
  <2>2. heard' = h /\ tape'.unread = r
    BY <1>2, <1>11 DEF TapeTurns, TapeType
  <2> HIDE DEF h, r, b
  <2>3. Ordered(h) /\ UpTo(h, f[FrameLen])
    <3>1. 0 \in Nat /\ 0 + Len(h) <= Len(b) /\ \A i \in 1 .. Len(h) : h[i] = b[0 + i]
      BY <1>6, <2>1
    <3> QED BY <1>4, <1>6, <2>1, <3>1, OrderedPart
  <2>4. Ordered(r) /\ UpTo(r, f[FrameLen])
    <3>1. n + Len(r) <= Len(b) /\ \A i \in 1 .. Len(r) : r[i] = b[n + i]
      BY <1>6, <2>1
    <3> QED BY <1>4, <1>6, <2>1, <3>1, OrderedPart
  <2>5. tapeStop'
    BY <1>3, <1>9, <1>11
  <2> QED BY <1>7, <2>2, <2>3, <2>4, <2>5 DEF TapeLags
<1> QED BY <1>3, <1>8, <1>10, <1>11 DEF TapeProcess, u

\* A step that cuts no frame leaves the samples alone, or drops what the tape has.
LEMMA OtherTape ==
  ASSUME TapeLags, UNCHANGED <<tapeStop, cut, heard>>,
         tape'.unread = tape.unread \/ tape'.unread = <<>>,
         ~tapeStop => tape' = FullSpeed /\ cell' \notin {"Stopping", "Starting"}
  PROVE  TapeLags'
<1>1. InOrder(heard)'
  BY DEF TapeLags, InOrder
<1>2. InOrder(tape.unread)'
  <2>1. CASE tape'.unread = tape.unread
    BY <2>1 DEF TapeLags, InOrder
  <2>2. CASE tape'.unread = <<>>
    BY <2>2 DEF InOrder
  <2> QED BY <2>1, <2>2
<1> QED BY <1>1, <1>2 DEF TapeLags

\* The tape after any step.
LEMMA TapeNext ==
  ASSUME PlaybackInv, [Next]_vars
  PROVE  TapeLags'
<1>0. /\ TapeLags /\ PlaybackTypeOK /\ tape \in TapeType /\ cell \in States
      /\ FullSpeed.unread = <<>>
  BY DEF PlaybackInv, PlaybackTypeOK, TapeType, FullSpeed
<1>1. ~tapeStop => tape = FullSpeed /\ cell \notin {"Stopping", "Starting"}
  BY <1>0 DEF TapeLags
<1>2. CASE PopFrame
  BY <1>2, PopFrameTape
<1>3. CASE /\ UNCHANGED <<tapeStop, cut, heard, tape>>
           /\ cell' \in {"Stopped", "Paused", "Playing", cell} \/ tapeStop
  BY <1>0, <1>1, <1>3, OtherTape
<1>4. CASE Load
  <2>1. UNCHANGED <<tapeStop, cut, heard, cell>>
    BY <1>4 DEF Load, mixRest
  <2>2. tape' = tape \/ tape' = TapeTo("stop") \/ tape' = TapeTo("start")
    BY <1>4 DEF Load
  <2>3. tape'.unread = tape.unread
    BY <1>0, <2>2 DEF TapeTo, TapeType
  <2>4. ~tapeStop => tape' = tape
    BY <1>0, <1>1, <1>4 DEF Load, States
  <2> QED BY <1>0, <1>1, <2>1, <2>3, <2>4, OtherTape
<1>5. CASE Retain \/ Reap
  <2>1. /\ UNCHANGED <<tapeStop, cut, heard>> /\ tape' \in {tape, FullSpeed}
        /\ cell' \in {cell, "Stopped"}
    BY <1>5 DEF Retain, Reap, mixRest
  <2> QED BY <1>0, <1>1, <2>1, OtherTape
<1>6. CASE Finish
  <2>1. /\ UNCHANGED <<tapeStop, cut, heard>> /\ tape' = [tape EXCEPT !.done = FALSE]
    BY <1>6 DEF Finish, mixRest
  <2>2. tape'.unread = tape.unread
    BY <1>0, <2>1 DEF TapeType
  <2>3. ASSUME ~tapeStop PROVE tape' = FullSpeed /\ cell' \in {cell, "Stopped"}
    <3>1. tape = FullSpeed
      BY <1>1, <2>3
    <3>2. tape' = FullSpeed
      BY <2>1, <3>1 DEF FullSpeed
    <3>3. tape.done = FALSE
      BY <3>1 DEF FullSpeed
    <3> QED BY <1>6, <3>2, <3>3 DEF Finish
  <2> QED BY <1>0, <1>1, <2>1, <2>2, <2>3, OtherTape
<1>7. CASE SetPaused
  <2>1. UNCHANGED <<tapeStop, cut, heard, tape>> /\ (~tapeStop => cell' \in {"Paused", "Playing"})
    BY <1>7 DEF SetPaused, mixerVars
  <2> QED BY <1>0, <1>3, <2>1 DEF PlaybackTypeOK
<1>8. CASE Seek \/ (\E reap \in BOOLEAN : Stop(reap)) \/ Monitor
  BY <1>3, <1>8 DEF Seek, Stop, Monitor, GetState, Clear, mixerVars
<1>9. CASE Decoder \/ UNCHANGED vars
  <2>1. UNCHANGED <<tapeStop, cut, heard, tape, cell>>
    BY <1>9
    DEF Decoder, CheckCommands, Mark, NextPacket, Push, decRest, mixerVars, vars
  <2> QED BY <1>3, <2>1
<1>10. CASE PullChunk \/ NoFrame
  <2>1. UNCHANGED <<tapeStop, cut, heard, tape, cell>>
    BY <1>10 DEF PullChunk, NoFrame, mixRest
  <2> QED BY <1>3, <2>1
<1> QED BY <1>2, <1>4, <1>5, <1>6, <1>7, <1>8, <1>9, <1>10 DEF Next, Handle, Tick

-----------------------------------------------------------------------------
(***************************************************************************)
(* The theorems.                                                           *)
(***************************************************************************)
\* Whatever the decoder, the mixer, the monitor and the requests do, and in
\* whatever order: a frame that is cut is one stretch of sound; the position a
\* client is told is where that frame ends, after a seek ahead of it by at most
\* SeekSlack, give or take what a coarse seek is off; the sound between the mixer
\* and the decoder is in one line; and what the tape effect lets through or keeps
\* is in order and lags behind the frames that are cut.
THEOREM PlaybackCorrect == Spec => []PlaybackInv
<1>1. Init => PlaybackInv
  <2>1. Init => TapeLags
    BY DEF Init, TapeLags, InOrder, FullSpeed
  <2> QED BY <2>1, InitInv DEF PlaybackInv, LineInv
<1>2. PlaybackInv /\ [Next]_vars => PlaybackInv'
  <2> SUFFICES ASSUME PlaybackInv, [Next]_vars PROVE PlaybackInv'
    OBVIOUS
  <2>1. LineInv
    BY DEF PlaybackInv, LineInv
  <2>2. LineInv' /\ TapeLags'
    BY <2>1, NextInv, TapeNext
  <2> QED BY <2>2 DEF PlaybackInv, LineInv
<1> QED BY <1>1, <1>2, PTL DEF Spec

\* Between two seeks the frames that are cut have every sample once and in order;
\* after a seek they start where it landed, and never go back to sound from before
\* it.
THEOREM PlaybackInOrder == Spec => CutInOrder
<1> DEFINE Step ==
      cut' # cut /\ cut # <<>> =>
         LET old == cut[FrameLen]
             new == cut'[1]
         IN \/ new.seek = old.seek /\ new.at = old.at + 1
            \/ new.seek > old.seek /\ new.at - 1 \in Landings
<1>1. ASSUME PlaybackInv, [Next]_vars PROVE [Step]_vars
  <2>0. LineInv
    BY <1>1 DEF PlaybackInv, LineInv
  <2>1. CASE PopFrame
    BY <2>0, <2>1, CutNext
  <2>2. CASE ~PopFrame
    <3>1. cut' = cut
      BY <1>1, <2>2
      DEF Next, Handle, Monitor, Decoder, Tick, SetPaused, Seek, Stop, Reap, GetState, Clear,
          CheckCommands, Mark, NextPacket, Push, Retain, Load, PullChunk, NoFrame, Finish,
          decRest, mixerVars, vars
    <3> QED BY <3>1
  <2> QED BY <2>1, <2>2
<1> HIDE DEF Step
<1>2. PlaybackInv /\ [Next]_vars => [Step]_vars
  BY <1>1
<1>3. Spec => [][Step]_vars
  BY <1>2, PlaybackCorrect, PTL DEF Spec
<1> QED BY <1>3 DEF CutInOrder, Step
=============================================================================
