--------------------------- MODULE AudioPath_proof ---------------------------
(***************************************************************************)
(* Proofs about the audio's way to the desktop: from the extension's       *)
(* document, for any chunk size, any number of samples and any number of   *)
(* lost connections; and from the test client, for any two files.          *)
(***************************************************************************)
EXTENDS AudioPath, SequenceTheorems, WellFoundedInduction, TLAPS

-----------------------------------------------------------------------------
(* The audio on its way: from the worklet's quanta through the accumulator *)
(* and the socket to the two lanes of the desktop.                         *)

\* The chunk of a lane behind its first a samples, and the extension's frame
\* of it.
Chunk(a) == [i \in 1 .. CHUNK_SAMPLES |-> a + i]
Voice(l, a) == Binary(ExtensionFrame(l, 1, Chunk(a)))
Messages == {Text(HelloText)} \cup {Voice(l, a) : l \in StreamIds, a \in 0 .. MaxSpoken}
Frames == [conn : 1 .. MaxLost + 1, samples : {Chunk(a) : a \in 0 .. MaxSpoken}]
Accumulators == [samples : [1 .. CHUNK_SAMPLES -> 0 .. MaxSpoken], fill : 0 .. CHUNK_SAMPLES - 1]

SpeechTypeOK ==
  /\ socket \in {"connecting", "open"} /\ conn \in 1 .. MaxLost + 1 /\ step = "none"
  /\ spoken \in [StreamIds -> 0 .. MaxSpoken] /\ acc \in [StreamIds -> Accumulators]
  /\ wire \in Seq(Messages) /\ heard \in [StreamIds -> Seq(Frames)]
  /\ socket = "connecting" => wire = <<>> /\ ~seen

\* What of a lane has left its accumulator; what is in it follows.
Collected(l) == spoken[l] - acc[l].fill
AccInv ==
  \A l \in StreamIds :
    /\ 0 <= Collected(l)
    /\ \A i \in 1 .. acc[l].fill : acc[l].samples[i] = Collected(l) + i

\* Up to where a lane has been heard, and whether on this connection.
UpTo(l) == IF heard[l] = <<>> THEN 0 ELSE Last(Last(heard[l]).samples)
HeardNow(l) == heard[l] # <<>> /\ Last(heard[l]).conn = conn

\* place[k] is where the lane stands before the k-th message in flight: its
\* frames lead without a gap from there to what was collected last.  What was
\* heard on this connection ends where they begin; what was heard on an
\* earlier one, no later.
Follows(l, place) ==
  /\ place[Len(wire) + 1] = Collected(l)
  /\ \A k \in 1 .. Len(wire) :
       IF wire[k].binary /\ wire[k].bytes[1][2] = l
       THEN wire[k] = Voice(l, place[k]) /\ place[k + 1] = place[k] + CHUNK_SAMPLES
       ELSE place[k + 1] = place[k]
  /\ IF HeardNow(l) THEN UpTo(l) = place[1] ELSE UpTo(l) <= place[1]
WireInv ==
  \A l \in StreamIds :
    /\ HeardNow(l) => seen
    /\ heard[l] # <<>> => Last(heard[l]).conn <= conn
    /\ \E place \in [1 .. Len(wire) + 1 -> 0 .. Collected(l)] : Follows(l, place)

SpeechInv ==
  client = "extension" => SpeechTypeOK /\ AccInv /\ WireInv /\ SpeechIsContiguous

\* A set of numbers with zero and every successor has all of them: induction,
\* for a property written as a set.
LEMMA SetInduction ==
  ASSUME NEW T, T \subseteq Nat, 0 \in T, \A n \in T : n + 1 \in T
  PROVE  T = Nat
<1> DEFINE U == Nat \ T
<1> DEFINE R == OpToRel(<, Nat)
<1> SUFFICES ASSUME U # {} PROVE FALSE
  OBVIOUS
<1>1. IsWellFoundedOn(R, Nat)
  BY NatLessThanWellFounded
<1>2. \A x, y \in Nat : x < y => <<x, y>> \in R
  BY DEF OpToRel
<1> HIDE DEF R
<1>3. PICK m \in U : \A y \in U : ~ (<<y, m>> \in R)
  <2>1. U \subseteq Nat
    OBVIOUS
  <2> HIDE DEF U
  <2> QED
    BY <1>1, <2>1, WFMin
<1>4. m # 0 /\ m - 1 \in Nat
  OBVIOUS
<1>5. m - 1 \notin U
  <2>1. m \in Nat /\ m - 1 < m
    BY <1>4
  <2>2. <<m - 1, m>> \in R
    BY <1>2, <1>4, <2>1
  <2> HIDE DEF U
  <2> QED
    BY <1>3, <2>2
<1> QED
  BY <1>4, <1>5

Cells == {"tag", "ts", "low", "high"} \X Nat

\* A frame holds a sample at least.
LEMMA ChunkSize == CHUNK_SAMPLES \in Nat \ {0}
  BY AudioAssumption

\* The bytes of a chunk: two for every sample.
LEMMA ChunkBytes ==
  ASSUME NEW a \in Nat
  PROVE  /\ SampleBytes(Chunk(a)) \in Seq(Cells)
         /\ Len(SampleBytes(Chunk(a))) = 2 * CHUNK_SAMPLES
         /\ \A i \in 1 .. CHUNK_SAMPLES : SampleBytes(Chunk(a))[2 * i - 1][2] = a + i
<1> DEFINE C == CHUNK_SAMPLES
<1>0. C \in Nat \ {0}
  BY ChunkSize
<1>1. Chunk(a) \in [1 .. C -> Nat]
  BY <1>0 DEF Chunk
<1>2. Len(Chunk(a)) = C
  <2>1. Chunk(a) \in Seq(Nat)
    BY <1>0, <1>1, SeqDef
  <2>2. 1 .. Len(Chunk(a)) = 1 .. C /\ Len(Chunk(a)) \in Nat
    BY <1>1, <2>1, LenProperties
  <2> QED
    BY <1>0, <2>2
<1> DEFINE b == [i \in 1 .. 2 * C |->
                   <<IF i % 2 = 1 THEN "low" ELSE "high", Chunk(a)[(i + 1) \div 2]>>]
<1>3. SampleBytes(Chunk(a)) = b
  BY <1>2 DEF SampleBytes
<1>4. b \in [1 .. 2 * C -> Cells]
  <2>1. ASSUME NEW i \in 1 .. 2 * C
        PROVE  Chunk(a)[(i + 1) \div 2] \in Nat
    <3>1. (i + 1) \div 2 \in 1 .. C
      BY <1>0
    <3> QED
      BY <1>1, <3>1
  <2>2. \A i \in 1 .. 2 * C : (IF i % 2 = 1 THEN "low" ELSE "high") \in {"low", "high"}
    OBVIOUS
  <2>3. \A i \in 1 .. 2 * C :
          <<IF i % 2 = 1 THEN "low" ELSE "high", Chunk(a)[(i + 1) \div 2]>> \in Cells
    BY <2>1, <2>2 DEF Cells
  <2> QED
    BY Zenon, <2>3
<1>5. \A i \in 1 .. C : b[2 * i - 1][2] = a + i
  <2> SUFFICES ASSUME NEW i \in 1 .. C PROVE b[2 * i - 1][2] = a + i
    OBVIOUS
  <2>1. 2 * i - 1 \in 1 .. 2 * C /\ (2 * i - 1 + 1) \div 2 = i
    BY <1>0
  <2>2. Chunk(a)[i] = a + i
    BY <1>0 DEF Chunk
  <2> QED
    BY <2>1, <2>2
<1> HIDE DEF b
<1>6. b \in Seq(Cells) /\ 2 * C \in Nat
  BY <1>0, <1>4, SeqDef
<1>7. Len(b) = 2 * C
  <2>1. 1 .. Len(b) = 1 .. 2 * C /\ Len(b) \in Nat
    BY <1>4, <1>6, LenProperties
  <2> QED
    BY <1>6, <2>1
<1> QED
  BY <1>3, <1>5, <1>6, <1>7

\* What the extension writes the server reads: lane and samples arrive.
LEMMA VoiceIsParsed ==
  ASSUME NEW l \in StreamIds, NEW a \in Nat
  PROVE  /\ Voice(l, a).binary /\ Voice(l, a).bytes[1][2] = l
         /\ ParseBinaryFrame(Voice(l, a).bytes) = <<[stream |-> l, samples |-> Chunk(a)]>>
<1> DEFINE C == CHUNK_SAMPLES
           head == <<<<"tag", l>>, <<"ts", 1>>>>
           body == SampleBytes(Chunk(a))
           bytes == Voice(l, a).bytes
<1>0. C \in Nat \ {0}
  BY ChunkSize
<1>1. Voice(l, a).binary /\ bytes = head \o body
  BY DEF Voice, Binary, ExtensionFrame
<1>2. l \in Nat /\ l < kStreamCount
  BY DEF StreamIds, kStreamCount
<1>3. head \in Seq(Cells) /\ Len(head) = 2 /\ head[1] = <<"tag", l>> /\ head[2] = <<"ts", 1>>
  <2>1. <<"tag", l>> \in Cells /\ <<"ts", 1>> \in Cells
    BY <1>2 DEF Cells
  <2> QED
    BY <2>1
<1>4. /\ body \in Seq(Cells) /\ Len(body) = 2 * C
      /\ \A i \in 1 .. C : body[2 * i - 1][2] = a + i
  BY ChunkBytes
<1> HIDE DEF head, body, bytes
<1>5. /\ Len(bytes) = 2 + 2 * C
      /\ \A i \in 1 .. 2 + 2 * C : bytes[i] = IF i <= 2 THEN head[i] ELSE body[i - 2]
  <2>1. /\ Len(head \o body) = Len(head) + Len(body)
        /\ \A i \in 1 .. Len(head) + Len(body) :
             (head \o body)[i] = IF i <= Len(head) THEN head[i] ELSE body[i - Len(head)]
    BY <1>3, <1>4, ConcatProperties
  <2> QED
    BY <1>1, <1>3, <1>4, <2>1
<1>6. bytes[1] = <<"tag", l>> /\ bytes[2] = <<"ts", 1>>
  BY <1>0, <1>3, <1>5
<1>7. \A i \in 1 .. C : bytes[2 + 2 * i - 1][2] = a + i
  <2> SUFFICES ASSUME NEW i \in 1 .. C PROVE bytes[2 + 2 * i - 1][2] = a + i
    OBVIOUS
  <2>1. 2 + 2 * i - 1 \in 1 .. 2 + 2 * C /\ ~(2 + 2 * i - 1 <= 2) /\ (2 + 2 * i - 1) - 2 = 2 * i - 1
    BY <1>0
  <2> QED
    BY <1>4, <1>5, <2>1
<1>8. [i \in 1 .. C |-> bytes[2 + 2 * i - 1][2]] = Chunk(a)
  BY <1>7 DEF Chunk
<1>9. /\ (Len(bytes) - 2) % 2 = 0 /\ (Len(bytes) - 2) \div 2 = C /\ Len(bytes) >= 2
      /\ bytes[2][1] # "nan" /\ bytes[1][2] = l
  <2>1. bytes[2][1] # "nan" /\ bytes[1][2] = l
    BY <1>6
  <2>2. (2 * C) % 2 = 0 /\ (2 * C) \div 2 = C
    BY <1>0
  <2>3. Len(bytes) - 2 = 2 * C /\ Len(bytes) >= 2
    BY <1>0, <1>5
  <2> QED
    BY <2>1, <2>2, <2>3
<1>10. ParseBinaryFrame(bytes) = <<[stream |-> l, samples |-> Chunk(a)]>>
  <2>1. [i \in 1 .. (Len(bytes) - 2) \div 2 |-> bytes[2 + 2 * i - 1][2]] = Chunk(a)
    BY <1>8, <1>9
  <2> QED
    BY <1>2, <1>9, <2>1 DEF ParseBinaryFrame, kFrameHeaderSize, NaN
<1> QED
  <2>1. Voice(l, a).binary
    BY DEF Voice, Binary
  <2> QED
    BY <1>9, <1>10, <2>1 DEF bytes

-----------------------------------------------------------------------------
(* makeAccumulator's loop.                                                 *)

Posted(p, n) == [i \in 1 .. n |-> p + i]

\* A quantum is as long as it says.
LEMMA PostedLength ==
  ASSUME NEW p \in Nat, NEW n \in Nat
  PROVE  Len(Posted(p, n)) = n
<1>1. Posted(p, n) \in [1 .. n -> Nat]
  BY DEF Posted
<1>2. Posted(p, n) \in Seq(Nat)
  BY <1>1, SeqDef
<1>3. 1 .. Len(Posted(p, n)) = 1 .. n /\ Len(Posted(p, n)) \in Nat
  BY <1>1, <1>2, LenProperties
<1> QED
  BY <1>3

\* Frames that take a lane from e on to t, without a gap.
Leads(frames, l, e, t, at) ==
  /\ at \in [1 .. Len(frames) + 1 -> e .. t]
  /\ at[1] = e /\ at[Len(frames) + 1] = t
  /\ \A k \in 1 .. Len(frames) :
       frames[k] = Voice(l, at[k]) /\ at[k + 1] = at[k] + CHUNK_SAMPLES

\* The loop's invariant, n samples having been posted behind p and the lane
\* having been collected up to e: what is in the accumulator follows what has
\* been collected.
Collecting(l, p, n, e, st) ==
  LET t == p + st.off - st.fill IN
  /\ st.samples \in [1 .. CHUNK_SAMPLES -> 0 .. MaxSpoken]
  /\ st.fill \in 0 .. CHUNK_SAMPLES - 1 /\ st.off \in 0 .. n
  /\ e <= t
  /\ \A i \in 1 .. st.fill : st.samples[i] = t + i
  /\ st.frames \in Seq(Messages)
  /\ \E at \in [1 .. Len(st.frames) + 1 -> e .. t] : Leads(st.frames, l, e, t, at)

\* A frame more leads a chunk further.
LEMMA LeadsOn ==
  ASSUME NEW l \in StreamIds, NEW e \in Nat, NEW t \in Nat, t <= MaxSpoken,
         NEW frames \in Seq(Messages), NEW at, Leads(frames, l, e, t, at)
  PROVE  LET more == Append(frames, Voice(l, t)) IN
         /\ more \in Seq(Messages)
         /\ \E a \in [1 .. Len(more) + 1 -> e .. (t + CHUNK_SAMPLES)] :
              Leads(more, l, e, t + CHUNK_SAMPLES, a)
<1> DEFINE C == CHUNK_SAMPLES
           m == Len(frames)
           more == Append(frames, Voice(l, t))
           a == [k \in 1 .. m + 2 |-> IF k <= m + 1 THEN at[k] ELSE t + C]
<1>0. C \in Nat \ {0} /\ MaxSpoken \in Nat /\ m \in Nat
  BY AudioAssumption, LenProperties
<1>1. Voice(l, t) \in Messages
  BY DEF Messages
<1>2. /\ more \in Seq(Messages) /\ Len(more) = m + 1 /\ more[m + 1] = Voice(l, t)
      /\ \A k \in 1 .. m : more[k] = frames[k]
  BY <1>1, AppendProperties
<1>3. /\ at \in [1 .. m + 1 -> e .. t] /\ at[1] = e /\ at[m + 1] = t
      /\ \A k \in 1 .. m : frames[k] = Voice(l, at[k]) /\ at[k + 1] = at[k] + C
  BY DEF Leads
<1>4. a \in [1 .. m + 2 -> e .. (t + C)]
  <2>1. \A k \in 1 .. m + 1 : at[k] \in e .. (t + C)
    BY SMTT(30), <1>0, <1>3
  <2>2. e <= t
    <3>1. at[1] \in e .. t
      <4>1. 1 \in 1 .. m + 1
        BY <1>0
      <4> QED
        BY <1>3, <4>1
    <3> QED
      BY <3>1
  <2> QED
    BY <1>0, <2>1, <2>2
<1>5. a[1] = e /\ a[m + 2] = t + C
  BY <1>0, <1>3
<1>6. \A k \in 1 .. m + 1 : more[k] = Voice(l, a[k]) /\ a[k + 1] = a[k] + C
  <2> SUFFICES ASSUME NEW k \in 1 .. m + 1
               PROVE  more[k] = Voice(l, a[k]) /\ a[k + 1] = a[k] + C
    OBVIOUS
  <2>1. CASE k = m + 1
    BY <1>0, <1>2, <1>3, <2>1
  <2>2. CASE k # m + 1
    <3>1. k \in 1 .. m /\ k + 1 \in 1 .. m + 1 /\ k + 1 \in 1 .. m + 2 /\ k \in 1 .. m + 2
      BY <1>0, <2>2
    <3>2. a[k] = at[k] /\ a[k + 1] = at[k + 1]
      BY <1>0, <3>1
    <3> QED
      BY <1>2, <1>3, <3>1, <3>2
  <2> QED
    BY <2>1, <2>2
<1> HIDE DEF a, more, m
<1>7. Len(more) + 1 = m + 2
  BY <1>0, <1>2
<1>8. Leads(more, l, e, t + C, a)
  BY <1>2, <1>4, <1>5, <1>6, <1>7 DEF Leads
<1> QED
  BY <1>2, <1>4, <1>7, <1>8 DEF more

\* One pass keeps the invariant and takes at least one sample.
LEMMA PassCollects ==
  ASSUME NEW l \in StreamIds, NEW p \in Nat, NEW n \in Nat, p + n <= MaxSpoken,
         NEW e \in Nat, NEW st, Collecting(l, p, n, e, st), st.off < n
  PROVE  LET new == Pass(l, Posted(p, n), st)
         IN Collecting(l, p, n, e, new) /\ st.off < new.off
<1> DEFINE C == CHUNK_SAMPLES
<1>0. C \in Nat \ {0} /\ MaxSpoken \in Nat
  BY AudioAssumption
<1>1. PICK fill \in 0 .. C - 1, off0 \in 0 .. n : fill = st.fill /\ off0 = st.off
  BY DEF Collecting
<1>2. PICK t \in Nat : t = p + off0 - fill /\ e <= t
  BY <1>1 DEF Collecting
<1>3. /\ st.samples \in [1 .. C -> 0 .. MaxSpoken]
      /\ \A i \in 1 .. fill : st.samples[i] = t + i
      /\ st.frames \in Seq(Messages)
      /\ \E at \in [1 .. Len(st.frames) + 1 -> e .. t] : Leads(st.frames, l, e, t, at)
  BY <1>1, <1>2 DEF Collecting
<1>4. Len(Posted(p, n)) = n
  BY PostedLength
<1>5. off0 < n
  BY <1>1
<1> DEFINE took == IF C - st.fill < Len(Posted(p, n)) - st.off
                   THEN C - st.fill ELSE Len(Posted(p, n)) - st.off
           filled == [i \in 1 .. C |->
                        IF i > st.fill /\ i <= st.fill + took
                        THEN Posted(p, n)[st.off + i - st.fill] ELSE st.samples[i]]
           full == st.fill + took = C
           new == Pass(l, Posted(p, n), st)
<1> SUFFICES Collecting(l, p, n, e, new) /\ st.off < new.off
  OBVIOUS
<1>6. took \in Nat \ {0} /\ fill + took <= C /\ off0 + took <= n
  <2>1. took = IF C - fill < n - off0 THEN C - fill ELSE n - off0
    BY <1>1, <1>4
  <2> HIDE DEF took, filled, full, new
  <2> QED
    BY <1>0, <1>5, <2>1
<1>7. /\ \A i \in 1 .. C : filled[i] = IF i > fill /\ i <= fill + took
                                       THEN Posted(p, n)[off0 + i - fill] ELSE st.samples[i]
      /\ filled = [i \in 1 .. C |-> filled[i]]
  BY <1>1
<1>8. /\ new.samples = filled
      /\ new.fill = IF full THEN 0 ELSE fill + took
      /\ new.off = off0 + took
      /\ new.frames = IF full THEN Append(st.frames, Binary(ExtensionFrame(l, 1, filled)))
                      ELSE st.frames
  <2>1. new = [samples |-> filled, fill |-> IF full THEN 0 ELSE st.fill + took,
               off |-> st.off + took,
               frames |-> IF full
                          THEN Append(st.frames, Binary(ExtensionFrame(l, 1, filled)))
                          ELSE st.frames]
    BY Zenon DEF Pass
  <2> HIDE DEF new, filled, took
  <2> QED
    BY <1>1, <2>1
<1>8a. full <=> fill + took = C
  BY <1>1
<1> HIDE DEF new, filled, took, full
<1>9. \A i \in 1 .. C : i <= fill + took => filled[i] = t + i /\ filled[i] \in 0 .. MaxSpoken
  <2> SUFFICES ASSUME NEW i \in 1 .. C, i <= fill + took
               PROVE  filled[i] = t + i /\ filled[i] \in 0 .. MaxSpoken
    OBVIOUS
  <2>1. CASE i <= fill
    <3>1. filled[i] = st.samples[i] /\ i \in 1 .. fill
      BY <1>7, <2>1
    <3> QED
      BY <1>3, <3>1
  <2>2. CASE ~(i <= fill)
    <3>1. off0 + i - fill \in 1 .. n
      BY <1>6, <2>2
    <3>2. filled[i] = Posted(p, n)[off0 + i - fill]
      BY <1>7, <2>2
    <3>3. filled[i] = p + (off0 + i - fill)
      BY <3>1, <3>2 DEF Posted
    <3> QED
      BY <1>0, <1>2, <3>1, <3>3
  <2> QED
    BY <2>1, <2>2
<1>11. filled \in [1 .. C -> 0 .. MaxSpoken]
  <2>1. \A i \in 1 .. C : ~(i <= fill + took) => filled[i] = st.samples[i]
    BY <1>6, <1>7
  <2>2. \A i \in 1 .. C : filled[i] \in 0 .. MaxSpoken
    BY <1>3, <1>9, <2>1
  <2> QED
    BY <1>7, <2>2
<1>12. new.off \in 0 .. n /\ st.off < new.off
  BY <1>1, <1>6, <1>8
<1>13. CASE full
  <2>1. filled = Chunk(t)
    <3>1. \A i \in 1 .. C : filled[i] = t + i
      BY <1>8a, <1>9, <1>13
    <3> QED
      BY <1>7, <3>1 DEF Chunk
  <2>2. t <= MaxSpoken
    BY <1>0, <1>2
  <2>3. new.frames = Append(st.frames, Voice(l, t)) /\ new.fill = 0 /\ new.off = off0 + took
    BY <1>8, <1>13, <2>1 DEF Voice
  <2>4. p + new.off - new.fill = t + C
    BY <1>0, <1>2, <1>6, <1>8a, <1>13, <2>3
  <2>5. /\ new.frames \in Seq(Messages)
        /\ \E a \in [1 .. Len(new.frames) + 1 -> e .. (t + C)] : Leads(new.frames, l, e, t + C, a)
    <3>1. PICK at : Leads(st.frames, l, e, t, at)
      BY <1>3
    <3>2. /\ Append(st.frames, Voice(l, t)) \in Seq(Messages)
          /\ \E a \in [1 .. Len(Append(st.frames, Voice(l, t))) + 1 -> e .. (t + C)] :
               Leads(Append(st.frames, Voice(l, t)), l, e, t + C, a)
      BY <1>3, <2>2, <3>1, LeadsOn
    <3> QED
      BY <2>3, <3>2
  <2>6. new.fill \in 0 .. C - 1 /\ e <= t + C
    BY <1>0, <1>2, <2>3
  <2>7. \A i \in 1 .. new.fill : new.samples[i] = t + C + i
    BY <2>3
  <2>8. Collecting(l, p, n, e, new)
    BY <1>8, <1>11, <1>12, <2>4, <2>5, <2>6, <2>7 DEF Collecting
  <2> QED
    BY <1>8, <1>12, <2>8
<1>14. CASE ~full
  <2>1. new.frames = st.frames /\ new.fill = fill + took /\ new.off = off0 + took
    BY <1>8, <1>14
  <2>2. p + new.off - new.fill = t
    BY <1>2, <1>6, <2>1
  <2>3. new.fill \in 0 .. C - 1
    BY <1>0, <1>6, <1>8a, <1>14, <2>1
  <2>4. \A i \in 1 .. new.fill : new.samples[i] = t + i
    BY <1>0, <1>6, <1>8, <1>9, <2>1
  <2>5. Collecting(l, p, n, e, new)
    BY <1>2, <1>3, <1>8, <1>11, <1>12, <2>1, <2>2, <2>3, <2>4 DEF Collecting
  <2> QED
    BY <1>8, <1>12, <2>5
<1> QED
  BY <1>13, <1>14

\* The loop written as a recursive function: pass i comes from pass i - 1.
Rows(after, l, mono, first, n) ==
  [i \in 0 .. n |->
     IF i = 0 THEN first
     ELSE IF after[i - 1].off < Len(mono) THEN Pass(l, mono, after[i - 1])
     ELSE after[i - 1]]

\* There is such a function, for any number of passes.
LEMMA RowsExist ==
  ASSUME NEW l, NEW mono, NEW first, NEW n \in Nat
  PROVE  \E after : after = Rows(after, l, mono, first, n)
<1> DEFINE T == {k \in Nat : \E after : after = Rows(after, l, mono, first, k)}
<1>1. 0 \in T
  <2> DEFINE zero == [i \in 0 .. 0 |-> first]
  <2>1. zero = Rows(zero, l, mono, first, 0)
    BY DEF Rows
  <2> QED
    BY <2>1
<1>2. ASSUME NEW k \in T PROVE k + 1 \in T
  <2>1. PICK after : after = Rows(after, l, mono, first, k)
    OBVIOUS
  <2> DEFINE next == IF after[k].off < Len(mono) THEN Pass(l, mono, after[k]) ELSE after[k]
             more == [i \in 0 .. k + 1 |-> IF i = k + 1 THEN next ELSE after[i]]
  <2>2. \A i \in 0 .. k :
          after[i] = IF i = 0 THEN first
                     ELSE IF after[i - 1].off < Len(mono) THEN Pass(l, mono, after[i - 1])
                     ELSE after[i - 1]
    BY <2>1 DEF Rows
  <2>3. \A i \in 0 .. k : more[i] = after[i]
    OBVIOUS
  <2>4. more[k + 1] = next
    OBVIOUS
  <2>5. \A i \in 1 .. k + 1 : more[i - 1] = after[i - 1]
    BY <2>3
  <2>6. more = [i \in 0 .. k + 1 |-> more[i]]
    OBVIOUS
  <2> HIDE DEF more
  <2>7. \A i \in 0 .. k + 1 :
          more[i] = IF i = 0 THEN first
                    ELSE IF more[i - 1].off < Len(mono) THEN Pass(l, mono, more[i - 1])
                    ELSE more[i - 1]
    <3> SUFFICES ASSUME NEW i \in 0 .. k + 1
                 PROVE  more[i] = IF i = 0 THEN first
                                  ELSE IF more[i - 1].off < Len(mono)
                                  THEN Pass(l, mono, more[i - 1]) ELSE more[i - 1]
      OBVIOUS
    <3>1. CASE i = k + 1
      BY <2>4, <2>5, <3>1
    <3>2. CASE i # k + 1
      BY <2>2, <2>3, <2>5, <3>2
    <3> QED
      BY <3>1, <3>2
  <2>8. more = Rows(more, l, mono, first, k + 1)
    BY <2>6, <2>7 DEF Rows
  <2> QED
    BY <2>8
<1> HIDE DEF T
<1>3. T = Nat
  <2>1. T \subseteq Nat
    BY DEF T
  <2> QED
    BY <1>1, <1>2, <2>1, SetInduction
<1>4. n \in T
  BY <1>3
<1> QED
  BY <1>4 DEF T

\* So Accumulate is the last of those passes.
LEMMA AccumulateUnfolds ==
  ASSUME NEW l, NEW mono, Len(mono) \in Nat
  PROVE  \E after :
           /\ after = Rows(after, l, mono, [samples |-> acc[l].samples, fill |-> acc[l].fill,
                                            off |-> 0, frames |-> <<>>], Len(mono))
           /\ Accumulate(l, mono) = after[Len(mono)]
<1> DEFINE first == [samples |-> acc[l].samples, fill |-> acc[l].fill, off |-> 0, frames |-> <<>>]
           after == CHOOSE g : g = [i \in 0 .. Len(mono) |->
                       IF i = 0 THEN first
                       ELSE IF g[i - 1].off < Len(mono) THEN Pass(l, mono, g[i - 1])
                       ELSE g[i - 1]]
<1>1. Accumulate(l, mono) = after[Len(mono)]
  BY DEF Accumulate
<1>2. \E g : g = [i \in 0 .. Len(mono) |->
                       IF i = 0 THEN first
                       ELSE IF g[i - 1].off < Len(mono) THEN Pass(l, mono, g[i - 1])
                       ELSE g[i - 1]]
  <2> HIDE DEF first, after
  <2>1. PICK g : g = Rows(g, l, mono, first, Len(mono))
    BY RowsExist
  <2> QED
    BY <2>1 DEF Rows
<1>3. after = [i \in 0 .. Len(mono) |->
                       IF i = 0 THEN first
                       ELSE IF after[i - 1].off < Len(mono) THEN Pass(l, mono, after[i - 1])
                       ELSE after[i - 1]]
  BY <1>2
<1> HIDE DEF after
<1> QED
  BY <1>1, <1>3 DEF Rows

\* Accumulate takes everything that is posted, and the loop's invariant holds
\* when it is done.
LEMMA AccumulateCollects ==
  ASSUME NEW l \in StreamIds, spoken[l] \in Nat, NEW n \in Nat, spoken[l] + n <= MaxSpoken,
         acc[l] \in Accumulators, 0 <= Collected(l),
         \A i \in 1 .. acc[l].fill : acc[l].samples[i] = Collected(l) + i
  PROVE  LET st == Accumulate(l, Posted(spoken[l], n))
         IN Collecting(l, spoken[l], n, Collected(l), st) /\ st.off = n
<1> DEFINE p == spoken[l]
           e == Collected(l)
           mono == Posted(p, n)
           first == [samples |-> acc[l].samples, fill |-> acc[l].fill, off |-> 0, frames |-> <<>>]
<1>1. Len(mono) = n
  BY PostedLength
<1>2. acc[l].fill \in 0 .. CHUNK_SAMPLES - 1 /\ acc[l].samples \in [1 .. CHUNK_SAMPLES -> 0 .. MaxSpoken]
  BY DEF Accumulators
<1>3. e \in Nat /\ e = p - acc[l].fill
  BY <1>2, ChunkSize DEF Collected
<1>4. Collecting(l, p, n, e, first)
  <2>1. Leads(<<>>, l, e, e, [k \in 1 .. 1 |-> e])
    BY <1>3 DEF Leads
  <2>2. [k \in 1 .. 1 |-> e] \in [1 .. Len(<<>>) + 1 -> e .. e]
    BY <1>3
  <2>3. <<>> \in Seq(Messages)
    OBVIOUS
  <2>4. p + 0 - acc[l].fill = e
    BY <1>2, <1>3
  <2>5. \A i \in 1 .. acc[l].fill : acc[l].samples[i] = e + i
    OBVIOUS
  <2> DEFINE f == first
  <2>6. f.samples = acc[l].samples /\ f.fill = acc[l].fill /\ f.off = 0 /\ f.frames = <<>>
    OBVIOUS
  <2> HIDE DEF f, e, p
  <2>7. Collecting(l, p, n, e, f)
    BY <1>2, <1>3, <2>1, <2>2, <2>3, <2>4, <2>5, <2>6 DEF Collecting
  <2> QED
    BY <2>7 DEF f
<1>5. PICK after : /\ after = Rows(after, l, mono, first, Len(mono))
                   /\ Accumulate(l, mono) = after[Len(mono)]
  BY <1>1, AccumulateUnfolds
<1> HIDE DEF first, mono
<1>6. /\ after[0] = first
      /\ \A i \in 1 .. n : after[i] = IF after[i - 1].off < n THEN Pass(l, mono, after[i - 1])
                                      ELSE after[i - 1]
  BY <1>1, <1>5 DEF Rows
<1> DEFINE T == {k \in Nat : k <= n =>
                   /\ Collecting(l, p, n, e, after[k])
                   /\ after[k].off >= k \/ after[k].off = n}
<1>7. 0 \in T
  BY <1>4, <1>6 DEF first
<1>8. ASSUME NEW k \in T PROVE k + 1 \in T
  <2> SUFFICES ASSUME k + 1 <= n
               PROVE  /\ Collecting(l, p, n, e, after[k + 1])
                      /\ after[k + 1].off >= k + 1 \/ after[k + 1].off = n
    OBVIOUS
  <2>1. /\ Collecting(l, p, n, e, after[k])
        /\ after[k].off >= k \/ after[k].off = n
    OBVIOUS
  <2>2. k \in Nat /\ k + 1 \in 1 .. n /\ (k + 1) - 1 = k
    OBVIOUS
  <2>3. after[k + 1] = IF after[k].off < n THEN Pass(l, mono, after[k]) ELSE after[k]
    BY <1>6, <2>2
  <2>4. after[k].off \in 0 .. n
    BY <2>1 DEF Collecting
  <2>5. CASE after[k].off < n
    <3>1. Collecting(l, p, n, e, after[k + 1]) /\ after[k].off < after[k + 1].off
      BY <1>3, <2>1, <2>3, <2>5, PassCollects DEF mono
    <3>2. after[k + 1].off \in 0 .. n
      BY <3>1 DEF Collecting
    <3> HIDE DEF T
    <3> QED
      BY <2>1, <2>2, <2>4, <2>5, <3>1, <3>2
  <2>6. CASE ~(after[k].off < n)
    <3> HIDE DEF T
    <3> QED
      BY <2>1, <2>2, <2>3, <2>4, <2>6
  <2> QED
    BY <2>5, <2>6
<1> HIDE DEF T
<1>9. n \in T
  <2>1. T \subseteq Nat
    BY DEF T
  <2> QED
    BY <1>7, <1>8, <2>1, SetInduction
<1>10. Collecting(l, p, n, e, after[n]) /\ (after[n].off >= n \/ after[n].off = n)
  BY <1>9 DEF T
<1>11. after[n].off = n
  BY <1>10 DEF Collecting
<1> QED
  BY <1>1, <1>5, <1>10, <1>11 DEF mono

-----------------------------------------------------------------------------
(* Speech, from the accumulators to onAudio.                               *)

\* The samples of a chunk, and its last one.
LEMMA ChunkFacts ==
  ASSUME NEW a \in Nat
  PROVE  /\ Len(Chunk(a)) = CHUNK_SAMPLES
         /\ \A j \in 1 .. CHUNK_SAMPLES : Chunk(a)[j] = a + j
         /\ Chunk(a)[1] = a + 1 /\ Last(Chunk(a)) = a + CHUNK_SAMPLES
<1>0. CHUNK_SAMPLES \in Nat \ {0}
  BY ChunkSize
<1>1. Chunk(a) = Posted(a, CHUNK_SAMPLES)
  BY DEF Chunk, Posted
<1>2. Len(Chunk(a)) = CHUNK_SAMPLES
  BY <1>0, <1>1, PostedLength
<1>3. \A j \in 1 .. CHUNK_SAMPLES : Chunk(a)[j] = a + j
  BY DEF Chunk
<1> QED
  BY <1>0, <1>2, <1>3 DEF Last

Speech == client = "extension" /\ SpeechTypeOK /\ AccInv /\ WireInv /\ SpeechIsContiguous

\* The extension sends its hello and chunks of its lanes, and nothing else.
LEMMA MessageKinds ==
  ASSUME NEW m \in Messages
  PROVE  \/ m = Text(HelloText) /\ ~m.binary
         \/ \E l \in StreamIds, a \in 0 .. MaxSpoken : m = Voice(l, a) /\ m.binary
<1>1. CASE m = Text(HelloText)
  BY <1>1 DEF Text
<1>2. CASE \E l \in StreamIds, a \in 0 .. MaxSpoken : m = Voice(l, a)
  <2>1. PICK l \in StreamIds, a \in 0 .. MaxSpoken : m = Voice(l, a)
    BY <1>2
  <2>2. m.binary
    BY <2>1 DEF Voice, Binary
  <2> QED
    BY <2>1, <2>2
<1> QED
  BY <1>1, <1>2 DEF Messages

\* A lane that stands at Collected(l) with at most a hello in flight.
LEMMA NothingInFlight ==
  ASSUME NEW l \in StreamIds, Collected(l)' \in Nat,
         wire' = <<>> \/ wire' = <<Text(HelloText)>>,
         ~HeardNow(l)', UpTo(l)' <= Collected(l)'
  PROVE  (\E place \in [1 .. Len(wire) + 1 -> 0 .. Collected(l)] : Follows(l, place))'
<1>0. PICK place : place = [k \in 1 .. Len(wire') + 1 |-> Collected(l)']
  OBVIOUS
<1>1. Len(wire') \in {0, 1} /\ \A k \in 1 .. Len(wire') : ~wire'[k].binary
  BY DEF Text
<1>2. place \in [1 .. Len(wire') + 1 -> 0 .. Collected(l)']
  BY <1>0
<1>3. \A k \in 1 .. Len(wire') + 1 : place[k] = Collected(l)'
  BY <1>0
<1>4. \A k \in 1 .. Len(wire') : k \in 1 .. Len(wire') + 1 /\ k + 1 \in 1 .. Len(wire') + 1
  BY <1>1
<1>5. 1 \in 1 .. Len(wire') + 1 /\ Len(wire') + 1 \in 1 .. Len(wire') + 1
  BY <1>1
<1>6. Follows(l, place)'
  BY <1>1, <1>3, <1>4, <1>5 DEF Follows
<1> QED
  BY <1>2, <1>6

\* What a lane has been heard up to is a place in what it has collected.
LEMMA HeardPlace ==
  ASSUME Speech, NEW l \in StreamIds
  PROVE  /\ Collected(l) \in Nat /\ UpTo(l) \in Nat /\ UpTo(l) <= Collected(l)
         /\ heard[l] # <<>> => Last(heard[l]).conn \in 1 .. conn
<1>1. spoken[l] \in Nat /\ acc[l].fill \in Nat /\ heard[l] \in Seq(Frames)
  BY AudioAssumption DEF Speech, SpeechTypeOK, Accumulators
<1>2. Collected(l) \in Nat
  BY <1>1 DEF Collected, Speech, AccInv
<1>3. PICK place \in [1 .. Len(wire) + 1 -> 0 .. Collected(l)] : Follows(l, place)
  BY DEF Speech, WireInv
<1>4. Len(wire) \in Nat
  BY LenProperties DEF Speech, SpeechTypeOK
<1>5. place[1] \in 0 .. Collected(l)
  BY <1>3, <1>4
<1>6. heard[l] # <<>> =>
        /\ Last(heard[l]) \in Frames
        /\ \E a \in 0 .. MaxSpoken : Last(heard[l]).samples = Chunk(a)
        /\ Last(heard[l]).conn \in 1 .. MaxLost + 1
  <2> SUFFICES ASSUME heard[l] # <<>>
               PROVE  Last(heard[l]) \in Frames
    BY DEF Frames
  <2>1. Len(heard[l]) \in 1 .. Len(heard[l])
    BY <1>1, EmptySeq
  <2> QED
    BY <1>1, <2>1, ElementOfSeq DEF Last
<1>7. UpTo(l) \in Nat
  <2>1. ASSUME NEW a \in 0 .. MaxSpoken PROVE Last(Chunk(a)) \in Nat
    <3>1. a \in Nat
      OBVIOUS
    <3>2. Last(Chunk(a)) = a + CHUNK_SAMPLES
      BY <3>1, ChunkFacts
    <3> QED
      BY <3>1, <3>2, ChunkSize
  <2> QED
    BY <1>6, <2>1 DEF UpTo
<1>8. UpTo(l) <= Collected(l)
  BY <1>2, <1>3, <1>5, <1>7 DEF Follows
<1>9. heard[l] # <<>> => Last(heard[l]).conn <= conn
  BY DEF Speech, WireInv
<1>10. conn \in Nat /\ MaxLost \in Nat
  BY AudioAssumption DEF Speech, SpeechTypeOK
<1> QED
  BY <1>2, <1>6, <1>7, <1>8, <1>9, <1>10

\* At the start nothing is collected, on its way or heard.
LEMMA InitSpeech ==
  ASSUME Init, client = "extension"
  PROVE  Speech
<1>0. CHUNK_SAMPLES \in Nat \ {0} /\ MaxSpoken \in Nat /\ MaxLost \in Nat
  BY AudioAssumption
<1>1. /\ socket = "connecting" /\ conn = 1 /\ wire = <<>> /\ seen = FALSE /\ step = "none"
      /\ heard = [l \in StreamIds |-> <<>>] /\ spoken = [l \in StreamIds |-> 0]
      /\ acc = [l \in StreamIds |-> [samples |-> [i \in 1 .. CHUNK_SAMPLES |-> 0], fill |-> 0]]
  BY DEF Init
<1>2. [samples |-> [i \in 1 .. CHUNK_SAMPLES |-> 0], fill |-> 0] \in Accumulators
  BY <1>0 DEF Accumulators
<1>3. SpeechTypeOK
  BY <1>0, <1>1, <1>2 DEF SpeechTypeOK
<1>4. \A l \in StreamIds : Collected(l) = 0 /\ acc[l].fill = 0 /\ heard[l] = <<>>
  BY <1>1 DEF Collected
<1>5. AccInv
  BY <1>4 DEF AccInv
<1>6. WireInv
  <2> SUFFICES ASSUME NEW l \in StreamIds
               PROVE  \E place \in [1 .. Len(wire) + 1 -> 0 .. Collected(l)] : Follows(l, place)
    BY <1>4 DEF WireInv, HeardNow
  <2> DEFINE place == [k \in 1 .. 1 |-> 0]
  <2>1. Len(wire) = 0
    BY <1>1
  <2>2. place \in [1 .. Len(wire) + 1 -> 0 .. Collected(l)] /\ place[1] = 0
    BY <1>4, <2>1
  <2> HIDE DEF place
  <2>3. Follows(l, place)
    BY <1>4, <2>1, <2>2 DEF Follows, HeardNow, UpTo
  <2> QED
    BY <2>2, <2>3
<1>7. SpeechIsContiguous
  <2>1. \A l \in StreamIds : heard[l] = <<>> /\ Len(heard[l]) = 0
    BY <1>4
  <2> QED
    BY <2>1 DEF SpeechIsContiguous
<1> QED
  BY <1>3, <1>5, <1>6, <1>7 DEF Speech

\* Neither a connection that opens nor one that drops changes what was heard.
LEMMA SpeechKeptBySocket ==
  ASSUME Speech, SocketOpens \/ SocketDrops
  PROVE  Speech'
<1>1. /\ client' = "extension" /\ heard' = heard /\ spoken' = spoken /\ acc' = acc /\ step' = "none"
      /\ wire' = <<>> \/ wire' = <<Text(HelloText)>>
      /\ socket' \in {"connecting", "open"}
      /\ socket' = "connecting" => wire' = <<>> /\ ~seen'
      /\ conn' \in 1 .. MaxLost + 1 /\ conn <= conn'
      /\ ~seen' /\ (conn' = conn => ~seen)
  <2>1. conn \in 1 .. MaxLost + 1 /\ MaxLost \in Nat
    BY AudioAssumption DEF Speech, SpeechTypeOK
  <2>2. CASE SocketOpens
    BY <2>1, <2>2 DEF SocketOpens, Speech, SpeechTypeOK, ext
  <2>3. CASE SocketDrops
    BY <2>1, <2>3 DEF SocketDrops, Speech, SpeechTypeOK, ext, wav
  <2> QED
    BY <2>2, <2>3
<1>2. Text(HelloText) \in Messages
  BY DEF Messages
<1>3. wire' \in Seq(Messages)
  <2>1. <<>> \in Seq(Messages)
    OBVIOUS
  <2>2. <<Text(HelloText)>> \in Seq(Messages)
    BY <1>2
  <2> QED
    BY <1>1, <2>1, <2>2
<1>4. SpeechTypeOK'
  BY <1>1, <1>3 DEF Speech, SpeechTypeOK
<1>5. AccInv'
  BY <1>1 DEF Speech, AccInv, Collected
<1>6. ASSUME NEW l \in StreamIds
      PROVE  /\ ~HeardNow(l)'
             /\ (heard[l] # <<>> => Last(heard[l]).conn <= conn)'
             /\ (\E place \in [1 .. Len(wire) + 1 -> 0 .. Collected(l)] : Follows(l, place))'
  <2>1. /\ Collected(l)' = Collected(l) /\ UpTo(l)' = UpTo(l) /\ heard'[l] = heard[l]
        /\ Collected(l) \in Nat /\ UpTo(l) <= Collected(l)
        /\ heard[l] # <<>> => Last(heard[l]).conn \in 1 .. conn
    BY <1>1, HeardPlace DEF Collected, UpTo
  <2>2. conn \in Nat /\ conn' \in Nat
    BY <1>1, AudioAssumption DEF Speech, SpeechTypeOK
  <2>3. ~HeardNow(l)'
    <3> SUFFICES ASSUME heard[l] # <<>>, Last(heard[l]).conn = conn' PROVE FALSE
      BY <2>1 DEF HeardNow
    <3>1. conn' = conn
      BY <1>1, <2>1, <2>2
    <3> QED
      BY <1>1, <3>1 DEF Speech, WireInv, HeardNow
  <2>4. heard[l] # <<>> => Last(heard[l]).conn <= conn'
    BY <1>1, <2>1, <2>2
  <2>5. (heard[l] # <<>> => Last(heard[l]).conn <= conn)'
    BY <2>1, <2>4
  <2> QED
    BY <1>1, <2>1, <2>3, <2>5, NothingInFlight
<1>7. WireInv'
  BY <1>6 DEF WireInv
<1>8. SpeechIsContiguous'
  BY <1>1 DEF Speech, SpeechIsContiguous
<1> QED
  BY <1>1, <1>4, <1>5, <1>7, <1>8 DEF Speech

\* The server takes the first message: the lane it is of, if any, moves on.
LEMMA PlacesMove ==
  ASSUME NEW l \in StreamIds, wire \in Seq(Messages), wire # <<>>, wire' = Tail(wire),
         spoken' = spoken, acc' = acc, Collected(l) \in Nat,
         NEW place \in [1 .. Len(wire) + 1 -> 0 .. Collected(l)], Follows(l, place),
         IF HeardNow(l)' THEN UpTo(l)' = place[2] ELSE UpTo(l)' <= place[2]
  PROVE  (\E q \in [1 .. Len(wire) + 1 -> 0 .. Collected(l)] : Follows(l, q))'
<1>1. /\ Len(wire) \in Nat \ {0} /\ Len(wire') = Len(wire) - 1
      /\ \A k \in 1 .. Len(wire') : wire'[k] = wire[k + 1]
  BY HeadTailProperties, EmptySeq
<1>2. Collected(l)' = Collected(l)
  BY DEF Collected
<1>3. PICK q : q = [k \in 1 .. Len(wire) |-> place[k + 1]]
  OBVIOUS
<1>4. q \in [1 .. Len(wire') + 1 -> 0 .. Collected(l)]
  <2>1. \A k \in 1 .. Len(wire) : k + 1 \in 1 .. Len(wire) + 1
    BY <1>1
  <2> QED
    BY <1>1, <1>3, <2>1
<1>5. /\ q[1] = place[2] /\ q[Len(wire') + 1] = Collected(l)
      /\ \A k \in 1 .. Len(wire') : q[k] = place[k + 1] /\ q[k + 1] = place[(k + 1) + 1]
  <2>1. place[Len(wire) + 1] = Collected(l)
    BY DEF Follows
  <2> QED
    BY <1>1, <1>3, <2>1
<1>6. \A k \in 1 .. Len(wire') :
        IF wire'[k].binary /\ wire'[k].bytes[1][2] = l
        THEN wire'[k] = Voice(l, q[k]) /\ q[k + 1] = q[k] + CHUNK_SAMPLES
        ELSE q[k + 1] = q[k]
  <2> SUFFICES ASSUME NEW k \in 1 .. Len(wire')
               PROVE  IF wire'[k].binary /\ wire'[k].bytes[1][2] = l
                      THEN wire'[k] = Voice(l, q[k]) /\ q[k + 1] = q[k] + CHUNK_SAMPLES
                      ELSE q[k + 1] = q[k]
    OBVIOUS
  <2>1. k + 1 \in 1 .. Len(wire)
    BY <1>1
  <2>2. IF wire[k + 1].binary /\ wire[k + 1].bytes[1][2] = l
        THEN wire[k + 1] = Voice(l, place[k + 1])
             /\ place[(k + 1) + 1] = place[k + 1] + CHUNK_SAMPLES
        ELSE place[(k + 1) + 1] = place[k + 1]
    BY <2>1 DEF Follows
  <2>3. wire'[k] = wire[k + 1] /\ q[k] = place[k + 1] /\ q[k + 1] = place[(k + 1) + 1]
    BY <1>1, <1>5
  <2> QED
    BY <2>2, <2>3
<1>7. Follows(l, q)'
  BY <1>2, <1>5, <1>6 DEF Follows
<1> QED
  BY <1>2, <1>4, <1>7

\* A frame that is heard continues what was heard of its lane.
LEMMA FrameHeard ==
  ASSUME Speech, NEW l \in StreamIds, NEW a \in 0 .. MaxSpoken,
         IF HeardNow(l) THEN UpTo(l) = a ELSE UpTo(l) <= a,
         heard' = [heard EXCEPT ![l] = Append(@, [conn |-> conn, samples |-> Chunk(a)])],
         client' = client
  PROVE  /\ heard' \in [StreamIds -> Seq(Frames)]
         /\ SpeechIsContiguous'
         /\ heard'[l] # <<>> /\ Last(heard'[l]).conn = conn
         /\ Last(Last(heard'[l]).samples) = a + CHUNK_SAMPLES
         /\ \A m \in StreamIds \ {l} : heard'[m] = heard[m]
<1> DEFINE f == heard[l]
           e == [conn |-> conn, samples |-> Chunk(a)]
           g == Append(f, e)
<1>0. /\ CHUNK_SAMPLES \in Nat \ {0} /\ MaxSpoken \in Nat /\ a \in Nat
      /\ client = "extension" /\ heard \in [StreamIds -> Seq(Frames)]
  BY AudioAssumption DEF Speech, SpeechTypeOK
<1>1. f \in Seq(Frames) /\ Len(f) \in Nat
  BY <1>0, LenProperties
<1>2. e \in Frames /\ e.conn = conn /\ e.samples = Chunk(a)
  BY DEF Frames, Speech, SpeechTypeOK
<1> HIDE DEF e
<1>3. /\ g \in Seq(Frames) /\ Len(g) = Len(f) + 1 /\ g[Len(f) + 1] = e
      /\ \A i \in 1 .. Len(f) : g[i] = f[i]
  BY <1>1, <1>2, AppendProperties
<1>4. heard'[l] = g /\ \A m \in StreamIds \ {l} : heard'[m] = heard[m]
  BY <1>0 DEF e
<1> HIDE DEF g
<1>5. heard' \in [StreamIds -> Seq(Frames)]
  <2>1. \A m \in StreamIds : heard'[m] \in Seq(Frames)
    BY <1>0, <1>3, <1>4
  <2>2. heard' = [m \in StreamIds |-> heard'[m]]
    BY <1>0
  <2> QED
    BY <2>1, <2>2
<1>6. g # <<>> /\ Last(g) = e
  BY <1>1, <1>3, EmptySeq DEF Last
<1>7. /\ Len(Chunk(a)) = CHUNK_SAMPLES /\ Chunk(a)[1] = a + 1 /\ Last(Chunk(a)) = a + CHUNK_SAMPLES
      /\ \A j \in 1 .. CHUNK_SAMPLES : Chunk(a)[j] = a + j
  BY <1>0, ChunkFacts
<1>8. ASSUME NEW i \in 1 .. Len(g)
      PROVE  /\ Len(g[i].samples) = CHUNK_SAMPLES
             /\ \A j \in 2 .. CHUNK_SAMPLES : g[i].samples[j] = g[i].samples[1] + j - 1
  <2>1. CASE i = Len(f) + 1
    <3>1. g[i].samples = Chunk(a)
      BY <1>2, <1>3, <2>1
    <3>2. \A j \in 2 .. CHUNK_SAMPLES : j \in 1 .. CHUNK_SAMPLES
      BY <1>0
    <3> QED
      BY <1>0, <1>7, <3>1, <3>2
  <2>2. CASE i # Len(f) + 1
    <3>1. i \in 1 .. Len(f) /\ g[i] = f[i]
      BY <1>1, <1>3, <2>2
    <3> QED
      BY <1>0, <3>1 DEF Speech, SpeechIsContiguous
  <2> QED
    BY <2>1, <2>2
<1>9. ASSUME NEW i \in 2 .. Len(g)
      PROVE  IF g[i].conn = g[i - 1].conn
             THEN g[i].samples[1] - Last(g[i - 1].samples) = 1
             ELSE g[i].samples[1] - Last(g[i - 1].samples) >= 1
  <2>1. CASE i = Len(f) + 1
    <3>1. Len(f) \in 1 .. Len(f) /\ i - 1 = Len(f) /\ f # <<>>
      BY <1>1, <2>1, EmptySeq
    <3>2. g[i] = e /\ g[i - 1] = Last(f)
      BY <1>3, <2>1, <3>1 DEF Last
    <3>3. UpTo(l) = Last(g[i - 1].samples) /\ (HeardNow(l) <=> g[i - 1].conn = conn)
      BY <3>1, <3>2 DEF UpTo, HeardNow
    <3>4. UpTo(l) \in Nat
      BY HeardPlace
    <3>5. g[i].samples[1] = a + 1 /\ g[i].conn = conn
      BY <1>2, <1>7, <3>2
    <3> QED
      BY <1>0, <3>3, <3>4, <3>5
  <2>2. CASE i # Len(f) + 1
    <3>1. i \in 2 .. Len(f) /\ i \in 1 .. Len(f) /\ i - 1 \in 1 .. Len(f)
      BY <1>1, <1>3, <2>2
    <3>2. g[i] = f[i] /\ g[i - 1] = f[i - 1]
      BY <1>3, <3>1
    <3>3. IF f[i].conn = f[i - 1].conn
          THEN f[i].samples[1] - Last(f[i - 1].samples) = 1
          ELSE f[i].samples[1] - Last(f[i - 1].samples) >= 1
      BY <1>0, <3>1 DEF Speech, SpeechIsContiguous
    <3> QED
      BY <3>2, <3>3
  <2> QED
    BY <2>1, <2>2
<1> DEFINE Fine(s) ==
             /\ \A i \in 1 .. Len(s) :
                  /\ Len(s[i].samples) = CHUNK_SAMPLES
                  /\ \A j \in 2 .. CHUNK_SAMPLES : s[i].samples[j] = s[i].samples[1] + j - 1
             /\ \A i \in 2 .. Len(s) :
                  IF s[i].conn = s[i - 1].conn
                  THEN s[i].samples[1] - Last(s[i - 1].samples) = 1
                  ELSE s[i].samples[1] - Last(s[i - 1].samples) >= 1
<1>10. SpeechIsContiguous'
  <2>1. Fine(g)
    BY <1>8, <1>9
  <2>2. \A m \in StreamIds : Fine(heard[m])
    BY <1>0 DEF Speech, SpeechIsContiguous
  <2> SUFFICES \A m \in StreamIds : Fine(heard'[m])
    BY SMTT(30) DEF SpeechIsContiguous
  <2> HIDE DEF Fine
  <2> QED
    BY <1>4, <2>1, <2>2
<1> QED
  BY <1>2, <1>4, <1>5, <1>6, <1>7, <1>10

\* The server takes the first message in flight.
LEMMA ReadStep ==
  ASSUME Speech, ServerReads
  PROVE  Speech'
<1>0. /\ CHUNK_SAMPLES \in Nat \ {0} /\ MaxSpoken \in Nat
      /\ client = "extension" /\ SpeechTypeOK /\ wire \in Seq(Messages)
  BY AudioAssumption DEF Speech, SpeechTypeOK
<1>1. /\ wire # <<>> /\ wire' = Tail(wire)
      /\ client' = client /\ socket' = socket /\ conn' = conn /\ step' = step
      /\ spoken' = spoken /\ acc' = acc
      /\ ReadText \/ ReadAudio
  BY DEF ServerReads, ReadText, ReadAudio, ext, wav
<1>2. /\ Head(wire) = wire[1] /\ wire[1] \in Messages /\ wire' \in Seq(Messages)
      /\ Len(wire) \in Nat \ {0}
  BY <1>0, <1>1, HeadTailProperties, EmptySeq, ElementOfSeq
<1>3. AccInv'
  BY <1>1 DEF Speech, AccInv, Collected
<1>4. socket' # "connecting"
  BY <1>0, <1>1 DEF SpeechTypeOK
<1>5. \A l \in StreamIds : Collected(l)' = Collected(l)
  BY <1>1 DEF Collected
\* It is enough to look at what a lane was heard and at its first two places.
<1>6. ASSUME heard' \in [StreamIds -> Seq(Frames)], SpeechIsContiguous',
             \A l \in StreamIds :
               /\ HeardNow(l)' => seen'
               /\ heard'[l] # <<>> => Last(heard'[l]).conn <= conn
               /\ \A place \in [1 .. Len(wire) + 1 -> 0 .. Collected(l)] :
                    Follows(l, place) =>
                      IF HeardNow(l)' THEN UpTo(l)' = place[2] ELSE UpTo(l)' <= place[2]
      PROVE  Speech'
  <2>1. SpeechTypeOK'
    BY <1>0, <1>1, <1>2, <1>4, <1>6 DEF SpeechTypeOK
  <2>2. ASSUME NEW l \in StreamIds
        PROVE  (\E q \in [1 .. Len(wire) + 1 -> 0 .. Collected(l)] : Follows(l, q))'
    <3>1. PICK place \in [1 .. Len(wire) + 1 -> 0 .. Collected(l)] : Follows(l, place)
      BY DEF Speech, WireInv
    <3>2. IF HeardNow(l)' THEN UpTo(l)' = place[2] ELSE UpTo(l)' <= place[2]
      BY <1>6, <3>1
    <3>3. Collected(l) \in Nat
      BY HeardPlace
    <3> QED
      BY <1>0, <1>1, <3>1, <3>2, <3>3, PlacesMove
  <2>3. WireInv'
    BY <1>1, <1>6, <2>2 DEF WireInv
  <2> QED
    BY <1>0, <1>1, <1>3, <1>6, <2>1, <2>3 DEF Speech
\* What is read without being handed on.
<1>7. ASSUME heard' = heard, seen => seen',
             \A l \in StreamIds : \A place \in [1 .. Len(wire) + 1 -> 0 .. Collected(l)] :
               Follows(l, place) => IF HeardNow(l) THEN place[2] = place[1]
                                    ELSE place[1] <= place[2]
      PROVE  Speech'
  <2>1. heard' \in [StreamIds -> Seq(Frames)]
    BY <1>7 DEF Speech, SpeechTypeOK
  <2>2. SpeechIsContiguous'
    BY <1>1, <1>7 DEF Speech, SpeechIsContiguous
  <2>3. \A l \in StreamIds : (HeardNow(l)' <=> HeardNow(l)) /\ UpTo(l)' = UpTo(l)
    BY <1>1, <1>7 DEF HeardNow, UpTo
  <2>4. ASSUME NEW l \in StreamIds,
               NEW place \in [1 .. Len(wire) + 1 -> 0 .. Collected(l)], Follows(l, place)
        PROVE  IF HeardNow(l)' THEN UpTo(l)' = place[2] ELSE UpTo(l)' <= place[2]
    <3>1. UpTo(l) \in Nat /\ Collected(l) \in Nat
      BY HeardPlace
    <3>2. place[1] \in 0 .. Collected(l) /\ place[2] \in 0 .. Collected(l)
      BY <1>2
    <3>3. IF HeardNow(l) THEN UpTo(l) = place[1] ELSE UpTo(l) <= place[1]
      BY <2>4 DEF Follows
    <3>4. IF HeardNow(l) THEN place[2] = place[1] ELSE place[1] <= place[2]
      BY <1>7, <2>4
    <3> QED
      BY <2>3, <3>1, <3>2, <3>3, <3>4
  <2>5. \A l \in StreamIds : (HeardNow(l)' => seen') /\ (heard'[l] # <<>> => Last(heard'[l]).conn <= conn)
    BY <1>7, <2>3 DEF Speech, WireInv
  <2> QED
    BY <1>6, <2>1, <2>2, <2>4, <2>5
<1>8. ASSUME NEW l \in StreamIds, NEW place, Follows(l, place)
      PROVE  IF wire[1].binary /\ wire[1].bytes[1][2] = l
             THEN wire[1] = Voice(l, place[1]) /\ place[2] = place[1] + CHUNK_SAMPLES
             ELSE place[2] = place[1]
  <2>1. 1 \in 1 .. Len(wire) /\ 1 + 1 = 2
    BY <1>2
  <2> QED
    BY <1>8, <2>1 DEF Follows
<1>9. CASE ~wire[1].binary
  <2>1. heard' = heard /\ (seen => seen')
    BY <1>1, <1>2, <1>9 DEF ReadText, ReadAudio
  <2>2. ASSUME NEW l \in StreamIds,
               NEW place \in [1 .. Len(wire) + 1 -> 0 .. Collected(l)], Follows(l, place)
        PROVE  place[2] = place[1] /\ place[1] <= place[2]
    <3>1. place[1] \in 0 .. Collected(l) /\ Collected(l) \in Nat
      BY <1>2, HeardPlace
    <3> QED
      BY <1>8, <1>9, <2>2, <3>1
  <2> QED
    BY SMTT(30), <1>7, <2>1, <2>2
<1>10. CASE wire[1].binary
  <2>1. PICK m \in StreamIds, a \in 0 .. MaxSpoken : wire[1] = Voice(m, a)
    BY <1>2, <1>10, MessageKinds
  <2>2. a \in Nat
    BY <1>0
  <2>3. /\ wire[1].bytes[1][2] = m
        /\ ParseBinaryFrame(wire[1].bytes) = <<[stream |-> m, samples |-> Chunk(a)]>>
    BY SMTT(30), <2>1, <2>2, VoiceIsParsed
  <2>4. /\ seen' = seen
        /\ heard' = IF seen
                    THEN [heard EXCEPT ![m] = Append(@, [conn |-> conn, samples |-> Chunk(a)])]
                    ELSE heard
    <3>1. ReadAudio
      BY <1>1, <1>2, <1>10 DEF ReadText
    <3> DEFINE frame == <<[stream |-> m, samples |-> Chunk(a)]>>
    <3>2. frame # <<>> /\ frame[1].stream = m /\ frame[1].samples = Chunk(a)
      OBVIOUS
    <3> HIDE DEF frame
    <3>3. ParseBinaryFrame(Head(wire).bytes) = frame
      BY <1>2, <2>3 DEF frame
    <3> QED
      BY <3>1, <3>2, <3>3 DEF ReadAudio
  \* The lane of the frame stands where the frame begins.
  <2>5. ASSUME NEW l \in StreamIds,
               NEW place \in [1 .. Len(wire) + 1 -> 0 .. Collected(l)], Follows(l, place)
        PROVE  /\ place[1] \in Nat
               /\ l = m => place[1] = a /\ place[2] = a + CHUNK_SAMPLES
               /\ l # m => place[2] = place[1]
    <3>1. place[1] \in 0 .. Collected(l) /\ Collected(l) \in Nat
      BY <1>2, HeardPlace
    <3>2. place[1] \in Nat
      BY <3>1
    <3>3. CASE l = m
      <4>1. wire[1] = Voice(l, place[1]) /\ place[2] = place[1] + CHUNK_SAMPLES
        BY <1>8, <1>10, <2>3, <2>5, <3>3
      <4>2. ParseBinaryFrame(wire[1].bytes) = <<[stream |-> m, samples |-> Chunk(place[1])]>>
        BY <3>2, <3>3, <4>1, VoiceIsParsed
      <4>3. Chunk(place[1]) = Chunk(a)
        BY <2>3, <4>2
      <4>4. place[1] = a
        <5>1. Chunk(place[1])[1] = place[1] + 1 /\ Chunk(a)[1] = a + 1
          BY <2>2, <3>2, ChunkFacts
        <5> QED
          BY <2>2, <3>2, <4>3, <5>1
      <4> QED
        BY <3>2, <3>3, <4>1, <4>4
    <3>4. CASE l # m
      BY <1>8, <2>3, <2>5, <3>2, <3>4
    <3> QED
      BY <3>3, <3>4
  <2>6. CASE ~seen
    <3>1. ASSUME NEW l \in StreamIds,
                 NEW place \in [1 .. Len(wire) + 1 -> 0 .. Collected(l)], Follows(l, place)
          PROVE  ~HeardNow(l) /\ place[1] <= place[2]
      <4>1. ~HeardNow(l)
        BY <2>6 DEF Speech, WireInv
      <4> QED
        BY <1>0, <2>2, <2>5, <3>1, <4>1
    <3> QED
      BY <1>7, <2>4, <2>6, <3>1
  <2>7. CASE seen
    <3>1. PICK place \in [1 .. Len(wire) + 1 -> 0 .. Collected(m)] : Follows(m, place)
      BY DEF Speech, WireInv
    <3>2. IF HeardNow(m) THEN UpTo(m) = a ELSE UpTo(m) <= a
      BY <2>5, <3>1 DEF Follows
    <3>3. heard' = [heard EXCEPT ![m] = Append(@, [conn |-> conn, samples |-> Chunk(a)])]
      BY <2>4, <2>7
    <3>4. /\ heard' \in [StreamIds -> Seq(Frames)] /\ SpeechIsContiguous'
          /\ heard'[m] # <<>> /\ Last(heard'[m]).conn = conn
          /\ Last(Last(heard'[m]).samples) = a + CHUNK_SAMPLES
          /\ \A l \in StreamIds \ {m} : heard'[l] = heard[l]
      BY <1>1, <3>2, <3>3, FrameHeard
    <3>5. HeardNow(m)' /\ UpTo(m)' = a + CHUNK_SAMPLES
      BY <1>1, <3>4 DEF HeardNow, UpTo
    <3>6. \A l \in StreamIds \ {m} : (HeardNow(l)' <=> HeardNow(l)) /\ UpTo(l)' = UpTo(l)
      BY <1>1, <3>4 DEF HeardNow, UpTo
    <3>7. ASSUME NEW l \in StreamIds,
                 NEW q \in [1 .. Len(wire) + 1 -> 0 .. Collected(l)], Follows(l, q)
          PROVE  IF HeardNow(l)' THEN UpTo(l)' = q[2] ELSE UpTo(l)' <= q[2]
      <4>1. CASE l = m
        BY <2>5, <3>5, <3>7, <4>1
      <4>2. CASE l # m
        <5>1. IF HeardNow(l) THEN UpTo(l) = q[1] ELSE UpTo(l) <= q[1]
          BY <3>7 DEF Follows
        <5> QED
          BY <2>5, <3>6, <3>7, <4>2, <5>1
      <4> QED
        BY <4>1, <4>2
    <3>8. conn \in Nat
      BY AudioAssumption DEF Speech, SpeechTypeOK
    <3>9. \A l \in StreamIds :
            (HeardNow(l)' => seen') /\ (heard'[l] # <<>> => Last(heard'[l]).conn <= conn)
      BY <2>4, <2>7, <3>4, <3>8 DEF Speech, WireInv
    <3> QED
      BY <1>6, <3>4, <3>7, <3>9
  <2> QED
    BY <2>6, <2>7
<1> QED
  BY <1>9, <1>10

\* The frames of a quantum, put behind what is in flight, lead their lane on;
\* the other lane stays where it was.
LEMMA PlacesGrow ==
  ASSUME Speech, NEW l \in StreamIds, NEW m \in StreamIds, NEW t \in Nat, Collected(l) <= t,
         NEW frames \in Seq(Messages), NEW at, Leads(frames, l, Collected(l), t, at),
         wire' = wire \o frames, heard' = heard, conn' = conn,
         Collected(l)' = t, m # l => Collected(m)' = Collected(m)
  PROVE  (\E q \in [1 .. Len(wire) + 1 -> 0 .. Collected(m)] : Follows(m, q))'
<1> DEFINE L == Len(wire)
           F == Len(frames)
<1>0. CHUNK_SAMPLES \in Nat \ {0} /\ wire \in Seq(Messages)
  BY ChunkSize DEF Speech, SpeechTypeOK
<1>1. Collected(l) \in Nat /\ Collected(m) \in Nat /\ Collected(m)' \in Nat
  BY HeardPlace
<1>2. /\ L \in Nat /\ F \in Nat /\ Len(wire') = L + F
      /\ \A k \in 1 .. L + F : wire'[k] = IF k <= L THEN wire[k] ELSE frames[k - L]
  BY <1>0, ConcatProperties, LenProperties
<1>3. PICK place \in [1 .. L + 1 -> 0 .. Collected(m)] : Follows(m, place)
  BY DEF Speech, WireInv
<1>4. /\ at \in [1 .. F + 1 -> Collected(l) .. t] /\ at[1] = Collected(l) /\ at[F + 1] = t
      /\ \A k \in 1 .. F : frames[k] = Voice(l, at[k]) /\ at[k + 1] = at[k] + CHUNK_SAMPLES
  BY DEF Leads
<1>5. place[L + 1] = Collected(m) /\ (HeardNow(m)' <=> HeardNow(m)) /\ UpTo(m)' = UpTo(m)
  BY <1>3 DEF Follows, HeardNow, UpTo
\* Where lane m stands behind the k-th new frame.
<1>6. PICK on : /\ on = IF m = l THEN at ELSE [k \in 1 .. F + 1 |-> Collected(m)]
                /\ on[1] = Collected(m) /\ on[F + 1] = Collected(m)'
                /\ \A k \in 1 .. F + 1 : on[k] \in 0 .. Collected(m)'
  <2>1. CASE m = l
    BY <1>1, <1>2, <1>4, <2>1
  <2>2. CASE m # l
    <3>1. PICK c : c = Collected(m)
      OBVIOUS
    <3>2. c \in 0 .. c /\ Collected(m)' = c
      BY <1>1, <2>2, <3>1
    <3>3. PICK on : on = [k \in 1 .. F + 1 |-> c]
      OBVIOUS
    <3>4. \A k \in 1 .. F + 1 : on[k] = c
      BY <3>3
    <3>5. 1 \in 1 .. F + 1 /\ F + 1 \in 1 .. F + 1
      BY <1>2
    <3>6. on[1] = c /\ on[F + 1] = c
      BY <3>4, <3>5
    <3>7. \A k \in 1 .. F + 1 : on[k] \in 0 .. c
      BY <3>2, <3>4
    <3> QED
      BY <2>2, <3>1, <3>2, <3>3, <3>6, <3>7
  <2> QED
    BY <2>1, <2>2
<1>7. \A k \in 1 .. F :
        IF frames[k].binary /\ frames[k].bytes[1][2] = m
        THEN frames[k] = Voice(m, on[k]) /\ on[k + 1] = on[k] + CHUNK_SAMPLES
        ELSE on[k + 1] = on[k]
  <2> SUFFICES ASSUME NEW k \in 1 .. F
               PROVE  IF frames[k].binary /\ frames[k].bytes[1][2] = m
                      THEN frames[k] = Voice(m, on[k]) /\ on[k + 1] = on[k] + CHUNK_SAMPLES
                      ELSE on[k + 1] = on[k]
    OBVIOUS
  <2>1. k \in 1 .. F + 1 /\ k + 1 \in 1 .. F + 1
    BY <1>2
  <2>2. at[k] \in Nat
    <3>1. at[k] \in Collected(l) .. t
      BY <1>4, <2>1
    <3> QED
      BY <1>1, <3>1
  <2>3. frames[k] = Voice(l, at[k]) /\ at[k + 1] = at[k] + CHUNK_SAMPLES
    BY <1>4
  <2>4. frames[k].binary /\ frames[k].bytes[1][2] = l
    <3>1. PICK a \in Nat : a = at[k]
      BY <2>2
    <3>2. frames[k] = Voice(l, a)
      BY <2>3, <3>1
    <3>3. Voice(l, a).binary /\ Voice(l, a).bytes[1][2] = l
      BY VoiceIsParsed
    <3> QED
      BY <3>2, <3>3
  <2>5. CASE m = l
    <3>1. on = at
      BY <1>6, <2>5
    <3>2. frames[k] = Voice(m, on[k]) /\ on[k + 1] = on[k] + CHUNK_SAMPLES
      BY <2>3, <2>5, <3>1
    <3> QED
      BY <2>4, <2>5, <3>2
  <2>6. CASE m # l
    <3>1. on[k] = Collected(m) /\ on[k + 1] = Collected(m)
      BY <1>6, <2>1, <2>6
    <3> QED
      BY <2>4, <2>6, <3>1
  <2> QED
    BY <2>5, <2>6
<1>8. Collected(m) <= Collected(m)'
  BY <1>1
<1>9. PICK q : q = [k \in 1 .. L + F + 1 |-> IF k <= L + 1 THEN place[k] ELSE on[k - L]]
  OBVIOUS
<1>10. \A k \in 1 .. L + 1 : q[k] = place[k]
  BY <1>2, <1>9
<1>11. \A k \in 1 .. F + 1 : q[L + k] = on[k]
  <2> SUFFICES ASSUME NEW k \in 1 .. F + 1 PROVE q[L + k] = on[k]
    OBVIOUS
  <2>1. CASE k = 1
    BY <1>2, <1>5, <1>6, <1>10, <2>1
  <2>2. CASE k # 1
    <3>1. L + k \in 1 .. L + F + 1 /\ ~(L + k <= L + 1) /\ (L + k) - L = k
      BY <1>2, <2>2
    <3> QED
      BY <1>9, <3>1
  <2> QED
    BY <2>1, <2>2
<1>12. q \in [1 .. Len(wire') + 1 -> 0 .. Collected(m)']
  <2>1. ASSUME NEW k \in 1 .. L + F + 1 PROVE q[k] \in 0 .. Collected(m)'
    <3>1. CASE k <= L + 1
      <4>1. k \in 1 .. L + 1
        BY <3>1
      <4>2. place[k] \in 0 .. Collected(m)
        BY <1>3, <4>1
      <4> QED
        BY <1>1, <1>8, <1>10, <4>1, <4>2
    <3>2. CASE ~(k <= L + 1)
      <4>1. PICK i \in 1 .. F + 1 : k = L + i
        <5>1. k - L \in 1 .. F + 1 /\ k = L + (k - L)
          BY <1>2, <3>2
        <5> QED
          BY <5>1
      <4> QED
        BY <1>6, <1>11, <4>1
    <3> QED
      BY <3>1, <3>2
  <2> QED
    BY <1>2, <1>9, <2>1
<1>13. q[1] = place[1] /\ q[Len(wire') + 1] = Collected(m)'
  <2>1. Len(wire') + 1 = L + (F + 1) /\ F + 1 \in 1 .. F + 1 /\ 1 \in 1 .. L + 1
    BY <1>2
  <2> QED
    BY <1>6, <1>10, <1>11, <2>1
<1>14. \A k \in 1 .. Len(wire') :
         IF wire'[k].binary /\ wire'[k].bytes[1][2] = m
         THEN wire'[k] = Voice(m, q[k]) /\ q[k + 1] = q[k] + CHUNK_SAMPLES
         ELSE q[k + 1] = q[k]
  <2> SUFFICES ASSUME NEW k \in 1 .. L + F
               PROVE  IF wire'[k].binary /\ wire'[k].bytes[1][2] = m
                      THEN wire'[k] = Voice(m, q[k]) /\ q[k + 1] = q[k] + CHUNK_SAMPLES
                      ELSE q[k + 1] = q[k]
    BY <1>2
  <2>1. CASE k <= L
    <3>1. k \in 1 .. L /\ k \in 1 .. L + 1 /\ k + 1 \in 1 .. L + 1
      BY <1>2, <2>1
    <3>2. wire'[k] = wire[k] /\ q[k] = place[k] /\ q[k + 1] = place[k + 1]
      BY <1>2, <1>10, <2>1, <3>1
    <3>3. IF wire[k].binary /\ wire[k].bytes[1][2] = m
          THEN wire[k] = Voice(m, place[k]) /\ place[k + 1] = place[k] + CHUNK_SAMPLES
          ELSE place[k + 1] = place[k]
      BY <1>3, <3>1 DEF Follows
    <3> QED
      BY <3>2, <3>3
  <2>2. CASE ~(k <= L)
    <3>1. PICK i \in 1 .. F : k = L + i
      <4>1. k - L \in 1 .. F /\ k = L + (k - L)
        BY <1>2, <2>2
      <4> QED
        BY <4>1
    <3>2. /\ i \in 1 .. F + 1 /\ i + 1 \in 1 .. F + 1 /\ k + 1 = L + (i + 1) /\ k - L = i
      BY <1>2, <3>1
    <3>3. wire'[k] = frames[i] /\ q[k] = on[i] /\ q[k + 1] = on[i + 1]
      BY <1>2, <1>11, <2>2, <3>1, <3>2
    <3>4. IF frames[i].binary /\ frames[i].bytes[1][2] = m
          THEN frames[i] = Voice(m, on[i]) /\ on[i + 1] = on[i] + CHUNK_SAMPLES
          ELSE on[i + 1] = on[i]
      BY <1>7, <3>1
    <3> QED
      BY <3>3, <3>4
  <2> QED
    BY <2>1, <2>2
<1>15. IF HeardNow(m)' THEN UpTo(m)' = q[1] ELSE UpTo(m)' <= q[1]
  BY <1>3, <1>5, <1>13 DEF Follows
<1>16. Follows(m, q)'
  BY <1>13, <1>14, <1>15 DEF Follows
<1> QED
  BY <1>12, <1>16

\* A quantum goes through its lane's accumulator and into the socket.
LEMMA QuantumStep ==
  ASSUME Speech, NEW l \in StreamIds, NEW n \in Quanta, Quantum(l, n)
  PROVE  Speech'
<1> DEFINE p == spoken[l]
           e == Collected(l)
           st == Accumulate(l, Posted(p, n))
           t == p + n - st.fill
<1>0. /\ CHUNK_SAMPLES \in Nat \ {0} /\ MaxSpoken \in Nat /\ n \in Nat
      /\ SpeechTypeOK /\ client = "extension"
  BY AudioAssumption DEF Speech
<1>1. /\ p \in Nat /\ acc[l] \in Accumulators /\ spoken \in [StreamIds -> 0 .. MaxSpoken]
      /\ acc \in [StreamIds -> Accumulators] /\ wire \in Seq(Messages)
  BY <1>0 DEF SpeechTypeOK
<1>2. /\ p + n <= MaxSpoken
      /\ spoken' = [spoken EXCEPT ![l] = p + n]
      /\ acc' = [acc EXCEPT ![l] = [samples |-> st.samples, fill |-> st.fill]]
      /\ wire' = IF socket = "open" THEN wire \o st.frames ELSE wire
      /\ client' = client /\ socket' = socket /\ conn' = conn /\ seen' = seen /\ heard' = heard
      /\ step' = step
  BY DEF Quantum, Posted, SendAll, wav
<1>3. e \in Nat /\ Collecting(l, p, n, e, st) /\ st.off = n
  <2>1. 0 <= Collected(l) /\ \A i \in 1 .. acc[l].fill : acc[l].samples[i] = Collected(l) + i
    BY DEF Speech, AccInv
  <2> QED
    BY <1>0, <1>1, <1>2, <2>1, HeardPlace, AccumulateCollects
<1> HIDE DEF st
<1>4. /\ st.samples \in [1 .. CHUNK_SAMPLES -> 0 .. MaxSpoken] /\ st.fill \in 0 .. CHUNK_SAMPLES - 1
      /\ e <= t
      /\ \A i \in 1 .. st.fill : st.samples[i] = t + i
      /\ st.frames \in Seq(Messages)
      /\ \E at \in [1 .. Len(st.frames) + 1 -> e .. t] : Leads(st.frames, l, e, t, at)
  BY <1>3 DEF Collecting
<1>5. t \in Nat
  BY SMTT(30), <1>0, <1>1, <1>3, <1>4
<1>6. /\ spoken'[l] = p + n /\ acc'[l] = [samples |-> st.samples, fill |-> st.fill]
      /\ \A m \in StreamIds \ {l} : spoken'[m] = spoken[m] /\ acc'[m] = acc[m]
  BY <1>1, <1>2
<1>7. Collected(l)' = t /\ \A m \in StreamIds \ {l} : Collected(m)' = Collected(m)
  <2>1. spoken'[l] = p + n /\ acc'[l].fill = st.fill
    BY <1>6
  <2>2. Collected(l)' = p + n - st.fill
    <3>1. Collected(l)' = spoken'[l] - acc'[l].fill
      BY DEF Collected
    <3> HIDE DEF p
    <3> QED
      BY <1>0, <1>1, <1>4, <2>1, <3>1
  <2>3. ASSUME NEW m \in StreamIds \ {l} PROVE Collected(m)' = Collected(m)
    BY <1>6 DEF Collected
  <2> QED
    BY <2>2, <2>3
<1>8. SpeechTypeOK'
  <2>1. spoken' \in [StreamIds -> 0 .. MaxSpoken]
    BY <1>0, <1>1, <1>2
  <2>2. acc' \in [StreamIds -> Accumulators]
    BY <1>1, <1>2, <1>4 DEF Accumulators
  <2>3. wire' \in Seq(Messages) /\ (socket' = "connecting" => wire' = <<>> /\ ~seen')
    BY <1>0, <1>1, <1>2, <1>4, ConcatProperties DEF SpeechTypeOK
  <2> QED
    BY <1>0, <1>2, <2>1, <2>2, <2>3 DEF SpeechTypeOK
<1>9. AccInv'
  <2> SUFFICES ASSUME NEW m \in StreamIds
               PROVE  /\ 0 <= Collected(m)'
                      /\ \A i \in 1 .. acc'[m].fill : acc'[m].samples[i] = Collected(m)' + i
    BY DEF AccInv
  <2>1. CASE m = l
    <3> HIDE DEF t
    <3> QED
      BY <1>4, <1>5, <1>6, <1>7, <2>1
  <2>2. CASE m # l
    BY <1>6, <1>7, <2>2 DEF Speech, AccInv
  <2> QED
    BY <2>1, <2>2
<1> HIDE DEF t
<1>10. ASSUME NEW m \in StreamIds
       PROVE  (\E q \in [1 .. Len(wire) + 1 -> 0 .. Collected(m)] : Follows(m, q))'
  <2>1. CASE socket = "open"
    <3>1. PICK at : Leads(st.frames, l, e, t, at)
      BY <1>4
    <3>2. m # l => Collected(m)' = Collected(m)
      BY <1>7
    <3> QED
      BY <1>2, <1>4, <1>5, <1>7, <2>1, <3>1, <3>2, PlacesGrow
  <2>2. CASE socket # "open"
    <3>1. wire = <<>> /\ ~seen
      BY <1>0, <2>2 DEF SpeechTypeOK
    <3>2. wire' = <<>>
      BY <1>2, <2>2, <3>1
    <3>3. ~HeardNow(m)' /\ UpTo(m)' = UpTo(m)
      BY <1>2, <3>1 DEF HeardNow, UpTo, Speech, WireInv
    <3>4. Collected(m) <= Collected(m)' /\ Collected(m)' \in Nat
      BY <1>3, <1>4, <1>5, <1>7, HeardPlace
    <3>5. UpTo(m) \in Nat /\ Collected(m) \in Nat /\ UpTo(m) <= Collected(m)
      BY HeardPlace
    <3> QED
      BY <3>2, <3>3, <3>4, <3>5, NothingInFlight
  <2> QED
    BY <2>1, <2>2
<1>11. WireInv'
  <2>1. \A m \in StreamIds : /\ HeardNow(m)' => seen'
                             /\ heard'[m] # <<>> => Last(heard'[m]).conn <= conn'
    BY <1>2 DEF Speech, WireInv, HeardNow
  <2> QED
    BY <1>10, <2>1 DEF WireInv
<1>12. SpeechIsContiguous'
  BY <1>2 DEF Speech, SpeechIsContiguous
<1> QED
  BY <1>0, <1>2, <1>8, <1>9, <1>11, <1>12 DEF Speech

-----------------------------------------------------------------------------

\* The audio path's invariant, for any chunk size, any sizes the worklet
\* posts and any number of connections that drop.
THEOREM SpeechInvariant == Spec => []SpeechInv
<1>1. Init => SpeechInv
  BY InitSpeech DEF SpeechInv, Speech
<1>2. SpeechInv /\ [Next]_vars => SpeechInv'
  <2> SUFFICES ASSUME SpeechInv, [Next]_vars, client' = "extension"
               PROVE  Speech'
    BY DEF SpeechInv, Speech
  <2>1. client' = client
    BY DEF Next, vars, SocketOpens, SocketDrops, ServerReads, Quantum, ReadFiles, Crashes, GiveUp,
           SayHello, SendChunks, SendSilence, SayBye, StopClient
  <2>2. Speech
    BY <2>1 DEF SpeechInv, Speech
  <2>3. CASE SocketOpens \/ SocketDrops
    BY <2>2, <2>3, SpeechKeptBySocket
  <2>4. CASE ServerReads
    BY <2>2, <2>4, ReadStep
  <2>5. ASSUME NEW l \in StreamIds, NEW n \in Quanta, Quantum(l, n)
        PROVE  Speech'
    BY <2>2, <2>5, QuantumStep
  <2>6. CASE \/ ReadFiles \/ Crashes \/ GiveUp \/ SayHello \/ SendChunks \/ SendSilence \/ SayBye
             \/ StopClient
    <3>1. step = "none"
      BY <2>2 DEF Speech, SpeechTypeOK
    <3> QED
      BY <2>6, <3>1 DEF ReadFiles, Crashes, GiveUp, SayHello, SendChunks, SendSilence, SayBye, StopClient
  <2>7. CASE UNCHANGED vars
    BY SMTT(30), <2>2, <2>7 DEF vars, ext, wav, Speech, SpeechTypeOK, AccInv, Collected, WireInv, Follows,
                      HeardNow, UpTo, SpeechIsContiguous
  <2> QED
    BY <2>3, <2>4, <2>5, <2>6, <2>7 DEF Next
<1> QED
  BY <1>1, <1>2, PTL DEF Spec

\* What the extension says reaches onAudio in whole chunks, in order, without
\* a gap on a connection and without a sample twice.
THEOREM SpeechArrivesWhole == Spec => []SpeechIsContiguous
<1>1. SpeechInv => SpeechIsContiguous
  BY DEF SpeechInv, SpeechIsContiguous
<1> QED
  BY <1>1, SpeechInvariant, PTL

-----------------------------------------------------------------------------
(* Recursive functions and joined sequences.                               *)

\* A recursive function on b .. b + n, each value made from the one before,
\* exists.
Iterations(S, x, F, b, n) ==
  {g \in [b .. b + n -> S] : g[b] = x /\ \A i \in b + 1 .. b + n : g[i] = F[i][g[i - 1]]}

\* There is such a function for every start and every step.
LEMMA Iterated ==
  ASSUME NEW S, NEW x \in S, NEW F \in [Nat -> [S -> S]], NEW b \in Nat, NEW n \in Nat
  PROVE  Iterations(S, x, F, b, n) # {}
<1> DEFINE Good(k, g) == /\ g \in [b .. b + k -> S] /\ g[b] = x
                         /\ \A i \in b + 1 .. b + k : g[i] = F[i][g[i - 1]]
           T == {k \in Nat : \E g : Good(k, g)}
<1>1. 0 \in T
  <2>1. Good(0, [i \in b .. b + 0 |-> x])
    OBVIOUS
  <2> QED
    BY <2>1
<1>2. ASSUME NEW k \in T PROVE k + 1 \in T
  <2>1. PICK g : Good(k, g)
    OBVIOUS
  <2>2. k \in Nat
    OBVIOUS
  <2> DEFINE more == [i \in b .. b + (k + 1) |->
                        IF i = b + (k + 1) THEN F[b + (k + 1)][g[b + k]] ELSE g[i]]
  <2>3. g[b + k] \in S
    BY <2>1, <2>2
  <2>4. F[b + (k + 1)][g[b + k]] \in S
    <3>1. F[b + (k + 1)] \in [S -> S]
      BY <2>2
    <3> QED
      BY <2>3, <3>1
  <2>5. more[b + (k + 1)] = F[b + (k + 1)][g[b + k]]
    BY <2>2
  <2>6. \A i \in b .. b + k : more[i] = g[i]
    BY <2>2
  <2>7. more \in [b .. b + (k + 1) -> S]
    <3>1. ASSUME NEW i \in b .. b + (k + 1)
          PROVE  (IF i = b + (k + 1) THEN F[b + (k + 1)][g[b + k]] ELSE g[i]) \in S
      <4>1. CASE i = b + (k + 1)
        BY <2>4, <4>1
      <4>2. CASE i # b + (k + 1)
        <5>1. i \in b .. b + k
          BY <2>2, <4>2
        <5> QED
          BY <2>1, <4>2, <5>1
      <4> QED
        BY <4>1, <4>2
    <3> QED
      BY <3>1
  <2> HIDE DEF more
  <2>8. more[b] = x
    <3>1. b \in b .. b + k
      BY <2>2
    <3> QED
      BY <2>1, <2>6, <3>1
  <2>9. ASSUME NEW i \in b + 1 .. b + (k + 1) PROVE more[i] = F[i][more[i - 1]]
    <3>1. i - 1 \in b .. b + k
      BY <2>2
    <3>2. more[i - 1] = g[i - 1]
      BY <2>6, <3>1
    <3>3. CASE i = b + (k + 1)
      <4>1. i - 1 = b + k
        BY <2>2, <3>3
      <4> QED
        BY <2>5, <3>2, <3>3, <4>1
    <3>4. CASE i # b + (k + 1)
      <4>1. i \in b + 1 .. b + k /\ i \in b .. b + k
        BY <2>2, <3>4
      <4> QED
        BY <2>1, <2>6, <3>2, <4>1
    <3> QED
      BY <3>3, <3>4
  <2>10. Good(k + 1, more)
    BY <2>7, <2>8, <2>9
  <2> HIDE DEF Good, more
  <2>11. k + 1 \in Nat
    BY <2>2
  <2>12. \E h : Good(k + 1, h)
    BY <2>10
  <2> QED
    BY <2>11, <2>12
<1> HIDE DEF T
<1>3. T = Nat
  <2>1. T \subseteq Nat
    BY DEF T
  <2> QED
    BY <1>1, <1>2, <2>1, SetInduction
<1>4. \E g : Good(n, g)
  BY <1>3 DEF T
<1> QED
  BY <1>4 DEF Iterations

\* What FlattenSeq unfolds to.
Joined(s, g) ==
  g = [i \in 1 .. Len(s) |-> IF i = 1 THEN s[i] ELSE g[i - 1] \o s[i]]

\* FlattenSeq of a sequence that is not empty is the last of the joined ones.
LEMMA JoinedExists ==
  ASSUME NEW T, NEW s \in Seq(Seq(T)), s # <<>>
  PROVE  \E g \in [1 .. Len(s) -> Seq(T)] : Joined(s, g) /\ FlattenSeq(s) = g[Len(s)]
<1>1. Len(s) \in Nat \ {0} /\ \A i \in 1 .. Len(s) : s[i] \in Seq(T)
  BY EmptySeq, LenProperties, ElementOfSeq
<1> DEFINE F == [i \in Nat |-> [t \in Seq(T) |-> IF i \in 1 .. Len(s) THEN t \o s[i] ELSE t]]
<1>2. F \in [Nat -> [Seq(T) -> Seq(T)]]
  <2>1. ASSUME NEW i \in Nat, NEW t \in Seq(T)
        PROVE  (IF i \in 1 .. Len(s) THEN t \o s[i] ELSE t) \in Seq(T)
    BY <1>1, ConcatProperties
  <2> QED
    BY <2>1
<1>3. ASSUME NEW i \in 1 .. Len(s), NEW t \in Seq(T) PROVE F[i][t] = t \o s[i]
  <2>1. i \in Nat
    BY <1>1
  <2>2. F[i] = [u \in Seq(T) |-> IF i \in 1 .. Len(s) THEN u \o s[i] ELSE u]
    BY <2>1
  <2> HIDE DEF F
  <2> QED
    BY <2>2
<1> HIDE DEF F
<1>4. PICK n \in Nat : Len(s) = 1 + n
  <2>1. Len(s) - 1 \in Nat /\ Len(s) = 1 + (Len(s) - 1)
    BY <1>1
  <2> QED
    BY <2>1
<1>5. PICK g \in [1 .. 1 + n -> Seq(T)] :
        g[1] = s[1] /\ \A i \in 1 + 1 .. 1 + n : g[i] = F[i][g[i - 1]]
  <2>1. s[1] \in Seq(T) /\ 1 \in Nat
    BY <1>1
  <2>2. Iterations(Seq(T), s[1], F, 1, n) # {}
    BY <1>2, <2>1, Iterated
  <2> QED
    BY <2>2 DEF Iterations
<1>6. g \in [1 .. Len(s) -> Seq(T)]
  BY <1>4
<1>7. \A i \in 1 .. Len(s) : g[i] = IF i = 1 THEN s[i] ELSE g[i - 1] \o s[i]
  <2> SUFFICES ASSUME NEW i \in 1 .. Len(s), i # 1 PROVE g[i] = g[i - 1] \o s[i]
    BY <1>5
  <2>1. i \in 1 + 1 .. 1 + n /\ i - 1 \in 1 .. 1 + n
    BY <1>4
  <2> QED
    BY <1>3, <1>5, <2>1
<1>8. Joined(s, g)
  BY <1>6, <1>7 DEF Joined
<1> DEFINE h == CHOOSE f : f = [i \in 1 .. Len(s) |-> IF i = 1 THEN s[i] ELSE f[i - 1] \o s[i]]
<1>9. Joined(s, h)
  BY <1>8 DEF Joined
<1>10. FlattenSeq(s) = h[Len(s)]
  BY <1>1 DEF FlattenSeq
<1> HIDE DEF h
<1>11. \A i \in 1 .. Len(s) : h[i] = IF i = 1 THEN s[i] ELSE h[i - 1] \o s[i]
  BY <1>9, Zenon DEF Joined
<1>12. h = [i \in 1 .. Len(s) |-> h[i]]
  BY <1>9, Zenon DEF Joined
<1>13. \A i \in 1 .. Len(s) : h[i] = g[i]
  <2> DEFINE D == {k \in Nat : k + 1 \in 1 .. Len(s) => h[k + 1] = g[k + 1]}
  <2>1. 0 \in D
    BY <1>1, <1>7, <1>11
  <2>2. ASSUME NEW k \in D PROVE k + 1 \in D
    <3> SUFFICES ASSUME (k + 1) + 1 \in 1 .. Len(s)
                 PROVE  h[(k + 1) + 1] = g[(k + 1) + 1]
      OBVIOUS
    <3>1. k \in Nat /\ k + 1 \in 1 .. Len(s) /\ ((k + 1) + 1) - 1 = k + 1 /\ (k + 1) + 1 # 1
      BY <1>1
    <3>2. h[k + 1] = g[k + 1]
      BY <3>1
    <3>3. h[(k + 1) + 1] = h[k + 1] \o s[(k + 1) + 1]
      BY <1>11, <3>1
    <3>4. g[(k + 1) + 1] = g[k + 1] \o s[(k + 1) + 1]
      BY <1>7, <3>1
    <3> QED
      BY <3>2, <3>3, <3>4
  <2> HIDE DEF D
  <2>3. D = Nat
    <3>1. D \subseteq Nat
      BY DEF D
    <3> QED
      BY <2>1, <2>2, <3>1, SetInduction
  <2> SUFFICES ASSUME NEW i \in 1 .. Len(s) PROVE h[i] = g[i]
    OBVIOUS
  <2>4. i - 1 \in D /\ (i - 1) + 1 = i
    BY <1>1, <2>3
  <2> QED
    BY <2>4 DEF D
<1>14. FlattenSeq(s) = g[Len(s)]
  <2>1. Len(s) \in 1 .. Len(s)
    BY <1>1
  <2>2. h[Len(s)] = g[Len(s)]
    BY <1>13, <2>1
  <2> QED
    BY <1>10, <2>2
<1> QED
  BY <1>6, <1>8, <1>14

\* Nothing joined is nothing.
LEMMA FlattenEmpty == FlattenSeq(<<>>) = <<>>
BY DEF FlattenSeq

\* Sequences over a set join to a sequence over it.
LEMMA FlattenIn ==
  ASSUME NEW T, NEW s \in Seq(Seq(T))
  PROVE  FlattenSeq(s) \in Seq(T)
<1>1. CASE s = <<>>
  <2>1. <<>> \in Seq(T)
    OBVIOUS
  <2> QED
    BY <1>1, <2>1, FlattenEmpty
<1>2. CASE s # <<>>
  <2>1. PICK g \in [1 .. Len(s) -> Seq(T)] : Joined(s, g) /\ FlattenSeq(s) = g[Len(s)]
    BY <1>2, JoinedExists
  <2>2. Len(s) \in 1 .. Len(s)
    <3>1. Len(s) \in Nat \ {0}
      BY <1>2, EmptySeq
    <3> QED
      BY <3>1
  <2> QED
    BY <2>1, <2>2
<1> QED
  BY <1>1, <1>2

\* A sequence more is one more joined behind.
LEMMA FlattenAppend ==
  ASSUME NEW T, NEW s \in Seq(Seq(T)), NEW x \in Seq(T)
  PROVE  FlattenSeq(Append(s, x)) = FlattenSeq(s) \o x
<1> DEFINE more == Append(s, x)
           n == Len(s)
<1>1. /\ more \in Seq(Seq(T)) /\ more # <<>> /\ Len(more) = n + 1
      /\ \A i \in 1 .. n : more[i] = s[i]
      /\ more[n + 1] = x
  BY AppendProperties
<1>2. n \in Nat
  BY LenProperties
<1> HIDE DEF more
<1>3. PICK g \in [1 .. Len(more) -> Seq(T)] : Joined(more, g) /\ FlattenSeq(more) = g[Len(more)]
  BY <1>1, JoinedExists
<1>4. \A i \in 1 .. n + 1 : g[i] = IF i = 1 THEN more[i] ELSE g[i - 1] \o more[i]
  BY <1>1, <1>3, Zenon DEF Joined
<1>5. CASE s = <<>>
  <2>1. n = 0
    BY <1>5
  <2>2. g[1] = x
    BY <1>1, <1>4, <2>1
  <2>3. <<>> \o x = x
    BY ConcatEmptySeq
  <2> QED
    BY <1>1, <1>3, <1>5, <2>1, <2>2, <2>3, FlattenEmpty DEF more
<1>6. CASE s # <<>>
  <2>1. n # 0 /\ n \in 1 .. n + 1 /\ n + 1 \in 1 .. n + 1 /\ n + 1 # 1 /\ (n + 1) - 1 = n
        /\ n \in 1 .. n
    <3>1. n \in Nat \ {0}
      BY <1>6, EmptySeq
    <3> QED
      BY <3>1
  <2>2. PICK h \in [1 .. n -> Seq(T)] : Joined(s, h) /\ FlattenSeq(s) = h[n]
    BY <1>6, JoinedExists
  <2>3. \A i \in 1 .. n : h[i] = IF i = 1 THEN s[i] ELSE h[i - 1] \o s[i]
    BY <2>2, Zenon DEF Joined
  <2>4. \A i \in 1 .. n : g[i] = h[i]
    <3> DEFINE D == {k \in Nat : k + 1 \in 1 .. n => g[k + 1] = h[k + 1]}
    <3>1. 0 \in D
      <4>1. 1 \in 1 .. n /\ 1 \in 1 .. n + 1
        BY <2>1
      <4>2. g[1] = h[1]
        BY <1>1, <1>4, <2>3, <4>1
      <4> QED
        BY <4>2
    <3>2. ASSUME NEW k \in D PROVE k + 1 \in D
      <4> SUFFICES ASSUME (k + 1) + 1 \in 1 .. n
                   PROVE  g[(k + 1) + 1] = h[(k + 1) + 1]
        OBVIOUS
      <4>1. /\ k \in Nat /\ k + 1 \in 1 .. n /\ ((k + 1) + 1) - 1 = k + 1 /\ (k + 1) + 1 # 1
            /\ (k + 1) + 1 \in 1 .. n + 1
        BY <1>2
      <4>2. g[k + 1] = h[k + 1]
        BY <4>1
      <4>3. g[(k + 1) + 1] = g[k + 1] \o more[(k + 1) + 1]
        BY <1>4, <4>1
      <4>4. h[(k + 1) + 1] = h[k + 1] \o s[(k + 1) + 1]
        BY <2>3, <4>1
      <4>5. more[(k + 1) + 1] = s[(k + 1) + 1]
        BY <1>1, <4>1
      <4> QED
        BY <4>2, <4>3, <4>4, <4>5
    <3> HIDE DEF D
    <3>3. D = Nat
      <4>1. D \subseteq Nat
        BY DEF D
      <4> QED
        BY <3>1, <3>2, <4>1, SetInduction
    <3> SUFFICES ASSUME NEW i \in 1 .. n PROVE g[i] = h[i]
      OBVIOUS
    <3>4. i - 1 \in D /\ (i - 1) + 1 = i
      BY <1>2, <3>3
    <3> QED
      BY <3>4 DEF D
  <2>5. g[n + 1] = g[n] \o more[n + 1]
    BY <1>4, <2>1
  <2>6. g[n] = FlattenSeq(s)
    BY <2>1, <2>2, <2>4
  <2> QED
    BY <1>1, <1>3, <2>5, <2>6 DEF more
<1> QED
  BY <1>5, <1>6

\* Where the brackets are does not matter.
Regroups(u, v, w) == (u \o v) \o w = u \o (v \o w)

\* \o is associative.
LEMMA Regrouped ==
  \A T : \A u, v, w \in Seq(T) : Regroups(u, v, w)
BY ConcatAssociative, SMTT(30) DEF Regroups

\* The first sequence can be taken off.
LEMMA FlattenTail ==
  ASSUME NEW T, NEW s \in Seq(Seq(T)), s # <<>>
  PROVE  FlattenSeq(s) = s[1] \o FlattenSeq(Tail(s))
<1> DEFINE D == {n \in Nat : \A t \in Seq(Seq(T)) :
                   Len(t) = n + 1 => FlattenSeq(t) = t[1] \o FlattenSeq(Tail(t))}
<1>1. ASSUME NEW n \in Nat, NEW t \in Seq(Seq(T)), Len(t) = n + 1,
             n > 0 => n - 1 \in D
      PROVE  FlattenSeq(t) = t[1] \o FlattenSeq(Tail(t))
  <2>1. t # <<>>
    BY <1>1, EmptySeq
  <2>2. PICK p \in Seq(Seq(T)), x \in Seq(T) : t = Append(p, x)
    BY <2>1, SequenceEmptyOrAppend
  <2>3. /\ Len(t) = Len(p) + 1 /\ Len(p) \in Nat /\ \A i \in 1 .. Len(p) : t[i] = p[i]
        /\ t[Len(p) + 1] = x
    BY <2>2, AppendProperties, LenProperties
  <2>4. Tail(t) = IF p = <<>> THEN <<>> ELSE Append(Tail(p), x)
    BY <2>2, HeadTailAppend
  <2>5. FlattenSeq(t) = FlattenSeq(p) \o x
    BY <2>2, FlattenAppend
  <2>6. CASE p = <<>>
    <3>1. t[1] = x
      BY <2>3, <2>6
    <3>2. x \o <<>> = x /\ <<>> \o x = x
      BY ConcatEmptySeq
    <3> QED
      BY <2>4, <2>5, <2>6, <3>1, <3>2, FlattenEmpty
  <2>7. CASE p # <<>>
    <3>1. Len(p) \in Nat \ {0} /\ Len(p) = n
      BY <1>1, <2>3, <2>7, EmptySeq
    <3>2. FlattenSeq(p) = p[1] \o FlattenSeq(Tail(p))
      <4>1. n - 1 \in D /\ Len(p) = (n - 1) + 1
        BY SMTT(30), <1>1, <3>1
      <4> QED
        BY SMTT(30), <4>1
    <3>3. t[1] = p[1] /\ p[1] \in Seq(T)
      BY <2>3, <3>1, ElementOfSeq
    <3>4. Tail(p) \in Seq(Seq(T))
      BY <2>7, HeadTailProperties
    <3>5. FlattenSeq(Tail(p)) \in Seq(T)
      BY <3>4, FlattenIn
    <3>6. FlattenSeq(Append(Tail(p), x)) = FlattenSeq(Tail(p)) \o x
      BY <3>4, FlattenAppend
    <3>7. (p[1] \o FlattenSeq(Tail(p))) \o x = p[1] \o (FlattenSeq(Tail(p)) \o x)
      <4>1. Regroups(p[1], FlattenSeq(Tail(p)), x)
        BY <3>3, <3>5, Regrouped, Zenon
      <4> QED
        BY <4>1 DEF Regroups
    <3> QED
      BY <2>4, <2>5, <2>7, <3>2, <3>3, <3>6, <3>7
  <2> QED
    BY <2>6, <2>7
<1>2. 0 \in D
  <2>1. \A t \in Seq(Seq(T)) :
          Len(t) = 0 + 1 => FlattenSeq(t) = t[1] \o FlattenSeq(Tail(t))
    <3> HIDE DEF D
    <3>1. 0 \in Nat /\ ~ (0 > 0)
      OBVIOUS
    <3> QED
      BY <1>1, <3>1
  <2> QED
    BY <2>1
<1>3. ASSUME NEW n \in D PROVE n + 1 \in D
  <2>1. n + 1 \in Nat /\ (n + 1) - 1 = n
    OBVIOUS
  <2>2. \A t \in Seq(Seq(T)) :
          Len(t) = (n + 1) + 1 => FlattenSeq(t) = t[1] \o FlattenSeq(Tail(t))
    <3> HIDE DEF D
    <3> QED
      BY <1>1, <1>3, <2>1
  <2> QED
    BY <2>1, <2>2
<1> HIDE DEF D
<1>4. D = Nat
  <2>1. D \subseteq Nat
    BY DEF D
  <2> QED
    BY <1>2, <1>3, <2>1, SetInduction
<1>5. Len(s) - 1 \in D /\ Len(s) = (Len(s) - 1) + 1
  <2>1. Len(s) \in Nat \ {0}
    BY EmptySeq
  <2> QED
    BY <1>4, <2>1
<1> QED
  BY <1>5 DEF D

-----------------------------------------------------------------------------
(* The bytes of a file.                                                    *)

Parts == STRING \cup {"size", "data", "pad"}
ByteCells == Parts \X Nat
Pad(c) == IF Complete(c) /\ c.declared % 2 = 1 THEN 1 ELSE 0

Joint(T, s, t) ==
  /\ s \o t \in Seq(T) /\ Len(s \o t) = Len(s) + Len(t)
  /\ \A i \in 1 .. Len(s) + Len(t) :
       (s \o t)[i] = IF i <= Len(s) THEN s[i] ELSE t[i - Len(s)]

\* What \o is, as a predicate the provers can carry about.
LEMMA Jointed == \A T : \A s, t \in Seq(T) : Joint(T, s, t)
BY ConcatProperties DEF Joint

\* Tuples of one and of two are sequences.
LEMMA OneOrTwo ==
  \A T : \A a, b \in T : /\ <<a>> \in Seq(T) /\ Len(<<a>>) = 1 /\ <<a>>[1] = a
                         /\ <<a, b>> \in Seq(T) /\ Len(<<a, b>>) = 2
                         /\ <<a, b>>[1] = a /\ <<a, b>>[2] = b
OBVIOUS

\* A part and a value make a byte.
LEMMA InCells == \A t \in Parts, n \in Nat : <<t, n>> \in ByteCells
BY DEF ByteCells

\* A chunk in the file: its id, its size, its payload, its pad byte.
LEMMA ChunkCells ==
  ASSUME NEW c \in Chunks
  PROVE  /\ Bytes(c) \in Seq(ByteCells) /\ Len(c.payload) \in Nat /\ Pad(c) \in Nat
         /\ Len(Bytes(c)) = 2 + Len(c.payload) + Pad(c)
         /\ Bytes(c)[1] = <<c.id, 0>> /\ Bytes(c)[2] = <<"size", c.declared>>
         /\ \A i \in 1 .. Len(c.payload) : Bytes(c)[2 + i] = <<"data", c.payload[i]>>
<1>1. c.id \in STRING /\ c.declared \in Nat /\ c.payload \in Seq(Nat)
  BY DEF Chunks
<1> DEFINE tag == <<c.id, 0>>
           size == <<"size", c.declared>>
           void == <<"pad", 0>>
           head == <<tag, size>>
           body == [i \in 1 .. Len(c.payload) |-> <<"data", c.payload[i]>>]
           pad == IF Complete(c) /\ c.declared % 2 = 1 THEN <<void>> ELSE <<>>
<1>2. tag \in ByteCells /\ size \in ByteCells /\ void \in ByteCells
  <2>1. c.id \in Parts /\ "size" \in Parts /\ "pad" \in Parts /\ 0 \in Nat
    BY <1>1 DEF Parts
  <2> QED
    BY <1>1, <2>1, InCells
<1>3. Len(c.payload) \in Nat /\ \A i \in 1 .. Len(c.payload) : c.payload[i] \in Nat
  BY <1>1
<1>4. body \in Seq(ByteCells) /\ Len(body) = Len(c.payload)
      /\ \A i \in 1 .. Len(c.payload) : body[i] = <<"data", c.payload[i]>>
  <2>1. \A i \in 1 .. Len(c.payload) : <<"data", c.payload[i]>> \in ByteCells
    <3>1. "data" \in Parts
      BY DEF Parts
    <3> QED
      BY <1>3, <3>1, InCells
  <2>2. body \in [1 .. Len(c.payload) -> ByteCells]
    BY <2>1
  <2>3. body \in Seq(ByteCells) /\ Len(body) = Len(c.payload)
    <3> HIDE DEF body
    <3> QED
      BY <1>3, <2>2
  <2> QED
    BY <2>3
<1>5. Bytes(c) = (head \o body) \o pad
  BY DEF Bytes
<1> HIDE DEF body, tag, size, void
<1>6. head \in Seq(ByteCells) /\ Len(head) = 2 /\ head[1] = tag /\ head[2] = size
  BY <1>2, OneOrTwo, Zenon
<1>7. Pad(c) \in Nat /\ pad \in Seq(ByteCells) /\ Len(pad) = Pad(c)
  <2>1. <<void>> \in Seq(ByteCells) /\ Len(<<void>>) = 1
    BY <1>2, OneOrTwo, Zenon
  <2>2. <<>> \in Seq(ByteCells) /\ Len(<<>>) = 0
    OBVIOUS
  <2> QED
    BY <2>1, <2>2 DEF Pad
<1> HIDE DEF head, pad
<1> DEFINE front == head \o body
<1>8. Joint(ByteCells, head, body)
  BY <1>4, <1>6, Jointed, Zenon
<1>9. /\ front \in Seq(ByteCells) /\ Len(front) = 2 + Len(c.payload)
      /\ front[1] = tag /\ front[2] = size
      /\ \A i \in 1 .. Len(c.payload) : front[2 + i] = <<"data", c.payload[i]>>
  BY <1>3, <1>4, <1>6, <1>8 DEF Joint
<1> HIDE DEF front
<1>10. Joint(ByteCells, front, pad)
  BY <1>7, <1>9, Jointed, Zenon
<1>11. /\ front \o pad \in Seq(ByteCells) /\ Len(front \o pad) = 2 + Len(c.payload) + Pad(c)
       /\ \A i \in 1 .. 2 + Len(c.payload) : (front \o pad)[i] = front[i]
  BY <1>3, <1>7, <1>9, <1>10 DEF Joint
<1>12. 1 \in 1 .. 2 + Len(c.payload) /\ 2 \in 1 .. 2 + Len(c.payload)
       /\ \A i \in 1 .. Len(c.payload) : 2 + i \in 1 .. 2 + Len(c.payload)
  BY <1>3
<1>13. Bytes(c) = front \o pad
  BY <1>5 DEF front
<1> QED
  BY <1>3, <1>7, <1>9, <1>11, <1>12, <1>13 DEF tag, size

\* What WavFile unfolds to.
FileRows(magic, cs, g) ==
  /\ g \in [0 .. Len(cs) -> Seq(ByteCells)] /\ g[0] = <<<<magic, 0>>>>
  /\ \A i \in 1 .. Len(cs) : g[i] = g[i - 1] \o Bytes(cs[i])

\* WavFile is the last of its rows.
LEMMA FileUnfolds ==
  ASSUME NEW magic \in STRING, NEW cs \in Seq(Chunks)
  PROVE  \E g : FileRows(magic, cs, g) /\ WavFile(magic, cs) = g[Len(cs)]
<1> DEFINE S == Seq(ByteCells)
           x == <<<<magic, 0>>>>
           F == [i \in Nat |-> [t \in S |-> IF i \in 1 .. Len(cs) THEN t \o Bytes(cs[i]) ELSE t]]
<1>1. Len(cs) \in Nat /\ \A i \in 1 .. Len(cs) : cs[i] \in Chunks /\ Bytes(cs[i]) \in S
  BY ChunkCells
<1>2. x \in S
  <2>1. <<magic, 0>> \in ByteCells
    BY InCells DEF Parts
  <2> QED
    BY <2>1, OneOrTwo, Zenon
<1>3. F \in [Nat -> [S -> S]]
  <2>1. ASSUME NEW i \in Nat, NEW t \in S
        PROVE  (IF i \in 1 .. Len(cs) THEN t \o Bytes(cs[i]) ELSE t) \in S
    <3>1. CASE i \in 1 .. Len(cs)
      <4>1. Joint(ByteCells, t, Bytes(cs[i]))
        BY <1>1, <3>1, Jointed, Zenon
      <4> QED
        BY <3>1, <4>1 DEF Joint
    <3>2. CASE i \notin 1 .. Len(cs)
      BY <3>2
    <3> QED
      BY <3>1, <3>2
  <2> HIDE DEF S
  <2> QED
    BY <2>1
<1>4. ASSUME NEW i \in 1 .. Len(cs), NEW t \in S PROVE F[i][t] = t \o Bytes(cs[i])
  <2>1. i \in Nat
    BY <1>1
  <2>2. F[i] = [u \in S |-> IF i \in 1 .. Len(cs) THEN u \o Bytes(cs[i]) ELSE u]
    BY <2>1
  <2> HIDE DEF F, S
  <2> QED
    BY <2>2
<1> HIDE DEF F
<1>5. PICK g : g \in Iterations(S, x, F, 0, Len(cs))
  <2> HIDE DEF S, x
  <2>1. 0 \in Nat
    OBVIOUS
  <2>2. Iterations(S, x, F, 0, Len(cs)) # {}
    BY <1>1, <1>2, <1>3, <2>1, Iterated
  <2> QED
    BY <2>2
<1> HIDE DEF S, x
<1>6. /\ g \in [0 .. Len(cs) -> S] /\ g[0] = x
      /\ \A i \in 1 .. Len(cs) : g[i] = F[i][g[i - 1]]
  BY <1>1, <1>5 DEF Iterations
<1>7. \A i \in 1 .. Len(cs) : g[i] = g[i - 1] \o Bytes(cs[i])
  <2> SUFFICES ASSUME NEW i \in 1 .. Len(cs) PROVE g[i] = g[i - 1] \o Bytes(cs[i])
    OBVIOUS
  <2>1. i - 1 \in 0 .. Len(cs)
    BY <1>1
  <2>2. g[i - 1] \in S
    BY <1>6, <2>1
  <2> QED
    BY <1>4, <1>6, <2>2
<1> DEFINE Built(u) == u = [i \in 0 .. Len(cs) |->
                              IF i = 0 THEN x ELSE u[i - 1] \o Bytes(cs[i])]
           h == CHOOSE u : Built(u)
<1>8. Built(g)
  <2>1. \A i \in 0 .. Len(cs) : g[i] = IF i = 0 THEN x ELSE g[i - 1] \o Bytes(cs[i])
    <3> SUFFICES ASSUME NEW i \in 0 .. Len(cs)
                 PROVE  g[i] = IF i = 0 THEN x ELSE g[i - 1] \o Bytes(cs[i])
      OBVIOUS
    <3>1. i # 0 => i \in 1 .. Len(cs)
      BY <1>1
    <3> QED
      BY <1>6, <1>7, <3>1
  <2> QED
    BY <1>6, <2>1
<1>9. Built(h)
  <2> HIDE DEF Built
  <2> QED
    BY <1>8
<1>10. WavFile(magic, cs) = h[Len(cs)]
  BY DEF WavFile, x
<1> HIDE DEF h
<1>11. /\ h[0] = x /\ \A i \in 1 .. Len(cs) : h[i] = h[i - 1] \o Bytes(cs[i])
  <2>1. \A i \in 0 .. Len(cs) : h[i] = IF i = 0 THEN x ELSE h[i - 1] \o Bytes(cs[i])
    BY <1>9, Zenon
  <2>2. 0 \in 0 .. Len(cs) /\ \A i \in 1 .. Len(cs) : i \in 0 .. Len(cs) /\ i # 0
    BY <1>1
  <2> HIDE DEF Built
  <2> QED
    BY <2>1, <2>2
<1>12. \A i \in 0 .. Len(cs) : h[i] = g[i]
  <2> DEFINE D == {k \in Nat : k <= Len(cs) => h[k] = g[k]}
  <2>1. 0 \in D
    BY <1>6, <1>11
  <2>2. ASSUME NEW k \in D PROVE k + 1 \in D
    <3> SUFFICES ASSUME k + 1 <= Len(cs) PROVE h[k + 1] = g[k + 1]
      OBVIOUS
    <3>1. k + 1 \in 1 .. Len(cs) /\ (k + 1) - 1 = k /\ h[k] = g[k]
      BY <1>1
    <3> HIDE DEF D, Built
    <3> QED
      BY <1>7, <1>11, <3>1
  <2> HIDE DEF D
  <2>3. D = Nat
    <3>1. D \subseteq Nat
      BY DEF D
    <3> QED
      BY <2>1, <2>2, <3>1, SetInduction
  <2> SUFFICES ASSUME NEW i \in 0 .. Len(cs) PROVE h[i] = g[i]
    OBVIOUS
  <2>4. i \in D /\ i <= Len(cs)
    BY <1>1, <2>3
  <2> QED
    BY <2>4 DEF D
<1>13. WavFile(magic, cs) = g[Len(cs)]
  <2>1. Len(cs) \in 0 .. Len(cs)
    BY <1>1
  <2> QED
    BY <1>10, <1>12, <2>1
<1>14. FileRows(magic, cs, g)
  BY <1>6, <1>7 DEF FileRows, S, x
<1> QED
  BY <1>13, <1>14

\* Where the chunks of a file are: pos[k] is the place of the k-th one's id.
LaidOut(file, magic, cs, pos) ==
  /\ file \in Seq(ByteCells) /\ file[1] = <<magic, 0>> /\ Len(file) > Len(cs)
  /\ pos \in [1 .. Len(cs) + 1 -> Nat \ {0}]
  /\ pos[1] = 2 /\ pos[Len(cs) + 1] = Len(file) + 1
  /\ \A k \in 1 .. Len(cs) :
       /\ pos[k + 1] = pos[k] + 2 + Len(cs[k].payload) + Pad(cs[k])
       /\ pos[k + 1] <= Len(file) + 1
       /\ file[pos[k]] = <<cs[k].id, 0>> /\ file[pos[k] + 1] = <<"size", cs[k].declared>>
       /\ \A i \in 1 .. Len(cs[k].payload) : file[pos[k] + 1 + i] = <<"data", cs[k].payload[i]>>

\* A file begins with each of its rows, and every chunk makes it longer.
Begins(g, i, j) ==
  /\ Len(g[i]) + (j - i) <= Len(g[j])
  /\ \A q \in 1 .. Len(g[i]) : g[j][q] = g[i][q]

\* Rows only grow, and a later one begins with an earlier one.
LEMMA RowsGrow ==
  ASSUME NEW magic \in STRING, NEW cs \in Seq(Chunks), NEW g, FileRows(magic, cs, g)
  PROVE  \A j \in 0 .. Len(cs) : \A i \in 0 .. j : Begins(g, i, j)
<1> DEFINE Longer(i, j) == Begins(g, i, j)
           D == {j \in Nat : j <= Len(cs) => \A i \in 0 .. j : Longer(i, j)}
<1>1. Len(cs) \in Nat /\ \A i \in 0 .. Len(cs) : g[i] \in Seq(ByteCells) /\ Len(g[i]) \in Nat
  BY DEF FileRows
<1>2. 0 \in D
  <2> SUFFICES ASSUME NEW i \in 0 .. 0 PROVE Longer(i, 0)
    OBVIOUS
  <2>1. i = 0 /\ 0 \in 0 .. Len(cs)
    BY <1>1
  <2> QED
    BY <1>1, <2>1 DEF Begins
<1>3. ASSUME NEW j \in D PROVE j + 1 \in D
  <2> SUFFICES ASSUME j + 1 <= Len(cs), NEW i \in 0 .. j + 1 PROVE Longer(i, j + 1)
    OBVIOUS
  <2>1. j \in Nat /\ j <= Len(cs) /\ j + 1 \in 1 .. Len(cs) /\ j \in 0 .. Len(cs)
        /\ j + 1 \in 0 .. Len(cs) /\ (j + 1) - 1 = j /\ i \in 0 .. Len(cs)
    BY <1>1
  <2>2. CASE i = j + 1
    BY <1>1, <2>1, <2>2 DEF Begins
  <2>3. CASE i # j + 1
    <3>1. i \in 0 .. j
      BY <2>1, <2>3
    <3>2. Longer(i, j)
      BY <2>1, <3>1
    <3> HIDE DEF D
    <3>3. g[j + 1] = g[j] \o Bytes(cs[j + 1])
      BY <2>1 DEF FileRows
    <3> DEFINE c == cs[j + 1]
               b == Bytes(c)
    <3>4. b \in Seq(ByteCells) /\ Len(b) \in Nat /\ Len(b) >= 1
      <4>1. c \in Chunks
        BY <2>1
      <4> HIDE DEF c
      <4>2. /\ b \in Seq(ByteCells) /\ Len(c.payload) \in Nat /\ Pad(c) \in Nat
            /\ Len(b) = 2 + Len(c.payload) + Pad(c)
        BY <4>1, ChunkCells
      <4> QED
        BY <4>2
    <3> HIDE DEF b
    <3>5. Joint(ByteCells, g[j], b)
      BY <1>1, <2>1, <3>4, Jointed, Zenon
    <3>6. Len(g[j + 1]) = Len(g[j]) + Len(b)
          /\ \A q \in 1 .. Len(g[j]) : g[j + 1][q] = g[j][q]
      <4>1. /\ Len(g[j] \o b) = Len(g[j]) + Len(b)
            /\ \A q \in 1 .. Len(g[j]) : (g[j] \o b)[q] = g[j][q]
        BY <1>1, <2>1, <3>4, <3>5 DEF Joint
      <4> QED
        BY <3>3, <4>1 DEF b
    <3>7. /\ Len(g[i]) + (j - i) <= Len(g[j])
          /\ \A q \in 1 .. Len(g[i]) : g[j][q] = g[i][q]
      BY <3>2 DEF Begins
    <3> HIDE DEF Longer
    <3>8. Len(g[i]) \in Nat /\ Len(g[j]) \in Nat /\ i \in Nat /\ j \in Nat /\ i <= j
      BY <1>1, <2>1, <3>1
    <3>9. \A a, d, e \in Nat : a + (j - i) <= d /\ e >= 1 => a + ((j + 1) - i) <= d + e
      BY <3>8
    <3>10. Len(g[i]) + ((j + 1) - i) <= Len(g[j + 1])
      BY <3>4, <3>6, <3>7, <3>8, <3>9
    <3>11. Len(g[i]) <= Len(g[j])
      BY <3>7, <3>8
    <3>12. \A q \in 1 .. Len(g[i]) : q \in 1 .. Len(g[j])
      BY <3>8, <3>11
    <3>13. \A q \in 1 .. Len(g[i]) : g[j + 1][q] = g[i][q]
      BY <3>6, <3>7, <3>12
    <3> QED
      BY <3>10, <3>13 DEF Longer, Begins
  <2> QED
    BY <2>2, <2>3
<1> HIDE DEF D
<1>4. D = Nat
  <2>1. D \subseteq Nat
    BY DEF D
  <2> QED
    BY <1>2, <1>3, <2>1, SetInduction
<1> SUFFICES ASSUME NEW j \in 0 .. Len(cs), NEW i \in 0 .. j PROVE Longer(i, j)
  OBVIOUS
<1>5. j \in D /\ j <= Len(cs)
  BY <1>1, <1>4
<1> HIDE DEF Longer
<1> QED
  BY <1>5 DEF D

\* The bytes of a file are those of its chunks, one after the other.
LEMMA FileIsLaidOut ==
  ASSUME NEW magic \in STRING, NEW cs \in Seq(Chunks)
  PROVE  \E pos : LaidOut(WavFile(magic, cs), magic, cs, pos)
<1>1. PICK g : FileRows(magic, cs, g) /\ WavFile(magic, cs) = g[Len(cs)]
  BY FileUnfolds
<1> DEFINE file == WavFile(magic, cs)
           n == Len(cs)
           pos == [k \in 1 .. n + 1 |-> Len(g[k - 1]) + 1]
<1>2. n \in Nat /\ \A i \in 0 .. n : g[i] \in Seq(ByteCells) /\ Len(g[i]) \in Nat
  BY <1>1 DEF FileRows
<1>3. \A i \in 0 .. n : /\ Len(g[i]) + (n - i) <= Len(file)
                        /\ \A q \in 1 .. Len(g[i]) : file[q] = g[i][q]
  <2>1. n \in 0 .. n
    BY <1>2
  <2> HIDE DEF file, pos
  <2>2. \A j \in 0 .. n : \A i \in 0 .. j : Begins(g, i, j)
    BY <1>1, RowsGrow, Zenon
  <2>3. file = g[n]
    BY <1>1 DEF file
  <2> QED
    BY <2>1, <2>2, <2>3 DEF Begins
<1>4. Len(g[0]) = 1 /\ g[0][1] = <<magic, 0>>
  <2>1. g[0] = <<<<magic, 0>>>>
    BY <1>1, Zenon DEF FileRows
  <2>2. <<magic, 0>> \in ByteCells
    BY InCells DEF Parts
  <2>3. Len(<<<<magic, 0>>>>) = 1 /\ <<<<magic, 0>>>>[1] = <<magic, 0>>
    BY <2>2, OneOrTwo, Zenon
  <2> QED
    BY <2>1, <2>3, Zenon
<1>5. file \in Seq(ByteCells) /\ file[1] = <<magic, 0>> /\ Len(file) > n /\ Len(file) \in Nat
  <2>1. 0 \in 0 .. n /\ n \in 0 .. n
    BY <1>2
  <2>2. file \in Seq(ByteCells) /\ Len(file) \in Nat
    BY <1>1, <1>2, <2>1
  <2>3. 1 \in 1 .. Len(g[0])
    BY <1>4
  <2> HIDE DEF file, pos
  <2>4. file[1] = <<magic, 0>>
    BY <1>3, <1>4, <2>1, <2>3
  <2>5. Len(file) > n
    <3>1. Len(g[0]) + (n - 0) <= Len(file)
      BY <1>3, <2>1
    <3> QED
      BY <1>2, <1>4, <2>2, <3>1
  <2> QED
    BY <2>2, <2>4, <2>5
<1>6. pos \in [1 .. n + 1 -> Nat \ {0}] /\ \A k \in 1 .. n + 1 : pos[k] = Len(g[k - 1]) + 1
  BY <1>2
<1> HIDE DEF file, pos
<1>7. pos[1] = 2 /\ pos[n + 1] = Len(file) + 1
  <2>1. 1 \in 1 .. n + 1 /\ n + 1 \in 1 .. n + 1 /\ 1 - 1 = 0 /\ (n + 1) - 1 = n
    BY <1>2
  <2>2. Len(file) = Len(g[n])
    BY <1>1 DEF file
  <2>3. pos[1] = Len(g[0]) + 1 /\ pos[n + 1] = Len(g[n]) + 1
    BY <1>6, <2>1
  <2> QED
    BY <1>4, <2>2, <2>3
<1>8. ASSUME NEW k \in 1 .. n
      PROVE  /\ pos[k + 1] = pos[k] + 2 + Len(cs[k].payload) + Pad(cs[k])
             /\ pos[k + 1] <= Len(file) + 1
             /\ file[pos[k]] = <<cs[k].id, 0>>
             /\ file[pos[k] + 1] = <<"size", cs[k].declared>>
             /\ \A i \in 1 .. Len(cs[k].payload) :
                  file[pos[k] + 1 + i] = <<"data", cs[k].payload[i]>>
  <2> DEFINE c == cs[k]
             b == Bytes(c)
             p == Len(g[k - 1])
  <2>1. /\ k \in 1 .. n + 1 /\ k + 1 \in 1 .. n + 1 /\ (k + 1) - 1 = k /\ k \in 0 .. n
        /\ k - 1 \in 0 .. n /\ c \in Chunks /\ p \in Nat
    BY <1>2
  <2>2. g[k] = g[k - 1] \o b
    BY <1>1 DEF FileRows
  <2>3. pos[k] = p + 1 /\ pos[k + 1] = Len(g[k]) + 1
    BY <1>6, <2>1
  <2> HIDE DEF c
  <2>4. /\ b \in Seq(ByteCells) /\ Len(c.payload) \in Nat /\ Pad(c) \in Nat
        /\ Len(b) = 2 + Len(c.payload) + Pad(c)
        /\ b[1] = <<c.id, 0>> /\ b[2] = <<"size", c.declared>>
        /\ \A i \in 1 .. Len(c.payload) : b[2 + i] = <<"data", c.payload[i]>>
    BY <2>1, ChunkCells
  <2> HIDE DEF b
  <2>5. Joint(ByteCells, g[k - 1], b)
    BY <1>2, <2>1, <2>4, Jointed, Zenon
  <2>6. Len(g[k]) = p + Len(b) /\ \A i \in 1 .. Len(b) : g[k][p + i] = b[i]
    <3>1. Len(b) \in Nat
      BY <2>4
    <3>2. /\ Len(g[k - 1] \o b) = p + Len(b)
          /\ \A i \in 1 .. p + Len(b) :
               (g[k - 1] \o b)[i] = IF i <= p THEN g[k - 1][i] ELSE b[i - p]
      BY <2>5 DEF Joint
    <3>3. ASSUME NEW i \in 1 .. Len(b) PROVE (g[k - 1] \o b)[p + i] = b[i]
      <4>1. p + i \in 1 .. p + Len(b) /\ ~ (p + i <= p) /\ (p + i) - p = i
        BY <2>1, <3>1
      <4> HIDE DEF p
      <4> QED
        BY <3>2, <4>1
    <3> HIDE DEF p
    <3> QED
      BY <2>2, <3>2, <3>3
  <2>7. \A i \in 1 .. Len(b) : file[p + i] = b[i]
    <3>1. ASSUME NEW i \in 1 .. Len(b) PROVE p + i \in 1 .. Len(g[k])
      <4>1. Len(b) \in Nat
        BY <2>4
      <4> HIDE DEF p
      <4> QED
        BY <2>1, <2>6, <4>1
    <3> QED
      BY <1>3, <2>1, <2>6, <3>1
  <2>8. Len(g[k]) <= Len(file)
    BY <1>2, <1>3, <1>5, <2>1
  <2> HIDE DEF p
  <2>9. 1 \in 1 .. Len(b) /\ 2 \in 1 .. Len(b)
        /\ \A i \in 1 .. Len(c.payload) : 2 + i \in 1 .. Len(b)
    BY SMTT(30), <2>4
  <2>10. /\ pos[k + 1] = pos[k] + 2 + Len(c.payload) + Pad(c)
         /\ pos[k + 1] <= Len(file) + 1
    <3>1. p \in Nat /\ Len(g[k]) \in Nat /\ Len(file) \in Nat
      BY <1>2, <1>5, <2>1
    <3>2. \A d, q \in Nat : p + (2 + d + q) + 1 = (p + 1) + 2 + d + q
      BY <3>1
    <3>3. pos[k + 1] = p + (2 + Len(c.payload) + Pad(c)) + 1
      BY <2>3, <2>4, <2>6
    <3>4. pos[k + 1] = pos[k] + 2 + Len(c.payload) + Pad(c)
      BY <2>3, <2>4, <3>2, <3>3
    <3>5. pos[k + 1] <= Len(file) + 1
      BY <2>3, <2>8, <3>1
    <3> QED
      BY <3>4, <3>5
  <2>11. file[p + 1] = <<c.id, 0>> /\ file[p + 2] = <<"size", c.declared>>
         /\ \A i \in 1 .. Len(c.payload) : file[p + (2 + i)] = <<"data", c.payload[i]>>
    BY <2>4, <2>7, <2>9
  <2>12. pos[k] = p + 1 /\ pos[k] + 1 = p + 2
         /\ \A i \in 1 .. Len(c.payload) : pos[k] + 1 + i = p + (2 + i)
    BY <2>1, <2>3, <2>4
  <2> QED
    BY <2>10, <2>11, <2>12 DEF c
<1>9. LaidOut(file, magic, cs, pos)
  BY <1>5, <1>6, <1>7, <1>8 DEF LaidOut
<1> QED
  BY <1>9 DEF file

-----------------------------------------------------------------------------
(* The walk.                                                               *)

Wavs == [ok : BOOLEAN, samples : Seq(Nat), rate : Nat, sound : BOOLEAN]
Walkers == [at : Nat \ {0}, codec : Nat, rate : Nat, going : BOOLEAN, wav : Wavs]
AtStart == [at |-> 2, codec |-> 0, rate |-> 0, going |-> TRUE, wav |-> Refused]
NextRound(file, w) == IF w.going THEN ReadChunk(file, w) ELSE w

\* What a round does, by the chunk it is at.
IdAt(file, w) == file[w.at][1]
SizeAt(file, w) == file[w.at + 1][2]
Whole(file, w) == w.at + 2 + SizeAt(file, w) - 1 <= Len(file)
EndOf(w) == [w EXCEPT !.going = FALSE]
OddInside(file, w) == SizeAt(file, w) % 2 = 1 /\ w.at + 2 + SizeAt(file, w) < Len(file)
GoneAstray(w) == [EndOf(w) EXCEPT !.wav = Astray]
FormatRead(file, w) ==
  [w EXCEPT !.at = w.at + 2 + SizeAt(file, w),
            !.codec = file[w.at + 2][2], !.rate = file[w.at + 2 + 1][2]]
Said(file, w) == [i \in 1 .. SizeAt(file, w) \div 2 |-> file[w.at + 2 + 2 * i - 2][2]]
AudioRead(file, w) ==
  [EndOf(w) EXCEPT !.wav = [ok |-> TRUE, rate |-> w.rate, sound |-> SizeAt(file, w) % 2 = 0,
                            samples |-> Said(file, w)]]
SkippedTo(file, w) == [w EXCEPT !.at = Skip(w.at + 2, SizeAt(file, w))]

\* The seven ways a round of the walk goes.
LEMMA Rounds ==
  ASSUME NEW file, NEW w, w.at \in Nat, Len(file) \in Nat
  PROVE  /\ w.at + 1 > Len(file) => ReadChunk(file, w) = EndOf(w)
         /\ w.at + 1 <= Len(file) /\ IdAt(file, w) = "fmt " =>
              ReadChunk(file, w) = IF SizeAt(file, w) < FmtSize \/ ~Whole(file, w) THEN EndOf(w)
                                   ELSE IF OddInside(file, w) THEN GoneAstray(w)
                                   ELSE FormatRead(file, w)
         /\ w.at + 1 <= Len(file) /\ IdAt(file, w) = "data" =>
              ReadChunk(file, w) = IF w.codec # PcmMono \/ ~Whole(file, w) THEN EndOf(w)
                                   ELSE AudioRead(file, w)
         /\ w.at + 1 <= Len(file) /\ IdAt(file, w) \notin {"fmt ", "data"} =>
              ReadChunk(file, w) = SkippedTo(file, w)
<1>1. ReadChunk(file, w) =
        CASE w.at + 1 > Len(file) -> EndOf(w)
          [] w.at + 1 <= Len(file) /\ IdAt(file, w) = "fmt " ->
               IF SizeAt(file, w) < FmtSize \/ ~Whole(file, w) THEN EndOf(w)
               ELSE IF OddInside(file, w) THEN GoneAstray(w)
               ELSE FormatRead(file, w)
          [] w.at + 1 <= Len(file) /\ IdAt(file, w) = "data" ->
               IF w.codec # PcmMono \/ ~Whole(file, w) THEN EndOf(w) ELSE AudioRead(file, w)
          [] OTHER -> SkippedTo(file, w)
  BY Zenon DEF ReadChunk, EndOf, Whole, IdAt, SizeAt, OddInside, GoneAstray, FormatRead,
               AudioRead, Said, SkippedTo
<1>2. w.at + 1 > Len(file) <=> ~ (w.at + 1 <= Len(file))
  OBVIOUS
<1>3. w.at + 1 > Len(file) => ReadChunk(file, w) = EndOf(w)
  BY <1>1, <1>2
<1>4. w.at + 1 <= Len(file) /\ IdAt(file, w) = "fmt " =>
        ReadChunk(file, w) = IF SizeAt(file, w) < FmtSize \/ ~Whole(file, w) THEN EndOf(w)
                             ELSE IF OddInside(file, w) THEN GoneAstray(w)
                             ELSE FormatRead(file, w)
  BY <1>1, <1>2
<1>5. w.at + 1 <= Len(file) /\ IdAt(file, w) = "data" =>
        ReadChunk(file, w) = IF w.codec # PcmMono \/ ~Whole(file, w) THEN EndOf(w)
                             ELSE AudioRead(file, w)
  BY <1>1, <1>2
<1>6. w.at + 1 <= Len(file) /\ IdAt(file, w) \notin {"fmt ", "data"} =>
        ReadChunk(file, w) = SkippedTo(file, w)
  BY <1>1, <1>2
<1> QED
  BY <1>3, <1>4, <1>5, <1>6

\* To return nothing is to return something of the right kind.
LEMMA NothingIsTyped == Refused \in Wavs /\ Astray \in Wavs
<1>1. <<>> \in Seq(Nat)
  OBVIOUS
<1> QED
  BY <1>1 DEF Refused, Astray, Wavs

\* A round makes a walk of a walk.
LEMMA RoundTyped ==
  ASSUME NEW file \in Seq(ByteCells), NEW w \in Walkers
  PROVE  ReadChunk(file, w) \in Walkers
<1> DEFINE at == w.at
           size == SizeAt(file, w)
<1>1. at \in Nat \ {0} /\ Len(file) \in Nat /\ w.wav \in Wavs /\ w.rate \in Nat
      /\ w.codec \in Nat
  BY DEF Walkers
<1>2. \A i \in 1 .. Len(file) : file[i][2] \in Nat
  BY DEF ByteCells
<1>3. EndOf(w) \in Walkers /\ GoneAstray(w) \in Walkers
  <2>1. EndOf(w) \in Walkers
    BY DEF Walkers, EndOf
  <2> QED
    BY <2>1, NothingIsTyped DEF Walkers, GoneAstray
<1>4. CASE at + 1 > Len(file)
  BY <1>1, <1>3, <1>4, Rounds
<1>5. CASE at + 1 <= Len(file)
  <2>1. size \in Nat
    <3>1. at + 1 \in 1 .. Len(file)
      BY <1>1, <1>5
    <3> QED
      BY <1>2, <3>1 DEF SizeAt
  <2>2. Whole(file, w) <=> at + 2 + size - 1 <= Len(file)
    BY DEF Whole
  <2>3. ASSUME ~ (size < FmtSize \/ ~Whole(file, w)) PROVE FormatRead(file, w) \in Walkers
    <3> HIDE DEF size
    <3>1. at + 2 \in 1 .. Len(file) /\ at + 2 + 1 \in 1 .. Len(file)
      BY SMTT(30), <1>1, <2>1, <2>2, <2>3 DEF FmtSize
    <3>2. file[at + 2][2] \in Nat /\ file[at + 2 + 1][2] \in Nat
      BY <1>2, <3>1, Zenon
    <3>3. at + 2 + size \in Nat \ {0}
      BY <1>1, <2>1
    <3> QED
      BY <3>2, <3>3 DEF Walkers, FormatRead, size
  <2>4. ASSUME Whole(file, w) PROVE AudioRead(file, w) \in Walkers
    <3> HIDE DEF size
    <3>1. size \div 2 \in Nat
      BY <2>1
    <3>2. ASSUME NEW i \in 1 .. size \div 2 PROVE file[at + 2 + 2 * i - 2][2] \in Nat
      <4>1. at + 2 + 2 * i - 2 \in 1 .. Len(file)
        BY <1>1, <2>1, <2>2, <2>4
      <4> QED
        BY <1>2, <4>1
    <3>3. Said(file, w) \in [1 .. size \div 2 -> Nat]
      BY <3>2 DEF Said, size
    <3>4. Said(file, w) \in Seq(Nat)
      BY <3>1, <3>3
    <3>6. (SizeAt(file, w) % 2 = 0) \in BOOLEAN
      OBVIOUS
    <3>5. [ok |-> TRUE, rate |-> w.rate, sound |-> SizeAt(file, w) % 2 = 0,
           samples |-> Said(file, w)] \in Wavs
      BY <1>1, <3>4, <3>6 DEF Wavs
    <3> QED
      BY <1>3, <3>5 DEF Walkers, AudioRead
  <2>5. SkippedTo(file, w) \in Walkers
    <3> HIDE DEF size
    <3>1. size % 2 \in Nat
      BY <2>1
    <3>2. Skip(at + 2, size) = at + 2 + size + (size % 2)
      BY DEF Skip
    <3>3. Skip(at + 2, size) \in Nat \ {0}
      BY <1>1, <2>1, <3>1, <3>2
    <3> QED
      BY <3>3 DEF Walkers, SkippedTo, size
  <2>6. CASE IdAt(file, w) = "fmt "
    BY <1>1, <1>3, <1>5, <2>3, <2>6, Rounds
  <2>7. CASE IdAt(file, w) = "data"
    BY <1>1, <1>3, <1>5, <2>4, <2>7, Rounds
  <2>8. CASE IdAt(file, w) \notin {"fmt ", "data"}
    BY <1>1, <1>5, <2>5, <2>8, Rounds
  <2> QED
    BY <2>6, <2>7, <2>8
<1> QED
  BY <1>1, <1>4, <1>5

\* What Walk unfolds to.
LEMMA WalkUnfolds ==
  ASSUME NEW file \in Seq(ByteCells)
  PROVE  \E g \in [0 .. Len(file) -> Walkers] :
           /\ g[0] = AtStart
           /\ \A i \in 1 .. Len(file) : g[i] = NextRound(file, g[i - 1])
           /\ Walk(file) = g[Len(file)].wav
<1> DEFINE n == Len(file)
           F == [i \in Nat |-> [w \in Walkers |-> NextRound(file, w)]]
<1>1. n \in Nat
  OBVIOUS
<1>2. AtStart \in Walkers
  BY NothingIsTyped DEF AtStart, Walkers
<1>3. F \in [Nat -> [Walkers -> Walkers]]
  <2>1. ASSUME NEW w \in Walkers PROVE NextRound(file, w) \in Walkers
    BY RoundTyped DEF NextRound
  <2> QED
    BY <2>1
<1>4. \A i \in Nat, w \in Walkers : F[i][w] = NextRound(file, w)
  OBVIOUS
<1> HIDE DEF F, n
<1>5. PICK g : g \in Iterations(Walkers, AtStart, F, 0, n)
  <2>1. 0 \in Nat
    OBVIOUS
  <2>2. Iterations(Walkers, AtStart, F, 0, n) # {}
    BY <1>1, <1>2, <1>3, <2>1, Iterated
  <2> QED
    BY <2>2
<1>6. /\ g \in [0 .. n -> Walkers] /\ g[0] = AtStart
      /\ \A i \in 1 .. n : g[i] = F[i][g[i - 1]]
  BY <1>1, <1>5 DEF Iterations
<1>7. \A i \in 1 .. n : g[i] = NextRound(file, g[i - 1])
  <2> SUFFICES ASSUME NEW i \in 1 .. n PROVE g[i] = NextRound(file, g[i - 1])
    OBVIOUS
  <2>1. i - 1 \in 0 .. n /\ i \in Nat
    BY <1>1
  <2> QED
    BY <1>4, <1>6, <2>1
<1> DEFINE Built(u) == u = [i \in 0 .. n |->
                              IF i = 0 THEN AtStart ELSE NextRound(file, u[i - 1])]
           h == CHOOSE u : Built(u)
<1>8. Built(g)
  <2>1. \A i \in 0 .. n : g[i] = IF i = 0 THEN AtStart ELSE NextRound(file, g[i - 1])
    <3> SUFFICES ASSUME NEW i \in 0 .. n
                 PROVE  g[i] = IF i = 0 THEN AtStart ELSE NextRound(file, g[i - 1])
      OBVIOUS
    <3>1. i # 0 => i \in 1 .. n
      BY <1>1
    <3> QED
      BY <1>6, <1>7, <3>1
  <2> QED
    BY <1>6, <2>1
<1>9. Built(h)
  <2> HIDE DEF Built
  <2> QED
    BY <1>8
<1>10. Walk(file) = h[n].wav
  BY DEF Walk, n, AtStart, NextRound
<1> HIDE DEF h
<1>11. /\ h[0] = AtStart /\ \A i \in 1 .. n : h[i] = NextRound(file, h[i - 1])
  <2>1. \A i \in 0 .. n : h[i] = IF i = 0 THEN AtStart ELSE NextRound(file, h[i - 1])
    BY <1>9, Zenon
  <2>2. 0 \in 0 .. n /\ \A i \in 1 .. n : i \in 0 .. n /\ i # 0
    BY <1>1
  <2> HIDE DEF Built
  <2> QED
    BY <2>1, <2>2
<1>12. \A i \in 0 .. n : h[i] = g[i]
  <2> DEFINE D == {k \in Nat : k <= n => h[k] = g[k]}
  <2>1. 0 \in D
    BY <1>6, <1>11
  <2>2. ASSUME NEW k \in D PROVE k + 1 \in D
    <3> SUFFICES ASSUME k + 1 <= n PROVE h[k + 1] = g[k + 1]
      OBVIOUS
    <3>1. k + 1 \in 1 .. n /\ (k + 1) - 1 = k /\ h[k] = g[k]
      BY <1>1
    <3> HIDE DEF D, Built
    <3> QED
      BY <1>7, <1>11, <3>1
  <2> HIDE DEF D
  <2>3. D = Nat
    <3>1. D \subseteq Nat
      BY DEF D
    <3> QED
      BY <2>1, <2>2, <3>1, SetInduction
  <2> SUFFICES ASSUME NEW i \in 0 .. n PROVE h[i] = g[i]
    OBVIOUS
  <2>4. i \in D /\ i <= n
    BY <1>1, <2>3
  <2> QED
    BY <2>4 DEF D
<1>13. Walk(file) = g[n].wav
  <2>1. n \in 0 .. n
    BY <1>1
  <2> QED
    BY <1>10, <1>12, <2>1
<1> QED
  BY <1>6, <1>7, <1>13 DEF n

-----------------------------------------------------------------------------
(* The walk finds the audio.                                               *)

\* A reading is right if nothing led it astray and it returns the audio that is
\* there, or none.
Reads(f, v) == v.sound /\ AudioOf(f) = IF v.ok /\ v.rate = Rate16k THEN {v.samples} ELSE {}

\* A file without a chunk of audio has no audio.
LEMMA NoAudio ==
  ASSUME NEW f, \A d \in 1 .. Len(f.chunks) : ~IsAudio(f.chunks, d)
  PROVE  AudioOf(f) = {}
BY DEF AudioOf

\* A file has one chunk of audio at most.
LEMMA OneAudio ==
  ASSUME NEW f, f.magic = "RIFF", Len(f.chunks) \in Nat,
         NEW d \in 1 .. Len(f.chunks), IsAudio(f.chunks, d)
  PROVE  AudioOf(f) = {[i \in 1 .. f.chunks[d].declared \div 2 |-> f.chunks[d].payload[2 * i - 1]]}
<1>1. ASSUME NEW e \in 1 .. Len(f.chunks), IsAudio(f.chunks, e) PROVE e = d
  <2>1. d \in 1 .. e - 1 => f.chunks[d].id # "data"
    BY <1>1 DEF IsAudio
  <2>2. e \in 1 .. d - 1 => f.chunks[e].id # "data"
    BY DEF IsAudio
  <2>3. f.chunks[d].id = "data" /\ f.chunks[e].id = "data"
    BY <1>1 DEF IsAudio
  <2> QED
    BY <2>1, <2>2, <2>3
<1>2. {e \in 1 .. Len(f.chunks) : IsAudio(f.chunks, e)} = {d}
  BY <1>1
<1> DEFINE Samples(c) == [i \in 1 .. c.declared \div 2 |-> c.payload[2 * i - 1]]
<1>3. AudioOf(f) = {Samples(c) : c \in {f.chunks[e] : e \in {d}}}
  BY <1>2 DEF AudioOf
<1> HIDE DEF Samples
<1>4. AudioOf(f) = {Samples(f.chunks[d])}
  BY <1>3
<1> QED
  BY <1>4 DEF Samples

\* The chunk the walk took its codec and rate from.
FmtIs(c, w) ==
  c.id = "fmt " /\ c.declared >= FmtSize /\ Complete(c)
    /\ w.codec = c.payload[1] /\ w.rate = c.payload[2]

\* Where the walk is after i rounds: it is over and right, or it has gone by
\* i chunks, none of them data, and stands at the next.
Reached(f, file, pos, i, w) ==
  \/ ~w.going /\ Reads(f, w.wav)
  \/ /\ w.going /\ w.wav = Refused /\ i <= Len(f.chunks)
     /\ i < Len(f.chunks) => w.at = pos[i + 1]
     /\ i = Len(f.chunks) => w.at >= Len(file)
     /\ \A k \in 1 .. i : f.chunks[k].id # "data"
     /\ \/ w.codec = 0 /\ \A k \in 1 .. i : f.chunks[k].id # "fmt "
        \/ \E k \in 1 .. i : FmtIs(f.chunks[k], w)

\* A walk stands at chunk c, the k-th of n, and next is the place behind it.
Stands(file, w, c, k, n, next) ==
  /\ w.at + 1 <= Len(file) /\ IdAt(file, w) = c.id /\ SizeAt(file, w) = c.declared
  /\ Whole(file, w) <=> Complete(c)
  /\ Complete(c) => w.at + 2 + c.declared + (c.declared % 2) = next
  /\ ~Complete(c) => k = n /\ w.at + 2 + c.declared > Len(file)
  /\ \A i \in 1 .. Len(c.payload) : file[w.at + 1 + i][2] = c.payload[i]

\* A chunk is whole in the file if the size it declares is the size it has.
LEMMA WholeIsComplete ==
  ASSUME NEW f, RiffFile(f), NEW file, NEW pos, LaidOut(file, f.magic, f.chunks, pos),
         NEW k \in 1 .. Len(f.chunks), NEW w \in Walkers, w.at = pos[k]
  PROVE  Stands(file, w, f.chunks[k], k, Len(f.chunks), pos[k + 1])
<1> DEFINE cs == f.chunks
           c == cs[k]
           n == Len(cs)
<1>1. cs \in Seq(Chunks) /\ n \in Nat /\ c \in Chunks
  <2>1. f \in [magic : STRING, chunks : Seq(Chunks)]
    BY DEF RiffFile
  <2>2. cs \in Seq(Chunks)
    BY <2>1
  <2> QED
    BY <2>2
<1>2. c.declared \in Nat /\ c.payload \in Seq(Nat) /\ Len(c.payload) \in Nat
  BY <1>1 DEF Chunks
<1>3. Len(c.payload) <= c.declared /\ (k < n => Complete(c))
  BY DEF RiffFile
<1>4. /\ pos[k + 1] = pos[k] + 2 + Len(c.payload) + Pad(c)
      /\ pos[k + 1] <= Len(file) + 1
      /\ file[pos[k]] = <<c.id, 0>> /\ file[pos[k] + 1] = <<"size", c.declared>>
      /\ \A i \in 1 .. Len(c.payload) : file[pos[k] + 1 + i] = <<"data", c.payload[i]>>
      /\ pos[n + 1] = Len(file) + 1
  BY DEF LaidOut
<1>5. Len(file) \in Nat /\ pos[k] \in Nat \ {0}
  <2>1. k \in 1 .. n + 1
    BY <1>1
  <2>2. file \in Seq(ByteCells) /\ pos \in [1 .. n + 1 -> Nat \ {0}]
    BY Zenon DEF LaidOut
  <2> HIDE DEF cs, c, n
  <2> QED
    BY <2>1, <2>2
<1> HIDE DEF cs, c, n
<1>6. k \in 1 .. n
  BY DEF n, cs
<1>7. Pad(c) = IF Complete(c) THEN c.declared % 2 ELSE 0
  BY <1>2 DEF Pad
<1>8. Pad(c) \in Nat /\ c.declared % 2 \in Nat
  BY <1>2, <1>7
<1>9. IdAt(file, w) = c.id /\ SizeAt(file, w) = c.declared
      /\ \A i \in 1 .. Len(c.payload) : file[w.at + 1 + i][2] = c.payload[i]
  <2>1. IdAt(file, w) = c.id
    BY <1>4 DEF IdAt
  <2>2. SizeAt(file, w) = c.declared
    BY <1>4 DEF SizeAt
  <2>3. ASSUME NEW i \in 1 .. Len(c.payload) PROVE file[w.at + 1 + i][2] = c.payload[i]
    <3>1. file[pos[k] + 1 + i] = <<"data", c.payload[i]>>
      BY <1>4
    <3> QED
      BY <3>1
  <2> QED
    BY <2>1, <2>2, <2>3
<1>10. w.at + 1 <= Len(file)
  <2>1. pos[k] + 2 + Len(c.payload) + Pad(c) <= Len(file) + 1
    BY <1>4, Zenon
  <2>2. PICK p \in Nat, q \in Nat : p = Len(c.payload) /\ q = Pad(c)
    BY <1>2, <1>8
  <2>3. pos[k] + 2 + p + q <= Len(file) + 1
    BY <2>1, <2>2
  <2> QED
    BY <1>5, <2>3
<1>11. CASE Complete(c)
  <2>1. Len(c.payload) = c.declared
    BY <1>11 DEF Complete
  <2>2. w.at + 2 + c.declared + (c.declared % 2) = pos[k + 1]
    BY <1>4, <1>7, <1>11, <2>1
  <2>3. Whole(file, w)
    <3>1. \A m \in Nat : pos[k] + 2 + c.declared + m <= Len(file) + 1
                          => pos[k] + 2 + c.declared - 1 <= Len(file)
      BY SMTT(30), <1>2, <1>5
    <3>2. w.at + 2 + c.declared - 1 <= Len(file)
      BY <1>4, <1>8, <2>2, <3>1
    <3> QED
      BY <1>9, <3>2 DEF Whole
  <2> QED
    BY <1>9, <1>10, <1>11, <2>2, <2>3 DEF c, cs, Stands
<1>12. CASE ~Complete(c)
  <2>1. Len(c.payload) < c.declared
    BY <1>2, <1>3, <1>12 DEF Complete
  <2>2. k = n
    BY <1>1, <1>3, <1>6, <1>12
  <2>3. Len(file) + 1 = pos[k] + 2 + Len(c.payload)
    BY <1>2, <1>4, <1>5, <1>7, <1>12, <2>2
  <2>4. w.at + 2 + c.declared > Len(file) + 1
    BY <1>2, <1>5, <2>1, <2>3
  <2>5. ~Whole(file, w) /\ w.at + 2 + c.declared > Len(file)
    BY <1>2, <1>5, <1>9, <2>4 DEF Whole
  <2> QED
    BY <1>9, <1>10, <1>12, <2>2, <2>5 DEF c, cs, n, Stands
<1> QED
  BY <1>11, <1>12

\* To end the walk is right where there is no audio.
LEMMA RefusedReads ==
  ASSUME NEW f, \A d \in 1 .. Len(f.chunks) : ~IsAudio(f.chunks, d),
         NEW w \in Walkers, w.wav = Refused, NEW file, NEW pos, NEW i
  PROVE  Reached(f, file, pos, i, EndOf(w))
<1>1. AudioOf(f) = {}
  BY NoAudio
<1>2. EndOf(w).going = FALSE /\ EndOf(w).wav = Refused
  BY DEF EndOf, Walkers
<1>3. Refused.ok = FALSE /\ Refused.sound
  BY DEF Refused
<1>4. Reads(f, Refused)
  BY <1>1, <1>3 DEF Reads
<1> QED
  BY <1>2, <1>4 DEF Reached

\* A round that was on its way is one chunk further, or over and right.
LEMMA RoundKeeps ==
  ASSUME NEW f, RiffFile(f), Sound(f), f.magic = "RIFF",
         NEW file, NEW pos, LaidOut(file, f.magic, f.chunks, pos),
         NEW i \in Nat, NEW w \in Walkers, Reached(f, file, pos, i, w)
  PROVE  Reached(f, file, pos, i + 1, NextRound(file, w))
<1>0. PICK cs \in Seq(Chunks) : cs = f.chunks
  <2>1. f \in [magic : STRING, chunks : Seq(Chunks)]
    BY DEF RiffFile
  <2> QED
    BY <2>1
<1>1. PICK n \in Nat : n = Len(cs)
  OBVIOUS
<1>2. /\ file \in Seq(ByteCells) /\ Len(file) \in Nat /\ pos[n + 1] = Len(file) + 1
      /\ w.at \in Nat \ {0}
  BY <1>0, <1>1 DEF LaidOut, Walkers
<1>3. CASE ~w.going
  BY <1>3 DEF Reached, NextRound
<1>4. CASE w.going
  <2>1. NextRound(file, w) = ReadChunk(file, w)
    BY <1>4 DEF NextRound
  <2>2. /\ w.wav = Refused /\ i <= n
        /\ i < n => w.at = pos[i + 1]
        /\ i = n => w.at >= Len(file)
        /\ \A k \in 1 .. i : cs[k].id # "data"
    BY <1>0, <1>1, <1>4 DEF Reached
  <2>3. \/ w.codec = 0 /\ \A k \in 1 .. i : cs[k].id # "fmt "
        \/ \E k \in 1 .. i : FmtIs(cs[k], w)
    BY <1>0, <1>4 DEF Reached
  <2>4. CASE i = n
    <3>1. w.at + 1 > Len(file)
      BY <1>2, <2>2, <2>4
    <3>2. ReadChunk(file, w) = EndOf(w)
      BY <1>2, <3>1, Rounds
    <3>3. ASSUME NEW d \in 1 .. Len(f.chunks) PROVE ~IsAudio(f.chunks, d)
      <4>1. d \in 1 .. i /\ f.chunks[d].id # "data"
        BY <1>0, <1>1, <2>2, <2>4
      <4> QED
        BY <4>1 DEF IsAudio
    <3> QED
      BY <2>1, <2>2, <3>2, <3>3, RefusedReads
  <2>5. CASE i < n
    <3>0. PICK k \in 1 .. n, c \in Chunks, size \in Nat :
            k = i + 1 /\ c = cs[k] /\ size = c.declared /\ w.at = pos[k]
      <4>1. i + 1 \in 1 .. n /\ cs[i + 1] \in Chunks
        BY <1>1, <2>5
      <4>2. cs[i + 1].declared \in Nat
        BY <4>1 DEF Chunks
      <4> QED
        BY <2>2, <2>5, <4>1, <4>2
    <3>1. Len(c.payload) \in Nat
      BY DEF Chunks
    <3>2. /\ w.at + 1 <= Len(file) /\ IdAt(file, w) = c.id /\ SizeAt(file, w) = size
          /\ Whole(file, w) <=> Complete(c)
          /\ Complete(c) => w.at + 2 + size + (size % 2) = pos[k + 1]
          /\ ~Complete(c) => k = n /\ w.at + 2 + size > Len(file)
          /\ \A j \in 1 .. Len(c.payload) : file[w.at + 1 + j][2] = c.payload[j]
      <4>1. k \in 1 .. Len(f.chunks) /\ c = f.chunks[k] /\ n = Len(f.chunks)
        BY <1>0, <1>1, <3>0
      <4>2. Stands(file, w, f.chunks[k], k, Len(f.chunks), pos[k + 1])
        BY <3>0, <4>1, WholeIsComplete
      <4>3. Stands(file, w, c, k, n, pos[k + 1])
        BY <4>1, <4>2
      <4> QED
        BY <3>0, <4>3 DEF Stands
    <3>3. ~Complete(c) => k = n
      BY <3>2
    <3>4. k < n => w.at + 2 + size + (size % 2) = pos[k + 1]
      BY <1>1, <3>0, <3>2
    <3>5. k = n => /\ w.at + 2 + size + (size % 2) >= Len(file)
                   /\ w.at + 2 + size >= Len(file)
      <4>0. PICK m \in 0 .. 1 : m = size % 2
        OBVIOUS
      <4>1. CASE Complete(c)
        <5>1. k = n => pos[k + 1] = Len(file) + 1
          BY <1>2
        <5>2. k = n => w.at + 2 + size + (size % 2) = Len(file) + 1
          BY <3>2, <4>1, <5>1, Zenon
        <5>3. PICK x \in Nat : x = w.at + 2 + size
          BY <1>2
        <5>4. k = n => x + m = Len(file) + 1
          BY <4>0, <5>2, <5>3, Zenon
        <5>5. k = n => x + m >= Len(file) /\ x >= Len(file)
          BY <1>2, <4>0, <5>4
        <5> QED
          BY <4>0, <5>3, <5>5, Zenon
      <4>2. CASE ~Complete(c)
        <5>1. w.at + 2 + size > Len(file)
          BY <3>2, <4>2
        <5> QED
          BY <1>2, <4>0, <5>1
      <4> QED
        BY <4>1, <4>2
    <3>6. \A j \in 1 .. k : j = k \/ j \in 1 .. i
      BY <3>0
    <3>7. c.id = "fmt " => \A j \in 1 .. n : cs[j].id = "fmt " => j = k
      BY <1>0, <1>1, <3>0 DEF RiffFile
    <3>14. Complete(c) /\ size % 2 = 1 =>
             /\ c.id # "data"
             /\ c.id = "fmt " => size < FmtSize \/ k = n
      BY <1>0, <1>1, <3>0 DEF Sound
    <3>8. \A d \in 1 .. n : IsAudio(cs, d) =>
            \E e \in 1 .. d - 1 : /\ e \in 1 .. n /\ cs[e].id = "fmt " /\ cs[e].declared >= FmtSize
                                 /\ cs[e].payload[1] = PcmMono /\ cs[e].payload[2] = Rate16k
      <4> SUFFICES ASSUME NEW d \in 1 .. n, IsAudio(cs, d)
                   PROVE  \E e \in 1 .. d - 1 :
                            /\ e \in 1 .. n /\ cs[e].id = "fmt " /\ cs[e].declared >= FmtSize
                            /\ cs[e].payload[1] = PcmMono /\ cs[e].payload[2] = Rate16k
        OBVIOUS
      <4>1. \A e \in 1 .. d - 1 : e \in 1 .. n
        OBVIOUS
      <4> QED
        BY <4>1 DEF IsAudio
    <3>9. ASSUME \A d \in 1 .. n : ~IsAudio(cs, d), ReadChunk(file, w) = EndOf(w)
          PROVE  Reached(f, file, pos, i + 1, NextRound(file, w))
      BY <1>0, <1>1, <2>1, <2>2, <3>9, RefusedReads
    <3>10. ASSUME NEW next, NextRound(file, w) = next, next.going, next.wav = Refused,
                  \/ next.at = w.at + 2 + size + (size % 2)
                  \/ k = n /\ next.at = w.at + 2 + size,
                  c.id # "data",
                  \/ next.codec = 0 /\ \A j \in 1 .. k : cs[j].id # "fmt "
                  \/ \E j \in 1 .. k : FmtIs(cs[j], next)
           PROVE  Reached(f, file, pos, i + 1, NextRound(file, w))
      <4>0. k <= n
        OBVIOUS
      <4>1. /\ next.going /\ next.wav = Refused
            /\ k < n => next.at = pos[k + 1]
            /\ k = n => next.at >= Len(file)
        <5>1. n # k => k < n
          OBVIOUS
        <5>2. ~(k < n /\ k = n)
          OBVIOUS
        <5> QED
          BY <3>4, <3>5, <3>10, <5>1, <5>2, Zenon
      <4>2. \A j \in 1 .. k : cs[j].id # "data"
        BY <2>2, <3>0, <3>6, <3>10
      <4>3. Reached(f, file, pos, k, next)
        BY <1>0, <1>1, <3>10, <4>0, <4>1, <4>2 DEF Reached
      <4> QED
        BY <3>0, <3>10, <4>3
    <3>11. CASE c.id = "fmt "
      <4>1. CASE size < FmtSize \/ ~Complete(c)
        <5>1. ReadChunk(file, w) = EndOf(w)
          BY <1>2, <3>2, <3>11, <4>1, Rounds
        <5>2. ASSUME NEW d \in 1 .. n, IsAudio(cs, d) PROVE FALSE
          <6>1. PICK e \in 1 .. d - 1 :
                  e \in 1 .. n /\ cs[e].id = "fmt " /\ cs[e].declared >= FmtSize
            BY <3>8, <5>2
          <6>2. e = k
            BY <3>7, <3>11, <6>1
          <6>3. size >= FmtSize
            BY <3>0, <6>1, <6>2
          <6>4. e < n
            OBVIOUS
          <6>5. Complete(c)
            BY <3>3, <6>2, <6>4
          <6>6. ~ (size < FmtSize)
            BY <6>3 DEF FmtSize
          <6> QED
            BY <4>1, <6>5, <6>6
        <5> QED
          BY <3>9, <5>1, <5>2
      <4>2. CASE ~ (size < FmtSize \/ ~Complete(c))
        <5>1. PICK body \in Nat : body = w.at + 2
          BY <1>2
        <5>9. Complete(c) /\ ~(size < FmtSize)
          BY <4>2
        <5>10. size % 2 = 0 \/ (size % 2 = 1 /\ k = n)
          <6>1. size % 2 = 0 \/ size % 2 = 1
            OBVIOUS
          <6> QED
            BY <3>11, <3>14, <5>9, <6>1
        <5>11. ~OddInside(file, w)
          <6>1. CASE size % 2 = 0
            BY <3>2, <6>1 DEF OddInside
          <6>2. CASE k = n
            BY <1>2, <3>2, <3>5, <6>2 DEF OddInside
          <6> QED
            BY <5>10, <6>1, <6>2
        <5> DEFINE next == FormatRead(file, w)
        <5>2. ReadChunk(file, w) = next
          BY <1>2, <3>2, <3>11, <4>2, <5>11, Rounds
        <5>3. file[body][2] = c.payload[1] /\ file[body + 1][2] = c.payload[2]
          <6>1. 1 \in 1 .. Len(c.payload) /\ 2 \in 1 .. Len(c.payload)
            BY <3>0, <3>1, <4>2 DEF Complete, FmtSize
          <6>2. w.at + 1 + 1 = body /\ w.at + 1 + 2 = body + 1
            BY <1>2, <5>1
          <6> QED
            BY <3>2, <6>1, <6>2
        <5>4. /\ next.going = w.going /\ next.wav = w.wav /\ next.at = body + size
              /\ next.codec = file[body][2] /\ next.rate = file[body + 1][2]
          BY <3>2, <5>1 DEF Walkers, FormatRead
        <5> HIDE DEF next
        <5>5. \/ next.at = w.at + 2 + size + (size % 2)
              \/ k = n /\ next.at = w.at + 2 + size
          <6>1. next.at = w.at + 2 + size /\ next.at = w.at + 2 + size + 0
            BY <1>2, <5>1, <5>4
          <6> QED
            BY <5>10, <6>1
        <5>6. size >= FmtSize
          BY <4>2 DEF FmtSize
        <5>7. FmtIs(c, next)
          BY <3>0, <3>11, <4>2, <5>3, <5>4, <5>6 DEF FmtIs
        <5>8. \E j \in 1 .. k : FmtIs(cs[j], next)
          BY <3>0, <5>7
        <5> QED
          BY <1>4, <2>1, <2>2, <3>10, <3>11, <5>2, <5>4, <5>5, <5>8
      <4> QED
        BY <4>1, <4>2
    <3>12. CASE c.id = "data"
      <4>1. ASSUME NEW d \in 1 .. n, IsAudio(cs, d) PROVE d = k
        <5>1. d \in 1 .. i => cs[d].id # "data"
          BY <2>2
        <5>2. cs[d].id = "data" /\ (k \in 1 .. d - 1 => cs[k].id # "data")
          BY <4>1 DEF IsAudio
        <5>3. d \notin 1 .. i /\ k \notin 1 .. d - 1
          BY <3>0, <3>12, <5>1, <5>2
        <5> QED
          BY <3>0, <5>3
      <4>2. ASSUME NEW e \in 1 .. k - 1, cs[e].id = "fmt " PROVE FmtIs(cs[e], w)
        <5>1. e \in 1 .. i /\ e \in 1 .. n
          BY <3>0
        <5>2. PICK j \in 1 .. i : FmtIs(cs[j], w)
          BY <2>3, <4>2, <5>1
        <5>3. j \in 1 .. n
          BY <3>0
        <5>4. cs[j].id = "fmt "
          BY <5>2 DEF FmtIs
        <5>5. j = e
          BY <1>0, <1>1, <4>2, <5>1, <5>3, <5>4 DEF RiffFile
        <5> QED
          BY <5>2, <5>5
      <4>3. ASSUME NEW d \in 1 .. n, IsAudio(cs, d)
            PROVE  d = k /\ Complete(c) /\ w.codec = PcmMono /\ w.rate = Rate16k
        <5>1. d = k /\ Complete(c)
          BY <3>0, <4>1, <4>3 DEF IsAudio
        <5>2. PICK e \in 1 .. k - 1 : /\ cs[e].id = "fmt " /\ cs[e].payload[1] = PcmMono
                                      /\ cs[e].payload[2] = Rate16k
          BY <3>8, <4>3, <5>1
        <5>3. FmtIs(cs[e], w)
          BY <4>2, <5>2
        <5> QED
          BY <5>1, <5>2, <5>3 DEF FmtIs
      <4>4. CASE w.codec # PcmMono \/ ~Complete(c)
        <5>1. ReadChunk(file, w) = EndOf(w)
          BY <1>2, <3>2, <3>12, <4>4, Rounds
        <5>2. \A d \in 1 .. n : ~IsAudio(cs, d)
          BY <4>3, <4>4
        <5> QED
          BY <3>9, <5>1, <5>2
      <4>5. CASE ~ (w.codec # PcmMono \/ ~Complete(c))
        <5>1. PICK body \in Nat : body = w.at + 2
          BY <1>2
        <5> DEFINE said == Said(file, w)
        <5>2. said = [j \in 1 .. size \div 2 |-> c.payload[2 * j - 1]]
          <6>1. ASSUME NEW j \in 1 .. size \div 2
                PROVE  file[body + 2 * j - 2][2] = c.payload[2 * j - 1]
            <7>1. Len(c.payload) = size
              BY <3>0, <4>5 DEF Complete
            <7>2. 2 * j - 1 \in 1 .. Len(c.payload)
              BY <7>1
            <7>3. body + 2 * j - 2 = w.at + 1 + (2 * j - 1)
              BY <1>2, <5>1
            <7> QED
              BY <3>2, <7>2, <7>3
          <6>2. said = [j \in 1 .. size \div 2 |-> file[body + 2 * j - 2][2]]
            BY <3>2, <5>1 DEF Said
          <6> QED
            BY <6>1, <6>2
        <5> DEFINE read == [ok |-> TRUE, rate |-> w.rate, sound |-> SizeAt(file, w) % 2 = 0,
                            samples |-> said]
                   next == AudioRead(file, w)
        <5>3. ReadChunk(file, w) = next
          BY <1>2, <3>2, <3>12, <4>5, Rounds
        <5>7. SizeAt(file, w) % 2 = 0
          BY <3>2, <3>12, <3>14, <4>5
        <5>4. read.ok = TRUE /\ read.rate = w.rate /\ read.samples = said /\ read.sound
          BY <5>7
        <5>5. next.going = FALSE /\ next.wav = read
          BY DEF EndOf, Walkers, AudioRead
        <5> HIDE DEF said, read
        <5> HIDE DEF next
        <5>6. Reads(f, read)
          <6>1. CASE w.rate = Rate16k
            <7>1. \A e \in 1 .. k - 1 : cs[e].id # "data"
              BY <2>2, <3>0
            <7>2. PICK j \in 1 .. i : FmtIs(cs[j], w)
              <8>1. w.codec # 0
                BY <4>5 DEF PcmMono
              <8> QED
                BY <2>3, <8>1
            <7>3. j \in 1 .. k - 1
              BY <3>0
            <7>4. /\ cs[j].id = "fmt " /\ cs[j].declared >= FmtSize
                  /\ cs[j].payload[1] = PcmMono /\ cs[j].payload[2] = Rate16k
              BY <4>5, <6>1, <7>2 DEF FmtIs
            <7>6. IsAudio(cs, k)
              BY <3>0, <3>12, <4>5, <7>1, <7>3, <7>4 DEF IsAudio
            <7>5. AudioOf(f) = {said}
              BY <1>0, <1>1, <3>0, <5>2, <7>6, OneAudio
            <7> QED
              BY <5>4, <6>1, <7>5 DEF Reads
          <6>2. CASE w.rate # Rate16k
            <7>1. AudioOf(f) = {}
              BY <1>0, <1>1, <4>3, <6>2, NoAudio
            <7> QED
              BY <5>4, <6>2, <7>1 DEF Reads
          <6> QED
            BY <6>1, <6>2
        <5> QED
          BY <2>1, <5>3, <5>5, <5>6 DEF Reached
      <4> QED
        BY <4>4, <4>5
    <3>13. CASE c.id \notin {"fmt ", "data"}
      <4> DEFINE next == SkippedTo(file, w)
      <4>1. ReadChunk(file, w) = next
        BY <1>2, <3>2, <3>13, Rounds
      <4>2. /\ next.going = w.going /\ next.wav = w.wav /\ next.codec = w.codec
            /\ next.rate = w.rate /\ next.at = w.at + 2 + size + (size % 2)
        BY <3>2 DEF Walkers, Skip, SkippedTo
      <4> HIDE DEF next
      <4>3. \/ next.codec = 0 /\ \A j \in 1 .. k : cs[j].id # "fmt "
            \/ \E j \in 1 .. k : FmtIs(cs[j], next)
        <5>1. CASE w.codec = 0 /\ \A j \in 1 .. i : cs[j].id # "fmt "
          BY <3>0, <3>6, <3>13, <4>2, <5>1
        <5>2. CASE \E j \in 1 .. i : FmtIs(cs[j], w)
          <6>1. PICK j \in 1 .. i : FmtIs(cs[j], w)
            BY <5>2
          <6>2. FmtIs(cs[j], next)
            BY <4>2, <6>1 DEF FmtIs
          <6>3. j \in 1 .. k
            BY <3>0
          <6> QED
            BY <6>2, <6>3
        <5> QED
          BY <2>3, <5>1, <5>2
      <4> QED
        BY <1>4, <2>1, <2>2, <3>10, <3>13, <4>1, <4>2, <4>3
    <3> QED
      BY <3>11, <3>12, <3>13
  <2> QED
    BY <2>2, <2>4, <2>5
<1> QED
  BY <1>3, <1>4

\* The reader makes of every file of one fmt chunk at most, none of its chunks
\* but the last cut off, the audio that is in it, unless an odd data chunk or an
\* odd fmt chunk before the last chunk leads it astray: it finds the data chunk
\* behind whatever chunks there are, takes every sample of it, and refuses a
\* file whose audio is cut off, missing, or of another kind than the fmt chunk
\* before it must say (core/wav.cpp:15-98).
THEOREM ReaderFindsAudio ==
  ASSUME NEW f, RiffFile(f)
  PROVE  /\ WavFile(f.magic, f.chunks) \in Seq(ByteCells)
         /\ ReadWavPcm16Mono(WavFile(f.magic, f.chunks)) \in Wavs
         /\ Sound(f) => Reads(f, ReadWavPcm16Mono(WavFile(f.magic, f.chunks)))
<1> DEFINE cs == f.chunks
           file == WavFile(f.magic, cs)
           N == Len(file)
<1>1. f.magic \in STRING /\ cs \in Seq(Chunks) /\ Len(cs) \in Nat
  <2>1. f \in [magic : STRING, chunks : Seq(Chunks)]
    BY DEF RiffFile
  <2>2. f.magic \in STRING /\ cs \in Seq(Chunks)
    BY <2>1
  <2> QED
    BY <2>2
<1>2. PICK pos : LaidOut(file, f.magic, cs, pos)
  BY <1>1, FileIsLaidOut
<1> HIDE DEF file, cs
<1>3. /\ file \in Seq(ByteCells) /\ N \in Nat /\ N > Len(cs) /\ file[1][1] = f.magic
      /\ pos \in [1 .. Len(cs) + 1 -> Nat \ {0}] /\ pos[1] = 2 /\ pos[Len(cs) + 1] = N + 1
  <2>1. file \in Seq(ByteCells) /\ N > Len(cs) /\ file[1] = <<f.magic, 0>>
        /\ pos \in [1 .. Len(cs) + 1 -> Nat \ {0}] /\ pos[1] = 2 /\ pos[Len(cs) + 1] = N + 1
    BY <1>2, Zenon DEF LaidOut
  <2>2. <<f.magic, 0>>[1] = f.magic
    OBVIOUS
  <2> QED
    BY <2>1, <2>2
<1>4. CASE f.magic # "RIFF"
  <2>1. ReadWavPcm16Mono(file) = Refused
    BY <1>3, <1>4 DEF ReadWavPcm16Mono
  <2>2. AudioOf(f) = {}
    BY <1>4 DEF AudioOf
  <2>3. Reads(f, Refused)
    BY <2>2 DEF Reads, Refused
  <2> QED
    BY <1>3, <2>1, <2>3, NothingIsTyped DEF file, cs
<1>5. CASE f.magic = "RIFF"
  <2>1. ReadWavPcm16Mono(file) = Walk(file)
    BY <1>1, <1>3, <1>5 DEF ReadWavPcm16Mono
  <2>2. PICK g \in [0 .. N -> Walkers] :
          /\ g[0] = AtStart
          /\ \A i \in 1 .. N : g[i] = NextRound(file, g[i - 1])
          /\ Walk(file) = g[N].wav
    BY <1>3, WalkUnfolds
  <2>8. g[N].wav \in Wavs
    <3>1. N \in 0 .. N
      BY <1>3
    <3> QED
      BY <2>2, <3>1 DEF Walkers
  <2> SUFFICES ASSUME Sound(f) PROVE Reads(f, g[N].wav)
    BY <1>3, <2>1, <2>2, <2>8 DEF file, cs
  <2> DEFINE At(i) == Reached(f, file, pos, i, g[i])
             D == {i \in Nat : i <= N => At(i)}
  <2>3. 0 \in D
    <3>1. Len(cs) = 0 => 2 >= N
      BY <1>1, <1>3
    <3>2. AtStart.going /\ AtStart.wav = Refused /\ AtStart.codec = 0 /\ AtStart.at = 2
      BY DEF AtStart
    <3>3. Reached(f, file, pos, 0, AtStart)
      <4>1. 0 + 1 = 1 /\ 1 .. 0 = {} /\ 0 <= Len(cs)
        BY <1>1
      <4> QED
        BY <1>3, <3>1, <3>2, <4>1 DEF Reached, cs
    <3> QED
      BY <2>2, <3>3
  <2>4. ASSUME NEW i \in D PROVE i + 1 \in D
    <3> SUFFICES ASSUME i + 1 <= N PROVE At(i + 1)
      OBVIOUS
    <3>1. i \in Nat /\ i <= N /\ i \in 0 .. N /\ i + 1 \in 1 .. N /\ (i + 1) - 1 = i
      BY <1>3
    <3>2. At(i)
      BY <3>1
    <3> HIDE DEF D
    <3>3. g[i + 1] = NextRound(file, g[i]) /\ g[i] \in Walkers
      BY <2>2, <3>1
    <3>4. Reached(f, file, pos, i + 1, NextRound(file, g[i]))
      BY <1>2, <1>5, <3>1, <3>2, <3>3, RoundKeeps DEF cs
    <3> QED
      BY <3>3, <3>4
  <2> HIDE DEF D
  <2>5. D = Nat
    <3>1. D \subseteq Nat
      BY DEF D
    <3> QED
      BY <2>3, <2>4, <3>1, SetInduction
  <2>6. At(N)
    BY <1>3, <2>5 DEF D
  <2>7. ~ (N <= Len(f.chunks))
    BY <1>1, <1>3 DEF cs
  <2> QED
    BY <2>6, <2>7 DEF Reached
<1> QED
  BY <1>4, <1>5

-----------------------------------------------------------------------------
(* The test client's frames.                                               *)

\* Library theorem SeqEqual as a formula: the provers apply it to hidden sequences.
LEMMA SameSequence ==
  \A T : \A s, t \in Seq(T) :
    Len(s) = Len(t) /\ (\A i \in 1 .. Len(s) : s[i] = t[i]) => s = t
OBVIOUS

Frame(l, s) == Binary(SerializeBinaryFrame(l, 1, s))

\* What the test client writes the server reads.
LEMMA FrameIsParsed ==
  ASSUME NEW l \in StreamIds, NEW s \in Seq(Nat)
  PROVE  /\ Frame(l, s).binary
         /\ ParseBinaryFrame(Frame(l, s).bytes) = <<[stream |-> l, samples |-> s]>>
<1> DEFINE bytes == SerializeBinaryFrame(l, 1, s)
<1>1. PICK n \in Nat : n = Len(s)
  OBVIOUS
<1>2. s \in [1 .. n -> Nat]
  BY <1>1
<1>3. l \in Nat /\ l < kStreamCount /\ kFrameHeaderSize = 2
  BY DEF StreamIds, kStreamCount, kFrameHeaderSize
<1>4. ASSUME NEW j \in 1 .. 2 * n
      PROVE  SampleBytes(s)[j] = <<IF j % 2 = 1 THEN "low" ELSE "high", s[(j + 1) \div 2]>>
             /\ SampleBytes(s)[j] \in Cells
  <2>1. SampleBytes(s)[j] = <<IF j % 2 = 1 THEN "low" ELSE "high", s[(j + 1) \div 2]>>
    BY <1>1 DEF SampleBytes
  <2>2. (j + 1) \div 2 \in 1 .. n
    OBVIOUS
  <2>3. s[(j + 1) \div 2] \in Nat
    BY <1>2, <2>2
  <2>4. (IF j % 2 = 1 THEN "low" ELSE "high") \in {"tag", "ts", "low", "high"}
    OBVIOUS
  <2> QED
    BY <2>1, <2>3, <2>4 DEF Cells
<1> DEFINE Cell(i) == CASE i = 1 -> <<"tag", l>> [] i = 2 -> <<"ts", 1>>
                        [] OTHER -> SampleBytes(s)[i - 2]
<1>5. bytes = [i \in 1 .. 2 + 2 * n |-> Cell(i)]
  BY <1>1, <1>3 DEF SerializeBinaryFrame
<1>6. Cell(1) = <<"tag", l>> /\ Cell(2) = <<"ts", 1>>
      /\ \A i \in 1 .. 2 * n : Cell(2 + i) = SampleBytes(s)[i]
  <2>1. \A i \in 1 .. 2 * n : 2 + i # 1 /\ 2 + i # 2 /\ (2 + i) - 2 = i
    OBVIOUS
  <2> QED
    BY <2>1
<1> HIDE DEF Cell, bytes
<1>7. \A i \in 1 .. 2 + 2 * n : Cell(i) \in Cells
  <2> SUFFICES ASSUME NEW i \in 1 .. 2 + 2 * n PROVE Cell(i) \in Cells
    OBVIOUS
  <2>1. <<"tag", l>> \in Cells /\ <<"ts", 1>> \in Cells
    BY <1>3 DEF Cells
  <2>2. CASE i > 2
    <3>1. i - 2 \in 1 .. 2 * n /\ 2 + (i - 2) = i
      BY <2>2
    <3>2. Cell(i) = SampleBytes(s)[i - 2]
      BY <1>6, <3>1
    <3> QED
      BY <1>4, <3>1, <3>2
  <2>3. i = 1 \/ i = 2 \/ i > 2
    OBVIOUS
  <2> QED
    BY <1>6, <2>1, <2>2, <2>3
<1>8. bytes \in [1 .. 2 + 2 * n -> Cells] /\ \A i \in 1 .. 2 + 2 * n : bytes[i] = Cell(i)
  BY <1>5, <1>7, Zenon
<1>9. Len(bytes) = 2 + 2 * n
  <2>1. 2 + 2 * n \in Nat
    OBVIOUS
  <2> QED
    BY <1>8, <2>1
<1>10. bytes[1] = <<"tag", l>> /\ bytes[2] = <<"ts", 1>>
  <2>1. 1 \in 1 .. 2 + 2 * n /\ 2 \in 1 .. 2 + 2 * n
    OBVIOUS
  <2> QED
    BY <1>6, <1>8, <2>1
<1>11. \A i \in 1 .. n : bytes[2 + 2 * i - 1][2] = s[i]
  <2> SUFFICES ASSUME NEW i \in 1 .. n PROVE bytes[2 + 2 * i - 1][2] = s[i]
    OBVIOUS
  <2>1. /\ 2 * i - 1 \in 1 .. 2 * n /\ 2 + (2 * i - 1) = 2 + 2 * i - 1
        /\ 2 + 2 * i - 1 \in 1 .. 2 + 2 * n /\ ((2 * i - 1) + 1) \div 2 = i
    OBVIOUS
  <2>2. bytes[2 + 2 * i - 1] = SampleBytes(s)[2 * i - 1]
    BY <1>6, <1>8, <2>1
  <2>3. SampleBytes(s)[2 * i - 1] =
          <<IF (2 * i - 1) % 2 = 1 THEN "low" ELSE "high", s[((2 * i - 1) + 1) \div 2]>>
    BY <1>4, <2>1
  <2> QED
    BY <2>1, <2>2, <2>3
<1>12. [i \in 1 .. n |-> bytes[2 + 2 * i - 1][2]] = s
  BY <1>2, <1>11
<1>13. /\ Len(bytes) >= 2 /\ (Len(bytes) - 2) % 2 = 0 /\ (Len(bytes) - 2) \div 2 = n
       /\ bytes[1][2] = l /\ bytes[2][1] # "nan"
  <2>1. bytes[1][2] = l /\ bytes[2][1] # "nan"
    BY <1>10
  <2>2. Len(bytes) - 2 = 2 * n /\ (2 * n) % 2 = 0 /\ (2 * n) \div 2 = n /\ Len(bytes) >= 2
    BY <1>9
  <2> QED
    BY <2>1, <2>2
<1>14. ParseBinaryFrame(bytes) = <<[stream |-> l, samples |-> s]>>
  <2>1. [i \in 1 .. (Len(bytes) - 2) \div 2 |-> bytes[2 + 2 * i - 1][2]] = s
    BY <1>12, <1>13
  <2> QED
    BY <1>3, <1>13, <2>1 DEF ParseBinaryFrame, kFrameHeaderSize, NaN
<1>15. Frame(l, s).binary /\ Frame(l, s).bytes = bytes
  BY DEF Frame, Binary, bytes
<1> QED
  BY <1>14, <1>15

-----------------------------------------------------------------------------
(* What is on its way to a lane.                                           *)

FrameLetters == {Frame(l, s) : l \in StreamIds, s \in Seq(Nat)}
TextLetters == {Text(HelloText), Text(ByeText)}
Letters == TextLetters \cup FrameLetters
Part(m, l) ==
  LET frame == ParseBinaryFrame(m.bytes)
  IN IF m.binary /\ frame # <<>> /\ frame[1].stream = l THEN frame[1].samples ELSE <<>>
Carried(ms, l) == FlattenSeq([i \in 1 .. Len(ms) |-> Part(ms[i], l)])

\* A frame carries its samples into its own lane only.
LEMMA FrameParts ==
  ASSUME NEW k \in StreamIds, NEW s \in Seq(Nat), NEW l \in StreamIds
  PROVE  /\ Frame(k, s) \in Letters /\ Frame(k, s).binary
         /\ Part(Frame(k, s), l) = IF k = l THEN s ELSE <<>>
<1>1. Frame(k, s).binary /\ ParseBinaryFrame(Frame(k, s).bytes) = <<[stream |-> k, samples |-> s]>>
  BY FrameIsParsed
<1> DEFINE frame == [stream |-> k, samples |-> s]
<1>2. <<frame>> # <<>> /\ <<frame>>[1] = frame /\ frame.stream = k /\ frame.samples = s
  OBVIOUS
<1> HIDE DEF frame
<1>3. ParseBinaryFrame(Frame(k, s).bytes) = <<frame>>
  BY <1>1 DEF frame
<1>4. Part(Frame(k, s), l) = IF k = l THEN s ELSE <<>>
  BY <1>1, <1>2, <1>3 DEF Part
<1>5. Frame(k, s) \in Letters
  BY DEF Letters, FrameLetters
<1> QED
  BY <1>1, <1>4, <1>5

\* A text carries nothing.
LEMMA TextParts ==
  ASSUME NEW m \in TextLetters, NEW l \in StreamIds
  PROVE  m \in Letters /\ ~m.binary /\ Part(m, l) = <<>>
<1>1. m.binary = FALSE
  BY DEF Text, TextLetters
<1>2. Part(m, l) = <<>>
  BY <1>1 DEF Part
<1> QED
  BY <1>1, <1>2 DEF Letters

\* The test client sends texts and frames.
LEMMA LetterKinds ==
  ASSUME NEW m \in Letters
  PROVE  \/ m \in TextLetters /\ ~m.binary
         \/ \E k \in StreamIds, s \in Seq(Nat) : m = Frame(k, s) /\ m.binary
<1>1. CASE m \in TextLetters
  BY <1>1, TextParts DEF StreamIds, kStreamCount
<1>2. CASE m \in FrameLetters
  <2>1. PICK k \in StreamIds, s \in Seq(Nat) : m = Frame(k, s)
    BY <1>2 DEF FrameLetters
  <2>2. m.binary
    BY <2>1, FrameIsParsed
  <2> QED
    BY <2>1, <2>2
<1> QED
  BY <1>1, <1>2 DEF Letters

\* Whatever it sends, what it carries is a sequence of samples.
LEMMA LetterParts ==
  ASSUME NEW m \in Letters, NEW l \in StreamIds
  PROVE  Part(m, l) \in Seq(Nat)
<1>1. <<>> \in Seq(Nat)
  OBVIOUS
<1>2. CASE m \in TextLetters
  BY <1>1, <1>2, TextParts
<1>3. ASSUME NEW k \in StreamIds, NEW s \in Seq(Nat), m = Frame(k, s)
      PROVE  Part(m, l) \in Seq(Nat)
  <2>1. Part(m, l) = IF k = l THEN s ELSE <<>>
    BY <1>3, FrameParts
  <2> QED
    BY <1>1, <2>1
<1> QED
  BY <1>2, <1>3, LetterKinds

\* So is what several messages carry.
LEMMA PartsTyped ==
  ASSUME NEW ms \in Seq(Letters), NEW l \in StreamIds
  PROVE  /\ [i \in 1 .. Len(ms) |-> Part(ms[i], l)] \in Seq(Seq(Nat))
         /\ Len([i \in 1 .. Len(ms) |-> Part(ms[i], l)]) = Len(ms)
         /\ Carried(ms, l) \in Seq(Nat)
<1> DEFINE parts == [i \in 1 .. Len(ms) |-> Part(ms[i], l)]
<1>1. Len(ms) \in Nat /\ \A i \in 1 .. Len(ms) : ms[i] \in Letters
  OBVIOUS
<1>2. \A i \in 1 .. Len(ms) : Part(ms[i], l) \in Seq(Nat)
  BY <1>1, LetterParts
<1>3. parts \in [1 .. Len(ms) -> Seq(Nat)]
  BY <1>2
<1>4. parts \in Seq(Seq(Nat)) /\ Len(parts) = Len(ms)
  <2> HIDE DEF parts
  <2> QED
    BY <1>1, <1>3
<1>5. FlattenSeq(parts) \in Seq(Nat)
  BY <1>4, FlattenIn
<1> QED
  BY <1>4, <1>5 DEF Carried

\* No message carries nothing.
LEMMA NothingCarried == \A l : Carried(<<>>, l) = <<>>
<1>1. \A l : [i \in 1 .. 0 |-> Part(<<>>[i], l)] = <<>>
  OBVIOUS
<1> QED
  BY <1>1, FlattenEmpty DEF Carried

\* A message more carries its part behind the others.
LEMMA OneMore ==
  ASSUME NEW ms \in Seq(Letters), NEW m \in Letters, NEW l \in StreamIds
  PROVE  Carried(Append(ms, m), l) = Carried(ms, l) \o Part(m, l)
<1> DEFINE PartsOf(s) == [i \in 1 .. Len(s) |-> Part(s[i], l)]
           more == Append(ms, m)
<1>1. more \in Seq(Letters) /\ Len(more) = Len(ms) + 1 /\ more[Len(ms) + 1] = m
      /\ \A i \in 1 .. Len(ms) : more[i] = ms[i]
  BY AppendProperties
<1>2. PartsOf(ms) \in Seq(Seq(Nat)) /\ Len(PartsOf(ms)) = Len(ms) /\ Len(ms) \in Nat
      /\ Part(m, l) \in Seq(Nat)
  BY PartsTyped, LetterParts
<1>3. PartsOf(more) = Append(PartsOf(ms), Part(m, l))
  <2> HIDE DEF more
  <2>1. /\ Append(PartsOf(ms), Part(m, l)) \in Seq(Seq(Nat))
        /\ Len(Append(PartsOf(ms), Part(m, l))) = Len(ms) + 1
        /\ \A i \in 1 .. Len(ms) : Append(PartsOf(ms), Part(m, l))[i] = PartsOf(ms)[i]
        /\ Append(PartsOf(ms), Part(m, l))[Len(ms) + 1] = Part(m, l)
    BY <1>2, AppendProperties
  <2>2. PartsOf(more) \in Seq(Seq(Nat)) /\ Len(PartsOf(more)) = Len(ms) + 1
    BY <1>1, PartsTyped
  <2>3. ASSUME NEW i \in 1 .. Len(ms) + 1
        PROVE  PartsOf(more)[i] = Append(PartsOf(ms), Part(m, l))[i]
    <3>1. PartsOf(more)[i] = Part(more[i], l)
      BY <1>1
    <3>2. CASE i = Len(ms) + 1
      BY <1>1, <2>1, <3>1, <3>2
    <3>3. CASE i # Len(ms) + 1
      <4>1. i \in 1 .. Len(ms)
        BY <1>2, <3>3
      <4>2. PartsOf(ms)[i] = Part(ms[i], l)
        BY <4>1
      <4> QED
        BY <1>1, <2>1, <3>1, <4>1, <4>2
    <3> QED
      BY <3>2, <3>3
  <2> HIDE DEF PartsOf
  <2> QED
    BY <2>1, <2>2, <2>3, SameSequence
<1>4. FlattenSeq(Append(PartsOf(ms), Part(m, l))) = FlattenSeq(PartsOf(ms)) \o Part(m, l)
  <2> HIDE DEF PartsOf
  <2> QED
    BY <1>2, FlattenAppend
<1> QED
  BY <1>3, <1>4 DEF Carried

\* The first message can be taken off with its part.
LEMMA OneLess ==
  ASSUME NEW ms \in Seq(Letters), ms # <<>>, NEW l \in StreamIds
  PROVE  Carried(ms, l) = Part(Head(ms), l) \o Carried(Tail(ms), l)
<1> DEFINE PartsOf(s) == [i \in 1 .. Len(s) |-> Part(s[i], l)]
           rest == Tail(ms)
<1>1. rest \in Seq(Letters) /\ Len(rest) = Len(ms) - 1 /\ Len(ms) \in Nat \ {0}
      /\ \A i \in 1 .. Len(rest) : rest[i] = ms[i + 1]
  BY HeadTailProperties, EmptySeq
<1>2. PartsOf(ms) \in Seq(Seq(Nat)) /\ Len(PartsOf(ms)) = Len(ms)
      /\ PartsOf(rest) \in Seq(Seq(Nat)) /\ Len(PartsOf(rest)) = Len(ms) - 1
  <2> HIDE DEF rest
  <2> QED
    BY <1>1, PartsTyped
<1>3. PartsOf(ms) # <<>> /\ PartsOf(ms)[1] = Part(Head(ms), l)
  <2>1. Len(<<>>) = 0
    OBVIOUS
  <2>2. PartsOf(ms)[1] = Part(ms[1], l) /\ Head(ms) = ms[1]
    BY <1>1
  <2> HIDE DEF PartsOf
  <2> QED
    BY <1>1, <1>2, <2>1, <2>2
<1>4. Tail(PartsOf(ms)) = PartsOf(rest)
  <2>1. /\ Tail(PartsOf(ms)) \in Seq(Seq(Nat)) /\ Len(Tail(PartsOf(ms))) = Len(ms) - 1
        /\ \A i \in 1 .. Len(ms) - 1 : Tail(PartsOf(ms))[i] = PartsOf(ms)[i + 1]
    <3> HIDE DEF PartsOf
    <3> QED
      BY <1>2, <1>3, HeadTailProperties
  <2>2. ASSUME NEW i \in 1 .. Len(ms) - 1 PROVE Tail(PartsOf(ms))[i] = PartsOf(rest)[i]
    <3>1. i + 1 \in 1 .. Len(ms) /\ i \in 1 .. Len(rest)
      BY <1>1
    <3>2. PartsOf(ms)[i + 1] = Part(ms[i + 1], l) /\ PartsOf(rest)[i] = Part(rest[i], l)
      BY <3>1
    <3> QED
      BY <1>1, <2>1, <3>1, <3>2
  <2> HIDE DEF PartsOf, rest
  <2> QED
    BY <1>2, <2>1, <2>2, SameSequence
<1>5. FlattenSeq(PartsOf(ms)) = PartsOf(ms)[1] \o FlattenSeq(Tail(PartsOf(ms)))
  <2> HIDE DEF PartsOf
  <2> QED
    BY <1>2, <1>3, FlattenTail
<1> QED
  BY <1>3, <1>4, <1>5 DEF Carried

-----------------------------------------------------------------------------
(* What a lane has heard, and what the client has sent into it.            *)

HeardFrames == [conn : Nat, samples : Seq(Nat)]
HeardIn(h) == FlattenSeq([i \in 1 .. Len(h) |-> h[i].samples])

\* What a lane heard is a sequence of samples.
LEMMA HeardTyped ==
  ASSUME NEW h \in Seq(HeardFrames)
  PROVE  /\ [i \in 1 .. Len(h) |-> h[i].samples] \in Seq(Seq(Nat))
         /\ HeardIn(h) \in Seq(Nat)
<1> DEFINE parts == [i \in 1 .. Len(h) |-> h[i].samples]
<1>1. Len(h) \in Nat /\ \A i \in 1 .. Len(h) : h[i] \in HeardFrames
  OBVIOUS
<1>2. \A i \in 1 .. Len(h) : h[i].samples \in Seq(Nat)
  BY <1>1 DEF HeardFrames
<1>3. parts \in [1 .. Len(h) -> Seq(Nat)]
  BY <1>2
<1>4. parts \in Seq(Seq(Nat))
  <2> HIDE DEF parts
  <2> QED
    BY <1>1, <1>3
<1>5. FlattenSeq(parts) \in Seq(Nat)
  BY <1>4, FlattenIn
<1> QED
  BY <1>4, <1>5 DEF HeardIn

\* A frame more is heard behind the others.
LEMMA HeardMore ==
  ASSUME NEW h \in Seq(HeardFrames), NEW c \in Nat, NEW s \in Seq(Nat)
  PROVE  /\ Append(h, [conn |-> c, samples |-> s]) \in Seq(HeardFrames)
         /\ HeardIn(Append(h, [conn |-> c, samples |-> s])) = HeardIn(h) \o s
<1> DEFINE Samples(t) == [i \in 1 .. Len(t) |-> t[i].samples]
           frame == [conn |-> c, samples |-> s]
           more == Append(h, frame)
<1>0. frame \in HeardFrames /\ frame.samples = s
  BY DEF HeardFrames
<1> HIDE DEF frame
<1>1. more \in Seq(HeardFrames) /\ Len(more) = Len(h) + 1 /\ more[Len(h) + 1] = frame
      /\ \A i \in 1 .. Len(h) : more[i] = h[i]
  BY <1>0, AppendProperties
<1> HIDE DEF more
<1>2. Samples(h) \in Seq(Seq(Nat)) /\ Samples(more) \in Seq(Seq(Nat))
  BY <1>1, HeardTyped
<1>3. Len(Samples(h)) = Len(h) /\ Len(Samples(more)) = Len(h) + 1 /\ Len(h) \in Nat
  <2>1. Len(h) \in Nat /\ Len(more) \in Nat
    BY <1>1
  <2> QED
    BY <1>1, <2>1
<1>4. Samples(more) = Append(Samples(h), s)
  <2>1. /\ Append(Samples(h), s) \in Seq(Seq(Nat))
        /\ Len(Append(Samples(h), s)) = Len(h) + 1
        /\ \A i \in 1 .. Len(h) : Append(Samples(h), s)[i] = Samples(h)[i]
        /\ Append(Samples(h), s)[Len(h) + 1] = s
    <3> HIDE DEF Samples
    <3> QED
      BY <1>2, <1>3, AppendProperties
  <2>2. ASSUME NEW i \in 1 .. Len(h) + 1
        PROVE  Samples(more)[i] = Append(Samples(h), s)[i]
    <3>1. Samples(more)[i] = more[i].samples
      BY <1>1
    <3>2. CASE i = Len(h) + 1
      BY <1>0, <1>1, <2>1, <3>1, <3>2
    <3>3. CASE i # Len(h) + 1
      <4>1. i \in 1 .. Len(h)
        BY <1>3, <3>3
      <4>2. Samples(h)[i] = h[i].samples
        BY <4>1
      <4> QED
        BY <1>1, <2>1, <3>1, <4>1, <4>2
    <3> QED
      BY <3>2, <3>3
  <2> HIDE DEF Samples
  <2> QED
    BY <1>2, <1>3, <2>1, <2>2, SameSequence
<1>5. FlattenSeq(Append(Samples(h), s)) = FlattenSeq(Samples(h)) \o s
  <2> HIDE DEF Samples
  <2> QED
    BY <1>2, FlattenAppend
<1> QED
  BY <1>1, <1>4, <1>5 DEF HeardIn, more, frame

\* Silence is a sequence of samples.
LEMMA ZerosTyped == ASSUME NEW n \in Nat PROVE Zeros(n) \in Seq(Nat) /\ Len(Zeros(n)) = n
<1>1. Zeros(n) \in [1 .. n -> Nat]
  BY DEF Zeros
<1> QED
  BY <1>1

\* Two silences make one.
LEMMA ZerosJoin ==
  ASSUME NEW a \in Nat, NEW b \in Nat
  PROVE  Zeros(a) \o Zeros(b) = Zeros(a + b)
<1>1. /\ Zeros(a) \in Seq(Nat) /\ Len(Zeros(a)) = a
      /\ Zeros(b) \in Seq(Nat) /\ Len(Zeros(b)) = b
      /\ Zeros(a + b) \in Seq(Nat) /\ Len(Zeros(a + b)) = a + b
  BY ZerosTyped
<1>2. /\ Zeros(a) \o Zeros(b) \in Seq(Nat) /\ Len(Zeros(a) \o Zeros(b)) = a + b
      /\ \A i \in 1 .. a + b : (Zeros(a) \o Zeros(b))[i] =
                                 IF i <= a THEN Zeros(a)[i] ELSE Zeros(b)[i - a]
  <2>1. PICK p \in Seq(Nat), q \in Seq(Nat) : p = Zeros(a) /\ q = Zeros(b)
    BY <1>1
  <2>2. Len(p) = a /\ Len(q) = b
    BY <1>1, <2>1
  <2>3. /\ p \o q \in Seq(Nat) /\ Len(p \o q) = Len(p) + Len(q)
        /\ \A i \in 1 .. Len(p) + Len(q) :
             (p \o q)[i] = IF i <= Len(p) THEN p[i] ELSE q[i - Len(p)]
    BY ConcatProperties
  <2> QED
    BY <2>1, <2>2, <2>3
<1>3. ASSUME NEW i \in 1 .. a + b PROVE (Zeros(a) \o Zeros(b))[i] = Zeros(a + b)[i]
  <2>1. Zeros(a + b)[i] = 0
    BY DEF Zeros
  <2>2. CASE i <= a
    <3>1. i \in 1 .. a
      BY <2>2
    <3>2. Zeros(a)[i] = 0
      BY <3>1 DEF Zeros
    <3> QED
      BY <1>2, <2>1, <2>2, <3>2
  <2>3. CASE ~(i <= a)
    <3>1. i - a \in 1 .. b
      BY <2>3
    <3>2. Zeros(b)[i - a] = 0
      BY <3>1 DEF Zeros
    <3> QED
      BY <1>2, <2>1, <2>3, <3>2
  <2> QED
    BY <2>2, <2>3
<1> QED
  BY <1>1, <1>2, <1>3, SameSequence

\* A lane's audio m up to the o-th sample, and t chunks of silence.
Least(a, b) == IF a < b THEN a ELSE b
Sent(m, o, t) == SubSeq(m, 1, Least(o, Len(m))) \o Zeros(t * CHUNK_SAMPLES)
PieceOf(m, o) ==
  IF o >= Len(m) THEN <<>>
  ELSE SubSeq(m, o + 1, IF o + CHUNK_SAMPLES < Len(m) THEN o + CHUNK_SAMPLES ELSE Len(m))

\* A piece of the audio is a sequence of samples.
LEMMA SubSeqTyped ==
  ASSUME NEW m \in Seq(Nat), NEW a \in Nat \ {0}, NEW b \in 0 .. Len(m)
  PROVE  SubSeq(m, a, b) \in Seq(Nat)
<1>1. \A i \in a .. b : m[i] \in Nat
  <2>1. \A i \in a .. b : i \in 1 .. Len(m)
    OBVIOUS
  <2> QED
    BY <2>1
<1> QED
  BY <1>1, SubSeqProperties

\* So is what was sent of it.
LEMMA SentTyped ==
  ASSUME NEW m \in Seq(Nat), NEW o \in Nat, NEW t \in Nat
  PROVE  /\ Least(o, Len(m)) \in 0 .. Len(m)
         /\ SubSeq(m, 1, Least(o, Len(m))) \in Seq(Nat)
         /\ t * CHUNK_SAMPLES \in Nat
         /\ Zeros(t * CHUNK_SAMPLES) \in Seq(Nat)
         /\ Sent(m, o, t) \in Seq(Nat) /\ PieceOf(m, o) \in Seq(Nat)
<1>0. CHUNK_SAMPLES \in Nat \ {0} /\ Len(m) \in Nat
  BY AudioAssumption
<1>1. Least(o, Len(m)) \in 0 .. Len(m)
  BY <1>0 DEF Least
<1>2. SubSeq(m, 1, Least(o, Len(m))) \in Seq(Nat)
  BY <1>1, SubSeqTyped
<1>3. t * CHUNK_SAMPLES \in Nat
  BY <1>0
<1>4. Zeros(t * CHUNK_SAMPLES) \in Seq(Nat)
  BY <1>3, ZerosTyped
<1>5. PieceOf(m, o) \in Seq(Nat)
  <2>1. CASE o >= Len(m)
    <3>1. <<>> \in Seq(Nat)
      OBVIOUS
    <3> QED
      BY <2>1, <3>1 DEF PieceOf
  <2>2. CASE ~(o >= Len(m))
    <3> DEFINE b == IF o + CHUNK_SAMPLES < Len(m) THEN o + CHUNK_SAMPLES ELSE Len(m)
    <3>1. b \in 0 .. Len(m) /\ o + 1 \in Nat \ {0}
      BY <1>0
    <3>2. PieceOf(m, o) = SubSeq(m, o + 1, b)
      BY <2>2 DEF PieceOf
    <3> HIDE DEF b
    <3> QED
      BY <3>1, <3>2, SubSeqTyped
  <2> QED
    BY <2>1, <2>2
<1> QED
  BY <1>1, <1>2, <1>3, <1>4, <1>5 DEF Sent

\* Before the first chunk nothing was sent.
LEMMA NothingSent ==
  ASSUME NEW m \in Seq(Nat) PROVE Sent(m, 0, 0) = <<>>
<1>1. Least(0, Len(m)) = 0 /\ 0 * CHUNK_SAMPLES = 0
  BY AudioAssumption DEF Least
<1>2. SubSeq(m, 1, 0) = <<>> /\ Zeros(0) = <<>>
  BY DEF Zeros
<1> QED
  BY <1>1, <1>2 DEF Sent

\* The whole lane.
LEMMA AllSent ==
  ASSUME NEW m \in Seq(Nat), NEW o \in Nat, NEW t, o >= Len(m)
  PROVE  Sent(m, o, t) = m \o Zeros(t * CHUNK_SAMPLES)
<1>1. Least(o, Len(m)) = Len(m)
  BY DEF Least
<1>2. SubSeq(m, 1, Len(m)) = m
  BY SubSeqFull
<1> QED
  BY <1>1, <1>2 DEF Sent

\* A chunk sent goes behind what was sent.
LEMMA ChunkSent ==
  ASSUME NEW m \in Seq(Nat), NEW o \in Nat
  PROVE  Sent(m, o + CHUNK_SAMPLES, 0) = Sent(m, o, 0) \o PieceOf(m, o)
<1>0. CHUNK_SAMPLES \in Nat \ {0} /\ 0 * CHUNK_SAMPLES = 0 /\ Len(m) \in Nat
      /\ o + CHUNK_SAMPLES \in Nat
  BY AudioAssumption
<1>1. ASSUME NEW p \in Nat PROVE Sent(m, p, 0) = SubSeq(m, 1, Least(p, Len(m)))
  <2>1. SubSeq(m, 1, Least(p, Len(m))) \in Seq(Nat)
    BY <1>1, SentTyped, Zenon
  <2>2. Zeros(0) = <<>>
    BY DEF Zeros
  <2>3. SubSeq(m, 1, Least(p, Len(m))) \o <<>> = SubSeq(m, 1, Least(p, Len(m)))
    BY <2>1, ConcatEmptySeq
  <2> QED
    BY <1>0, <2>2, <2>3 DEF Sent
<1>2. CASE o >= Len(m)
  <2>1. PieceOf(m, o) = <<>> /\ Least(o + CHUNK_SAMPLES, Len(m)) = Len(m)
        /\ Least(o, Len(m)) = Len(m)
    BY <1>0, <1>2 DEF PieceOf, Least
  <2>2. Sent(m, o, 0) \in Seq(Nat)
    BY SentTyped
  <2>3. Sent(m, o, 0) \o <<>> = Sent(m, o, 0)
    BY <2>2, ConcatEmptySeq
  <2> QED
    BY <1>0, <1>1, <2>1, <2>3
<1>3. CASE o < Len(m)
  <2> DEFINE b == Least(o + CHUNK_SAMPLES, Len(m))
  <2>1. /\ Least(o, Len(m)) = o /\ b \in o .. Len(m) /\ b \in Nat
        /\ PieceOf(m, o) = SubSeq(m, o + 1, b)
    BY <1>0, <1>3 DEF PieceOf, Least
  <2>2. Sent(m, o, 0) = SubSeq(m, 1, o) /\ Sent(m, o + CHUNK_SAMPLES, 0) = SubSeq(m, 1, b)
    BY <1>0, <1>1, <2>1
  <2> HIDE DEF b
  <2>3. SubSeq(m, 1, o) \o SubSeq(m, o + 1, b) = SubSeq(m, 1, b)
    <3>1. 1 \in 1 .. Len(m) + 1 /\ o \in 1 - 1 .. Len(m) /\ b \in o .. Len(m)
      BY <1>0, <1>3, <2>1
    <3> QED
      BY <3>1, ConcatAdjacentSubSeq
  <2> QED
    BY <2>1, <2>2, <2>3
<1> QED
  BY <1>0, <1>2, <1>3

\* A chunk of silence goes behind what was sent.
LEMMA SilenceSent ==
  ASSUME NEW m \in Seq(Nat), NEW o \in Nat, NEW t \in Nat
  PROVE  Sent(m, o, t + 1) = Sent(m, o, t) \o Zeros(CHUNK_SAMPLES)
<1> DEFINE c == CHUNK_SAMPLES
           z == t * c
           said == SubSeq(m, 1, Least(o, Len(m)))
<1>1. c \in Nat /\ z \in Nat /\ (t + 1) * c = z + c
  BY AudioAssumption
<1>2. said \in Seq(Nat)
  BY SentTyped, Zenon
<1>3. Sent(m, o, t) = said \o Zeros(z) /\ Sent(m, o, t + 1) = said \o Zeros(z + c)
  BY <1>1 DEF Sent
<1> HIDE DEF c, z, said
<1>4. Zeros(z) \o Zeros(c) = Zeros(z + c)
  BY <1>1, ZerosJoin
<1>5. Zeros(z) \in Seq(Nat) /\ Zeros(c) \in Seq(Nat)
  BY <1>1, ZerosTyped
<1>6. (said \o Zeros(z)) \o Zeros(c) = said \o (Zeros(z) \o Zeros(c))
  <2>1. Regroups(said, Zeros(z), Zeros(c))
    BY <1>2, <1>5, Regrouped, Zenon
  <2> QED
    BY <2>1 DEF Regroups
<1> QED
  BY <1>3, <1>4, <1>6 DEF c

-----------------------------------------------------------------------------
(* The balance: what a lane heard and what is on its way to it make what   *)
(* was sent into it.                                                       *)

Balanced(h, ws, m, o, t, l) == HeardIn(h) \o Carried(ws, l) = Sent(m, o, t)
Greeted(s, ws) == s \/ (ws # <<>> /\ ws[1] = Text(HelloText))

\* At most one message, which says s in lane k and nothing in the other.
Says(c, k, s) ==
  \/ c = <<>> /\ s = <<>>
  \/ \E m \in Letters : c = <<m>> /\ \A l \in StreamIds : Part(m, l) = IF k = l THEN s ELSE <<>>

\* A frame says its samples.
LEMMA FrameSays ==
  ASSUME NEW k \in StreamIds, NEW s \in Seq(Nat)
  PROVE  Says(<<Frame(k, s)>>, k, s)
BY FrameParts DEF Says

\* A text says nothing.
LEMMA TextSays ==
  ASSUME NEW m \in TextLetters, NEW k \in StreamIds
  PROVE  Says(<<m>>, k, <<>>)
BY TextParts DEF Says

\* c goes behind what is on its way.
Joins(ws, c, k, s) ==
  /\ c \in Seq(Letters) /\ ws \o c \in Seq(Letters)
  /\ \A l \in StreamIds : Carried(ws \o c, l) = Carried(ws, l) \o (IF k = l THEN s ELSE <<>>)
  /\ ws # <<>> => ws \o c # <<>> /\ (ws \o c)[1] = ws[1]

\* A message goes behind those in flight, and what it carries behind what they carry.
LEMMA SaidOnce ==
  ASSUME NEW ws \in Seq(Letters), NEW k \in StreamIds, NEW s \in Seq(Nat), NEW c, Says(c, k, s)
  PROVE  Joins(ws, c, k, s)
<1>1. CASE c = <<>> /\ s = <<>>
  <2>1. ws \o <<>> = ws /\ <<>> \in Seq(Letters)
    BY ConcatEmptySeq
  <2>2. ASSUME NEW l \in StreamIds PROVE Carried(ws, l) = Carried(ws, l) \o <<>>
    BY PartsTyped, ConcatEmptySeq
  <2> QED
    BY <1>1, <2>1, <2>2 DEF Joins
<1>2. CASE \E m \in Letters : c = <<m>> /\ \A l \in StreamIds : Part(m, l) = IF k = l THEN s ELSE <<>>
  <2>1. PICK m \in Letters : c = <<m>> /\ \A l \in StreamIds : Part(m, l) = IF k = l THEN s ELSE <<>>
    BY <1>2
  <2>2. Append(ws, m) = ws \o c
    BY <2>1, AppendIsConcat
  <2>3. /\ Append(ws, m) \in Seq(Letters) /\ Len(Append(ws, m)) = Len(ws) + 1 /\ Len(ws) \in Nat
        /\ \A i \in 1 .. Len(ws) : Append(ws, m)[i] = ws[i]
    BY AppendProperties
  <2>4. ASSUME NEW l \in StreamIds
        PROVE  Carried(ws \o c, l) = Carried(ws, l) \o (IF k = l THEN s ELSE <<>>)
    BY <2>1, <2>2, OneMore
  <2>5. c \in Seq(Letters)
    BY <2>1
  <2>6. ASSUME ws # <<>> PROVE ws \o c # <<>> /\ (ws \o c)[1] = ws[1]
    <3>1. Len(ws) # 0 /\ Len(<<>>) = 0
      BY <2>6, EmptySeq
    <3>2. 1 \in 1 .. Len(ws) /\ Len(Append(ws, m)) # 0
      BY <2>3, <3>1
    <3> QED
      BY <2>2, <2>3, <3>1, <3>2
  <2> QED
    BY <2>2, <2>3, <2>4, <2>5, <2>6 DEF Joins
<1> QED
  BY <1>1, <1>2 DEF Says

\* Lane 0 says c and lane 1 says d.
JoinBoth(ws, c, d, s, t) ==
  /\ ws \o (c \o d) \in Seq(Letters)
  /\ \A l \in StreamIds :
       Carried(ws \o (c \o d), l) = Carried(ws, l) \o (IF l = 0 THEN s ELSE t)
  /\ ws # <<>> => ws \o (c \o d) # <<>> /\ (ws \o (c \o d))[1] = ws[1]

\* The same for a message of each lane.
LEMMA SaidInBoth ==
  ASSUME NEW ws \in Seq(Letters), NEW s \in Seq(Nat), NEW t \in Seq(Nat),
         NEW c, Says(c, 0, s), NEW d, Says(d, 1, t)
  PROVE  JoinBoth(ws, c, d, s, t)
<1>1. StreamIds = {0, 1}
  BY DEF StreamIds, kStreamCount
<1>2. /\ c \in Seq(Letters) /\ ws \o c \in Seq(Letters)
      /\ Carried(ws \o c, 0) = Carried(ws, 0) \o s
      /\ Carried(ws \o c, 1) = Carried(ws, 1) \o <<>>
      /\ ws # <<>> => ws \o c # <<>> /\ (ws \o c)[1] = ws[1]
  <2>1. 0 \in StreamIds /\ 1 \in StreamIds /\ 0 # 1
    BY <1>1
  <2>2. /\ c \in Seq(Letters) /\ ws \o c \in Seq(Letters)
        /\ \A l \in StreamIds : Carried(ws \o c, l) = Carried(ws, l) \o (IF 0 = l THEN s ELSE <<>>)
        /\ ws # <<>> => ws \o c # <<>> /\ (ws \o c)[1] = ws[1]
    <3>1. Joins(ws, c, 0, s)
      BY <2>1, SaidOnce
    <3> QED
      BY <3>1, Zenon DEF Joins
  <2>3. /\ Carried(ws \o c, 0) = Carried(ws, 0) \o (IF 0 = 0 THEN s ELSE <<>>)
        /\ Carried(ws \o c, 1) = Carried(ws, 1) \o (IF 0 = 1 THEN s ELSE <<>>)
    BY <2>1, <2>2, Zenon
  <2> QED
    BY <2>2, <2>3
<1>3. PICK u \in Seq(Letters) : u = ws \o c
  BY <1>2
<1>4. /\ d \in Seq(Letters) /\ u \o d \in Seq(Letters)
      /\ Carried(u \o d, 0) = Carried(u, 0) \o <<>>
      /\ Carried(u \o d, 1) = Carried(u, 1) \o t
      /\ u # <<>> => u \o d # <<>> /\ (u \o d)[1] = u[1]
  <2>1. 0 \in StreamIds /\ 1 \in StreamIds /\ 0 # 1
    BY <1>1
  <2>2. /\ d \in Seq(Letters) /\ u \o d \in Seq(Letters)
        /\ \A l \in StreamIds : Carried(u \o d, l) = Carried(u, l) \o (IF 1 = l THEN t ELSE <<>>)
        /\ u # <<>> => u \o d # <<>> /\ (u \o d)[1] = u[1]
    <3>1. Joins(u, d, 1, t)
      BY <2>1, SaidOnce
    <3> QED
      BY <3>1, Zenon DEF Joins
  <2>3. /\ Carried(u \o d, 0) = Carried(u, 0) \o (IF 1 = 0 THEN t ELSE <<>>)
        /\ Carried(u \o d, 1) = Carried(u, 1) \o (IF 1 = 1 THEN t ELSE <<>>)
    BY <2>1, <2>2, Zenon
  <2> QED
    BY <2>2, <2>3
<1>5. u \o d = ws \o (c \o d)
  <2>1. Regroups(ws, c, d)
    BY <1>2, <1>4, Regrouped, Zenon
  <2> QED
    BY <1>3, <2>1 DEF Regroups
<1>6. /\ Carried(ws, 0) \in Seq(Nat) /\ Carried(ws, 1) \in Seq(Nat)
      /\ Carried(u, 0) \in Seq(Nat) /\ Carried(u, 1) \in Seq(Nat)
  BY <1>1, PartsTyped
<1>7. Carried(u, 0) \o <<>> = Carried(u, 0) /\ Carried(ws, 1) \o <<>> = Carried(ws, 1)
  BY <1>6, ConcatEmptySeq
<1>8. Carried(u \o d, 0) = Carried(ws, 0) \o s /\ Carried(u \o d, 1) = Carried(ws, 1) \o t
  BY <1>2, <1>3, <1>4, <1>7, Zenon
<1>9. \A l \in StreamIds : Carried(u \o d, l) = Carried(ws, l) \o (IF l = 0 THEN s ELSE t)
  BY <1>1, <1>8
<1> QED
  BY <1>2, <1>3, <1>4, <1>5, <1>9, Zenon DEF JoinBoth

\* What is sent is on its way.
LEMMA SendingBalances ==
  ASSUME NEW h \in Seq(HeardFrames), NEW ws \in Seq(Letters), NEW next, NEW s \in Seq(Nat),
         NEW l \in StreamIds, NEW m, NEW o, NEW t, Balanced(h, ws, m, o, t, l),
         Carried(next, l) = Carried(ws, l) \o s, NEW p, NEW q, Sent(m, p, q) = Sent(m, o, t) \o s
  PROVE  Balanced(h, next, m, p, q, l)
<1>1. HeardIn(h) \in Seq(Nat) /\ Carried(ws, l) \in Seq(Nat)
  BY HeardTyped, PartsTyped
<1>2. Regroups(HeardIn(h), Carried(ws, l), s)
  BY <1>1, Regrouped, Zenon
<1>3. HeardIn(h) \o (Carried(ws, l) \o s) = Sent(m, o, t) \o s
  BY <1>2, Zenon DEF Regroups, Balanced
<1> QED
  BY <1>3, Zenon DEF Balanced

\* What is taken off the wire is heard.
LEMMA ReadingBalances ==
  ASSUME NEW h \in Seq(HeardFrames), NEW ws \in Seq(Letters), ws # <<>>,
         NEW l \in StreamIds, NEW m, NEW o, NEW t, Balanced(h, ws, m, o, t, l),
         NEW more, HeardIn(more) = HeardIn(h) \o Part(Head(ws), l)
  PROVE  Balanced(more, Tail(ws), m, o, t, l)
<1>1. Head(ws) \in Letters /\ Tail(ws) \in Seq(Letters)
  BY HeadTailProperties
<1>2. /\ HeardIn(h) \in Seq(Nat) /\ Part(Head(ws), l) \in Seq(Nat)
      /\ Carried(Tail(ws), l) \in Seq(Nat)
  BY <1>1, HeardTyped, PartsTyped, LetterParts
<1>3. Regroups(HeardIn(h), Part(Head(ws), l), Carried(Tail(ws), l))
  BY <1>2, Regrouped, Zenon
<1>4. Carried(ws, l) = Part(Head(ws), l) \o Carried(Tail(ws), l)
  BY OneLess
<1>5. (HeardIn(h) \o Part(Head(ws), l)) \o Carried(Tail(ws), l) = Sent(m, o, t)
  BY <1>3, <1>4, Zenon DEF Regroups, Balanced
<1> QED
  BY <1>5, Zenon DEF Balanced

-----------------------------------------------------------------------------
(* The test client.                                                        *)

WavSteps ==
  {"read", "refused", "connect", "failed", "hello", "stream", "tail", "bye", "done",
   "crashed"}
WavTypeOK ==
  /\ socket \in {"connecting", "open", "stopped"} /\ step \in WavSteps
  /\ conn \in Nat \ {0} /\ off \in Nat /\ tail \in Nat /\ seen \in BOOLEAN
  /\ files \in [StreamIds -> Files] /\ mic \in [StreamIds -> Seq(Nat)]
  /\ wire \in Seq(Letters) /\ heard \in [StreamIds -> Seq(HeardFrames)]

\* What it made of its files, ...
Refusal == \E l \in StreamIds : WavOf(l).sound => ~Usable(WavOf(l))
Taken == \A l \in StreamIds : WavOf(l).sound => Usable(WavOf(l)) /\ mic[l] = WavOf(l).samples
Broken == \E l \in StreamIds : ~WavOf(l).sound
NothingYet == wire = <<>> /\ off = 0 /\ tail = 0 /\ \A l \in StreamIds : heard[l] = <<>>
ReadInv ==
  /\ step = "refused" => Refusal
  /\ step \notin {"read", "refused", "crashed"} => Taken
  /\ step = "crashed" => Broken /\ socket = "stopped"
  /\ step \in {"read", "refused", "connect", "failed"} =>
       socket = "connecting" /\ conn = 1 /\ NothingYet
  /\ step = "hello" /\ conn = 1 => socket = "open" /\ NothingYet

\* ... and what became of them while its first connection stands: the hello is
\* ahead of every frame, and what a lane heard and what is on its way to it make
\* what was sent into it.
AllRead == \A l \in StreamIds : off >= Len(mic[l])
Delivering ==
  /\ Greeted(seen, wire)
  /\ \A l \in StreamIds : Balanced(heard[l], wire, mic[l], off, tail, l)
SendInv ==
  /\ step \in {"stream", "tail", "bye"} /\ conn = 1 => socket = "open"
  /\ step \in {"hello", "stream"} => tail = 0
  /\ step \in {"tail", "bye", "done"} => AllRead
  /\ step \in {"bye", "done"} => tail = TailChunks
  /\ step = "done" => wire = <<>> /\ socket = "stopped"
  /\ step \in {"stream", "tail", "bye", "done"} /\ conn = 1 => Delivering

WavKept == WavTypeOK /\ ReadInv /\ SendInv
WavInv == client = "wav_client" => WavKept

\* What the client takes for the audio of a file is its audio, unless the file
\* leads it astray.
LEMMA WavReads ==
  ASSUME files \in [StreamIds -> Files], NEW l \in StreamIds
  PROVE  /\ Readings(l) \subseteq Wavs /\ WavOf(l) \in Wavs
         /\ WavOf(l).sound => Readings(l) = {WavOf(l)}
         /\ Sound(files[l]) =>
              /\ WavOf(l).sound
              /\ AudioOf(files[l]) = IF Usable(WavOf(l)) THEN {WavOf(l).samples} ELSE {}
<1> DEFINE file == WavFileOf(l)
<1>1. RiffFile(files[l])
  BY FilesAssumption
<1>2. /\ file \in Seq(ByteCells) /\ WavOf(l) \in Wavs
      /\ Sound(files[l]) => Reads(files[l], WavOf(l))
  BY <1>1, ReaderFindsAudio DEF WavOf, WavFileOf
<1> HIDE DEF file
<1>3. Misread(file) \subseteq Wavs
  <2> SUFFICES ASSUME NEW a \in 0 .. Len(file), NEW n \in 0 .. Len(file), a + 2 * n <= Len(file)
               PROVE  [ok |-> TRUE, samples |-> Run(file, a, n), rate |-> Rate16k,
                       sound |-> FALSE] \in Wavs
    BY DEF Misread
  <2>1. ASSUME NEW i \in 1 .. n PROVE file[a + 2 * i][2] \in Nat
    <3>1. a + 2 * i \in 1 .. Len(file)
      OBVIOUS
    <3>2. file[a + 2 * i] \in ByteCells
      BY <1>2, <3>1
    <3> QED
      BY <3>2 DEF ByteCells
  <2>2. Run(file, a, n) \in [1 .. n -> Nat]
    BY <2>1 DEF Run
  <2>3. Run(file, a, n) \in Seq(Nat) /\ Rate16k \in Nat
    BY <2>2 DEF Rate16k
  <2> QED
    BY <2>3 DEF Wavs
<1>4. Readings(l) \subseteq Wavs
  BY <1>2, <1>3 DEF Readings, file
<1>5. WavOf(l).sound => Readings(l) = {WavOf(l)}
  BY DEF Readings, Astray, Refused
<1> QED
  BY <1>2, <1>4, <1>5 DEF Reads, Usable

\* Neither the files nor what was read of them changes later.
LEMMA FilesStay ==
  ASSUME files' = files
  PROVE  /\ (Refusal' <=> Refusal) /\ (Broken' <=> Broken)
         /\ mic' = mic => (Taken' <=> Taken)
         /\ mic' = mic /\ off' = off => (AllRead' <=> AllRead)
<1>1. ASSUME NEW l \in StreamIds
      PROVE  WavOf(l)' = WavOf(l)
  BY DEF WavOf, WavFileOf
<1> QED
  BY <1>1 DEF Refusal, Taken, AllRead, Broken

\* A step that leaves the wire, the lanes and the loop alone moves nothing.
LEMMA DeliveryStays ==
  ASSUME seen' = seen, wire' = wire, heard' = heard, mic' = mic, off' = off, tail' = tail
  PROVE  (Delivering' <=> Delivering) /\ (NothingYet' <=> NothingYet)
BY DEF Delivering, NothingYet

\* main() starts with nothing read, sent or heard.
LEMMA WavInit == Init => WavInv
<1> SUFFICES ASSUME Init, client = "wav_client" PROVE WavKept
  BY DEF WavInv
<1>1. /\ socket = "connecting" /\ conn = 1 /\ wire = <<>> /\ seen = FALSE /\ off = 0 /\ tail = 0
      /\ files \in [StreamIds -> Files] /\ step = "read"
      /\ heard = [l \in StreamIds |-> <<>>] /\ mic = [l \in StreamIds |-> <<>>]
  BY DEF Init
<1>2. heard \in [StreamIds -> Seq(HeardFrames)] /\ mic \in [StreamIds -> Seq(Nat)]
      /\ wire \in Seq(Letters)
  BY <1>1
<1>3. NothingYet
  BY <1>1 DEF NothingYet
<1>4. WavTypeOK
  <2>0. seen \in BOOLEAN
    BY <1>1, Zenon
  <2>1. conn \in Nat \ {0} /\ off \in Nat /\ tail \in Nat
    BY <1>1
  <2>2. socket \in {"connecting", "open", "stopped"} /\ step \in WavSteps
    BY <1>1 DEF WavSteps
  <2> QED
    BY <1>1, <1>2, <2>0, <2>1, <2>2 DEF WavTypeOK
<1>5. ReadInv
  BY <1>1, <1>3 DEF ReadInv
<1>6. SendInv
  BY <1>1 DEF SendInv
<1> QED
  BY <1>4, <1>5, <1>6 DEF WavKept

\* The first connection opens; later ones are not the invariant's subject.
LEMMA WavOpens ==
  ASSUME WavKept, client = "wav_client", SocketOpens PROVE WavKept'
<1>1. /\ socket = "connecting" /\ socket' = "open" /\ wire' = <<>>
      /\ step' = IF step = "connect" THEN "hello" ELSE step
      /\ step \notin {"read", "refused", "failed", "done"}
      /\ UNCHANGED <<client, conn, seen, heard, files, mic, off, tail>>
  BY DEF SocketOpens
<1>2. WavTypeOK'
  <2>1. wire' \in Seq(Letters)
    BY <1>1
  <2> QED
    BY <1>1, <2>1 DEF WavKept, WavTypeOK, WavSteps
<1>3. ReadInv'
  <2>1. NothingYet => NothingYet'
    BY <1>1 DEF NothingYet
  <2> QED
    BY <1>1, <2>1, FilesStay DEF WavKept, WavTypeOK, ReadInv, WavSteps
<1>4. SendInv'
  <2>1. step = "connect" => tail = 0
    BY DEF WavKept, ReadInv, NothingYet
  <2> QED
    BY <1>1, <2>1, FilesStay DEF WavKept, WavTypeOK, ReadInv, SendInv, WavSteps
<1> QED
  BY <1>2, <1>3, <1>4 DEF WavKept

\* A connection that drops is not the first any more.
LEMMA WavDrops ==
  ASSUME WavKept, client = "wav_client", SocketDrops PROVE WavKept'
<1>1. /\ socket = "open" /\ socket' = "connecting" /\ conn' = conn + 1 /\ wire' = <<>>
      /\ seen' = FALSE /\ UNCHANGED <<client, heard, files, mic, off, tail, step>>
  BY DEF SocketDrops, wav
<1>2. conn' \in Nat \ {0} /\ conn' # 1
  BY <1>1 DEF WavKept, WavTypeOK
<1>3. WavTypeOK'
  <2>1. wire' \in Seq(Letters)
    BY <1>1
  <2> QED
    BY <1>1, <1>2, <2>1 DEF WavKept, WavTypeOK, WavSteps
<1>4. step \in {"hello", "stream", "tail", "bye"}
  BY <1>1 DEF WavKept, WavTypeOK, ReadInv, SendInv, WavSteps
<1>5. ReadInv'
  BY <1>1, <1>2, <1>4, FilesStay DEF WavKept, ReadInv
<1>6. SendInv'
  BY <1>1, <1>2, <1>4, FilesStay DEF WavKept, SendInv
<1> QED
  BY <1>3, <1>5, <1>6 DEF WavKept

\* Both files are audio, or the client is done.
LEMMA WavReadsFiles ==
  ASSUME WavKept, client = "wav_client", ReadFiles PROVE WavKept'
<1>1. /\ step = "read"
      /\ UNCHANGED <<client, socket, conn, wire, seen, heard, files, off, tail>>
  BY DEF ReadFiles
<1>2. /\ socket = "connecting" /\ conn = 1 /\ NothingYet /\ wire = <<>>
  BY <1>1 DEF WavKept, ReadInv, NothingYet
<1>3. NothingYet'
  BY <1>1, <1>2 DEF NothingYet
<1>4. PICK m \in Readings(0), t \in Readings(1) :
        IF Usable(m) /\ Usable(t)
        THEN /\ step' = "connect"
             /\ mic' = [l \in StreamIds |-> IF l = 0 THEN m.samples ELSE t.samples]
        ELSE step' = "refused" /\ UNCHANGED mic
  BY DEF ReadFiles
<1>5. StreamIds = {0, 1}
  BY DEF StreamIds, kStreamCount
<1>6. /\ m \in Wavs /\ (WavOf(0).sound => m = WavOf(0))
      /\ t \in Wavs /\ (WavOf(1).sound => t = WavOf(1))
  BY <1>4, <1>5, WavReads DEF WavKept, WavTypeOK
<1>7. CASE Usable(m) /\ Usable(t)
  <2>1. /\ step' = "connect"
        /\ mic' = [l \in StreamIds |-> IF l = 0 THEN m.samples ELSE t.samples]
    BY <1>4, <1>7
  <2>2. m.samples \in Seq(Nat) /\ t.samples \in Seq(Nat)
    BY <1>6 DEF Wavs
  <2>3. mic' \in [StreamIds -> Seq(Nat)] /\ mic'[0] = m.samples /\ mic'[1] = t.samples
    BY <1>5, <2>1, <2>2
  <2>4. Taken'
    <3>1. \A l \in StreamIds : WavOf(l)' = WavOf(l)
      BY <1>1 DEF WavOf, WavFileOf
    <3> QED
      BY <1>5, <1>6, <1>7, <2>3, <3>1 DEF Taken
  <2>5. WavTypeOK'
    BY <1>1, <2>1, <2>3 DEF WavKept, WavTypeOK, WavSteps
  <2> QED
    BY <1>1, <1>2, <1>3, <2>1, <2>4, <2>5 DEF WavKept, ReadInv, SendInv
<1>8. CASE ~(Usable(m) /\ Usable(t))
  <2>1. step' = "refused" /\ mic' = mic
    BY <1>4, <1>8
  <2>2. Refusal
    BY <1>5, <1>6, <1>8 DEF Refusal
  <2>3. Refusal'
    BY <1>1, <2>2, FilesStay
  <2>4. WavTypeOK'
    BY <1>1, <2>1 DEF WavKept, WavTypeOK, WavSteps
  <2> QED
    BY <1>1, <1>2, <1>3, <2>1, <2>3, <2>4 DEF WavKept, ReadInv, SendInv
<1> QED
  BY <1>7, <1>8

\* A crash ends what the invariant speaks of.
LEMMA WavCrashes ==
  ASSUME WavKept, client = "wav_client", Crashes PROVE WavKept'
<1>1. /\ step' = "crashed" /\ socket' = "stopped" /\ wire' \in {wire, <<>>}
      /\ ~WavOf(0).sound \/ ~WavOf(1).sound
      /\ UNCHANGED <<client, conn, seen, heard, files, mic, off, tail>>
  BY DEF Crashes
<1>2. wire' \in Seq(Letters)
  <2>1. wire \in Seq(Letters) /\ <<>> \in Seq(Letters)
    BY DEF WavKept, WavTypeOK
  <2> QED
    BY <1>1, <2>1
<1>3. WavTypeOK'
  BY <1>1, <1>2 DEF WavKept, WavTypeOK, WavSteps
<1>4. Broken'
  <2>1. Broken
    BY <1>1 DEF Broken, StreamIds, kStreamCount
  <2> QED
    BY <1>1, <2>1, FilesStay
<1> QED
  BY <1>1, <1>3, <1>4 DEF WavKept, ReadInv, SendInv

\* Nothing was sent when the client gives up.
LEMMA WavGivesUp ==
  ASSUME WavKept, client = "wav_client", GiveUp PROVE WavKept'
<1>1. /\ step = "connect" /\ step' = "failed"
      /\ UNCHANGED <<client, socket, conn, wire, seen, heard, files, mic, off, tail>>
  BY DEF GiveUp
<1>2. WavTypeOK'
  BY <1>1 DEF WavKept, WavTypeOK, WavSteps
<1> QED
  BY <1>1, <1>2, FilesStay, DeliveryStays DEF WavKept, ReadInv, SendInv

\* The wire is empty when the client stops: all that was sent is heard.
LEMMA WavStops ==
  ASSUME WavKept, client = "wav_client", StopClient PROVE WavKept'
<1>1. /\ step = "bye" /\ wire = <<>> /\ step' = "done" /\ socket' = "stopped"
      /\ UNCHANGED <<client, conn, wire, seen, heard, files, mic, off, tail>>
  BY DEF StopClient
<1>2. WavTypeOK'
  BY <1>1 DEF WavKept, WavTypeOK, WavSteps
<1> QED
  BY <1>1, <1>2, FilesStay, DeliveryStays DEF WavKept, ReadInv, SendInv

\* What the client sends into a socket of its first connection goes behind
\* what is there, and the hello stays ahead of it.
LEMMA SentBehind ==
  ASSUME WavTypeOK, NEW s \in Seq(Nat), NEW t \in Seq(Nat),
         NEW c, Says(c, 0, s), NEW d, Says(d, 1, t), SendAll(c \o d)
  PROVE  wire' \in Seq(Letters)
<1>1. wire \o (c \o d) \in Seq(Letters)
  BY SaidInBoth DEF WavTypeOK, JoinBoth
<1> QED
  BY <1>1 DEF SendAll, WavTypeOK

\* Sending into both lanes keeps the balance of each.
LEMMA SentIsDelivered ==
  ASSUME WavTypeOK, Delivering, socket = "open", NEW s \in Seq(Nat), NEW t \in Seq(Nat),
         NEW c, Says(c, 0, s), NEW d, Says(d, 1, t), SendAll(c \o d),
         UNCHANGED <<seen, heard, mic>>,
         \A l \in StreamIds :
           Sent(mic[l], off', tail') = Sent(mic[l], off, tail) \o (IF l = 0 THEN s ELSE t)
  PROVE  Delivering'
<1>1. wire' = wire \o (c \o d)
  BY DEF SendAll
<1>2. /\ \A l \in StreamIds : Carried(wire', l) = Carried(wire, l) \o (IF l = 0 THEN s ELSE t)
      /\ wire # <<>> => wire' # <<>> /\ wire'[1] = wire[1]
  <2>1. JoinBoth(wire, c, d, s, t)
    BY SaidInBoth DEF WavTypeOK
  <2> QED
    BY <1>1, <2>1, Zenon DEF JoinBoth
<1>3. Greeted(seen, wire')
  BY <1>2 DEF Delivering, Greeted
<1>4. ASSUME NEW l \in StreamIds
      PROVE  Balanced(heard[l], wire', mic[l], off', tail', l)
  <2>1. PICK u \in Seq(Nat) : u = IF l = 0 THEN s ELSE t
    OBVIOUS
  <2>2. /\ Carried(wire', l) = Carried(wire, l) \o u
        /\ Sent(mic[l], off', tail') = Sent(mic[l], off, tail) \o u
    BY <1>2, <2>1, Zenon
  <2>3. heard[l] \in Seq(HeardFrames) /\ wire \in Seq(Letters)
    BY DEF WavTypeOK
  <2>4. Balanced(heard[l], wire, mic[l], off, tail, l)
    BY DEF Delivering
  <2> QED
    BY <2>2, <2>3, <2>4, SendingBalances
<1> QED
  BY <1>3, <1>4 DEF Delivering

\* The hello opens the balance.
LEMMA WavGreets ==
  ASSUME WavKept, client = "wav_client", SayHello PROVE WavKept'
<1>1. /\ step = "hello" /\ step' = "stream" /\ SendAll(<<Text(HelloText)>>)
      /\ UNCHANGED <<client, socket, conn, seen, heard, files, mic, off, tail>>
  BY DEF SayHello
<1>2. WavTypeOK /\ Text(HelloText) \in TextLetters
  BY DEF WavKept, TextLetters
<1>3. 0 \in StreamIds /\ StreamIds = {0, 1}
  BY DEF StreamIds, kStreamCount
<1>4. Joins(wire, <<Text(HelloText)>>, 0, <<>>)
  <2>1. <<>> \in Seq(Nat)
    OBVIOUS
  <2>2. Says(<<Text(HelloText)>>, 0, <<>>)
    BY <1>2, <1>3, TextSays
  <2> QED
    BY <1>2, <1>3, <2>1, <2>2, SaidOnce DEF WavTypeOK
<1>5. wire' \in Seq(Letters)
  BY <1>1, <1>2, <1>4 DEF SendAll, Joins, WavTypeOK
<1>6. WavTypeOK'
  BY <1>1, <1>2, <1>5 DEF WavTypeOK, WavSteps
<1>7. tail = 0
  BY <1>1 DEF WavKept, SendInv
<1>8. ASSUME conn = 1 PROVE socket = "open" /\ Delivering'
  <2>1. socket = "open" /\ wire = <<>> /\ off = 0 /\ \A l \in StreamIds : heard[l] = <<>>
    BY <1>1, <1>8 DEF WavKept, ReadInv, NothingYet
  <2>2. wire' = <<Text(HelloText)>>
    BY <1>1, <2>1 DEF SendAll
  <2>3. Greeted(seen, wire')
    BY <2>2 DEF Greeted
  <2>4. ASSUME NEW l \in StreamIds
        PROVE  Balanced(heard[l], wire', mic[l], 0, 0, l)
    <3>1. Carried(wire', l) = <<>>
      <4>1. Carried(<<>> \o <<Text(HelloText)>>, l) = Carried(<<>>, l) \o <<>>
        BY <1>4, <2>1 DEF Joins
      <4>2. <<>> \o <<Text(HelloText)>> = <<Text(HelloText)>> /\ <<>> \o <<>> = <<>>
        OBVIOUS
      <4> QED
        BY <2>2, <4>1, <4>2, NothingCarried
    <3>2. HeardIn(<<>>) = <<>>
      <4>1. [i \in 1 .. 0 |-> <<>>[i].samples] = <<>>
        OBVIOUS
      <4> QED
        BY <4>1, FlattenEmpty DEF HeardIn
    <3>3. Sent(mic[l], 0, 0) = <<>>
      BY <1>2, NothingSent DEF WavTypeOK
    <3>4. <<>> \o <<>> = <<>>
      OBVIOUS
    <3> QED
      BY <2>1, <3>1, <3>2, <3>3, <3>4 DEF Balanced
  <2> QED
    BY <1>1, <1>7, <2>1, <2>3, <2>4 DEF Delivering
<1>9. ReadInv'
  BY <1>1, FilesStay DEF WavKept, ReadInv
<1>10. SendInv'
  BY <1>1, <1>7, <1>8 DEF SendInv
<1> QED
  BY <1>6, <1>9, <1>10 DEF WavKept

\* A lane's round of the loop: its next piece, or nothing once it has none.
LEMMA ChunkSays ==
  ASSUME WavTypeOK, NEW l \in StreamIds
  PROVE  PieceOf(mic[l], off) \in Seq(Nat) /\ Says(ChunkAt(l), l, PieceOf(mic[l], off))
<1>1. mic[l] \in Seq(Nat) /\ off \in Nat
  BY DEF WavTypeOK
<1>2. PieceOf(mic[l], off) \in Seq(Nat)
  BY <1>1, SentTyped
<1>3. CASE off >= Len(mic[l])
  BY <1>3 DEF PieceOf, ChunkAt, Says
<1>4. CASE ~(off >= Len(mic[l]))
  <2>1. Piece(l) = PieceOf(mic[l], off)
    BY DEF Piece, PieceOf
  <2>2. ChunkAt(l) = <<Frame(l, PieceOf(mic[l], off))>>
    BY <1>4, <2>1 DEF ChunkAt, Frame
  <2> QED
    BY <1>2, <2>2, FrameSays
<1> QED
  BY <1>2, <1>3, <1>4

\* A round of the loop, and its end when neither lane has a piece left.
LEMMA WavSendsChunks ==
  ASSUME WavKept, client = "wav_client", SendChunks PROVE WavKept'
<1>1. /\ step = "stream" /\ WavTypeOK
      /\ UNCHANGED <<client, socket, conn, seen, heard, files, mic, tail>>
  BY DEF SendChunks, WavKept
<1>2. tail = 0 /\ (conn = 1 => socket = "open" /\ Delivering)
  BY <1>1 DEF WavKept, SendInv
<1>3. StreamIds = {0, 1} /\ CHUNK_SAMPLES \in Nat
  BY AudioAssumption DEF StreamIds, kStreamCount
<1>4. CASE \E l \in StreamIds : off < Len(mic[l])
  <2>1. off' = off + CHUNK_SAMPLES /\ SendAll(ChunkAt(0) \o ChunkAt(1)) /\ step' = step
    BY <1>4 DEF SendChunks
  <2>2. PICK s \in Seq(Nat), t \in Seq(Nat) :
          /\ s = PieceOf(mic[0], off) /\ t = PieceOf(mic[1], off)
          /\ Says(ChunkAt(0), 0, s) /\ Says(ChunkAt(1), 1, t)
    BY <1>1, <1>3, ChunkSays
  <2>3. wire' \in Seq(Letters)
    BY <1>1, <2>1, <2>2, SentBehind
  <2>4. WavTypeOK'
    BY <1>1, <1>3, <2>1, <2>3 DEF WavTypeOK
  <2>5. ASSUME conn = 1 PROVE Delivering'
    <3>1. ASSUME NEW l \in StreamIds
          PROVE  Sent(mic[l], off', tail') = Sent(mic[l], off, tail) \o (IF l = 0 THEN s ELSE t)
      <4>1. Sent(mic[l], off + CHUNK_SAMPLES, 0) = Sent(mic[l], off, 0) \o PieceOf(mic[l], off)
        BY <1>1, ChunkSent DEF WavTypeOK
      <4>2. PieceOf(mic[l], off) = IF l = 0 THEN s ELSE t
        BY <1>3, <2>2
      <4> QED
        BY <1>1, <1>2, <2>1, <4>1, <4>2, Zenon
    <3> QED
      BY <1>1, <1>2, <2>1, <2>2, <2>5, <3>1, SentIsDelivered
  <2>6. ReadInv'
    BY <1>1, <2>1, FilesStay DEF WavKept, ReadInv
  <2>7. SendInv'
    BY <1>1, <1>2, <2>1, <2>5 DEF SendInv
  <2> QED
    BY <2>4, <2>6, <2>7 DEF WavKept
<1>5. CASE ~ \E l \in StreamIds : off < Len(mic[l])
  <2>1. step' = "tail" /\ off' = off /\ wire' = wire
    BY <1>5 DEF SendChunks
  <2>2. AllRead
    <3>1. ASSUME NEW l \in StreamIds PROVE off >= Len(mic[l])
      <4>1. mic[l] \in Seq(Nat) /\ off \in Nat
        BY <1>1 DEF WavTypeOK
      <4> QED
        BY <1>5, <4>1
    <3> QED
      BY <3>1 DEF AllRead
  <2>3. WavTypeOK'
    BY <1>1, <2>1 DEF WavTypeOK, WavSteps
  <2>4. ReadInv'
    BY <1>1, <2>1, FilesStay DEF WavKept, ReadInv
  <2>5. SendInv'
    BY <1>1, <1>2, <2>1, <2>2, FilesStay, DeliveryStays DEF SendInv
  <2> QED
    BY <2>3, <2>4, <2>5 DEF WavKept
<1> QED
  BY <1>4, <1>5

\* A chunk of silence into each lane.
LEMMA WavSendsSilence ==
  ASSUME WavKept, client = "wav_client", SendSilence PROVE WavKept'
<1>1. /\ step = "tail" /\ step' = step /\ tail' = tail + 1 /\ SendAll(Silence(0) \o Silence(1))
      /\ WavTypeOK /\ UNCHANGED <<client, socket, conn, seen, heard, files, mic, off>>
  BY DEF SendSilence, WavKept
<1>2. StreamIds = {0, 1} /\ CHUNK_SAMPLES \in Nat
  BY AudioAssumption DEF StreamIds, kStreamCount
<1>3. PICK z \in Seq(Nat) : z = Zeros(CHUNK_SAMPLES)
  BY <1>2, ZerosTyped
<1>4. Says(Silence(0), 0, z) /\ Says(Silence(1), 1, z)
  <2>1. Silence(0) = <<Frame(0, z)>> /\ Silence(1) = <<Frame(1, z)>>
    BY <1>3 DEF Silence, Frame
  <2> QED
    BY <1>2, <2>1, FrameSays
<1>5. wire' \in Seq(Letters)
  BY <1>1, <1>4, SentBehind
<1>6. WavTypeOK'
  BY <1>1, <1>5 DEF WavTypeOK
<1>7. ASSUME conn = 1 PROVE Delivering'
  <2>1. socket = "open" /\ Delivering
    BY <1>1, <1>7 DEF WavKept, SendInv
  <2>2. ASSUME NEW l \in StreamIds
        PROVE  Sent(mic[l], off', tail') = Sent(mic[l], off, tail) \o (IF l = 0 THEN z ELSE z)
    <3>1. Sent(mic[l], off, tail + 1) = Sent(mic[l], off, tail) \o Zeros(CHUNK_SAMPLES)
      BY <1>1, SilenceSent DEF WavTypeOK
    <3> QED
      BY <1>1, <1>3, <3>1
  <2> QED
    BY <1>1, <1>4, <2>1, <2>2, SentIsDelivered
<1>8. ReadInv'
  BY <1>1, FilesStay DEF WavKept, ReadInv
<1>9. SendInv'
  BY <1>1, <1>7, FilesStay DEF WavKept, SendInv
<1> QED
  BY <1>6, <1>8, <1>9 DEF WavKept

\* The bye carries nothing.
LEMMA WavSaysBye ==
  ASSUME WavKept, client = "wav_client", SayBye PROVE WavKept'
<1>1. /\ step = "tail" /\ tail = TailChunks /\ step' = "bye" /\ SendAll(<<Text(ByeText)>>)
      /\ WavTypeOK /\ UNCHANGED <<client, socket, conn, seen, heard, files, mic, off, tail>>
  BY DEF SayBye, WavKept
<1>2. StreamIds = {0, 1} /\ <<>> \in Seq(Nat) /\ Text(ByeText) \in TextLetters
  BY DEF StreamIds, kStreamCount, TextLetters
<1>3. Says(<<Text(ByeText)>>, 0, <<>>) /\ Says(<<>>, 1, <<>>)
  BY <1>2, TextSays DEF Says
<1>4. SendAll(<<Text(ByeText)>> \o <<>>)
  <2>1. <<Text(ByeText)>> \o <<>> = <<Text(ByeText)>>
    OBVIOUS
  <2> QED
    BY <1>1, <2>1
<1>5. wire' \in Seq(Letters)
  BY <1>1, <1>2, <1>3, <1>4, SentBehind
<1>6. WavTypeOK'
  BY <1>1, <1>5 DEF WavTypeOK, WavSteps
<1>7. ASSUME conn = 1 PROVE Delivering'
  <2>1. socket = "open" /\ Delivering
    BY <1>1, <1>7 DEF WavKept, SendInv
  <2>2. ASSUME NEW l \in StreamIds
        PROVE  Sent(mic[l], off', tail') = Sent(mic[l], off, tail) \o (IF l = 0 THEN <<>> ELSE <<>>)
    <3>1. Sent(mic[l], off, tail) \in Seq(Nat)
      BY <1>1, SentTyped DEF WavTypeOK
    <3> QED
      BY <1>1, <3>1, ConcatEmptySeq
  <2> QED
    BY <1>1, <1>2, <1>3, <1>4, <2>1, <2>2, SentIsDelivered
<1>8. ReadInv'
  BY <1>1, FilesStay DEF WavKept, ReadInv
<1>9. SendInv'
  BY <1>1, <1>7, FilesStay DEF WavKept, SendInv
<1> QED
  BY <1>6, <1>8, <1>9 DEF WavKept

\* What the server makes of the first message in flight.
LEMMA WavIsRead ==
  ASSUME WavTypeOK, ServerReads
  PROVE  /\ WavTypeOK' /\ wire # <<>> /\ wire' = Tail(wire)
         /\ UNCHANGED <<client, socket, conn, files, mic, off, tail, step>>
         /\ Greeted(seen, wire) =>
              /\ Greeted(seen, wire)'
              /\ \A l \in StreamIds :
                   HeardIn(heard'[l]) = HeardIn(heard[l]) \o Part(Head(wire), l)
<1>1. /\ wire # <<>> /\ wire' = Tail(wire) /\ (ReadText \/ ReadAudio)
      /\ UNCHANGED <<client, socket, conn, files, mic, off, tail, step>>
  BY DEF ServerReads, ReadText, ReadAudio, wav
<1>2. PICK m \in Letters : m = Head(wire) /\ m = wire[1]
  BY <1>1, HeadTailProperties DEF WavTypeOK
<1>3. Tail(wire) \in Seq(Letters) /\ conn \in Nat
  BY <1>1, HeadTailProperties DEF WavTypeOK
<1> DEFINE Heeded == /\ WavTypeOK'
                     /\ Greeted(seen, wire) =>
                          /\ seen'
                          /\ \A l \in StreamIds :
                               HeardIn(heard'[l]) = HeardIn(heard[l]) \o Part(m, l)
<1>4. ASSUME m \in TextLetters PROVE Heeded
  <2>0. 0 \in StreamIds
    BY DEF StreamIds, kStreamCount
  <2>1. ~m.binary /\ \A l \in StreamIds : Part(m, l) = <<>>
    BY <1>4, <2>0, TextParts, ZenonT(60)
  <2>2. heard' = heard /\ seen' = (seen \/ Supported(ParseHello(m.text)))
    BY <1>1, <1>2, <2>1 DEF ReadText, ReadAudio
  <2>3. seen' \in BOOLEAN
    BY <2>2, Zenon DEF WavTypeOK
  <2>4. WavTypeOK'
    BY <1>1, <1>3, <2>2, <2>3 DEF WavTypeOK
  <2>5. ASSUME NEW l \in StreamIds
        PROVE  HeardIn(heard'[l]) = HeardIn(heard[l]) \o Part(m, l)
    <3>1. HeardIn(heard[l]) \in Seq(Nat)
      BY HeardTyped DEF WavTypeOK
    <3> QED
      BY <2>1, <2>2, <3>1, ConcatEmptySeq
  <2>6. m = Text(HelloText) => Supported(ParseHello(m.text))
    BY DEF Text, HelloText, ParseHello, Supported
  <2>7. Greeted(seen, wire) => seen'
    BY <1>2, <2>2, <2>6, Zenon DEF Greeted
  <2> QED
    BY <2>4, <2>5, <2>7, Zenon
<1>5. ASSUME NEW k \in StreamIds, NEW s \in Seq(Nat), m = Frame(k, s), m.binary
      PROVE  Heeded
  <2> DEFINE frame == [stream |-> k, samples |-> s]
             more == Append(heard[k], [conn |-> conn, samples |-> s])
  <2>1. <<frame>> # <<>> /\ <<frame>>[1] = frame /\ frame.stream = k /\ frame.samples = s
    OBVIOUS
  <2>2. ParseBinaryFrame(m.bytes) = <<frame>>
    BY <1>5, FrameIsParsed, ZenonT(60)
  <2> HIDE DEF frame
  <2>3. seen' = seen /\ heard' = IF seen THEN [heard EXCEPT ![k] = more] ELSE heard
    BY <1>1, <1>2, <1>5, <2>1, <2>2 DEF ReadText, ReadAudio
  <2>4. heard[k] \in Seq(HeardFrames)
    BY DEF WavTypeOK
  <2>5. more \in Seq(HeardFrames) /\ HeardIn(more) = HeardIn(heard[k]) \o s
    BY <1>3, <2>4, HeardMore
  <2> HIDE DEF more
  <2>6. heard' \in [StreamIds -> Seq(HeardFrames)]
    BY <2>3, <2>5 DEF WavTypeOK
  <2>7. WavTypeOK'
    BY <1>1, <1>3, <2>3, <2>6 DEF WavTypeOK
  <2>8. ASSUME Greeted(seen, wire) PROVE seen
    <3>1. ~Text(HelloText).binary
      BY DEF Text
    <3> QED
      BY <1>2, <1>5, <2>8, <3>1 DEF Greeted
  <2>9. ASSUME seen, NEW l \in StreamIds
        PROVE  HeardIn(heard'[l]) = HeardIn(heard[l]) \o Part(m, l)
    <3>1. Part(m, l) = IF k = l THEN s ELSE <<>>
      BY <1>5, FrameParts
    <3>2. heard'[l] = IF k = l THEN more ELSE heard[l]
      BY <2>3, <2>9 DEF WavTypeOK
    <3>3. HeardIn(heard[l]) \o <<>> = HeardIn(heard[l])
      BY HeardTyped, ConcatEmptySeq DEF WavTypeOK
    <3> QED
      BY <2>5, <3>1, <3>2, <3>3
  <2> QED
    BY <2>3, <2>7, <2>8, <2>9
<1> HIDE DEF Heeded
<1>6. Heeded
  BY <1>4, <1>5, LetterKinds, Zenon
<1> QED
  BY <1>1, <1>2, <1>6, ZenonT(60) DEF Greeted, Heeded

\* The server takes the first message in flight.
LEMMA WavServes ==
  ASSUME WavKept, client = "wav_client", ServerReads PROVE WavKept'
<1>1. /\ WavTypeOK /\ WavTypeOK' /\ wire # <<>> /\ wire' = Tail(wire)
      /\ UNCHANGED <<client, socket, conn, files, mic, off, tail, step>>
  BY WavIsRead DEF WavKept
<1>2. /\ step \in {"hello", "stream", "tail", "bye", "crashed"}
      /\ step = "hello" => conn # 1
  BY <1>1 DEF WavKept, WavTypeOK, ReadInv, SendInv, NothingYet, WavSteps
<1>3. ASSUME Delivering PROVE Delivering'
  <2>1. /\ Greeted(seen, wire)'
        /\ \A l \in StreamIds : HeardIn(heard'[l]) = HeardIn(heard[l]) \o Part(Head(wire), l)
    BY <1>1, <1>3, WavIsRead DEF Delivering
  <2>2. ASSUME NEW l \in StreamIds
        PROVE  Balanced(heard'[l], Tail(wire), mic[l], off, tail, l)
    <3>1. heard[l] \in Seq(HeardFrames) /\ wire \in Seq(Letters)
      BY <1>1 DEF WavTypeOK
    <3>2. Balanced(heard[l], wire, mic[l], off, tail, l)
      BY <1>3 DEF Delivering
    <3> QED
      BY <1>1, <2>1, <3>1, <3>2, ReadingBalances
  <2> QED
    BY <1>1, <2>1, <2>2 DEF Delivering
<1>4. ReadInv'
  BY <1>1, <1>2, FilesStay DEF WavKept, ReadInv
<1>5. SendInv'
  BY <1>1, <1>2, <1>3, FilesStay DEF WavKept, SendInv
<1> QED
  BY <1>1, <1>4, <1>5 DEF WavKept

\* No step breaks the invariant.
LEMMA WavNext == WavInv /\ [Next]_vars => WavInv'
<1> SUFFICES ASSUME WavInv, [Next]_vars, client' = "wav_client" PROVE WavKept'
  BY DEF WavInv
<1>1. client = "wav_client" /\ WavKept
  BY DEF WavInv, Next, vars, SocketOpens, SocketDrops, ServerReads, Quantum, ReadFiles, GiveUp,
         Crashes, SayHello, SendChunks, SendSilence, SayBye, StopClient
<1>2. CASE SocketOpens
  BY <1>1, <1>2, WavOpens
<1>3. CASE SocketDrops
  BY <1>1, <1>3, WavDrops
<1>4. CASE ServerReads
  BY <1>1, <1>4, WavServes
<1>5. CASE \E l \in StreamIds, n \in Quanta : Quantum(l, n)
  BY <1>1, <1>5 DEF Quantum
<1>6. CASE ReadFiles
  BY <1>1, <1>6, WavReadsFiles
<1>7. CASE GiveUp \/ Crashes
  BY <1>1, <1>7, WavGivesUp, WavCrashes
<1>8. CASE SayHello
  BY <1>1, <1>8, WavGreets
<1>9. CASE SendChunks
  BY <1>1, <1>9, WavSendsChunks
<1>10. CASE SendSilence
  BY <1>1, <1>10, WavSendsSilence
<1>11. CASE SayBye
  BY <1>1, <1>11, WavSaysBye
<1>12. CASE StopClient
  BY <1>1, <1>12, WavStops
<1>13. CASE UNCHANGED vars
  <2>1. UNCHANGED <<socket, conn, wire, seen, heard, files, mic, off, tail, step>>
    BY <1>13 DEF vars, wav
  <2>2. WavTypeOK'
    BY <1>1, <2>1 DEF WavKept, WavTypeOK
  <2>3. ReadInv' /\ SendInv'
    BY <1>1, <2>1, FilesStay, DeliveryStays DEF WavKept, ReadInv, SendInv
  <2> QED
    BY <2>2, <2>3 DEF WavKept
<1> QED
  BY <1>2, <1>3, <1>4, <1>5, <1>6, <1>7, <1>8, <1>9, <1>10, <1>11, <1>12, <1>13 DEF Next

\* The test client's place in main() says what it has read of its files and what
\* it has sent; while its first connection stands, what was sent into a lane is
\* heard or on its way, in order and behind the hello (wav_client/main.cpp:25-131).
THEOREM WavInvariant == Spec => []WavInv
<1>1. Init => WavInv
  BY WavInit
<1>2. WavInv /\ [Next]_vars => WavInv'
  BY WavNext
<1> QED
  BY <1>1, <1>2, PTL DEF Spec

\* A test client that got through on one connection has delivered exactly the
\* audio of each of its files that has no odd fmt chunk before its last chunk and
\* no odd data chunk, in its lane and followed by the silence; if both are such
\* files it does not crash, and refuses them only where one has no audio of the
\* one kind: whatever chunks they have, for any chunk size and any silence
\* (wav.cpp:15-98, wav_client/main.cpp:25-131).
THEOREM FilesArriveWhole == Spec => []FilesArrive
<1>1. WavInv => FilesArrive
  <2> SUFFICES ASSUME WavKept, client = "wav_client" PROVE FilesArrive
    BY DEF WavInv, FilesArrive
  <2>1. ASSUME NEW l \in StreamIds, Sound(files[l])
        PROVE  /\ WavOf(l).sound
               /\ AudioOf(files[l]) = IF Usable(WavOf(l)) THEN {WavOf(l).samples} ELSE {}
    BY <2>1, WavReads DEF WavKept, WavTypeOK
  <2>2. ASSUME step \notin {"read", "refused", "crashed"}, NEW l \in StreamIds, Sound(files[l])
        PROVE  AudioOf(files[l]) = {mic[l]}
    BY <2>1, <2>2 DEF WavKept, ReadInv, Taken
  <2>3. ASSUME step = "refused"
        PROVE  \E l \in StreamIds : ~Sound(files[l]) \/ AudioOf(files[l]) = {}
    BY <2>1, <2>3 DEF WavKept, ReadInv, Refusal
  <2>6. ASSUME step = "crashed" PROVE \E l \in StreamIds : ~Sound(files[l])
    BY <2>1, <2>6 DEF WavKept, ReadInv, Broken
  <2>4. ASSUME step = "done", conn = 1, NEW l \in StreamIds
        PROVE  Heard(l) = mic[l] \o Zeros(TailChunks * CHUNK_SAMPLES)
    <3>1. /\ wire = <<>> /\ tail = TailChunks /\ off >= Len(mic[l])
          /\ Balanced(heard[l], wire, mic[l], off, tail, l)
      BY <2>4 DEF WavKept, SendInv, AllRead, Delivering
    <3>2. HeardIn(heard[l]) \o <<>> = mic[l] \o Zeros(TailChunks * CHUNK_SAMPLES)
      BY <3>1, NothingCarried, AllSent DEF Balanced, WavKept, WavTypeOK
    <3>3. HeardIn(heard[l]) \o <<>> = HeardIn(heard[l])
      BY HeardTyped, ConcatEmptySeq DEF WavKept, WavTypeOK
    <3> QED
      BY <3>2, <3>3 DEF Heard, HeardIn
  <2>5. ASSUME step = "done", conn = 1, NEW l \in StreamIds, Sound(files[l])
        PROVE  \E a \in AudioOf(files[l]) : Heard(l) = a \o Zeros(TailChunks * CHUNK_SAMPLES)
    BY <2>2, <2>4, <2>5
  <2> QED
    BY <2>2, <2>3, <2>5, <2>6 DEF FilesArrive
<1> QED
  BY <1>1, WavInvariant, PTL
=============================================================================
