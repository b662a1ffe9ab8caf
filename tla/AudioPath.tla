----------------------------- MODULE AudioPath -----------------------------
(***************************************************************************)
(* Samples on their way from a client to the server's onAudio, over one    *)
(* WebSocket at a time: the extension's accumulators (offscreen.js:37-62)  *)
(* fed by the audio worklet, or the test client reading two WAV files      *)
(* (tools/wav_client/main.cpp), and the server's parsing                   *)
(* (ws_server.cpp:63-131, one connection).  Which of several connections   *)
(* is let in is Session's subject.                                         *)
(*                                                                         *)
(* A lane's samples are numbered from 1 in the order they were spoken;     *)
(* silence is 0.                                                           *)
(***************************************************************************)
EXTENDS WireProtocol, WavReader, FiniteSets, SequencesExt

CONSTANTS CHUNK_SAMPLES,  \* samples in a frame, of either client
          Quanta,         \* sizes the worklet posts
          TailChunks,     \* the test client's trailing silence, in chunks
          Files,          \* the files the test client may be given
          MaxSpoken,      \* bound: samples spoken in a lane
          MaxLost         \* bound: connections that drop

ASSUME AudioAssumption ==
  /\ CHUNK_SAMPLES \in Nat \ {0} /\ Quanta \subseteq Nat \ {0}
  /\ {TailChunks, MaxSpoken, MaxLost} \subseteq Nat
ASSUME FilesAssumption == \A f \in Files : RiffFile(f)

VARIABLES
  client,    \* "extension" or "wav_client"
  socket,    \* the client's socket: "connecting", "open", "stopped"
  conn,      \* number of the connection, from 1
  wire,      \* messages in flight: [text] or [bytes]
  seen,      \* server: helloSeen_ of this connection
  heard,     \* server: per lane the frames given to onAudio, with their connection
  spoken, acc,   \* extension: samples posted, accumulators
  files, mic, off, tail, step  \* test client: its files, what it read, where it is

ext == <<spoken, acc>>
wav == <<files, mic, off, tail, step>>
vars == <<client, socket, conn, wire, seen, heard, ext, wav>>

Text(t) == [text |-> t, bytes |-> <<>>, binary |-> FALSE]
Binary(b) == [text |-> <<>>, bytes |-> b, binary |-> TRUE]

Init ==
  /\ client \in {"extension", "wav_client"}
  /\ socket = "connecting" /\ conn = 1 /\ wire = <<>> /\ seen = FALSE
  /\ heard = [l \in StreamIds |-> <<>>]
  /\ spoken = [l \in StreamIds |-> 0]
  /\ acc = [l \in StreamIds |-> [samples |-> [i \in 1 .. CHUNK_SAMPLES |-> 0], fill |-> 0]]
  /\ files \in IF client = "extension" THEN {<<>>} ELSE [StreamIds -> Files]
  /\ mic = [l \in StreamIds |-> <<>>] /\ off = 0 /\ tail = 0
  /\ step = IF client = "extension" THEN "none" ELSE "read"

-----------------------------------------------------------------------------
(* The socket.  What a client sends while it is not open is gone.          *)

SendAll(messages) == wire' = IF socket = "open" THEN wire \o messages ELSE wire

\* The extension says hello on every connection, the test client on the first.
SocketOpens ==
  /\ socket = "connecting" /\ socket' = "open"
  /\ wire' = IF client = "extension" THEN <<Text(HelloText)>> ELSE <<>>
  /\ step' = IF step = "connect" THEN "hello" ELSE step
  /\ step \notin {"read", "refused", "failed", "done"}
  /\ UNCHANGED <<client, conn, seen, heard, ext, files, mic, off, tail>>

\* Messages the server has not read are lost with the connection; both
\* clients connect again, the extension by its timer, ix by itself.
SocketDrops ==
  /\ socket = "open" /\ conn <= MaxLost
  /\ socket' = "connecting" /\ conn' = conn + 1 /\ wire' = <<>> /\ seen' = FALSE
  /\ UNCHANGED <<client, heard, ext, wav>>

-----------------------------------------------------------------------------
(* The extension.                                                          *)

\* One pass of makeAccumulator's loop over the posted samples mono.
\* Mutant: the next pass starts at the end of the chunk, whatever was taken.
Pass_WholeChunks(l, mono, st) ==
  LET take == (CHUNK_SAMPLES - st.fill)
      room == Len(mono) - st.off
      n == IF take < room THEN take ELSE room
      filled == [i \in 1 .. CHUNK_SAMPLES |->
                   IF i > st.fill /\ i <= st.fill + n THEN mono[st.off + i - st.fill]
                   ELSE st.samples[i]]
      full == st.fill + n = CHUNK_SAMPLES
  IN [samples |-> filled, fill |-> IF full THEN 0 ELSE st.fill + n,
      off |-> st.off + CHUNK_SAMPLES,
      frames |-> IF full THEN Append(st.frames, Binary(ExtensionFrame(l, 1, filled)))
                 ELSE st.frames]
Pass(l, mono, st) ==
  LET take == (CHUNK_SAMPLES - st.fill)
      room == Len(mono) - st.off
      n == IF take < room THEN take ELSE room
      filled == [i \in 1 .. CHUNK_SAMPLES |->
                   IF i > st.fill /\ i <= st.fill + n THEN mono[st.off + i - st.fill]
                   ELSE st.samples[i]]
      full == st.fill + n = CHUNK_SAMPLES
  IN [samples |-> filled, fill |-> IF full THEN 0 ELSE st.fill + n,
      off |-> st.off + n,
      frames |-> IF full THEN Append(st.frames, Binary(ExtensionFrame(l, 1, filled)))
                 ELSE st.frames]

Accumulate(l, mono) ==
  LET after[i \in 0 .. Len(mono)] ==
        IF i = 0 THEN [samples |-> acc[l].samples, fill |-> acc[l].fill, off |-> 0,
                       frames |-> <<>>]
        ELSE IF after[i - 1].off < Len(mono) THEN Pass(l, mono, after[i - 1])
        ELSE after[i - 1]
  IN after[Len(mono)]

\* The worklet posts a quantum of mono samples.
Quantum(l, n) ==
  LET st == Accumulate(l, [i \in 1 .. n |-> spoken[l] + i])
  IN /\ client = "extension" /\ spoken[l] + n <= MaxSpoken
     /\ spoken' = [spoken EXCEPT ![l] = @ + n]
     /\ acc' = [acc EXCEPT ![l] = [samples |-> st.samples, fill |-> st.fill]]
     /\ SendAll(st.frames)
     /\ UNCHANGED <<client, socket, conn, seen, heard, wav>>

-----------------------------------------------------------------------------
(* The test client: main(), step by step.                                  *)

\* A file that is not PCM16 mono or not 16 kHz ends it with code 2.
WavFileOf(l) == WavFile(files[l].magic, files[l].chunks)
WavOf(l) == ReadWavPcm16Mono(WavFileOf(l))
Readings(l) == {WavOf(l)} \cup (IF WavOf(l) = Astray THEN Misread(WavFileOf(l)) ELSE {})
Usable(reading) == reading.ok /\ reading.rate = Rate16k
ReadFiles ==
  /\ step = "read"
  /\ \E m \in Readings(0), t \in Readings(1) :
       IF Usable(m) /\ Usable(t)
       THEN /\ step' = "connect"
            /\ mic' = [l \in StreamIds |-> IF l = 0 THEN m.samples ELSE t.samples]
       ELSE step' = "refused" /\ UNCHANGED mic
  /\ UNCHANGED <<client, socket, conn, wire, seen, heard, ext, files, off, tail>>

\* A byte written behind a vector may end the process, then or later; the
\* second file is read only if the first one is taken.
Crashes ==
  /\ step \notin {"none", "refused", "failed", "done", "crashed"} /\ step' = "crashed"
  /\ \/ ~WavOf(0).sound
     \/ ~WavOf(1).sound /\ \E m \in Readings(0) : Usable(m)
  /\ socket' = "stopped" /\ wire' \in {wire, <<>>}
  /\ UNCHANGED <<client, conn, seen, heard, ext, files, mic, off, tail>>

\* Five seconds pass without a connection: code 3.
GiveUp ==
  /\ step = "connect" /\ socket = "connecting" /\ step' = "failed"
  /\ UNCHANGED <<client, socket, conn, wire, seen, heard, ext, files, mic, off, tail>>

SayHello ==
  /\ step = "hello" /\ step' = "stream" /\ SendAll(<<Text(HelloText)>>)
  /\ UNCHANGED <<client, socket, conn, seen, heard, ext, files, mic, off, tail>>

\* One round of the loop: a chunk of each lane that has one left.
Piece(l) ==
  IF off >= Len(mic[l]) THEN <<>>
  ELSE SubSeq(mic[l], off + 1, IF off + CHUNK_SAMPLES < Len(mic[l]) THEN off + CHUNK_SAMPLES
                               ELSE Len(mic[l]))
ChunkAt(l) ==
  IF off >= Len(mic[l]) THEN <<>> ELSE <<Binary(SerializeBinaryFrame(l, 1, Piece(l)))>>
SendChunks ==
  /\ step = "stream"
  /\ IF \E l \in StreamIds : off < Len(mic[l])
     THEN off' = off + CHUNK_SAMPLES /\ SendAll(ChunkAt(0) \o ChunkAt(1)) /\ UNCHANGED step
     ELSE step' = "tail" /\ UNCHANGED <<off, wire>>
  /\ UNCHANGED <<client, socket, conn, seen, heard, ext, files, mic, tail>>

Zeros(n) == [i \in 1 .. n |-> 0]
Silence(l) == <<Binary(SerializeBinaryFrame(l, 1, Zeros(CHUNK_SAMPLES)))>>
SendSilence ==
  /\ step = "tail" /\ tail < TailChunks /\ tail' = tail + 1
  /\ SendAll(Silence(0) \o Silence(1))
  /\ UNCHANGED <<client, socket, conn, seen, heard, ext, files, mic, off, step>>

SayBye ==
  /\ step = "tail" /\ tail = TailChunks /\ step' = "bye" /\ SendAll(<<Text(ByeText)>>)
  /\ UNCHANGED <<client, socket, conn, seen, heard, ext, files, mic, off, tail>>

\* ws.stop() after 200 ms, in which the server reads what was sent.
StopClient ==
  /\ step = "bye" /\ wire = <<>> /\ step' = "done" /\ socket' = "stopped"
  /\ UNCHANGED <<client, conn, wire, seen, heard, ext, files, mic, off, tail>>

-----------------------------------------------------------------------------
(* The server's message callback.                                          *)

ReadText ==
  /\ wire # <<>> /\ ~Head(wire).binary
  /\ seen' = (seen \/ Supported(ParseHello(Head(wire).text)))
  /\ UNCHANGED heard

\* Audio before hello, and frames that do not parse, are dropped.
ReadAudio ==
  LET frame == ParseBinaryFrame(Head(wire).bytes)
  IN /\ wire # <<>> /\ Head(wire).binary
     /\ heard' = IF seen /\ frame # <<>>
                 THEN [heard EXCEPT ![frame[1].stream] =
                         Append(@, [conn |-> conn, samples |-> frame[1].samples])]
                 ELSE heard
     /\ UNCHANGED seen

ServerReads ==
  /\ ReadText \/ ReadAudio
  /\ wire' = Tail(wire)
  /\ UNCHANGED <<client, socket, conn, ext, wav>>

Next ==
  \/ SocketOpens \/ SocketDrops \/ ServerReads
  \/ \E l \in StreamIds, n \in Quanta : Quantum(l, n)
  \/ ReadFiles \/ Crashes \/ GiveUp \/ SayHello \/ SendChunks \/ SendSilence \/ SayBye \/ StopClient

Spec == Init /\ [][Next]_vars

-----------------------------------------------------------------------------
(* Properties.                                                             *)

Heard(l) == FlattenSeq([i \in 1 .. Len(heard[l]) |-> heard[l][i].samples])

\* What the extension says reaches onAudio whole: every frame holds a full
\* chunk of consecutive samples of its lane, no sample comes twice, and the
\* frames of one connection follow each other without a gap, whatever sizes
\* the worklet posts and wherever a connection drops
\* (offscreen.js:50-62, protocol.cpp:23-58).
SpeechIsContiguous ==
  client = "extension" =>
    \A l \in StreamIds : LET f == heard[l] IN
      /\ \A i \in 1 .. Len(f) : /\ Len(f[i].samples) = CHUNK_SAMPLES
                               /\ \A j \in 2 .. CHUNK_SAMPLES :
                                    f[i].samples[j] = f[i].samples[1] + j - 1
      /\ \A i \in 2 .. Len(f) :
           LET follows == f[i].samples[1] - Last(f[i - 1].samples)
           IN IF f[i].conn = f[i - 1].conn THEN follows = 1 ELSE follows >= 1

\* The list of chunks read the way a person would: the first data chunk is the
\* audio, if it is complete and behind a fmt chunk that says what is needed.
IsAudio(cs, d) ==
  /\ cs[d].id = "data" /\ Complete(cs[d])
  /\ \A k \in 1 .. d - 1 : cs[k].id # "data"
  /\ \E k \in 1 .. d - 1 :
       /\ cs[k].id = "fmt " /\ cs[k].declared >= FmtSize
       /\ cs[k].payload[1] = PcmMono /\ cs[k].payload[2] = Rate16k
AudioOf(f) ==
  IF f.magic # "RIFF" THEN {}
  ELSE {[i \in 1 .. c.declared \div 2 |-> c.payload[2 * i - 1]] :
          c \in {f.chunks[d] : d \in {d \in 1 .. Len(f.chunks) : IsAudio(f.chunks, d)}}}

\* No odd fmt chunk before the last chunk, and no odd data chunk.
Sound(f) ==
  \A i \in 1 .. Len(f.chunks) : LET c == f.chunks[i] IN
    Complete(c) /\ c.declared % 2 = 1 =>
      /\ c.id # "data"
      /\ c.id = "fmt " => c.declared < FmtSize \/ i = Len(f.chunks)

\* A test client that got through without losing its connection has delivered
\* exactly the audio of a file, in its lane and followed by the silence that
\* makes the engines finish, unless an odd fmt or data chunk led the reader
\* astray; it crashes only then, and refuses only then or where there is no
\* audio to deliver (wav.cpp:8-14, wav_client/main.cpp:25-131).
FilesArrive ==
  client = "wav_client" =>
    /\ \A l \in StreamIds : Sound(files[l]) =>
         /\ step = "done" /\ conn = 1 =>
              \E a \in AudioOf(files[l]) : Heard(l) = a \o Zeros(TailChunks * CHUNK_SAMPLES)
         /\ step \notin {"read", "refused", "crashed"} => AudioOf(files[l]) # {}
    /\ step = "refused" => \E l \in StreamIds : ~Sound(files[l]) \/ AudioOf(files[l]) = {}
    /\ step = "crashed" => \E l \in StreamIds : ~Sound(files[l])
=============================================================================
