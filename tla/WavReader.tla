----------------------------- MODULE WavReader -----------------------------
(***************************************************************************)
(* readWavPcm16Mono (core/wav.cpp:15-98): the walk over the chunks of a    *)
(* RIFF file by their declared sizes.                                      *)
(*                                                                         *)
(* A file is a sequence of bytes <<part, value>>.  A chunk's id and its    *)
(* size take one cell each; the fields of a fmt payload the reader looks   *)
(* at are two cells, the codec (PcmMono or not) and the rate.              *)
(***************************************************************************)
EXTENDS Integers, Sequences

FmtSize == 2   \* a canonical fmt chunk (16 bytes in a real file)
PcmMono == 1   \* codec 1, one channel, 16 bits
Rate16k == 16

\* What a WAV writer makes of a list of chunks [id, declared, payload]: a
\* payload is padded to an even length, unless the file was cut off in it.
Complete(chunk) == Len(chunk.payload) = chunk.declared
Bytes(chunk) ==
  <<<<chunk.id, 0>>, <<"size", chunk.declared>>>>
    \o [i \in 1 .. Len(chunk.payload) |-> <<"data", chunk.payload[i]>>]
    \o (IF Complete(chunk) /\ chunk.declared % 2 = 1 THEN <<<<"pad", 0>>>> ELSE <<>>)
WavFile(magic, chunks) ==
  LET upTo[n \in 0 .. Len(chunks)] ==
        IF n = 0 THEN <<<<magic, 0>>>> ELSE upTo[n - 1] \o Bytes(chunks[n])
  IN upTo[Len(chunks)]

\* The files there are: one fmt chunk at most, and only the last chunk is cut
\* off.
Chunks == [id : STRING, declared : Nat, payload : Seq(Nat)]
RiffFile(f) ==
  /\ f \in [magic : STRING, chunks : Seq(Chunks)]
  /\ \A i \in 1 .. Len(f.chunks) : LET c == f.chunks[i] IN
       /\ Len(c.payload) <= c.declared
       /\ i < Len(f.chunks) => Complete(c)
       /\ c.id = "fmt " => \A j \in 1 .. Len(f.chunks) : f.chunks[j].id = "fmt " => j = i

-----------------------------------------------------------------------------
\* What the reader returns.  It is not sound once the reader has left what C++
\* and the format define.
Refused == [ok |-> FALSE, samples |-> <<>>, rate |-> 0, sound |-> TRUE]
Astray == [Refused EXCEPT !.sound = FALSE]

\* seekg over a chunk nobody asked for.
\* Mutant: the pad byte is forgotten.
Skip_NoPad(at, size) == at + size
Skip(at, size) == at + size + (size % 2)

\* One round of the loop at w: [at, codec, rate, going, wav], where wav is
\* what the reader returns unless the loop goes on.  Two odd sizes lead it
\* astray.  Behind an odd fmt chunk it does not skip the pad byte and takes
\* what follows for headers, one byte off: the walk ends here, and Misread
\* says what may come of it.  An odd data chunk is read into size \div 2
\* samples, with its last byte behind the vector (wav.cpp:78-79).
ReadChunk(file, w) ==
  LET id == file[w.at][1]
      size == file[w.at + 1][2]
      body == w.at + 2
      whole == body + size - 1 <= Len(file)
      end == [w EXCEPT !.going = FALSE]
  IN CASE w.at + 1 > Len(file) -> end  \* no data chunk
       [] w.at + 1 <= Len(file) /\ id = "fmt " ->
            IF size < FmtSize \/ ~whole THEN end
            ELSE IF size % 2 = 1 /\ body + size < Len(file) THEN [end EXCEPT !.wav = Astray]
            ELSE [w EXCEPT !.at = body + size,
                           !.codec = file[body][2], !.rate = file[body + 1][2]]
       [] w.at + 1 <= Len(file) /\ id = "data" ->
            IF w.codec # PcmMono \/ ~whole THEN end
            ELSE [end EXCEPT !.wav =
                    [ok |-> TRUE, rate |-> w.rate, sound |-> size % 2 = 0,
                     samples |-> [i \in 1 .. size \div 2 |-> file[body + 2 * i - 2][2]]]]
       [] OTHER -> [w EXCEPT !.at = Skip(body, size)]

\* Every round takes two cells or ends the loop.
Walk(file) ==
  LET after[i \in 0 .. Len(file)] ==
        IF i = 0 THEN [at |-> 2, codec |-> 0, rate |-> 0, going |-> TRUE, wav |-> Refused]
        ELSE LET w == after[i - 1] IN IF w.going THEN ReadChunk(file, w) ELSE w
  IN after[Len(file)].wav

ReadWavPcm16Mono(file) ==
  IF Len(file) = 0 \/ file[1][1] # "RIFF" THEN Refused ELSE Walk(file)

\* What a walk gone astray may take for the samples: any run of the file.
Run(file, from, n) == [i \in 1 .. n |-> file[from + 2 * i][2]]
Misread(file) ==
  {[ok |-> TRUE, samples |-> Run(file, r[1], r[2]), rate |-> Rate16k, sound |-> FALSE] :
     r \in {r \in (0 .. Len(file)) \X (0 .. Len(file)) : r[1] + 2 * r[2] <= Len(file)}}
=============================================================================
