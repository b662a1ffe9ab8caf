---------------------------- MODULE WireProtocol ----------------------------
(***************************************************************************)
(* The messages between a client and the desktop app: what the two         *)
(* senders write (offscreen.js sendFrame, protocol.cpp                     *)
(* serializeBinaryFrame) and what the server reads of it (protocol.cpp).   *)
(* There is no shared schema: each side has its own copy of the layout.    *)
(*                                                                         *)
(* A byte is a pair <<part, value>>.  The eight bytes of the timestamp are *)
(* one cell, so that the header has two; a sample has two bytes.           *)
(***************************************************************************)
EXTENDS Naturals, Sequences

kStreamCount == 2
kFrameHeaderSize == 2
StreamIds == 0 .. kStreamCount - 1
NaN == "nan"  \* the part of a timestamp cell that holds no finite number

SampleBytes(samples) ==
  [i \in 1 .. 2 * Len(samples) |->
     <<IF i % 2 = 1 THEN "low" ELSE "high", samples[(i + 1) \div 2]>>]

\* The extension's frame, view.setUint8, setFloat64, setInt16 ...
ExtensionFrame(tag, now, samples) ==
  <<<<"tag", tag>>, <<"ts", now>>>> \o SampleBytes(samples)

\* ... and the desktop's own serializer, which wav_client uses.
SerializeBinaryFrame(streamId, tsMs, samples) ==
  [i \in 1 .. kFrameHeaderSize + 2 * Len(samples) |->
     CASE i = 1 -> <<"tag", streamId>>
       [] i = 2 -> <<"ts", tsMs>>
       [] OTHER -> SampleBytes(samples)[i - kFrameHeaderSize]]

\* An optional frame: <<>> is nullopt.
ParseBinaryFrame(bytes) ==
  LET payload == Len(bytes) - kFrameHeaderSize
  IN IF /\ Len(bytes) >= kFrameHeaderSize
        /\ bytes[1][2] < kStreamCount
        /\ payload % 2 = 0
        /\ bytes[2][1] # NaN
     THEN <<[stream |-> bytes[1][2],
             samples |-> [i \in 1 .. payload \div 2 |->
                            bytes[kFrameHeaderSize + 2 * i - 1][2]]]>>
     ELSE <<>>

\* A text message is the function of its JSON members, or empty when it is
\* not a JSON object.  An absent or ill-typed member keeps HelloInfo's default.
ParseHello(text) ==
  LET Int(name) == IF name \in DOMAIN text /\ text[name] # "text" THEN text[name] ELSE "0"
  IN IF "type" \in DOMAIN text /\ text["type"] = "hello"
     THEN <<[version |-> Int("version"), sampleRate |-> Int("sampleRate"),
             channels |-> Int("channels"),
             format |-> IF "format" \in DOMAIN text THEN text["format"] ELSE ""]>>
     ELSE <<>>
IsBye(text) == "type" \in DOMAIN text /\ text["type"] = "bye"

\* The hello WsServer lets in; the channels are read and not looked at.
Supported(hello) ==
  /\ hello # <<>>
  /\ hello[1].version = "1" /\ hello[1].sampleRate = "16000" /\ hello[1].format = "s16le"
HelloText ==
  [type |-> "hello", version |-> "1", sampleRate |-> "16000", channels |-> "1",
   format |-> "s16le"]
ByeText == [type |-> "bye"]
=============================================================================
