---------------------------- MODULE MCAudioPath ----------------------------
(* Files as the test client may be given them: good ones, with odd and      *)
(* unknown chunks around the audio, cut off, of another format, empty, and  *)
(* with the odd fmt and data chunks that lead the reader astray.            *)
EXTENDS AudioPath

Fmt(size, codec, rate) == [id |-> "fmt ", declared |-> size,
                           payload |-> SubSeq(<<codec, rate, 0, 0>>, 1, size)]
List(n) == [id |-> "LIST", declared |-> n, payload |-> [i \in 1 .. n |-> 7]]
Data(n, cut) == [id |-> "data", declared |-> 2 * n,
                 payload |-> [i \in 1 .. 2 * n - cut |-> (i + 1) \div 2]]
OddData(n) == [id |-> "data", declared |-> 2 * n + 1,
               payload |-> [i \in 1 .. 2 * n + 1 |-> (i + 1) \div 2]]
GoodFmt == Fmt(2, PcmMono, Rate16k)
OddFmt == Fmt(3, PcmMono, Rate16k)
TestFiles ==
  {[magic |-> "RIFF", chunks |-> c] :
     c \in {<<GoodFmt, Data(n, 0)>> : n \in {0, 2, 4}}
           \cup {<<List(1), GoodFmt, Data(3, 0)>>, <<GoodFmt, List(3), List(2), Data(3, 0)>>,
                 <<Fmt(4, PcmMono, Rate16k), Data(1, 0), List(1)>>,
                 <<Fmt(1, PcmMono, Rate16k), Data(2, 0)>>, <<Fmt(2, 2, Rate16k), Data(2, 0)>>,
                 <<Fmt(2, PcmMono, 44), Data(2, 0)>>, <<GoodFmt, Data(2, 1)>>,
                 <<Data(2, 0), GoodFmt>>, <<GoodFmt, List(1)>>, <<>>,
                 <<GoodFmt, OddData(1)>>, <<OddFmt, Data(1, 0)>>, <<List(1), OddFmt>>}}
    \cup {[magic |-> "RIFX", chunks |-> <<GoodFmt, Data(2, 0)>>]}
=============================================================================
