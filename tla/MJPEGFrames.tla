----------------------------- MODULE MJPEGFrames -----------------------------
(* format/rtp/mjpeg.go: the JPEG headers a receiver makes up for a frame, since *)
(* RTP does not carry them, and what a player reads in them.  Headers are a     *)
(* sequence of segments; of a table of 64 coefficients only the samples Luma    *)
(* and Chroma are kept, a raw table is one or two units of 64 bytes.            *)
EXTENDS Integers, Sequences, SequencesExt, FiniteSets

\* Quantization tables as the RTP header carries them: the ids of those with 16-bit
\* coefficients, and their bytes.
RawTables(wide, units) == [wide |-> wide, units |-> units]
NoTables == RawTables({}, <<>>)

\* The first, the smallest and the largest coefficient of the standard tables.
Luma   == <<16, 10, 121>>
Chroma == <<17, 17, 99>>

\* A coefficient scaled for a quality, within one byte and never 0.
ScaleFactor(q) ==
    CASE q < 1 -> 5000
      [] q > 99 -> 1
      [] q \in 1..49 -> 5000 \div q
      [] OTHER -> 200 - 2 * q
Scaled(c, q) ==
    LET v == (c * ScaleFactor(q) + 50) \div 100
    IN  CASE v < 1 -> 1 [] v > 255 -> 255 [] OTHER -> v
Quantizers(table, q) == [i \in DOMAIN table |-> Scaled(table[i], q)]

DQT(id, wide, table) == [m |-> "DQT", id |-> id, wide |-> wide, table |-> table]
ComputedTables(q) == <<DQT(0, FALSE, Quantizers(Luma, q)), DQT(1, FALSE, Quantizers(Chroma, q))>>

\* createDQTFromRawTables: up to four tables of one or two units, as long as whole
\* tables are left.
CutTables(raw) ==
    LET Cut(st, id) ==
          LET size == IF id \in raw.wide THEN 2 ELSE 1
          IN  IF st.short \/ st.at + size > Len(raw.units) THEN [st EXCEPT !.short = TRUE]
              ELSE [st EXCEPT !.at = @ + size,
                              !.dqt = Append(@, DQT(id, size = 2,
                                        SubSeq(raw.units, st.at + 1, st.at + size)))]
    IN  FoldLeft(Cut, [at |-> 0, short |-> FALSE, dqt |-> <<>>], <<0, 1, 2, 3>>).dqt

Sampling(type) ==
    LET base == type % 64
    IN  CASE base = 0 -> <<2, 1>> [] base = 2 -> <<1, 1>> [] OTHER -> <<2, 2>>
SOF(type, width, height) ==
    [m |-> "SOF", width |-> 8 * width, height |-> 8 * height,
     sampling |-> Sampling(type), tables |-> <<0, 1, 1>>]
DHT(id, class) == [m |-> "DHT", id |-> id, class |-> class]
HuffmanTables == <<DHT(0, "DC"), DHT(0, "AC"), DHT(1, "DC"), DHT(1, "AC")>>
SOS == [m |-> "SOS", huffman |-> <<0, 1, 1>>]

\* reconstructJPEGHeaders
Headers(type, width, height, q, restart, raw) ==
    <<[m |-> "SOI"], [m |-> "APP0"]>>
    \o (IF q >= 128 /\ raw.units # <<>> THEN CutTables(raw) ELSE ComputedTables(q))
    \o (IF restart > 0 THEN <<[m |-> "DRI", interval |-> restart]>> ELSE <<>>)
    \o <<SOF(type, width, height)>> \o HuffmanTables \o <<SOS>>

(* --------------------------------- A player -------------------------------- *)

\* What a player knows when it comes to the scan: the size, the sampling, the
\* restart interval, and for each of the three components its tables.
Decoded(headers) ==
    LET Of(m)  == SelectSeq(headers, LAMBDA s : s.m = m)
        sof    == Head(Of("SOF"))
        dqt(c) == SelectSeq(Of("DQT"), LAMBDA s : s.id = sof.tables[c])
        dht(c) == SelectSeq(Of("DHT"), LAMBDA s : s.id = Head(Of("SOS")).huffman[c])
    IN  [size |-> <<sof.width, sof.height>>, sampling |-> sof.sampling,
         restart |-> IF Of("DRI") = <<>> THEN 0 ELSE Head(Of("DRI")).interval,
         tables |-> [c \in 1..3 |-> IF dqt(c) = <<>> THEN <<>> ELSE Last(dqt(c)).table],
         huffman |-> \A c \in 1..3 : {s.class : s \in ToSet(dht(c))} = {"DC", "AC"}]
===============================================================================
