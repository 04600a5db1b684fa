--------------------------- MODULE MultipartProofs ---------------------------
(***************************************************************************)
(* Proofs about Multipart, for any number of senders, streams and messages, *)
(* any size of fragment, buffer and queue, and any number of faults.        *)
(***************************************************************************)
EXTENDS Multipart, LeastElement, SequenceTheorems

Byte == Nat \X Nat
Statuses == {"INCOMPLETE", "COMPLETE", "SEQUENCE_ERROR", "TIMEOUT_ERROR"}
Calls == [status : Statuses, data : Seq(Byte)]
LengthsOr0 == Lengths \cup {0}

\* What the assumptions say of the constants.
LEMMA Parameters ==
    /\ PAYLOAD \in Nat /\ PAYLOAD >= 1 /\ SEQ_MOD \in Nat /\ SEQ_MOD >= 1
    /\ _receive_buffer_len \in Nat /\ _receive_buffer_len >= 1
    /\ _receive_timeout \in Nat /\ RX_SIZE \in Nat /\ RX_SIZE >= 1
    /\ _msg_delay \in Nat /\ MAX_MESSAGES \in Nat /\ MAX_FAULTS \in Nat
    /\ LengthsOr0 \subseteq Nat /\ Lengths \subseteq LengthsOr0 /\ 0 \in LengthsOr0
    /\ Streams # {}
BY MultipartAssumption DEF LengthsOr0

\* A function on 1 .. n is a sequence.
LEMMA FunctionIsSeq ==
    ASSUME NEW S, NEW n \in Nat, NEW f \in [1 .. n -> S]
    PROVE  f \in Seq(S) /\ Len(f) = n
<1>1. f \in Seq(S)
  BY SeqDef
<1>2. Len(f) \in Nat /\ 1 .. Len(f) = 1 .. n
  BY <1>1, LenProperties
<1> QED
  BY <1>1, <1>2

-----------------------------------------------------------------------------
(* What the sketch is handed.                                               *)

\* The pieces one after the other: w[i] are the first i of them.
LEMMA FlattenIs ==
    ASSUME NEW S, NEW ss \in Seq(Seq(S)), NEW w,
           Len(ss) >= 1, w \in [1 .. Len(ss) -> Seq(S)], w[1] = ss[1],
           \A i \in 2 .. Len(ss) : w[i] = w[i - 1] \o ss[i]
    PROVE  FlattenSeq(ss) = w[Len(ss)]
<1> DEFINE n == Len(ss)
           step(f) == [i \in 1 .. n |-> IF i = 1 THEN ss[i] ELSE f[i - 1] \o ss[i]]
           g == CHOOSE f : f = step(f)
<1>1. n \in Nat /\ n >= 1 /\ ~(n = 0)
  OBVIOUS
<1>2. FlattenSeq(ss) = g[n]
  BY <1>1, Zenon DEF FlattenSeq
<1>3. w = step(w)
  <2>1. \A i \in 1 .. n : w[i] = IF i = 1 THEN ss[i] ELSE w[i - 1] \o ss[i]
    <3>1. \A i \in 1 .. n : i = 1 \/ i \in 2 .. n
      BY <1>1
    <3> QED
      BY <3>1
  <2>2. w = [i \in 1 .. n |-> w[i]]
    OBVIOUS
  <2> QED
    BY <2>1, <2>2
<1>4. g = step(g)
  BY <1>3, Zenon
<1>5. \A i \in 1 .. n : g[i] = IF i = 1 THEN ss[i] ELSE g[i - 1] \o ss[i]
  <2> HIDE DEF g
  <2> QED
    BY <1>4
<1> HIDE DEF g, n
<1>6. \A i \in 1 .. n : g[i] = w[i]
  <2> DEFINE D == {i \in 1 .. n : g[i] # w[i]}
  <2> SUFFICES ASSUME D # {}
               PROVE  FALSE
    OBVIOUS
  <2>1. D \subseteq Nat
    BY <1>1
  <2>2. PICK i \in D : \A j \in D : i <= j
    BY <2>1, LeastNat, Zenon
  <2>3. i \in 1 .. n /\ g[i] # w[i]
    BY <2>2
  <2>4. CASE i = 1
    BY <1>5, <2>3, <2>4
  <2>5. CASE i # 1
    <3>1. i \in 2 .. n /\ i - 1 \in 1 .. n /\ ~(i <= i - 1)
      BY <1>1, <2>3, <2>5
    <3>2. i - 1 \notin D
      BY <2>2, <3>1
    <3>3. g[i - 1] = w[i - 1]
      BY <3>1, <3>2
    <3>4. w[i] = w[i - 1] \o ss[i]
      BY <3>1 DEF n
    <3>5. g[i] = g[i - 1] \o ss[i]
      BY <1>5, <2>3, <2>5
    <3> QED
      BY <2>3, <3>3, <3>4, <3>5
  <2> QED
    BY <2>4, <2>5
<1> QED
  BY <1>1, <1>2, <1>6 DEF n

handed(cs) == [i \in DOMAIN cs |-> cs[i].data]

\* A call hands over its bytes.
LEMMA OnePiece ==
    ASSUME NEW call \in Calls
    PROVE  FlattenSeq(handed(<<call>>)) = call.data /\ <<call>> \in Seq(Calls)
<1> DEFINE ss == handed(<<call>>)
           w == [i \in 1 .. 1 |-> call.data]
<1>1. ss \in Seq(Seq(Byte)) /\ Len(ss) = 1 /\ ss[1] = call.data
  <2>1. DOMAIN <<call>> = 1 .. 1 /\ <<call>>[1] = call
    OBVIOUS
  <2>2. ss \in [1 .. 1 -> Seq(Byte)] /\ ss[1] = call.data
    BY <2>1 DEF handed, Calls
  <2> QED
    BY <2>2, FunctionIsSeq
<1>2. w \in [1 .. 1 -> Seq(Byte)] /\ w[1] = call.data
  BY DEF Calls
<1> HIDE DEF ss, w
<1>3. FlattenSeq(ss) = w[1]
  <2>1. 1 .. Len(ss) = 1 .. 1 /\ 2 .. Len(ss) = {} /\ Len(ss) >= 1
    BY <1>1
  <2>2. \A i \in 2 .. Len(ss) : w[i] = w[i - 1] \o ss[i]
    BY <2>1
  <2>3. FlattenSeq(ss) = w[Len(ss)]
    BY <1>1, <1>2, <2>1, <2>2, FlattenIs
  <2> QED
    BY <1>1, <2>3
<1> QED
  BY <1>2, <1>3 DEF ss

\* Bytes cut into pieces, and put together again.
LEMMA Cuts ==
    ASSUME NEW bytes \in Seq(Byte), NEW n \in Nat, NEW cut \in [0 .. n -> 0 .. Len(bytes)], cut[0] = 0,
           \A i \in 1 .. n : cut[i - 1] <= cut[i],
           NEW ss \in [1 .. n -> Seq(Byte)],
           \A i \in 1 .. n : ss[i] = SubSeq(bytes, cut[i - 1] + 1, cut[i])
    PROVE  FlattenSeq(ss) = SubSeq(bytes, 1, cut[n])
<1> DEFINE w == [i \in 1 .. n |-> SubSeq(bytes, 1, cut[i])]
<1>1. ss \in Seq(Seq(Byte)) /\ Len(ss) = n /\ Len(bytes) \in Nat
  BY FunctionIsSeq
<1>2. ASSUME NEW i \in 1 .. n
      PROVE  SubSeq(bytes, 1, cut[i]) \in Seq(Byte)
  <2> DEFINE to == cut[i]
  <2>1. to \in Nat /\ to <= Len(bytes)
    <3>1. i \in 0 .. n
      OBVIOUS
    <3> QED
      BY <1>1, <3>1
  <2> HIDE DEF to
  <2>2. \A k \in 1 .. to : bytes[k] \in Byte
    BY <1>1, <2>1
  <2>3. SubSeq(bytes, 1, to) \in Seq(Byte)
    BY <2>1, <2>2, SubSeqProperties
  <2> QED
    BY <2>3 DEF to
<1>3. w \in [1 .. n -> Seq(Byte)]
  BY <1>2
<1>4. CASE n = 0
  <2>1. FlattenSeq(ss) = ss
    BY <1>1, <1>4 DEF FlattenSeq
  <2>2. ss = <<>>
    <3>1. <<>> \in Seq(Seq(Byte)) /\ Len(<<>>) = 0
      OBVIOUS
    <3>2. Len(ss) = Len(<<>>) /\ \A i \in 1 .. Len(ss) : ss[i] = <<>>[i]
      BY <1>1, <1>4, <3>1
    <3> QED
      BY <1>1, <3>1, <3>2, SeqEqual
  <2>3. SubSeq(bytes, 1, 0) = <<>>
    BY SubSeqEmpty
  <2>4. cut[n] = 0
    BY <1>4
  <2> QED
    BY <2>1, <2>2, <2>3, <2>4
<1>5. CASE n >= 1
  <2>1. ASSUME NEW i \in 1 .. n, i = 1
        PROVE  w[1] = ss[1]
    <3>1. ss[1] = SubSeq(bytes, 0 + 1, cut[1])
      <4>1. 1 - 1 = 0
        OBVIOUS
      <4>2. ss[1] = SubSeq(bytes, cut[1 - 1] + 1, cut[1])
        BY <2>1
      <4> QED
        BY <4>1, <4>2
    <3>2. w[1] = SubSeq(bytes, 1, cut[1])
      BY <2>1
    <3> QED
      BY <3>1, <3>2
  <2>2. ASSUME NEW i \in 2 .. n
        PROVE  w[i] = w[i - 1] \o ss[i]
    <3> DEFINE half == cut[i - 1]
               to == cut[i]
    <3>1. i \in 1 .. n /\ i - 1 \in 1 .. n /\ i \in 0 .. n /\ i - 1 \in 0 .. n
      OBVIOUS
    <3>2. w[i] = SubSeq(bytes, 1, to) /\ w[i - 1] = SubSeq(bytes, 1, half)
      BY <3>1
    <3>3. ss[i] = SubSeq(bytes, half + 1, to)
      BY <3>1
    <3>4. half \in 0 .. Len(bytes) /\ to \in 0 .. Len(bytes) /\ half <= to
      BY <3>1
    <3> HIDE DEF half, to, w
    <3>5. 1 \in 1 .. Len(bytes) + 1 /\ half \in 1 - 1 .. Len(bytes) /\ to \in half .. Len(bytes)
      BY <1>1, <3>4
    <3>6. SubSeq(bytes, 1, half) \o SubSeq(bytes, half + 1, to) = SubSeq(bytes, 1, to)
      BY <3>5, ConcatAdjacentSubSeq
    <3> QED
      BY <3>2, <3>3, <3>6
  <2>3. w[n] = SubSeq(bytes, 1, cut[n])
    BY <1>5
  <2> HIDE DEF w
  <2>4. Len(ss) >= 1 /\ w \in [1 .. Len(ss) -> Seq(Byte)] /\ w[1] = ss[1]
    BY <1>1, <1>3, <1>5, <2>1
  <2>5. \A i \in 2 .. Len(ss) : w[i] = w[i - 1] \o ss[i]
    BY <1>1, <2>2
  <2>6. FlattenSeq(ss) = w[Len(ss)]
    BY <1>1, <2>4, <2>5, FlattenIs
  <2> QED
    BY <1>1, <2>3, <2>6, Zenon
<1> QED
  BY <1>4, <1>5

\* A part of some bytes.
LEMMA PartOf ==
    ASSUME NEW bytes \in Seq(Byte), NEW from \in Nat, NEW to \in Nat,
           from >= 1, from <= to + 1, to <= Len(bytes)
    PROVE  /\ SubSeq(bytes, from, to) \in Seq(Byte)
           /\ Len(SubSeq(bytes, from, to)) = to - from + 1
           /\ \A k \in 1 .. to - from + 1 : SubSeq(bytes, from, to)[k] = bytes[from + k - 1]
<1>1. \A k \in from .. to : bytes[k] \in Byte
  OBVIOUS
<1>2. /\ SubSeq(bytes, from, to) \in Seq(Byte)
      /\ Len(SubSeq(bytes, from, to)) = IF from <= to THEN to - from + 1 ELSE 0
      /\ \A k \in 1 .. to - from + 1 : SubSeq(bytes, from, to)[k] = bytes[from + k - 1]
  BY <1>1, SubSeqProperties
<1> QED
  BY <1>2

\* Full buffers hand over consecutive bytes, each a buffer of them.
LEMMA FullBuffers ==
    ASSUME NEW bytes \in Seq(Byte), NEW n \in Nat, n * _receive_buffer_len <= Len(bytes)
    PROVE  LET cs == fullBuffers(bytes, n)
           IN  /\ cs \in Seq(Calls) /\ Len(cs) = n
               /\ \A i \in 1 .. n :
                    /\ cs[i].status = "INCOMPLETE"
                    /\ cs[i].data = SubSeq(bytes, (i - 1) * _receive_buffer_len + 1, i * _receive_buffer_len)
                    /\ Len(cs[i].data) = _receive_buffer_len
               /\ \A i \in 0 .. n : i * _receive_buffer_len \in 0 .. Len(bytes)
               /\ \A i \in 1 .. n : (i - 1) * _receive_buffer_len <= i * _receive_buffer_len
<1> DEFINE B == _receive_buffer_len
           cs == fullBuffers(bytes, n)
           piece(i) == SubSeq(bytes, (i - 1) * B + 1, i * B)
<1>1. B \in Nat /\ B >= 1 /\ Len(bytes) \in Nat
  BY Parameters
<1>2. ASSUME NEW i \in 0 .. n
      PROVE  i * B \in 0 .. Len(bytes)
  <2>1. i * B <= n * B /\ i * B \in Nat
    BY <1>1
  <2> QED
    BY <1>1, <2>1
<1>3. ASSUME NEW i \in 1 .. n
      PROVE  piece(i) \in Seq(Byte) /\ Len(piece(i)) = B /\ (i - 1) * B <= i * B
  <2> DEFINE half == (i - 1) * B
             to == i * B
  <2>1. half + B = to
    BY <1>1
  <2>2. half \in 0 .. Len(bytes) /\ to \in 0 .. Len(bytes)
    <3>1. i - 1 \in 0 .. n /\ i \in 0 .. n
      OBVIOUS
    <3> QED
      BY <1>2, <3>1
  <2> HIDE DEF half, to
  <2>3. half + 1 \in Nat /\ to \in Nat /\ half + 1 >= 1 /\ half + 1 <= to + 1 /\ to <= Len(bytes) /\ to - (half + 1) + 1 = B
    BY <1>1, <2>1, <2>2
  <2>4. SubSeq(bytes, half + 1, to) \in Seq(Byte) /\ Len(SubSeq(bytes, half + 1, to)) = B
    BY <2>3, PartOf
  <2> QED
    BY <1>1, <2>1, <2>2, <2>4 DEF half, to
<1>4. cs = [i \in 1 .. n |-> Call("INCOMPLETE", piece(i))]
  BY DEF fullBuffers
<1>5. /\ cs \in [1 .. n -> Calls]
      /\ \A i \in 1 .. n : cs[i].status = "INCOMPLETE" /\ cs[i].data = piece(i)
  <2>1. \A i \in 1 .. n : /\ Call("INCOMPLETE", piece(i)) \in Calls
                         /\ Call("INCOMPLETE", piece(i)).status = "INCOMPLETE"
                         /\ Call("INCOMPLETE", piece(i)).data = piece(i)
    BY <1>3 DEF Call, Calls, Statuses
  <2> HIDE DEF piece
  <2> QED
    BY <1>4, <2>1
<1> HIDE DEF cs
<1>6. cs \in Seq(Calls) /\ Len(cs) = n
  BY <1>5, FunctionIsSeq
<1> QED
  BY <1>2, <1>3, <1>5, <1>6 DEF cs

\* The buffers that were full hold the first bytes.
LEMMA FullPieces ==
    ASSUME NEW bytes \in Seq(Byte), NEW n \in Nat, n * _receive_buffer_len <= Len(bytes)
    PROVE  FlattenSeq(handed(fullBuffers(bytes, n))) = SubSeq(bytes, 1, n * _receive_buffer_len)
<1> DEFINE B == _receive_buffer_len
           cs == fullBuffers(bytes, n)
           ss == handed(cs)
           cut == [i \in 0 .. n |-> i * B]
<1>1. /\ cs \in Seq(Calls) /\ Len(cs) = n /\ DOMAIN cs = 1 .. n
      /\ \A i \in 1 .. n : cs[i].data = SubSeq(bytes, (i - 1) * B + 1, i * B)
      /\ \A i \in 0 .. n : i * B \in 0 .. Len(bytes)
      /\ \A i \in 1 .. n : (i - 1) * B <= i * B
  <2>1. cs \in Seq(Calls) /\ Len(cs) = n
    BY FullBuffers
  <2> QED
    BY <2>1, FullBuffers, LenProperties
<1> HIDE DEF cs
<1>2. ss \in [1 .. n -> Seq(Byte)]
  <2>1. \A i \in 1 .. n : cs[i] \in Calls
    BY <1>1
  <2>2. \A i \in 1 .. n : cs[i].data \in Seq(Byte)
    BY <2>1 DEF Calls
  <2> QED
    BY <1>1, <2>2 DEF handed
<1>3. cut \in [0 .. n -> 0 .. Len(bytes)] /\ cut[0] = 0 /\ cut[n] = n * B
  <2>1. cut \in [0 .. n -> 0 .. Len(bytes)]
    BY <1>1
  <2>2. 0 \in 0 .. n /\ n \in 0 .. n /\ 0 * B = 0
    BY Parameters
  <2> QED
    BY <2>1, <2>2
<1>4. ASSUME NEW i \in 1 .. n
      PROVE  cut[i - 1] <= cut[i] /\ ss[i] = SubSeq(bytes, cut[i - 1] + 1, cut[i])
  <2>1. i - 1 \in 0 .. n /\ i \in 0 .. n
    OBVIOUS
  <2>2. cut[i - 1] = (i - 1) * B /\ cut[i] = i * B
    BY <2>1
  <2>3. ss[i] = cs[i].data
    BY <1>1 DEF handed
  <2> HIDE DEF cut, ss
  <2> QED
    BY <1>1, <2>2, <2>3
<1> HIDE DEF ss, cut
<1>5. FlattenSeq(ss) = SubSeq(bytes, 1, cut[n])
  BY <1>2, <1>3, <1>4, Cuts
<1> QED
  BY <1>3, <1>5, Zenon DEF ss, cs

\* With what remains, all of them.
LEMMA AllPieces ==
    ASSUME NEW bytes \in Seq(Byte), NEW n \in Nat, n * _receive_buffer_len <= Len(bytes)
    PROVE  LET last == Call("COMPLETE", remainder(bytes, n))
               cs == fullBuffers(bytes, n) \o <<last>>
           IN  /\ remainder(bytes, n) \in Seq(Byte)
               /\ Len(remainder(bytes, n)) = Len(bytes) - n * _receive_buffer_len
               /\ cs \in Seq(Calls) /\ Len(cs) = n + 1 /\ cs[n + 1] = last
               /\ \A i \in 1 .. n : cs[i] = fullBuffers(bytes, n)[i]
               /\ FlattenSeq(handed(cs)) = bytes
<1> DEFINE B == _receive_buffer_len
           full == fullBuffers(bytes, n)
           rest == remainder(bytes, n)
           last == Call("COMPLETE", rest)
           cs == full \o <<last>>
           ss == handed(cs)
           cut == [i \in 0 .. n + 1 |-> IF i <= n THEN i * B ELSE Len(bytes)]
<1>1. /\ full \in Seq(Calls) /\ Len(full) = n
      /\ \A i \in 1 .. n : full[i].data = SubSeq(bytes, (i - 1) * B + 1, i * B)
      /\ \A i \in 0 .. n : i * B \in 0 .. Len(bytes)
      /\ \A i \in 1 .. n : (i - 1) * B <= i * B
      /\ Len(bytes) \in Nat /\ B \in Nat
  <2>1. Len(bytes) \in Nat /\ B \in Nat
    BY Parameters
  <2> HIDE DEF full
  <2> QED
    BY <2>1, FullBuffers DEF full
<1>2. rest = SubSeq(bytes, n * B + 1, Len(bytes)) /\ rest \in Seq(Byte) /\ Len(rest) = Len(bytes) - n * B
  <2> DEFINE from == n * B
  <2>1. from \in Nat /\ from <= Len(bytes)
    BY <1>1
  <2> HIDE DEF from
  <2>2. from + 1 \in Nat /\ from + 1 >= 1 /\ from + 1 <= Len(bytes) + 1 /\ Len(bytes) <= Len(bytes)
    BY <1>1, <2>1
  <2>3. SubSeq(bytes, from + 1, Len(bytes)) \in Seq(Byte)
        /\ Len(SubSeq(bytes, from + 1, Len(bytes))) = Len(bytes) - (from + 1) + 1
    BY <1>1, <2>2, PartOf
  <2>4. rest = SubSeq(bytes, from + 1, Len(bytes))
    BY DEF remainder, from
  <2>5. Len(bytes) - (from + 1) + 1 = Len(bytes) - from
    BY <1>1, <2>1
  <2> QED
    BY <2>3, <2>4, <2>5 DEF from
<1> HIDE DEF full, rest
<1>3. last \in Calls /\ last.data = rest
  BY <1>2 DEF Call, Calls, Statuses
<1> HIDE DEF last
<1>4. <<last>> \in Seq(Calls) /\ Len(<<last>>) = 1 /\ <<last>>[1] = last
  BY <1>3
<1>5. /\ cs \in Seq(Calls) /\ Len(cs) = n + 1
      /\ \A i \in 1 .. n + 1 : cs[i] = IF i <= n THEN full[i] ELSE <<last>>[i - n]
  BY <1>1, <1>4, ConcatProperties
<1> HIDE DEF cs
<1>6. DOMAIN cs = 1 .. n + 1 /\ cs[n + 1] = last /\ \A i \in 1 .. n : cs[i] = full[i]
  <2>1. DOMAIN cs = 1 .. n + 1
    BY <1>5, LenProperties
  <2>2. n + 1 \in 1 .. n + 1 /\ ~(n + 1 <= n) /\ (n + 1) - n = 1
    OBVIOUS
  <2>3. cs[n + 1] = last
    BY <1>4, <1>5, <2>2
  <2> QED
    BY <1>5, <2>1, <2>3
<1>7. ss \in [1 .. n + 1 -> Seq(Byte)] /\ \A i \in 1 .. n + 1 : ss[i] = cs[i].data
  <2>1. \A i \in 1 .. n + 1 : cs[i] \in Calls
    BY <1>5, <1>6
  <2>2. \A i \in 1 .. n + 1 : cs[i].data \in Seq(Byte)
    BY <2>1 DEF Calls
  <2> QED
    BY <1>6, <2>2 DEF handed
<1>8. /\ cut \in [0 .. n + 1 -> 0 .. Len(bytes)] /\ cut[0] = 0 /\ cut[n + 1] = Len(bytes)
      /\ \A i \in 0 .. n : cut[i] = i * B
  <2>1. ASSUME NEW i \in 0 .. n + 1
        PROVE  (IF i <= n THEN i * B ELSE Len(bytes)) \in 0 .. Len(bytes)
    <3>1. CASE i <= n
      <4>1. i \in 0 .. n
        BY <3>1
      <4> QED
        BY <1>1, <3>1, <4>1
    <3>2. CASE ~(i <= n)
      BY <1>1, <3>2
    <3> QED
      BY <3>1, <3>2
  <2>2. cut \in [0 .. n + 1 -> 0 .. Len(bytes)]
    BY <2>1
  <2>3. 0 \in 0 .. n + 1 /\ n + 1 \in 0 .. n + 1 /\ 0 <= n /\ ~(n + 1 <= n) /\ 0 * B = 0
    BY <1>1
  <2>4. cut[0] = 0 /\ cut[n + 1] = Len(bytes)
    BY <2>3
  <2>5. \A i \in 0 .. n : i \in 0 .. n + 1 /\ i <= n
    OBVIOUS
  <2> QED
    BY <2>2, <2>4, <2>5
<1> HIDE DEF cut, ss
<1>9. ASSUME NEW i \in 1 .. n + 1
      PROVE  cut[i - 1] <= cut[i] /\ ss[i] = SubSeq(bytes, cut[i - 1] + 1, cut[i])
  <2>1. i - 1 \in 0 .. n /\ cut[i - 1] = (i - 1) * B
    BY <1>8
  <2>2. CASE i <= n
    <3>1. i \in 0 .. n /\ i \in 1 .. n
      BY <2>2
    <3>2. cut[i] = i * B /\ ss[i] = full[i].data
      BY <1>6, <1>7, <1>8, <3>1
    <3> QED
      BY <1>1, <2>1, <3>1, <3>2
  <2>3. CASE i = n + 1
    <3>1. i - 1 = n
      BY <2>3
    <3>2. ss[i] = rest /\ cut[i] = Len(bytes) /\ cut[i - 1] = n * B
      BY <1>3, <1>6, <1>7, <1>8, <2>1, <2>3, <3>1
    <3> QED
      BY <1>2, <3>2
  <2> QED
    BY <2>2, <2>3
<1>10. n + 1 \in Nat
  OBVIOUS
<1>11. FlattenSeq(ss) = SubSeq(bytes, 1, cut[n + 1])
  BY <1>7, <1>8, <1>9, <1>10, Cuts
<1>12. SubSeq(bytes, 1, cut[n + 1]) = bytes
  BY <1>8, SubSeqFull
<1> QED
  BY <1>2, <1>5, <1>6, <1>11, <1>12 DEF ss, cs, full, rest, last

-----------------------------------------------------------------------------
(* Types.                                                                   *)

Frames ==
    {f \in [canid : Sender, stream : Streams, seq : 0 .. SEQ_MOD - 1, header : BOOLEAN,
            length : LengthsOr0, data : [1 .. PAYLOAD -> Byte]] : f.header => f.length \in Lengths}

Senders ==
    [msg : 0 .. MAX_MESSAGES, stream : Streams, len : LengthsOr0, index : Nat, seq : Nat,
     gap : 0 .. _msg_delay]

Receivers ==
    [_is_receiving : BOOLEAN, stream : Streams, canid : Sender \cup {0}, length : LengthsOr0,
     received : Nat, buffer : Seq(Byte), expected : Nat, age : 0 .. _receive_timeout]

SenderTypes ==
    /\ snd \in [Sender -> Senders] /\ \A s \in Sender : snd[s].index <= snd[s].len
    /\ sent \in 0 .. MAX_MESSAGES

ChannelTypes ==
    /\ rx \in Seq(Frames) /\ Len(rx) <= RX_SIZE
    /\ faults \in 0 .. MAX_FAULTS /\ headerLost \in BOOLEAN /\ faulty \in BOOLEAN

HistoryTypes ==
    /\ got \in Seq(Byte) /\ source \in [msg : Nat, len : LengthsOr0] /\ undisturbed \in BOOLEAN

ReceiverTypes ==
    /\ rcv \in Receivers /\ Len(rcv.buffer) < _receive_buffer_len
    /\ calls \in Seq(Calls) /\ \A i \in DOMAIN calls : Len(calls[i].data) <= _receive_buffer_len

Types == SenderTypes /\ ChannelTypes /\ HistoryTypes /\ ReceiverTypes

\* What arrives when a frame is sent: nothing, the frame, or the frame twice.
Arrived(f, n) ==
    /\ Len(rx') = Len(rx) + n
    /\ \A j \in 1 .. Len(rx) : rx'[j] = rx[j]
    /\ \A j \in Len(rx) + 1 .. Len(rx) + n : rx'[j] = f
    /\ n = 0 => headerLost' = (headerLost \/ f.header)
    /\ n # 0 => headerLost' = headerLost
    /\ n # 1 => faulty' = TRUE
    /\ n = 1 => faulty' = faulty

\* A frame that is sent is put behind the queue never, once or twice.
LEMMA Arrives ==
    ASSUME ChannelTypes, NEW f \in Frames, sendMessageFragment(f)
    PROVE  ChannelTypes' /\ \E n \in {0, 1, 2} : Arrived(f, n)
<1>1. f.header \in BOOLEAN
  BY DEF Frames
<1>2. RX_SIZE \in Nat /\ MAX_FAULTS \in Nat /\ Len(rx) \in Nat /\ rx \in Seq(Frames) /\ Len(rx) <= RX_SIZE
  BY Parameters DEF ChannelTypes
<1>3. CASE Len(rx) < RX_SIZE /\ rx' = Append(rx, f) /\ UNCHANGED channel
  <2>1. /\ rx' \in Seq(Frames) /\ Len(rx') = Len(rx) + 1
        /\ \A j \in 1 .. Len(rx) : rx'[j] = rx[j]
        /\ rx'[Len(rx) + 1] = f
    BY <1>2, <1>3
  <2>2. \A j \in Len(rx) + 1 .. Len(rx) + 1 : rx'[j] = f
    BY <1>2, <2>1
  <2>3. UNCHANGED <<faults, headerLost, faulty>>
    BY <1>3 DEF channel
  <2>4. Arrived(f, 1)
    BY <2>1, <2>2, <2>3 DEF Arrived
  <2>5. ChannelTypes'
    BY <1>2, <1>3, <2>1, <2>3 DEF ChannelTypes
  <2> QED
    BY <2>4, <2>5
<1>4. ASSUME Lost(f), faults' \in 0 .. MAX_FAULTS
      PROVE  ChannelTypes' /\ Arrived(f, 0)
  <2>1. rx' = rx /\ headerLost' = (headerLost \/ f.header) /\ faulty' = TRUE
    BY <1>4 DEF Lost
  <2>2. \A j \in Len(rx) + 1 .. Len(rx) + 0 : rx'[j] = f
    BY <1>2
  <2> QED
    BY <1>1, <1>2, <1>4, <2>1, <2>2 DEF Arrived, ChannelTypes
<1>5. CASE Len(rx) = RX_SIZE /\ Lost(f) /\ UNCHANGED faults
  BY <1>4, <1>5 DEF ChannelTypes
<1>6. CASE faults < MAX_FAULTS /\ faults' = faults + 1 /\ Lost(f)
  BY <1>2, <1>4, <1>6 DEF ChannelTypes
<1>7. CASE /\ faults < MAX_FAULTS /\ faults' = faults + 1
           /\ Len(rx) + 1 < RX_SIZE /\ rx' = rx \o <<f, f>> /\ faulty' = TRUE /\ UNCHANGED headerLost
  <2> DEFINE two == <<f, f>>
  <2>1. two \in Seq(Frames) /\ Len(two) = 2 /\ two[1] = f /\ two[2] = f
    OBVIOUS
  <2> HIDE DEF two
  <2>2. /\ rx' \in Seq(Frames) /\ Len(rx') = Len(rx) + Len(two)
        /\ \A j \in 1 .. Len(rx) + Len(two) : rx'[j] = IF j <= Len(rx) THEN rx[j] ELSE two[j - Len(rx)]
    <3>1. rx' = rx \o two
      BY <1>7 DEF two
    <3> QED
      BY <1>2, <2>1, <3>1, ConcatProperties
  <2> DEFINE len == Len(rx)
             n == Len(two)
  <2>3. len \in Nat /\ n = 2
    BY <1>2, <2>1
  <2> HIDE DEF len, n
  <2>4. \A j \in 1 .. len : j \in 1 .. len + n /\ j <= len
    BY <2>3
  <2>5. \A j \in len + 1 .. len + 2 : j \in 1 .. len + n /\ ~(j <= len) /\ (j - len = 1 \/ j - len = 2)
    BY <2>3
  <2>6. \A j \in 1 .. len : rx'[j] = rx[j]
    BY <2>2, <2>4 DEF len, n
  <2>7. \A j \in len + 1 .. len + 2 : rx'[j] = f
    BY <2>1, <2>2, <2>5 DEF len, n
  <2>8. Len(rx') = len + 2
    BY <2>2, <2>3 DEF len, n
  <2>9. Len(rx') <= RX_SIZE
    BY <1>2, <1>7, <2>8 DEF len
  <2>10. faults' \in 0 .. MAX_FAULTS
    BY <1>2, <1>7 DEF ChannelTypes
  <2>11. Arrived(f, 2)
    BY <1>7, <2>6, <2>7, <2>8 DEF Arrived, len
  <2>12. ChannelTypes'
    BY <1>7, <2>2, <2>9, <2>10 DEF ChannelTypes
  <2> QED
    BY <2>11, <2>12
<1> QED
  BY <1>3, <1>4, <1>5, <1>6, <1>7 DEF sendMessageFragment

\* The frame that is handled leaves the queue.
LEMMA Handled ==
    ASSUME ChannelTypes, NEW f, Handles(f)
    PROVE  /\ f = rx[1] /\ 1 \in DOMAIN rx /\ f \in Frames
           /\ ChannelTypes' /\ UNCHANGED <<snd, sent, faults, headerLost, faulty>>
           /\ DOMAIN rx = 1 .. Len(rx) /\ DOMAIN rx' = 1 .. Len(rx) - 1
           /\ \A j \in DOMAIN rx' : j + 1 \in DOMAIN rx /\ rx'[j] = rx[j + 1]
<1>1. rx \in Seq(Frames) /\ rx # <<>> /\ f = Head(rx) /\ rx' = Tail(rx)
  BY DEF ChannelTypes, Handles
<1>2. UNCHANGED <<snd, sent, faults, headerLost, faulty>>
  BY DEF Handles, sending, channel
<1>3. /\ Len(rx) \in Nat /\ Len(rx) >= 1 /\ DOMAIN rx = 1 .. Len(rx) /\ f = rx[1] /\ f \in Frames
      /\ rx' \in Seq(Frames) /\ Len(rx') = Len(rx) - 1 /\ DOMAIN rx' = 1 .. Len(rx) - 1
      /\ \A j \in 1 .. Len(rx) - 1 : rx'[j] = rx[j + 1]
  BY <1>1
<1>4. ChannelTypes'
  BY <1>2, <1>3, Parameters DEF ChannelTypes
<1>5. \A j \in 1 .. Len(rx) - 1 : j + 1 \in 1 .. Len(rx)
  BY <1>3
<1> QED
  BY <1>2, <1>3, <1>4, <1>5

\* A fragment is a frame, and sending it leaves a sender within its message.
LEMMA AFragment ==
    ASSUME SenderTypes, NEW s \in Sender
    PROVE  /\ snd[s] \in Senders /\ Fragment(s) \in Frames
           /\ afterFragment(snd[s]) \in Senders
           /\ afterFragment(snd[s]).index <= afterFragment(snd[s]).len
<1> DEFINE m == snd[s]
<1>1. /\ m \in Senders /\ m.len \in Nat /\ m.index \in Nat /\ m.seq \in Nat /\ m.index <= m.len
      /\ m.msg \in Nat /\ m.stream \in Streams /\ m.len \in LengthsOr0 /\ m.msg \in 0 .. MAX_MESSAGES
      /\ m.gap \in 0 .. _msg_delay
  <2>1. m \in Senders /\ m.index <= m.len
    BY DEF SenderTypes
  <2> HIDE DEF m
  <2>2. /\ m.len \in LengthsOr0 /\ m.index \in Nat /\ m.seq \in Nat /\ m.stream \in Streams
        /\ m.msg \in 0 .. MAX_MESSAGES /\ m.gap \in 0 .. _msg_delay
    BY <2>1 DEF Senders
  <2>3. m.len \in Nat /\ m.msg \in Nat
    <3>1. \A k \in 0 .. MAX_MESSAGES : k \in Nat
      BY Parameters
    <3> QED
      BY <2>2, <3>1, Parameters
  <2> QED
    BY <2>1, <2>2, <2>3
<1> HIDE DEF m
<1>2. Fragment(s) \in Frames
  <2> DEFINE data == [k \in 1 .. PAYLOAD |->
                        IF m.index + k <= m.len THEN byteOf(m.msg, m.index + k) ELSE Pad]
  <2>1. data \in [1 .. PAYLOAD -> Byte]
    BY <1>1, Parameters DEF byteOf, Pad, Byte
  <2>2. m.seq % SEQ_MOD \in 0 .. SEQ_MOD - 1
    BY <1>1, Parameters
  <2> HIDE DEF data
  <2>3. [canid |-> s, stream |-> m.stream, seq |-> m.seq % SEQ_MOD, header |-> FALSE,
         length |-> 0, data |-> data] \in Frames
    BY <1>1, <2>1, <2>2, Parameters DEF Frames
  <2> QED
    BY <2>3 DEF Fragment, data, m
<1>3. /\ afterFragment(m) \in Senders
      /\ afterFragment(m).index <= afterFragment(m).len
  <2> DEFINE to == IF m.index + PAYLOAD < m.len THEN m.index + PAYLOAD ELSE m.len
             a == [m EXCEPT !.index = to]
             b == [a EXCEPT !.seq = @ + 1]
  <2>1. to \in Nat /\ to <= m.len
    BY <1>1, Parameters
  <2> HIDE DEF to
  <2>2. a \in Senders /\ a.index = to /\ a.len = m.len
    BY <1>1, <2>1 DEF Senders
  <2> HIDE DEF a
  <2>3. b \in Senders /\ b.index = to /\ b.len = m.len
    BY <2>2 DEF Senders
  <2> HIDE DEF b
  <2>4. 0 \in 0 .. _msg_delay
    BY Parameters
  <2>5. [b EXCEPT !.gap = 0] \in Senders /\ [b EXCEPT !.gap = 0].index = to /\ [b EXCEPT !.gap = 0].len = m.len
    BY <2>3, <2>4 DEF Senders
  <2>6. afterFragment(m) = [b EXCEPT !.gap = 0]
    BY DEF afterFragment, a, b, to
  <2> QED
    BY <2>1, <2>5, <2>6
<1> QED
  BY <1>1, <1>2, <1>3 DEF m

\* A header is a frame.
LEMMA AHeader ==
    ASSUME NEW s \in Sender, NEW stream \in Streams, NEW msg \in 0 .. MAX_MESSAGES, NEW len \in Lengths
    PROVE  Header(s, stream, msg, len) \in Frames
<1> DEFINE data == [k \in 1 .. PAYLOAD |-> byteOf(msg, 0)]
<1>1. data \in [1 .. PAYLOAD -> Byte]
  BY Parameters DEF byteOf, Byte
<1> HIDE DEF data
<1>2. 0 \in 0 .. SEQ_MOD - 1
  BY Parameters
<1>3. [canid |-> s, stream |-> stream, seq |-> 0, header |-> TRUE, length |-> len, data |-> data] \in Frames
  BY <1>1, <1>2, Parameters DEF Frames
<1> QED
  BY <1>3 DEF Header, data

-----------------------------------------------------------------------------
(* A fragment that is taken.                                                *)

\* The quotient and what it leaves.
LEMMA Division ==
    ASSUME NEW a \in Nat, NEW b \in Nat, b >= 1
    PROVE  (a \div b) \in Nat /\ (a \div b) * b <= a /\ a < ((a \div b) * b) + b
<1>1. (a \div b) \in Nat /\ a % b \in 0 .. b - 1 /\ a = (b * (a \div b)) + (a % b)
  OBVIOUS
<1> DEFINE q == a \div b
           p == b * q
<1>2. q * b = p
  BY <1>1
<1>3. p \in Nat
  BY <1>1
<1> HIDE DEF p
<1> QED
  BY <1>1, <1>2, <1>3 DEF p

\* What is in the buffer when the bytes of f have come, and whether the message
\* is complete then.
consumed(f) == rcv.buffer \o SubSeq(f.data, 1, taken(rcv))
completes == rcv.received + taken(rcv) >= rcv.length

\* The bytes are put behind what is there.
LEMMA BytesTaken ==
    ASSUME rcv \in Receivers, NEW f \in Frames
    PROVE  /\ taken(rcv) \in 1 .. PAYLOAD
           /\ consumed(f) \in Seq(Byte) /\ Len(consumed(f)) = Len(rcv.buffer) + taken(rcv)
           /\ \A k \in 1 .. Len(rcv.buffer) : consumed(f)[k] = rcv.buffer[k]
           /\ \A k \in 1 .. taken(rcv) : consumed(f)[Len(rcv.buffer) + k] = f.data[k]
<1> DEFINE n == taken(rcv)
           part == SubSeq(f.data, 1, n)
           have == rcv.buffer
           bytes == have \o part
<1>1. PAYLOAD \in Nat /\ PAYLOAD >= 1 /\ rcv.length \in Nat /\ rcv.received \in Nat /\ have \in Seq(Byte)
  BY Parameters DEF Receivers
<1>2. n \in 1 .. PAYLOAD
  BY <1>1 DEF taken
<1>3. f.data \in [1 .. PAYLOAD -> Byte]
  BY DEF Frames
<1>4. f.data \in Seq(Byte) /\ Len(f.data) = PAYLOAD
  BY <1>1, <1>3, FunctionIsSeq
<1> HIDE DEF n, have
<1>5. part \in Seq(Byte) /\ Len(part) = n /\ \A k \in 1 .. n : part[k] = f.data[k]
  <2>1. n \in Nat /\ 1 <= n + 1 /\ n <= Len(f.data)
    BY <1>1, <1>2, <1>4
  <2>2. /\ SubSeq(f.data, 1, n) \in Seq(Byte) /\ Len(SubSeq(f.data, 1, n)) = n - 1 + 1
        /\ \A k \in 1 .. n - 1 + 1 : SubSeq(f.data, 1, n)[k] = f.data[1 + k - 1]
    BY <1>4, <2>1, PartOf
  <2>3. n - 1 + 1 = n /\ \A k \in 1 .. n : 1 + k - 1 = k
    BY <1>2
  <2> QED
    BY <2>2, <2>3
<1> HIDE DEF part
<1>6. /\ bytes \in Seq(Byte) /\ Len(bytes) = Len(have) + Len(part)
      /\ \A k \in 1 .. Len(have) + Len(part) : bytes[k] = IF k <= Len(have) THEN have[k] ELSE part[k - Len(have)]
  BY <1>1, <1>5, ConcatProperties
<1> DEFINE h == Len(have)
<1>7. h \in Nat
  BY <1>1
<1> HIDE DEF h, bytes
<1>8. \A k \in 1 .. h : k \in 1 .. h + n /\ k <= h
  BY <1>2, <1>7
<1>9. \A k \in 1 .. n : h + k \in 1 .. h + n /\ ~(h + k <= h) /\ (h + k) - h = k
  BY <1>2, <1>7
<1>10. \A k \in 1 .. h : bytes[k] = have[k]
  BY <1>5, <1>6, <1>8 DEF h
<1>11. \A k \in 1 .. n : bytes[h + k] = f.data[k]
  BY <1>5, <1>6, <1>9 DEF h
<1> QED
  BY <1>2, <1>5, <1>6, <1>10, <1>11 DEF n, part, have, bytes, h, consumed

\* The end of a message, or of an attempt.
LEMMA Finished ==
    ASSUME NEW r \in Receivers
    PROVE  /\ finished(r) \in Receivers /\ ~finished(r)._is_receiving
           /\ finished(r).buffer = r.buffer /\ finished(r).expected = r.expected
           /\ finished(r).stream = r.stream /\ finished(r).canid = r.canid
<1> DEFINE a == [r EXCEPT !._is_receiving = FALSE]
           b == [a EXCEPT !.length = 0]
           c == [b EXCEPT !.received = 0]
<1>1. /\ a \in Receivers /\ ~a._is_receiving /\ a.buffer = r.buffer /\ a.expected = r.expected
      /\ a.stream = r.stream /\ a.canid = r.canid
  BY DEF Receivers
<1> HIDE DEF a
<1>2. /\ b \in Receivers /\ ~b._is_receiving /\ b.buffer = r.buffer /\ b.expected = r.expected
      /\ b.stream = r.stream /\ b.canid = r.canid
  BY <1>1, Parameters DEF Receivers
<1> HIDE DEF b
<1>3. /\ c \in Receivers /\ ~c._is_receiving /\ c.buffer = r.buffer /\ c.expected = r.expected
      /\ c.stream = r.stream /\ c.canid = r.canid
  BY <1>2 DEF Receivers
<1> QED
  BY <1>3 DEF finished, a, b, c

\* Counting a fragment changes the expected number only.
LEMMA Counted ==
    ASSUME NEW r \in Receivers
    PROVE  /\ counted(r) \in Receivers /\ counted(r).expected = r.expected + 1
           /\ counted(r)._is_receiving = r._is_receiving /\ counted(r).stream = r.stream
           /\ counted(r).canid = r.canid /\ counted(r).length = r.length
           /\ counted(r).received = r.received /\ counted(r).buffer = r.buffer
<1> DEFINE a == [r EXCEPT !.expected = @ + 1]
           b == [a EXCEPT !.age = 0]
<1>1. /\ a \in Receivers /\ a.expected = r.expected + 1
      /\ a._is_receiving = r._is_receiving /\ a.stream = r.stream /\ a.canid = r.canid
      /\ a.length = r.length /\ a.received = r.received /\ a.buffer = r.buffer
  BY DEF Receivers
<1> HIDE DEF a
<1>2. 0 \in 0 .. _receive_timeout
  BY Parameters
<1>3. /\ b \in Receivers /\ b.expected = a.expected
      /\ b._is_receiving = a._is_receiving /\ b.stream = a.stream /\ b.canid = a.canid
      /\ b.length = a.length /\ b.received = a.received /\ b.buffer = a.buffer
  BY <1>1, <1>2 DEF Receivers
<1>4. b = counted(r)
  BY DEF counted, a, b
<1> HIDE DEF b
<1> QED
  BY <1>1, <1>3, <1>4

\* How often the buffer is full, and that the rest fits in it.
LEMMA Buffers ==
    ASSUME rcv \in Receivers, Len(rcv.buffer) < _receive_buffer_len, NEW f \in Frames
    PROVE  LET full == buffersFilled(Len(consumed(f)), completes)
               rest == Len(consumed(f)) - full * _receive_buffer_len
           IN  /\ full \in Nat /\ full * _receive_buffer_len <= Len(consumed(f))
               /\ rest <= _receive_buffer_len
               /\ ~completes => rest < _receive_buffer_len
<1> DEFINE B == _receive_buffer_len
           len == Len(consumed(f))
           a == IF completes THEN len - 1 ELSE len
           full == a \div B
           p == full * B
<1>1. B \in Nat /\ B >= 1 /\ len \in Nat /\ len >= 1
  <2>1. taken(rcv) \in 1 .. PAYLOAD /\ len = Len(rcv.buffer) + taken(rcv) /\ rcv.buffer \in Seq(Byte)
    BY BytesTaken DEF Receivers
  <2>2. Len(rcv.buffer) \in Nat
    BY <2>1
  <2> HIDE DEF len
  <2> QED
    BY <2>1, <2>2, Parameters
<1> HIDE DEF len
<1>2. a \in Nat /\ a <= len /\ len <= a + 1 /\ (~completes => a = len)
  BY <1>1
<1> HIDE DEF a
<1>3. full \in Nat /\ p <= a /\ a < p + B
  BY <1>1, <1>2, Division
<1>4. p \in Nat
  BY <1>1, <1>3
<1>5. full = buffersFilled(len, completes)
  BY DEF buffersFilled, a
<1> HIDE DEF full, p, B
<1>6. p <= len /\ len - p <= B /\ (~completes => len - p < B)
  BY <1>1, <1>2, <1>3, <1>4
<1> QED
  BY <1>3, <1>5, <1>6 DEF p, len, B

\* Bytes put one behind the other.
LEMMA Associative ==
    \A s, t, u \in Seq(Byte) : (s \o t) \o u = s \o (t \o u)
<1> TAKE s, t, u \in Seq(Byte)
<1> HIDE DEF Byte
<1> QED
  BY ConcatAssociative

\* A fragment of a message that is not complete yet: the buffers that are full
\* are handed over and nothing is lost.
LEMMA Taken ==
    ASSUME Types, NEW f \in Frames, Consume(f), ~completes
    PROVE  /\ ReceiverTypes' /\ got' \in Seq(Byte)
           /\ rcv'._is_receiving /\ rcv'.expected = rcv.expected + 1
           /\ rcv'.stream = rcv.stream /\ rcv'.canid = rcv.canid /\ rcv'.length = rcv.length
           /\ rcv'.received = rcv.received + taken(rcv)
           /\ got' \o rcv'.buffer = got \o consumed(f)
           /\ \A i \in DOMAIN calls' : calls'[i].status = "INCOMPLETE"
<1> DEFINE B == _receive_buffer_len
           n == taken(rcv)
           bytes == consumed(f)
           full == buffersFilled(Len(bytes), completes)
           p == full * B
           rest == remainder(bytes, full)
           cs == fullBuffers(bytes, full)
           a == [counted(rcv) EXCEPT !.received = @ + n]
           r == [a EXCEPT !.buffer = rest]
<1>1. rcv' = r /\ surface(cs \o <<>>) /\ rcv._is_receiving
  <2>1. [counted(rcv) EXCEPT !.received = @ + n, !.buffer = rest] = r
    OBVIOUS
  <2> QED
    BY <2>1 DEF Consume, consumed, completes
<1>2. rcv \in Receivers /\ Len(rcv.buffer) < B /\ got \in Seq(Byte)
  BY DEF Types, ReceiverTypes, HistoryTypes
<1>3. n \in Nat /\ bytes \in Seq(Byte) /\ Len(bytes) \in Nat
  BY <1>2, BytesTaken, Parameters
<1>4. full \in Nat /\ p <= Len(bytes) /\ Len(bytes) - p < B /\ p \in Nat
  <2>1. full \in Nat /\ p <= Len(bytes) /\ Len(bytes) - p < B
    BY <1>2, Buffers
  <2> HIDE DEF full
  <2> QED
    BY <2>1, Parameters
<1> HIDE DEF bytes, n, full
<1>5. rest \in Seq(Byte) /\ Len(rest) < B
  <2>1. rest \in Seq(Byte) /\ Len(rest) = Len(bytes) - p
    BY <1>3, <1>4, AllPieces
  <2> HIDE DEF rest
  <2> QED
    BY <1>4, <2>1
<1>6. /\ cs \in Seq(Calls)
      /\ \A i \in DOMAIN cs : cs[i].status = "INCOMPLETE" /\ Len(cs[i].data) <= B
  <2>1. /\ cs \in Seq(Calls) /\ Len(cs) = full
        /\ \A i \in 1 .. full : cs[i].status = "INCOMPLETE" /\ Len(cs[i].data) = B
    <3> HIDE DEF cs
    <3> QED
      BY <1>3, <1>4, FullBuffers DEF cs
  <2> HIDE DEF cs
  <2>2. DOMAIN cs = 1 .. full
    BY <2>1, LenProperties
  <2> QED
    BY <2>1, <2>2, Parameters
<1>7. FlattenSeq(handed(cs)) = SubSeq(bytes, 1, p)
  BY <1>3, <1>4, FullPieces
<1>8. SubSeq(bytes, 1, p) \in Seq(Byte) /\ SubSeq(bytes, 1, p) \o rest = bytes
  <2>1. 1 \in 1 .. Len(bytes) + 1 /\ p \in 1 - 1 .. Len(bytes) /\ Len(bytes) \in p .. Len(bytes)
    BY <1>3, <1>4
  <2> HIDE DEF p
  <2>2. SubSeq(bytes, 1, p) \o SubSeq(bytes, p + 1, Len(bytes)) = SubSeq(bytes, 1, Len(bytes))
    BY <1>3, <2>1, ConcatAdjacentSubSeq
  <2>3. SubSeq(bytes, 1, Len(bytes)) = bytes
    BY <1>3, SubSeqFull
  <2>4. rest = SubSeq(bytes, p + 1, Len(bytes))
    BY DEF remainder, p
  <2>5. SubSeq(bytes, 1, p) \in Seq(Byte)
    <3>1. p \in Nat /\ 1 <= p + 1 /\ p <= Len(bytes) /\ 1 >= 1 /\ 1 \in Nat
      BY <1>4 DEF p
    <3> QED
      BY <1>3, <3>1, PartOf
  <2> QED
    BY <2>2, <2>3, <2>4, <2>5
<1> HIDE DEF rest
<1>9. /\ r \in Receivers /\ r.buffer = rest /\ r.expected = rcv.expected + 1
      /\ r._is_receiving /\ r.stream = rcv.stream /\ r.canid = rcv.canid /\ r.length = rcv.length
      /\ r.received = rcv.received + n
  <2> DEFINE c == counted(rcv)
  <2>1. /\ c \in Receivers /\ c.expected = rcv.expected + 1 /\ c._is_receiving = rcv._is_receiving
        /\ c.stream = rcv.stream /\ c.canid = rcv.canid /\ c.length = rcv.length
        /\ c.received = rcv.received
    BY <1>2, Counted
  <2> HIDE DEF c
  <2>2. /\ [c EXCEPT !.received = @ + n] \in Receivers
        /\ [c EXCEPT !.received = @ + n].expected = c.expected
        /\ [c EXCEPT !.received = @ + n]._is_receiving = c._is_receiving
        /\ [c EXCEPT !.received = @ + n].stream = c.stream
        /\ [c EXCEPT !.received = @ + n].canid = c.canid
        /\ [c EXCEPT !.received = @ + n].length = c.length
        /\ [c EXCEPT !.received = @ + n].received = c.received + n
    BY <1>3, <2>1 DEF Receivers
  <2>3. a = [c EXCEPT !.received = @ + n]
    BY DEF a, c
  <2> HIDE DEF a
  <2>4. /\ a \in Receivers /\ a.expected = rcv.expected + 1 /\ a._is_receiving = rcv._is_receiving
        /\ a.stream = rcv.stream /\ a.canid = rcv.canid /\ a.length = rcv.length
        /\ a.received = rcv.received + n
    BY <2>1, <2>2, <2>3
  <2>5. /\ r \in Receivers /\ r.buffer = rest /\ r.expected = a.expected
        /\ r._is_receiving = a._is_receiving /\ r.stream = a.stream /\ r.canid = a.canid
        /\ r.length = a.length /\ r.received = a.received
    BY <1>5, <2>4 DEF Receivers
  <2> HIDE DEF r
  <2> QED
    BY <1>1, <2>4, <2>5
<1> HIDE DEF r, a
<1>10. calls' = cs /\ got' = got \o SubSeq(bytes, 1, p)
  <2>1. cs \o <<>> = cs
    BY <1>6, ConcatEmptySeq
  <2> HIDE DEF cs
  <2>2. calls' = cs /\ got' = got \o FlattenSeq([i \in DOMAIN cs |-> cs[i].data])
    BY <1>1, <2>1 DEF surface
  <2> QED
    BY <1>7, <2>2 DEF handed, cs
<1> HIDE DEF cs, p, B
<1>11. got' \in Seq(Byte) /\ got' \o rcv'.buffer = got \o bytes
  <2> DEFINE first == SubSeq(bytes, 1, p)
  <2>1. first \in Seq(Byte) /\ first \o rest = bytes /\ got' = got \o first
    BY <1>8, <1>10
  <2> HIDE DEF first
  <2>2. got \o first \in Seq(Byte)
    BY <1>2, <2>1, ConcatProperties
  <2>3. (got \o first) \o rest = got \o (first \o rest)
    <3>1. got \in Seq(Byte) /\ first \in Seq(Byte) /\ rest \in Seq(Byte)
      BY <1>2, <1>5, <2>1
    <3> QED
      BY <3>1, Associative
  <2>4. rcv'.buffer = rest
    BY <1>1, <1>9
  <2> QED
    BY <2>1, <2>2, <2>3, <2>4
<1>12. ReceiverTypes'
  BY <1>1, <1>5, <1>6, <1>9, <1>10 DEF ReceiverTypes, B
<1> QED
  BY <1>1, <1>6, <1>9, <1>10, <1>11, <1>12 DEF bytes, n

\* The fragment that completes a message: all that was received has been handed
\* over then, the last of it as COMPLETE.
LEMMA Completed ==
    ASSUME Types, NEW f \in Frames, Consume(f), completes
    PROVE  /\ ReceiverTypes' /\ got' = got \o consumed(f) /\ got' \in Seq(Byte)
           /\ rcv._is_receiving /\ rcv'.buffer = <<>>
           /\ rcv'._is_receiving => rcv.length = 0 /\ rcv'.length = 0
           /\ rcv'.stream = rcv.stream /\ rcv'.canid = rcv.canid
           /\ rcv'.expected = rcv.expected + 1
           /\ Len(calls') \in DOMAIN calls' /\ calls'[Len(calls')].status = "COMPLETE"
           /\ \A i \in DOMAIN calls' : i = Len(calls') \/ calls'[i].status = "INCOMPLETE"
<1> DEFINE B == _receive_buffer_len
           n == taken(rcv)
           bytes == consumed(f)
           full == buffersFilled(Len(bytes), completes)
           p == full * B
           rest == remainder(bytes, full)
           last == Call("COMPLETE", rest)
           cs == fullBuffers(bytes, full) \o <<last>>
           a == [counted(rcv) EXCEPT !.received = @ + n]
           r == [a EXCEPT !.buffer = <<>>]
<1>1. rcv' = (IF rcv.length > 0 THEN finished(r) ELSE r) /\ surface(cs) /\ rcv._is_receiving
  <2>1. [counted(rcv) EXCEPT !.received = @ + n, !.buffer = <<>>] = r
    OBVIOUS
  <2> QED
    BY <2>1 DEF Consume, consumed, completes
<1>2. rcv \in Receivers /\ Len(rcv.buffer) < B /\ got \in Seq(Byte)
  BY DEF Types, ReceiverTypes, HistoryTypes
<1>3. n \in Nat /\ bytes \in Seq(Byte) /\ Len(bytes) \in Nat
  BY <1>2, BytesTaken, Parameters
<1>4. full \in Nat /\ p <= Len(bytes) /\ Len(bytes) - p <= B
  BY <1>2, Buffers
<1> HIDE DEF bytes, n, full
<1>5. rest \in Seq(Byte) /\ Len(rest) <= B
  <2>1. rest \in Seq(Byte) /\ Len(rest) = Len(bytes) - p
    BY <1>3, <1>4, AllPieces
  <2> HIDE DEF rest
  <2> QED
    BY <1>4, <2>1
<1>6. /\ cs \in Seq(Calls) /\ DOMAIN cs = 1 .. full + 1 /\ Len(cs) = full + 1
      /\ cs[full + 1] = last /\ \A i \in 1 .. full : cs[i] = fullBuffers(bytes, full)[i]
      /\ FlattenSeq(handed(cs)) = bytes
  <2>1. /\ cs \in Seq(Calls) /\ Len(cs) = full + 1
        /\ cs[full + 1] = last /\ \A i \in 1 .. full : cs[i] = fullBuffers(bytes, full)[i]
        /\ FlattenSeq(handed(cs)) = bytes
    BY <1>3, <1>4, AllPieces
  <2> HIDE DEF cs
  <2> QED
    BY <2>1, LenProperties
<1>7. \A i \in 1 .. full : /\ fullBuffers(bytes, full)[i].status = "INCOMPLETE"
                            /\ Len(fullBuffers(bytes, full)[i].data) = B
  <2> DEFINE all == fullBuffers(bytes, full)
  <2> HIDE DEF all
  <2>1. \A i \in 1 .. full : all[i].status = "INCOMPLETE" /\ Len(all[i].data) = B
    BY <1>3, <1>4, FullBuffers DEF all
  <2> QED
    BY <2>1 DEF all
<1>8. last.status = "COMPLETE" /\ last.data = rest
  BY DEF Call
<1> HIDE DEF last, cs
<1>9. /\ \A i \in DOMAIN cs : i = Len(cs) \/ cs[i].status = "INCOMPLETE"
      /\ \A i \in DOMAIN cs : Len(cs[i].data) <= B
      /\ Len(cs) \in DOMAIN cs /\ cs[Len(cs)].status = "COMPLETE"
  <2>1. \A i \in 1 .. full + 1 : i = full + 1 \/ i \in 1 .. full
    BY <1>4
  <2>2. \A i \in 1 .. full : cs[i].status = "INCOMPLETE" /\ Len(cs[i].data) = B
    BY <1>6, <1>7
  <2>3. cs[full + 1].status = "COMPLETE" /\ Len(cs[full + 1].data) <= B
    BY <1>5, <1>6, <1>8
  <2>4. full + 1 \in 1 .. full + 1
    BY <1>4
  <2>5. ASSUME NEW i \in DOMAIN cs
        PROVE  (i = Len(cs) \/ cs[i].status = "INCOMPLETE") /\ Len(cs[i].data) <= B
    <3>1. CASE i = full + 1
      BY <1>6, <2>3, <3>1
    <3>2. CASE i \in 1 .. full
      BY <2>2, <3>2, Parameters
    <3> QED
      BY <1>6, <2>1, <3>1, <3>2
  <2>6. Len(cs) = full + 1 /\ DOMAIN cs = 1 .. full + 1
    BY <1>6
  <2>7. cs[Len(cs)].status = "COMPLETE"
    BY <2>3, <2>6, Zenon
  <2> QED
    BY <2>4, <2>5, <2>6, <2>7
<1>10. /\ r \in Receivers /\ r.buffer = <<>> /\ r.expected = rcv.expected + 1 /\ r.length = rcv.length
       /\ r.stream = rcv.stream /\ r.canid = rcv.canid
  <2> DEFINE c == counted(rcv)
  <2>1. /\ c \in Receivers /\ c.expected = rcv.expected + 1 /\ c.length = rcv.length
        /\ c.stream = rcv.stream /\ c.canid = rcv.canid
    BY <1>2, Counted
  <2> HIDE DEF c
  <2>2. /\ [c EXCEPT !.received = @ + n] \in Receivers
        /\ [c EXCEPT !.received = @ + n].expected = c.expected
        /\ [c EXCEPT !.received = @ + n].length = c.length
        /\ [c EXCEPT !.received = @ + n].stream = c.stream
        /\ [c EXCEPT !.received = @ + n].canid = c.canid
    BY <1>3, <2>1 DEF Receivers
  <2>3. a = [c EXCEPT !.received = @ + n]
    BY DEF a, c
  <2> HIDE DEF a
  <2>4. /\ a \in Receivers /\ a.expected = rcv.expected + 1 /\ a.length = rcv.length
        /\ a.stream = rcv.stream /\ a.canid = rcv.canid
    BY <2>1, <2>2, <2>3
  <2>5. /\ r \in Receivers /\ r.buffer = <<>> /\ r.expected = a.expected /\ r.length = a.length
        /\ r.stream = a.stream /\ r.canid = a.canid
    <3> DEFINE none == <<>>
    <3>1. none \in Seq(Byte)
      OBVIOUS
    <3> HIDE DEF none
    <3>2. /\ [a EXCEPT !.buffer = none] \in Receivers /\ [a EXCEPT !.buffer = none].buffer = none
          /\ [a EXCEPT !.buffer = none].expected = a.expected
          /\ [a EXCEPT !.buffer = none].length = a.length
          /\ [a EXCEPT !.buffer = none].stream = a.stream /\ [a EXCEPT !.buffer = none].canid = a.canid
      BY <2>4, <3>1 DEF Receivers
    <3> QED
      BY <3>2 DEF none
  <2> HIDE DEF r
  <2> QED
    BY <2>4, <2>5
<1> HIDE DEF r, a
<1>11. /\ rcv' \in Receivers /\ rcv'.buffer = <<>> /\ rcv'.expected = rcv.expected + 1
       /\ rcv'._is_receiving => rcv.length = 0 /\ rcv'.length = 0
       /\ rcv'.stream = rcv.stream /\ rcv'.canid = rcv.canid
  <2>0. rcv.length \in Nat
    BY <1>2, Parameters DEF Receivers
  <2>1. CASE rcv.length > 0
    BY <1>1, <1>10, <2>1, Finished
  <2>2. CASE rcv.length = 0
    BY <1>1, <1>10, <2>2
  <2> QED
    BY <2>0, <2>1, <2>2
<1>12. calls' = cs /\ got' = got \o bytes
  <2>1. calls' = cs /\ got' = got \o FlattenSeq([i \in DOMAIN cs |-> cs[i].data])
    BY <1>1 DEF surface
  <2> QED
    BY <1>6, <2>1 DEF handed
<1>13. got' \in Seq(Byte)
  BY <1>2, <1>3, <1>12, ConcatProperties
<1>14. ReceiverTypes'
  <2>1. Len(<<>>) < B
    BY Parameters
  <2> HIDE DEF B
  <2>2. Len(rcv'.buffer) < B
    BY <1>11, <2>1
  <2>3. calls' \in Seq(Calls) /\ \A i \in DOMAIN calls' : Len(calls'[i].data) <= B
    BY <1>6, <1>9, <1>12
  <2> QED
    BY <1>11, <2>2, <2>3 DEF ReceiverTypes, B
<1> QED
  BY <1>1, <1>9, <1>11, <1>12, <1>13, <1>14 DEF bytes

-----------------------------------------------------------------------------
(* Types are preserved.                                                     *)

\* Nothing is handed to the sketch.
LEMMA Silent == ASSUME calls' = <<>>
                PROVE  calls' \in Seq(Calls) /\ DOMAIN calls' = {} /\ Len(calls') = 0
OBVIOUS

\* A report of what is in the buffer, whether the last or not.
LEMMA Reported ==
    ASSUME Types, NEW status \in Statuses, surface(<<Call(status, rcv.buffer)>>)
    PROVE  /\ calls' \in Seq(Calls) /\ DOMAIN calls' = {1} /\ Len(calls') = 1
           /\ calls'[1].status = status /\ Len(calls'[1].data) <= _receive_buffer_len
           /\ got' = got \o rcv.buffer /\ got' \in Seq(Byte)
<1> DEFINE call == Call(status, rcv.buffer)
<1>1. rcv.buffer \in Seq(Byte) /\ Len(rcv.buffer) < _receive_buffer_len /\ got \in Seq(Byte)
  BY DEF Types, ReceiverTypes, Receivers, HistoryTypes
<1>2. call \in Calls /\ call.status = status /\ call.data = rcv.buffer
  BY <1>1 DEF Call, Calls
<1> HIDE DEF call
<1>3. calls' = <<call>> /\ got' = got \o FlattenSeq(handed(<<call>>))
  BY DEF surface, handed, call
<1>4. FlattenSeq(handed(<<call>>)) = rcv.buffer
  BY <1>2, OnePiece
<1>5. <<call>> \in Seq(Calls) /\ DOMAIN <<call>> = {1} /\ Len(<<call>>) = 1 /\ <<call>>[1] = call
  BY <1>2
<1>6. got' = got \o rcv.buffer
  BY <1>3, <1>4
<1>7. got' \in Seq(Byte)
  BY <1>1, <1>6, ConcatProperties
<1>8. Len(rcv.buffer) \in Nat
  BY <1>1
<1>9. Len(rcv.buffer) <= _receive_buffer_len
  BY <1>1, <1>8, Parameters
<1> QED
  BY <1>2, <1>3, <1>5, <1>6, <1>7, <1>9

\* Every action keeps the types, and what it does to the queue: a message begins,
LEMMA TypesSend ==
    ASSUME Types, NEW s \in Sender, NEW stream \in Streams, NEW len \in Lengths,
           sendMultipartMessage(s, stream, len)
    PROVE  /\ Types' /\ sent' = sent + 1
           /\ \E n \in {0, 1, 2} : Arrived(Header(s, stream, sent', len), n)
<1> DEFINE m == [msg |-> sent', stream |-> stream, len |-> len, index |-> 0, seq |-> 1,
                 gap |-> snd[s].gap]
<1>1. sent' = sent + 1 /\ sent' \in 0 .. MAX_MESSAGES
  BY Parameters DEF sendMultipartMessage, Types, SenderTypes
<1>2. m \in Senders /\ m.index <= m.len
  <2>1. snd[s] \in Senders
    BY DEF Types, SenderTypes
  <2>2. snd[s].gap \in 0 .. _msg_delay /\ len \in LengthsOr0 /\ len \in Nat
    BY <2>1, Parameters DEF Senders
  <2> QED
    BY <1>1, <2>2 DEF Senders
<1> HIDE DEF m
<1>3. SenderTypes'
  <2>1. snd' = [snd EXCEPT ![s] = m] /\ snd \in [Sender -> Senders]
        /\ \A t \in Sender : snd[t].index <= snd[t].len
    BY DEF sendMultipartMessage, m, Types, SenderTypes
  <2> QED
    BY <1>1, <1>2, <2>1 DEF SenderTypes
<1> DEFINE f == Header(s, stream, sent', len)
<1>4. f \in Frames
  BY <1>1, AHeader
<1>5. sendMessageFragment(f)
  BY DEF sendMultipartMessage
<1> HIDE DEF f
<1>6. ChannelTypes' /\ \E n \in {0, 1, 2} : Arrived(f, n)
  BY <1>4, <1>5, Arrives DEF Types
<1>7. HistoryTypes' /\ ReceiverTypes'
  <2>1. rcv' = rcv /\ calls' = <<>> /\ UNCHANGED <<got, source, undisturbed>>
    BY DEF sendMultipartMessage, history
  <2> QED
    BY <2>1, Silent DEF Types, HistoryTypes, ReceiverTypes
<1> QED
  BY <1>1, <1>3, <1>6, <1>7 DEF Types, f

\* a fragment is sent,
LEMMA TypesSendNext ==
    ASSUME Types, NEW s \in Sender, SendNext(s)
    PROVE  /\ Types' /\ UNCHANGED <<sent, rcv, got, source, undisturbed>> /\ calls' = <<>>
           /\ \E n \in {0, 1, 2} : Arrived(Fragment(s), n)
<1> DEFINE f == Fragment(s)
           m == afterFragment(snd[s])
<1>1. f \in Frames /\ m \in Senders /\ m.index <= m.len
  BY AFragment DEF Types
<1>2. sendMessageFragment(f) /\ snd' = [snd EXCEPT ![s] = m] /\ sent' = sent /\ rcv' = rcv /\ calls' = <<>>
      /\ UNCHANGED <<got, source, undisturbed>>
  BY DEF SendNext, history
<1> HIDE DEF f, m
<1>3. ChannelTypes' /\ \E n \in {0, 1, 2} : Arrived(f, n)
  BY <1>1, <1>2, Arrives DEF Types
<1>4. SenderTypes'
  BY <1>1, <1>2 DEF Types, SenderTypes
<1>5. HistoryTypes' /\ ReceiverTypes'
  BY <1>2, Silent DEF Types, HistoryTypes, ReceiverTypes
<1> QED
  BY <1>2, <1>3, <1>4, <1>5 DEF Types, f

\* The receiver's state at the beginning and after a header.
LEMMA Fresh ==
    /\ atStart \in Receivers /\ ~atStart._is_receiving /\ Len(atStart.buffer) < _receive_buffer_len
    /\ \A f \in Frames, len \in LengthsOr0 :
          /\ begun(f, len) \in Receivers /\ begun(f, len)._is_receiving
          /\ begun(f, len).buffer = <<>> /\ Len(begun(f, len).buffer) < _receive_buffer_len
          /\ begun(f, len).stream = f.stream /\ begun(f, len).canid = f.canid
          /\ begun(f, len).length = len /\ begun(f, len).received = 0 /\ begun(f, len).expected = 1
<1>1. 0 \in 0 .. _receive_timeout /\ 0 \in LengthsOr0 /\ 0 < _receive_buffer_len
  BY Parameters
<1> DEFINE none == <<>>
<1>2. none \in Seq(Byte) /\ Len(none) = 0
  OBVIOUS
<1> HIDE DEF none
<1>3. /\ atStart \in Receivers /\ ~atStart._is_receiving /\ Len(atStart.buffer) < _receive_buffer_len
  <2> DEFINE some == CHOOSE x \in Streams : TRUE
  <2>1. some \in Streams
    BY Parameters
  <2> HIDE DEF some
  <2>2. atStart = [_is_receiving |-> FALSE, stream |-> some, canid |-> 0, length |-> 0, received |-> 0,
                   buffer |-> none, expected |-> 0, age |-> 0]
    BY DEF atStart, some, none
  <2>3. [_is_receiving |-> FALSE, stream |-> some, canid |-> 0, length |-> 0, received |-> 0,
         buffer |-> none, expected |-> 0, age |-> 0] \in Receivers
    BY <1>1, <1>2, <2>1 DEF Receivers
  <2>4. atStart.buffer = none /\ ~atStart._is_receiving
    BY <2>2
  <2> QED
    BY <1>1, <1>2, <2>2, <2>3, <2>4
<1>4. ASSUME NEW f \in Frames, NEW len \in LengthsOr0
      PROVE  /\ begun(f, len) \in Receivers /\ begun(f, len)._is_receiving
             /\ begun(f, len).buffer = none
             /\ begun(f, len).stream = f.stream /\ begun(f, len).canid = f.canid
             /\ begun(f, len).length = len /\ begun(f, len).received = 0 /\ begun(f, len).expected = 1
  <2>1. f.stream \in Streams /\ f.canid \in Sender \cup {0}
    BY DEF Frames
  <2>2. begun(f, len) = [_is_receiving |-> TRUE, stream |-> f.stream, canid |-> f.canid, length |-> len,
                         received |-> 0, buffer |-> none, expected |-> 1, age |-> 0]
    BY DEF begun, none
  <2>3. [_is_receiving |-> TRUE, stream |-> f.stream, canid |-> f.canid, length |-> len,
         received |-> 0, buffer |-> none, expected |-> 1, age |-> 0] \in Receivers
    BY <1>1, <1>2, <2>1 DEF Receivers
  <2> QED
    BY <2>2, <2>3
<1> QED
  BY <1>1, <1>2, <1>3, <1>4 DEF none

\* The header that is followed.
LEMMA TypesStart ==
    ASSUME Types, NEW f \in Frames, StartReceiving(f)
    PROVE  /\ HistoryTypes' /\ ReceiverTypes' /\ calls' = <<>> /\ got' = <<>> /\ undisturbed'
           /\ ~rcv._is_receiving /\ f.seq = 0
           /\ source'.msg = f.data[1][1] /\ rcv'.length = source'.len /\ source'.len \in announced(f)
           /\ rcv'._is_receiving /\ rcv'.buffer = <<>> /\ rcv'.received = 0 /\ rcv'.expected = 1
           /\ rcv'.stream = f.stream /\ rcv'.canid = f.canid
<1>1. PICK len \in announced(f) : rcv' = begun(f, len) /\ source' = [msg |-> f.data[1][1], len |-> len]
  BY DEF StartReceiving
<1>2. ~rcv._is_receiving /\ f.seq = 0 /\ calls' = <<>> /\ got' = <<>> /\ undisturbed' = TRUE
  BY DEF StartReceiving
<1>3. len \in LengthsOr0
  BY Parameters DEF announced, Frames
<1>4. /\ rcv' \in Receivers /\ rcv'._is_receiving /\ rcv'.buffer = <<>> /\ Len(rcv'.buffer) < _receive_buffer_len
      /\ rcv'.stream = f.stream /\ rcv'.canid = f.canid
      /\ rcv'.length = len /\ rcv'.received = 0 /\ rcv'.expected = 1
  BY <1>1, <1>3, Fresh
<1>5. source' \in [msg : Nat, len : LengthsOr0] /\ source'.msg = f.data[1][1] /\ source'.len = len
  <2>1. f.data \in [1 .. PAYLOAD -> Byte] /\ 1 \in 1 .. PAYLOAD
    BY Parameters DEF Frames
  <2>2. f.data[1][1] \in Nat
    BY <2>1 DEF Byte
  <2> HIDE DEF announced
  <2> QED
    BY <1>1, <1>3, <2>2
<1>6. HistoryTypes'
  <2>1. <<>> \in Seq(Byte)
    OBVIOUS
  <2> QED
    BY <1>2, <1>5, <2>1 DEF HistoryTypes
<1>7. ReceiverTypes'
  BY <1>2, <1>4, Silent DEF ReceiverTypes
<1> QED
  BY <1>2, <1>4, <1>5, <1>6, <1>7

\* A frame that is only counted.
LEMMA TypesCounted ==
    ASSUME Types, NEW f \in Frames, DropIdle(f) \/ IgnoreOther(f)
    PROVE  /\ HistoryTypes' /\ ReceiverTypes' /\ rcv' = counted(rcv) /\ calls' = <<>>
           /\ got' = got /\ source' = source /\ (undisturbed' => undisturbed)
<1>1. rcv' = counted(rcv) /\ calls' = <<>>
  BY DEF DropIdle, IgnoreOther
<1>2. rcv \in Receivers /\ Len(rcv.buffer) < _receive_buffer_len
  BY DEF Types, ReceiverTypes
<1>3. rcv' \in Receivers /\ rcv'.buffer = rcv.buffer
  BY <1>1, <1>2, Counted
<1>4. ReceiverTypes'
  <2>1. Len(rcv'.buffer) < _receive_buffer_len
    BY <1>2, <1>3
  <2>2. calls' \in Seq(Calls) /\ DOMAIN calls' = {}
    BY <1>1, Silent
  <2> QED
    BY <1>3, <2>1, <2>2 DEF ReceiverTypes
<1>5. got' = got /\ source' = source /\ undisturbed' \in BOOLEAN /\ (undisturbed' => undisturbed)
  <2>1. got' = got /\ source' = source /\ (undisturbed' = undisturbed \/ undisturbed' = FALSE)
    BY Zenon DEF DropIdle, IgnoreOther, history
  <2>2. undisturbed \in BOOLEAN
    BY DEF Types, HistoryTypes
  <2>3. CASE undisturbed' = undisturbed
    BY <2>1, <2>2, <2>3
  <2>4. CASE undisturbed' = FALSE
    BY <2>1, <2>4
  <2> QED
    BY <2>1, <2>3, <2>4
<1> QED
  BY <1>1, <1>4, <1>5 DEF Types, HistoryTypes

\* A message that is given up.
LEMMA TypesGivenUp ==
    ASSUME Types, NEW status \in Statuses, surface(<<Call(status, rcv.buffer)>>),
           NEW r \in Receivers, r.buffer = rcv.buffer, rcv' = finished(r),
           UNCHANGED <<source, undisturbed>>
    PROVE  /\ HistoryTypes' /\ ReceiverTypes' /\ ~rcv'._is_receiving
<1>1. rcv' \in Receivers /\ rcv'.buffer = rcv.buffer /\ ~rcv'._is_receiving
  BY Finished
<1>2. /\ calls' \in Seq(Calls) /\ \A i \in DOMAIN calls' : Len(calls'[i].data) <= _receive_buffer_len
      /\ got' \in Seq(Byte)
  BY Reported
<1>3. ReceiverTypes'
  BY <1>1, <1>2 DEF Types, ReceiverTypes
<1>4. HistoryTypes'
  BY <1>2 DEF Types, HistoryTypes
<1> QED
  BY <1>1, <1>3, <1>4

\* a fragment out of sequence ends the reception,
LEMMA TypesWrong ==
    ASSUME Types, NEW f \in Frames, WrongSequence(f)
    PROVE  HistoryTypes' /\ ReceiverTypes' /\ ~rcv'._is_receiving
<1>1. rcv \in Receivers
  BY DEF Types, ReceiverTypes
<1>2. counted(rcv) \in Receivers /\ counted(rcv).buffer = rcv.buffer
  BY <1>1, Counted
<1>3. /\ rcv' = finished(counted(rcv)) /\ surface(<<Call("SEQUENCE_ERROR", rcv.buffer)>>)
      /\ UNCHANGED <<source, undisturbed>>
  BY DEF WrongSequence
<1>4. "SEQUENCE_ERROR" \in Statuses
  BY DEF Statuses
<1> HIDE DEF Statuses
<1> QED
  BY <1>2, <1>3, <1>4, TypesGivenUp

\* so does the timeout,
LEMMA TypesTimeOut ==
    ASSUME Types, TimeOut
    PROVE  Types' /\ ~rcv'._is_receiving
<1>1. rcv \in Receivers
  BY DEF Types, ReceiverTypes
<1>2. /\ rcv' = finished(rcv) /\ surface(<<Call("TIMEOUT_ERROR", rcv.buffer)>>)
      /\ UNCHANGED <<snd, sent, rx, source, undisturbed, faults, headerLost, faulty>>
  BY DEF TimeOut, sending, channel
<1>3. "TIMEOUT_ERROR" \in Statuses
  BY DEF Statuses
<1> HIDE DEF Statuses
<1>4. HistoryTypes' /\ ReceiverTypes' /\ ~rcv'._is_receiving
  BY <1>1, <1>2, <1>3, TypesGivenUp
<1>5. SenderTypes' /\ ChannelTypes'
  BY <1>2 DEF Types, SenderTypes, ChannelTypes
<1> QED
  BY <1>4, <1>5 DEF Types

\* A fragment that is taken leaves the source as it is.
LEMMA TypesConsume ==
    ASSUME Types, NEW f \in Frames, Consume(f)
    PROVE  HistoryTypes' /\ ReceiverTypes' /\ UNCHANGED <<source, undisturbed>>
<1>1. UNCHANGED <<source, undisturbed>>
  BY DEF Consume
<1>2. CASE completes
  BY <1>1, <1>2, Completed DEF Types, HistoryTypes
<1>3. CASE ~completes
  BY <1>1, <1>3, Taken DEF Types, HistoryTypes
<1> QED
  BY <1>1, <1>2, <1>3

\* The frame at the head of the queue, and what is done with it.
LEMMA TypesHandle ==
    ASSUME Types, HandleFragment
    PROVE  /\ Types'
           /\ \E f \in Frames :
                 /\ f = rx[1] /\ Handles(f)
                 /\ \/ StartReceiving(f) \/ DropIdle(f) \/ IgnoreOther(f) \/ WrongSequence(f) \/ Consume(f)
<1> DEFINE f == Head(rx)
<1>1. StartReceiving(f) \/ DropIdle(f) \/ IgnoreOther(f) \/ WrongSequence(f) \/ Consume(f)
  BY DEF HandleFragment
<1> HIDE DEF f
<1>2. Handles(f)
  BY <1>1 DEF StartReceiving, DropIdle, IgnoreOther, WrongSequence, Consume
<1>3. f = rx[1] /\ f \in Frames /\ ChannelTypes' /\ UNCHANGED <<snd, sent>>
  BY <1>2, Handled DEF Types
<1>4. SenderTypes'
  BY <1>3 DEF Types, SenderTypes
<1>5. HistoryTypes' /\ ReceiverTypes'
  BY <1>1, <1>3, TypesStart, TypesCounted, TypesWrong, TypesConsume
<1> QED
  BY <1>1, <1>2, <1>3, <1>4, <1>5 DEF Types

\* Time passes: only the timers change.
LEMMA TypesTick ==
    ASSUME Types, Tick
    PROVE  /\ Types' /\ UNCHANGED <<rx, sent, got, source, undisturbed, faults, headerLost, faulty>>
           /\ calls' = <<>>
           /\ rcv'._is_receiving = rcv._is_receiving /\ rcv'.stream = rcv.stream
           /\ rcv'.canid = rcv.canid /\ rcv'.length = rcv.length /\ rcv'.received = rcv.received
           /\ rcv'.buffer = rcv.buffer /\ rcv'.expected = rcv.expected
           /\ \A s \in Sender :
                 /\ snd'[s].msg = snd[s].msg /\ snd'[s].stream = snd[s].stream
                 /\ snd'[s].len = snd[s].len /\ snd'[s].index = snd[s].index
                 /\ snd'[s].seq = snd[s].seq
<1>1. /\ UNCHANGED <<rx, sent, got, source, undisturbed, faults, headerLost, faulty>>
      /\ calls' = <<>>
  BY DEF Tick, history, channel
<1>2. /\ rcv' \in Receivers
      /\ rcv'._is_receiving = rcv._is_receiving /\ rcv'.stream = rcv.stream
      /\ rcv'.canid = rcv.canid /\ rcv'.length = rcv.length /\ rcv'.received = rcv.received
      /\ rcv'.buffer = rcv.buffer /\ rcv'.expected = rcv.expected
  <2> DEFINE later == IF rcv._is_receiving /\ rcv.age < _receive_timeout THEN rcv.age + 1 ELSE rcv.age
  <2>1. rcv \in Receivers
    BY DEF Types, ReceiverTypes
  <2>2. rcv.age \in 0 .. _receive_timeout
    BY <2>1 DEF Receivers
  <2>3. later \in 0 .. _receive_timeout
    BY <2>2, Parameters
  <2>4. rcv' = [rcv EXCEPT !.age = later]
    BY DEF Tick
  <2> HIDE DEF later
  <2> QED
    BY <2>1, <2>3, <2>4 DEF Receivers
<1>3. snd' \in [Sender -> Senders] /\ \A s \in Sender :
         /\ snd'[s].msg = snd[s].msg /\ snd'[s].stream = snd[s].stream
         /\ snd'[s].len = snd[s].len /\ snd'[s].index = snd[s].index
         /\ snd'[s].seq = snd[s].seq
  <2> DEFINE later(s) == IF snd[s].gap < _msg_delay THEN snd[s].gap + 1 ELSE snd[s].gap
             new(s) == [snd[s] EXCEPT !.gap = later(s)]
  <2>1. snd' = [s \in Sender |-> new(s)]
    BY DEF Tick
  <2>2. ASSUME NEW s \in Sender
        PROVE  /\ new(s) \in Senders
               /\ new(s).msg = snd[s].msg /\ new(s).stream = snd[s].stream
               /\ new(s).len = snd[s].len /\ new(s).index = snd[s].index /\ new(s).seq = snd[s].seq
    <3>1. snd[s] \in Senders
      BY DEF Types, SenderTypes
    <3>2. snd[s].gap \in 0 .. _msg_delay
      BY <3>1 DEF Senders
    <3>3. later(s) \in 0 .. _msg_delay
      BY <3>2, Parameters
    <3> HIDE DEF later
    <3> QED
      BY <3>1, <3>3 DEF Senders
  <2> HIDE DEF new
  <2> QED
    BY <2>1, <2>2
<1>4. SenderTypes'
  BY <1>1, <1>3 DEF Types, SenderTypes
<1>5. ChannelTypes' /\ HistoryTypes'
  BY <1>1 DEF Types, ChannelTypes, HistoryTypes
<1>6. ReceiverTypes'
  BY <1>1, <1>2, Silent DEF Types, ReceiverTypes
<1> QED
  BY <1>1, <1>2, <1>3, <1>4, <1>5, <1>6 DEF Types

\* (the state of a sender that has nothing to send)
LEMMA Idle == idle \in Senders /\ idle.index = 0 /\ idle.len = 0
<1> DEFINE some == CHOOSE x \in Streams : TRUE
<1>1. some \in Streams
  BY Parameters
<1> HIDE DEF some
<1>2. idle = [msg |-> 0, stream |-> some, len |-> 0, index |-> 0, seq |-> 0, gap |-> _msg_delay]
  BY DEF idle, some
<1>3. 0 \in 0 .. MAX_MESSAGES /\ _msg_delay \in 0 .. _msg_delay /\ 0 \in LengthsOr0
  BY Parameters
<1> QED
  BY <1>1, <1>2, <1>3 DEF Senders

\* a side restarts.
LEMMA TypesRestart ==
    ASSUME Types, RestartReceiver \/ (\E s \in Sender : RestartSender(s))
    PROVE  /\ Types' /\ calls' = <<>>
           /\ UNCHANGED <<sent, got, source, undisturbed, headerLost>> /\ faulty' = TRUE
           /\ faults' = faults + 1
           /\ \/ snd' = snd /\ rx' = <<>> /\ rcv' = atStart
              \/ rx' = rx /\ rcv' = rcv /\ \E s \in Sender : snd' = [snd EXCEPT ![s] = idle]
<1>1. /\ calls' = <<>> /\ UNCHANGED <<sent, got, source, undisturbed, headerLost>> /\ faulty' = TRUE
      /\ faults < MAX_FAULTS /\ faults' = faults + 1
  BY DEF RestartReceiver, RestartSender, Fault, history
<1>2. faults' \in 0 .. MAX_FAULTS
  BY <1>1, Parameters DEF Types, ChannelTypes
<1>3. HistoryTypes'
  BY <1>1 DEF Types, HistoryTypes
<1>4. CASE RestartReceiver
  <2>1. snd' = snd /\ rx' = <<>> /\ rcv' = atStart
    BY <1>4 DEF RestartReceiver
  <2>2. SenderTypes' /\ ReceiverTypes'
    BY <1>1, <2>1, Fresh, Silent DEF Types, SenderTypes, ReceiverTypes
  <2>3. rx' \in Seq(Frames) /\ Len(rx') <= RX_SIZE
    BY <2>1, Parameters
  <2>4. ChannelTypes'
    BY <1>1, <1>2, <2>3 DEF Types, ChannelTypes
  <2> QED
    BY <1>1, <1>3, <2>1, <2>2, <2>4 DEF Types
<1>5. CASE \E s \in Sender : RestartSender(s)
  <2>1. PICK s \in Sender : snd' = [snd EXCEPT ![s] = idle] /\ rx' = rx /\ rcv' = rcv
    BY <1>5 DEF RestartSender
  <2>2. SenderTypes'
    BY <1>1, <2>1, Idle DEF Types, SenderTypes
  <2>3. ReceiverTypes'
    BY <1>1, <2>1, Silent DEF Types, ReceiverTypes
  <2>4. ChannelTypes'
    BY <1>1, <1>2, <2>1 DEF Types, ChannelTypes
  <2> QED
    BY <1>1, <1>3, <2>1, <2>2, <2>3, <2>4 DEF Types
<1> QED
  BY <1>4, <1>5

\* The types hold at the start,
LEMMA TypesInit == Init => Types
<1> SUFFICES ASSUME Init
             PROVE  Types
  OBVIOUS
<1>1. SenderTypes
  <2>1. \A s \in Sender : snd[s] = idle /\ idle \in Senders /\ idle.index <= idle.len
    BY Idle DEF Init
  <2> QED
    BY <2>1, Parameters DEF Init, SenderTypes
<1>2. rcv \in Receivers /\ Len(rcv.buffer) < _receive_buffer_len
  BY Fresh DEF Init
<1>3. ReceiverTypes
  <2>1. calls \in Seq(Calls) /\ DOMAIN calls = {}
    BY DEF Init
  <2> QED
    BY <1>2, <2>1 DEF ReceiverTypes
<1>4. ChannelTypes
  <2>1. rx \in Seq(Frames) /\ Len(rx) = 0
    BY DEF Init
  <2>2. Len(rx) <= RX_SIZE /\ 0 \in 0 .. MAX_FAULTS
    BY <2>1, Parameters
  <2> QED
    BY <2>1, <2>2 DEF Init, ChannelTypes
<1>5. HistoryTypes
  <2>1. got \in Seq(Byte)
    BY DEF Init
  <2> QED
    BY <2>1, Parameters DEF Init, HistoryTypes
<1> QED
  BY <1>1, <1>3, <1>4, <1>5 DEF Types

\* and every step keeps them.
LEMMA TypesNext == Types /\ [Next]_vars => Types'
<1> SUFFICES ASSUME Types, [Next]_vars
             PROVE  Types'
  OBVIOUS
<1>1. ASSUME NEW s \in Sender, NEW stream \in Streams, NEW len \in Lengths,
             sendMultipartMessage(s, stream, len)
      PROVE  Types'
  BY <1>1, TypesSend
<1>2. ASSUME NEW s \in Sender, SendNext(s)
      PROVE  Types'
  BY <1>2, TypesSendNext
<1>3. CASE HandleFragment
  BY <1>3, TypesHandle
<1>4. CASE TimeOut
  BY <1>4, TypesTimeOut
<1>5. CASE Tick
  BY <1>5, TypesTick
<1>6. CASE RestartReceiver \/ \E s \in Sender : RestartSender(s)
  BY <1>6, TypesRestart
<1>7. CASE UNCHANGED vars
  BY <1>7 DEF vars, sending, history, channel, Types, SenderTypes, ChannelTypes, HistoryTypes, ReceiverTypes
<1> QED
  BY <1>1, <1>2, <1>3, <1>4, <1>5, <1>6, <1>7 DEF Next

-----------------------------------------------------------------------------
(* Theorems that hold whatever the lengths are.                             *)

\* The inductive invariant: the types of what is sent, in the queue, received
\* and handed over, and that the receive buffer is never left full.
THEOREM Inductive == Spec => []Types
<1>1. Init => Types
  BY TypesInit
<1>2. Types /\ [Next]_vars => Types'
  BY TypesNext
<1> QED
  BY <1>1, <1>2, PTL DEF Spec

\* All variables have their types: TypeOK.
THEOREM TypeCorrect == Spec => []TypeOK
<1>1. Types => TypeOK
  <2> SUFFICES ASSUME Types
               PROVE  TypeOK
    OBVIOUS
  <2>1. snd \in [Sender -> [msg : 0 .. MAX_MESSAGES, stream : Streams, len : Lengths \cup {0},
                           index : Nat, seq : Nat, gap : 0 .. _msg_delay]]
        /\ \A s \in Sender : snd[s].index <= snd[s].len
    BY DEF Types, SenderTypes, Senders, LengthsOr0
  <2>2. Len(rx) <= RX_SIZE /\ faults \in 0 .. MAX_FAULTS
    BY DEF Types, ChannelTypes
  <2>3. rcv \in Receivers
    BY DEF Types, ReceiverTypes
  <2>4. /\ rcv._is_receiving \in BOOLEAN /\ rcv.stream \in Streams /\ rcv.length \in Lengths \cup {0}
        /\ rcv.received \in Nat /\ rcv.expected \in Nat /\ rcv.age \in 0 .. _receive_timeout
    BY <2>3 DEF Receivers, LengthsOr0
  <2> QED
    BY <2>1, <2>2, <2>4 DEF TypeOK
<1> QED
  BY <1>1, Inductive, PTL

\* No byte is written behind the end of the receive buffer, and no piece is
\* longer than it, whatever is sent: BufferFits.
THEOREM BuffersNeverOverflow == Spec => []BufferFits
<1>1. Types => BufferFits
  BY DEF Types, ReceiverTypes, BufferFits
<1> QED
  BY <1>1, Inductive, PTL

\* A step that ends a reception tells so once, as the last it tells.
LEMMA StepEndsOnce ==
    ASSUME Types, [Next]_vars
    PROVE  [LET final == {i \in DOMAIN calls' : calls'[i].status # "INCOMPLETE"}
                ended == rcv._is_receiving /\ ~rcv'._is_receiving /\ faults' = faults
            IN  /\ ended => final # {}
                /\ final # {} => /\ final = {Len(calls')}
                                 /\ ended \/ rcv.length = 0]_vars
<1> DEFINE final == {i \in DOMAIN calls' : calls'[i].status # "INCOMPLETE"}
           ended == rcv._is_receiving /\ ~rcv'._is_receiving /\ faults' = faults
           A == (ended => final # {}) /\ (final # {} => (final = {Len(calls')} /\ (ended \/ rcv.length = 0)))
<1> SUFFICES ASSUME ~UNCHANGED vars
             PROVE  A
  OBVIOUS
<1>1. ASSUME calls' = <<>>, ~rcv._is_receiving \/ rcv'._is_receiving \/ faults' # faults
      PROVE  A
  BY <1>1, Silent
<1>2. ASSUME NEW s \in Sender, NEW stream \in Streams, NEW len \in Lengths,
             sendMultipartMessage(s, stream, len)
      PROVE  A
  <2>1. calls' = <<>> /\ rcv' = rcv
    BY <1>2 DEF sendMultipartMessage
  <2> QED
    BY <1>1, <2>1
<1>3. ASSUME NEW s \in Sender, SendNext(s)
      PROVE  A
  <2>1. calls' = <<>> /\ rcv' = rcv
    BY <1>3 DEF SendNext
  <2> QED
    BY <1>1, <2>1
<1>4. CASE Tick
  <2>1. calls' = <<>> /\ rcv'._is_receiving = rcv._is_receiving
    BY <1>4, TypesTick
  <2> QED
    BY <1>1, <2>1
<1>5. CASE RestartReceiver \/ \E s \in Sender : RestartSender(s)
  <2>1. calls' = <<>> /\ faults' = faults + 1
    BY <1>5, TypesRestart, Zenon
  <2>2. faults' # faults
    <3>1. faults \in Nat
      BY Parameters DEF Types, ChannelTypes
    <3> QED
      BY <2>1, <3>1
  <2> QED
    BY <1>1, <2>1, <2>2
<1>6. ASSUME NEW status \in Statuses, status # "INCOMPLETE", surface(<<Call(status, rcv.buffer)>>),
             rcv._is_receiving, ~rcv'._is_receiving, faults' = faults
      PROVE  A
  <2>1. DOMAIN calls' = {1} /\ Len(calls') = 1 /\ calls'[1].status = status
    BY <1>6, Reported
  <2>2. final = {1}
    BY <1>6, <2>1
  <2>3. ended
    BY <1>6
  <2> QED
    BY <2>1, <2>2, <2>3
<1>7. CASE TimeOut
  <2>1. ~rcv'._is_receiving
    BY <1>7, TypesTimeOut
  <2>2. surface(<<Call("TIMEOUT_ERROR", rcv.buffer)>>) /\ rcv._is_receiving /\ faults' = faults
    BY <1>7 DEF TimeOut, channel
  <2>3. "TIMEOUT_ERROR" \in Statuses
    BY DEF Statuses
  <2> HIDE DEF A
  <2> QED
    BY <1>6, <2>1, <2>2, <2>3
<1>8. CASE HandleFragment
  <2>1. PICK f \in Frames :
           /\ f = rx[1] /\ Handles(f)
           /\ StartReceiving(f) \/ DropIdle(f) \/ IgnoreOther(f) \/ WrongSequence(f) \/ Consume(f)
    BY <1>8, TypesHandle
  <2>2. faults' = faults
    BY <2>1 DEF Handles, channel
  <2>3. CASE StartReceiving(f)
    BY <1>1, <2>3, TypesStart
  <2>4. CASE DropIdle(f)
    <3>1. calls' = <<>> /\ ~rcv._is_receiving
      BY <2>4 DEF DropIdle
    <3> QED
      BY <1>1, <3>1
  <2>5. CASE IgnoreOther(f)
    <3>1. rcv \in Receivers /\ calls' = <<>> /\ rcv._is_receiving /\ rcv' = counted(rcv)
      BY <2>5 DEF IgnoreOther, Types, ReceiverTypes
    <3>2. rcv'._is_receiving
      BY <3>1, Counted
    <3> QED
      BY <1>1, <3>1, <3>2
  <2>6. CASE WrongSequence(f)
    <3>1. ~rcv'._is_receiving
      BY <2>6, TypesWrong
    <3>2. surface(<<Call("SEQUENCE_ERROR", rcv.buffer)>>) /\ rcv._is_receiving
      BY <2>6 DEF WrongSequence
    <3>3. "SEQUENCE_ERROR" \in Statuses
      BY DEF Statuses
    <3> HIDE DEF A
    <3> QED
      BY <1>6, <2>2, <3>1, <3>2, <3>3
  <2>7. CASE Consume(f) /\ ~completes
    <3>1. rcv'._is_receiving /\ \A i \in DOMAIN calls' : calls'[i].status = "INCOMPLETE"
      BY <2>7, Taken
    <3>2. final = {} /\ ~ended
      BY <3>1
    <3> QED
      BY <3>2
  <2>8. CASE Consume(f) /\ completes
    <3>1. /\ rcv._is_receiving /\ (rcv'._is_receiving => rcv.length = 0)
          /\ Len(calls') \in DOMAIN calls' /\ calls'[Len(calls')].status = "COMPLETE"
          /\ \A i \in DOMAIN calls' : i = Len(calls') \/ calls'[i].status = "INCOMPLETE"
      BY <2>8, Completed
    <3>2. final = {Len(calls')}
      <4> DEFINE last == Len(calls')
      <4> HIDE DEF last
      <4>1. last \in DOMAIN calls' /\ calls'[last].status = "COMPLETE"
            /\ \A i \in DOMAIN calls' : i = last \/ calls'[i].status = "INCOMPLETE"
        BY <3>1 DEF last
      <4>2. final = {last}
        BY <4>1
      <4> QED
        BY <4>2 DEF last
    <3>3. ended \/ rcv.length = 0
      BY <2>2, <3>1
    <3> QED
      BY <3>2, <3>3
  <2> QED
    BY <2>1, <2>3, <2>4, <2>5, <2>6, <2>7, <2>8
<1> QED
  BY <1>2, <1>3, <1>4, <1>5, <1>7, <1>8 DEF Next

\* Every message the receiver has begun ends in exactly one report, whatever is
\* sent, lost or repeated: EndsOnce.
THEOREM ReportedOnce == Spec => EndsOnce
<1>1. Types /\ [Next]_vars =>
        [LET final == {i \in DOMAIN calls' : calls'[i].status # "INCOMPLETE"}
             ended == rcv._is_receiving /\ ~rcv'._is_receiving /\ faults' = faults
         IN  /\ ended => final # {}
             /\ final # {} => /\ final = {Len(calls')}
                              /\ ended \/ rcv.length = 0]_vars
  BY StepEndsOnce
<1> QED
  BY <1>1, Inductive, PTL DEF Spec, EndsOnce

-----------------------------------------------------------------------------
(* What the frames hold, if no fragment number wraps round.                 *)

\* No message has so many fragments that their number wraps to 0, where a
\* fragment reads as a header.
NoWrap == \A len \in Lengths : len <= (SEQ_MOD - 1) * PAYLOAD

\* The length each message is sent with.
LengthOf == [1 .. MAX_MESSAGES -> LengthsOr0]

msgOf(f) == f.data[1][1]

\* A sender has sent the fragments before the next number.
SenderRight(lens, top, m) ==
    m.index < m.len =>
       /\ m.msg \in 1 .. top /\ m.len = lens[m.msg]
       /\ m.seq >= 1 /\ m.index = (m.seq - 1) * PAYLOAD

\* A header tells the length of its message; a fragment holds the bytes that
\* belong to its number.
FrameRight(lens, top, f) ==
    /\ msgOf(f) \in 1 .. top
    /\ f.header => f.seq = 0 /\ f.length = lens[msgOf(f)]
    /\ ~f.header =>
          /\ f.seq >= 1 /\ (f.seq - 1) * PAYLOAD < lens[msgOf(f)]
          /\ \A k \in 1 .. PAYLOAD : (f.seq - 1) * PAYLOAD + k <= lens[msgOf(f)] =>
                f.data[k] = byteOf(msgOf(f), (f.seq - 1) * PAYLOAD + k)

\* The receiver knows the length of the message it follows.
FollowedRight(lens, top) ==
    rcv._is_receiving =>
       /\ source.msg \in 1 .. top /\ source.len = lens[source.msg]
       /\ rcv.length = source.len /\ rcv.expected >= 1

Contents(lens) ==
    /\ \A s \in Sender : SenderRight(lens, sent, snd[s])
    /\ \A j \in DOMAIN rx : FrameRight(lens, sent, rx[j])
    /\ FollowedRight(lens, sent)

\* The next fragment of a sender.
LEMMA FragmentRight ==
    ASSUME NoWrap, Types, NEW lens \in LengthOf, NEW s \in Sender, is_sending(s),
           SenderRight(lens, sent, snd[s])
    PROVE  /\ FrameRight(lens, sent, Fragment(s)) /\ SenderRight(lens, sent, afterFragment(snd[s]))
           /\ ~Fragment(s).header /\ Fragment(s).canid = s /\ Fragment(s).stream = snd[s].stream
           /\ msgOf(Fragment(s)) = snd[s].msg /\ Fragment(s).seq = snd[s].seq
           /\ afterFragment(snd[s]).msg = snd[s].msg /\ afterFragment(snd[s]).stream = snd[s].stream
           /\ afterFragment(snd[s]).len = snd[s].len /\ afterFragment(snd[s]).seq = snd[s].seq + 1
           /\ ~(afterFragment(snd[s]).index < afterFragment(snd[s]).len) =>
                 snd[s].len <= snd[s].seq * PAYLOAD
<1> DEFINE m == snd[s]
           start == (m.seq - 1) * PAYLOAD
<1>1. m \in Senders
  BY DEF Types, SenderTypes
<1>2. /\ m.len \in Nat /\ m.index \in Nat /\ m.seq \in Nat /\ m.msg \in Nat /\ m.len \in LengthsOr0
      /\ PAYLOAD \in Nat /\ PAYLOAD >= 1 /\ SEQ_MOD \in Nat /\ SEQ_MOD >= 1
  <2>1. m.len \in LengthsOr0 /\ m.index \in Nat /\ m.seq \in Nat /\ m.msg \in 0 .. MAX_MESSAGES
    BY <1>1 DEF Senders
  <2>2. \A k \in 0 .. MAX_MESSAGES : k \in Nat
    BY Parameters
  <2> HIDE DEF m
  <2> QED
    BY <2>1, <2>2, Parameters
<1>3. /\ m.index < m.len
      /\ m.msg \in 1 .. sent /\ m.len = lens[m.msg] /\ m.seq >= 1 /\ m.index = start
  BY DEF is_sending, SenderRight
<1>4. Fragment(s) = [canid |-> s, stream |-> m.stream, seq |-> m.seq % SEQ_MOD, header |-> FALSE,
                     length |-> 0,
                     data |-> [k \in 1 .. PAYLOAD |->
                        IF m.index + k <= m.len THEN byteOf(m.msg, m.index + k) ELSE Pad]]
  BY DEF Fragment
<1>5. afterFragment(m) = [m EXCEPT !.index = IF m.index + PAYLOAD < m.len THEN m.index + PAYLOAD ELSE m.len,
                                   !.seq = m.seq + 1, !.gap = 0]
  BY DEF afterFragment
<1> HIDE DEF m
<1>6. start \in Nat
  BY <1>2, <1>3
<1>7. m.seq < SEQ_MOD /\ m.seq % SEQ_MOD = m.seq
  <2>1. m.len \in Lengths
    BY <1>2, <1>3, <1>6 DEF LengthsOr0
  <2>2. start < (SEQ_MOD - 1) * PAYLOAD
    <3>1. m.len <= (SEQ_MOD - 1) * PAYLOAD
      BY <2>1 DEF NoWrap
    <3>2. (SEQ_MOD - 1) * PAYLOAD \in Nat
      BY <1>2
    <3> HIDE DEF start
    <3> QED
      BY <1>2, <1>3, <1>6, <3>1, <3>2
  <2>3. ASSUME SEQ_MOD <= m.seq
        PROVE  FALSE
    <3>1. SEQ_MOD - 1 <= m.seq - 1 /\ SEQ_MOD - 1 \in Nat /\ m.seq - 1 \in Nat
      BY <1>2, <2>3
    <3>2. (SEQ_MOD - 1) * PAYLOAD <= (m.seq - 1) * PAYLOAD
      BY <1>2, <3>1
    <3> QED
      BY <1>2, <1>6, <2>2, <3>1, <3>2
  <2> QED
    BY <1>2, <2>3
<1> DEFINE f == Fragment(s)
<1>8. /\ ~f.header /\ f.canid = s /\ f.stream = m.stream /\ f.seq = m.seq
      /\ \A k \in 1 .. PAYLOAD : m.index + k <= m.len => f.data[k] = byteOf(m.msg, m.index + k)
  BY <1>4, <1>7
<1> HIDE DEF f
<1>9. msgOf(f) = m.msg
  <2>1. 1 \in 1 .. PAYLOAD /\ m.index + 1 <= m.len
    BY <1>2, <1>3
  <2>2. f.data[1] = byteOf(m.msg, m.index + 1)
    BY <1>8, <2>1
  <2> QED
    BY <2>2 DEF msgOf, byteOf
<1>10. FrameRight(lens, sent, f)
  BY <1>3, <1>8, <1>9 DEF FrameRight
<1> DEFINE to == IF m.index + PAYLOAD < m.len THEN m.index + PAYLOAD ELSE m.len
           a == afterFragment(m)
<1>11. /\ a.index = to /\ a.seq = m.seq + 1 /\ a.msg = m.msg /\ a.stream = m.stream /\ a.len = m.len
  <2> HIDE DEF to
  <2>1. m \in Senders
    BY <1>1 DEF m
  <2>2. a = [m EXCEPT !.index = to, !.seq = m.seq + 1, !.gap = 0]
    BY <1>5 DEF to
  <2> HIDE DEF a
  <2> QED
    BY <2>1, <2>2 DEF Senders
<1> HIDE DEF a
<1>12. m.seq * PAYLOAD = start + PAYLOAD /\ ((m.seq + 1) - 1) * PAYLOAD = start + PAYLOAD
  BY <1>2, <1>3
<1>13. SenderRight(lens, sent, a)
  <2>1. SUFFICES ASSUME to < m.len
                 PROVE  /\ m.msg \in 1 .. sent /\ m.len = lens[m.msg]
                        /\ m.seq + 1 >= 1 /\ to = ((m.seq + 1) - 1) * PAYLOAD
    BY <1>11 DEF SenderRight
  <2>2. to = m.index + PAYLOAD
    BY <1>2, <2>1
  <2> HIDE DEF start
  <2> QED
    BY <1>2, <1>3, <1>12, <2>2
<1>14. ~(a.index < a.len) => m.len <= m.seq * PAYLOAD
  <2> HIDE DEF start
  <2>1. ~(to < m.len) => m.len <= m.index + PAYLOAD
    BY <1>2
  <2> QED
    BY <1>3, <1>11, <1>12, <2>1
<1> QED
  BY <1>8, <1>9, <1>10, <1>11, <1>13, <1>14 DEF m, a, f

\* A header that is sent.
LEMMA HeaderRight ==
    ASSUME NEW lens \in LengthOf, NEW s \in Sender, NEW stream \in Streams, NEW msg \in 1 .. MAX_MESSAGES,
           NEW len \in Lengths, lens[msg] = len
    PROVE  LET f == Header(s, stream, msg, len)
           IN  /\ FrameRight(lens, msg, f) /\ f.header /\ f.canid = s /\ f.stream = stream
               /\ msgOf(f) = msg /\ f.seq = 0
<1> DEFINE f == Header(s, stream, msg, len)
<1>1. /\ f.header /\ f.canid = s /\ f.stream = stream /\ f.seq = 0 /\ f.length = len
      /\ f.data = [k \in 1 .. PAYLOAD |-> byteOf(msg, 0)]
  BY DEF Header
<1> HIDE DEF f
<1>2. msgOf(f) = msg
  <2>1. 1 \in 1 .. PAYLOAD
    BY Parameters
  <2> QED
    BY <1>1, <2>1 DEF msgOf, byteOf
<1>3. msg \in 1 .. msg
  BY Parameters
<1>4. FrameRight(lens, msg, f)
  BY <1>1, <1>2, <1>3 DEF FrameRight
<1> QED
  BY <1>1, <1>2, <1>4 DEF f

\* The frames in the queue after one was sent: the old ones and the new one.
LEMMA NewFrames ==
    ASSUME ChannelTypes, ChannelTypes', NEW f, NEW n \in {0, 1, 2}, Arrived(f, n)
    PROVE  /\ DOMAIN rx = 1 .. Len(rx) /\ DOMAIN rx' = 1 .. Len(rx) + n /\ Len(rx) \in Nat
           /\ \A j \in DOMAIN rx' : (j \in DOMAIN rx /\ rx'[j] = rx[j]) \/ (j > Len(rx) /\ rx'[j] = f)
<1>1. DOMAIN rx = 1 .. Len(rx) /\ DOMAIN rx' = 1 .. Len(rx') /\ Len(rx) \in Nat
  BY LenProperties DEF ChannelTypes
<1>2. Len(rx') = Len(rx) + n /\ (\A j \in 1 .. Len(rx) : rx'[j] = rx[j])
      /\ (\A j \in Len(rx) + 1 .. Len(rx) + n : rx'[j] = f)
  BY DEF Arrived
<1>3. \A j \in 1 .. Len(rx) + n : j \in 1 .. Len(rx) \/ (j > Len(rx) /\ j \in Len(rx) + 1 .. Len(rx) + n)
  BY <1>1
<1>4. DOMAIN rx' = 1 .. Len(rx) + n
  BY <1>1, <1>2
<1> QED
  BY <1>1, <1>2, <1>3, <1>4

\* Later messages do not change what the earlier ones are.
LEMMA FrameStays ==
    ASSUME NEW lens, NEW more, NEW top \in Nat, NEW top2 \in Nat, top <= top2,
           \A k \in 1 .. top : more[k] = lens[k], NEW f, FrameRight(lens, top, f)
    PROVE  FrameRight(more, top2, f)
<1> DEFINE msg == msgOf(f)
<1>1. msg \in 1 .. top
  BY DEF FrameRight
<1>2. msg \in 1 .. top2 /\ more[msg] = lens[msg]
  BY <1>1
<1> QED
  BY <1>2 DEF FrameRight

\* A sender still sends its message when further ones are begun.
LEMMA SenderStays ==
    ASSUME NEW lens, NEW more, NEW top \in Nat, NEW top2 \in Nat, top <= top2,
           \A k \in 1 .. top : more[k] = lens[k], NEW m, SenderRight(lens, top, m)
    PROVE  SenderRight(more, top2, m)
<1>1. ASSUME m.index < m.len
      PROVE  /\ m.msg \in 1 .. top2 /\ m.len = more[m.msg]
             /\ m.seq >= 1 /\ m.index = (m.seq - 1) * PAYLOAD
  <2>1. m.msg \in 1 .. top /\ m.len = lens[m.msg] /\ m.seq >= 1 /\ m.index = (m.seq - 1) * PAYLOAD
    BY <1>1 DEF SenderRight
  <2> QED
    BY <2>1
<1> QED
  BY <1>1 DEF SenderRight

\* What frames hold: at the start there are none;
LEMMA ContentsInit == Init => \E lens \in LengthOf : Contents(lens)
<1> SUFFICES ASSUME Init
             PROVE  \E lens \in LengthOf : Contents(lens)
  OBVIOUS
<1> DEFINE none == [k \in 1 .. MAX_MESSAGES |-> 0]
<1>1. none \in LengthOf
  BY Parameters DEF LengthOf
<1> HIDE DEF none
<1>2. \A s \in Sender : SenderRight(none, sent, snd[s])
  <2>1. \A s \in Sender : snd[s].index = 0 /\ snd[s].len = 0
    BY Idle DEF Init
  <2> QED
    BY <2>1 DEF SenderRight
<1>3. ~rcv._is_receiving /\ DOMAIN rx = {}
  BY Fresh DEF Init
<1> QED
  BY <1>1, <1>2, <1>3 DEF Contents, FollowedRight

\* a new message gets its length;
LEMMA ContentsSend ==
    ASSUME Types, NEW lens \in LengthOf, Contents(lens),
           NEW s \in Sender, NEW stream \in Streams, NEW len \in Lengths,
           sendMultipartMessage(s, stream, len)
    PROVE  \E more \in LengthOf :
              Contents(more)' /\ more[sent'] = len /\ \A k \in 1 .. sent : more[k] = lens[k]
<1> DEFINE f == Header(s, stream, sent', len)
<1>1. Types' /\ sent' = sent + 1 /\ \E n \in {0, 1, 2} : Arrived(f, n)
  BY TypesSend
<1>2. sent \in Nat /\ sent' \in Nat /\ sent' \in 1 .. MAX_MESSAGES /\ sent <= sent'
  <2>1. sent \in Nat /\ sent < MAX_MESSAGES
    BY Parameters DEF Types, SenderTypes, sendMultipartMessage
  <2> QED
    BY <1>1, <2>1, Parameters
<1>3. PICK more \in LengthOf : more[sent'] = len /\ \A k \in 1 .. sent : more[k] = lens[k]
  <2> DEFINE new == [lens EXCEPT ![sent'] = len]
  <2>1. \A k \in 1 .. sent : k \in 1 .. MAX_MESSAGES /\ k # sent'
    BY <1>1, <1>2, Parameters
  <2>2. new \in LengthOf /\ new[sent'] = len /\ \A k \in 1 .. sent : new[k] = lens[k]
    BY <1>2, <2>1, Parameters DEF LengthOf
  <2> HIDE DEF new
  <2> QED
    BY <2>2
<1>4. FrameRight(more, sent', f)
  BY <1>2, <1>3, HeaderRight
<1> HIDE DEF f
<1>5. \A j \in DOMAIN rx' : FrameRight(more, sent', rx'[j])
  <2>1. PICK n \in {0, 1, 2} : Arrived(f, n)
    BY <1>1
  <2>2. \A j \in DOMAIN rx' : (j \in DOMAIN rx /\ rx'[j] = rx[j]) \/ rx'[j] = f
    BY <1>1, <2>1, NewFrames DEF Types
  <2>3. \A j \in DOMAIN rx : FrameRight(lens, sent, rx[j])
    BY DEF Contents
  <2>4. \A j \in DOMAIN rx : FrameRight(more, sent', rx[j])
    BY <1>2, <1>3, <2>3, FrameStays
  <2> QED
    BY <1>4, <2>2, <2>4
<1>6. \A t \in Sender : SenderRight(more, sent', snd'[t])
  <2> TAKE t \in Sender
  <2>1. CASE t = s
    <3> DEFINE m == [msg |-> sent', stream |-> stream, len |-> len, index |-> 0, seq |-> 1, gap |-> snd[s].gap]
    <3>1. snd'[t] = m
      BY <2>1 DEF sendMultipartMessage, Types, SenderTypes
    <3>2. m.msg = sent' /\ m.len = len /\ m.seq = 1 /\ m.index = 0
      OBVIOUS
    <3>3. 0 = (1 - 1) * PAYLOAD /\ sent' \in 1 .. sent'
      BY <1>2, Parameters
    <3> HIDE DEF m
    <3> QED
      BY <1>3, <3>1, <3>2, <3>3 DEF SenderRight
  <2>2. CASE t # s
    <3>1. snd'[t] = snd[t]
      BY <2>2 DEF sendMultipartMessage, Types, SenderTypes
    <3>2. SenderRight(lens, sent, snd[t])
      BY DEF Contents
    <3>3. SenderRight(more, sent', snd[t])
      BY <1>2, <1>3, <3>2, SenderStays
    <3> QED
      BY <3>1, <3>3
  <2> QED
    BY <2>1, <2>2
<1>7. FollowedRight(more, sent)'
  <2>1. rcv' = rcv /\ source' = source
    BY DEF sendMultipartMessage, history
  <2>2. ASSUME rcv._is_receiving
        PROVE  /\ source.msg \in 1 .. sent' /\ source.len = more[source.msg]
               /\ rcv.length = source.len /\ rcv.expected >= 1
    <3>1. /\ source.msg \in 1 .. sent /\ source.len = lens[source.msg]
          /\ rcv.length = source.len /\ rcv.expected >= 1
      BY <2>2 DEF Contents, FollowedRight
    <3> QED
      BY <1>2, <1>3, <3>1
  <2> QED
    BY <2>1, <2>2 DEF FollowedRight
<1>8. Contents(more)'
  BY <1>5, <1>6, <1>7 DEF Contents
<1> QED
  BY <1>3, <1>8

\* a fragment holds its part of the message;
LEMMA ContentsSendNext ==
    ASSUME NoWrap, Types, NEW lens \in LengthOf, Contents(lens), NEW s \in Sender, SendNext(s)
    PROVE  Contents(lens)'
<1> DEFINE f == Fragment(s)
           a == afterFragment(snd[s])
<1>1. Types' /\ UNCHANGED <<sent, rcv, source>> /\ \E n \in {0, 1, 2} : Arrived(f, n)
  BY TypesSendNext
<1>2. snd' = [snd EXCEPT ![s] = a] /\ snd \in [Sender -> Senders] /\ is_sending(s)
  BY DEF SendNext, Types, SenderTypes
<1>3. FrameRight(lens, sent, f) /\ SenderRight(lens, sent, a)
  <2>1. SenderRight(lens, sent, snd[s])
    BY DEF Contents
  <2> QED
    BY <1>2, <2>1, FragmentRight
<1> HIDE DEF f, a
<1>4. \A j \in DOMAIN rx' : FrameRight(lens, sent, rx'[j])
  <2>1. PICK n \in {0, 1, 2} : Arrived(f, n)
    BY <1>1
  <2>2. \A j \in DOMAIN rx' : (j \in DOMAIN rx /\ rx'[j] = rx[j]) \/ rx'[j] = f
    BY <1>1, <2>1, NewFrames DEF Types
  <2> QED
    BY <1>3, <2>2 DEF Contents
<1>5. \A t \in Sender : SenderRight(lens, sent, snd'[t])
  <2> TAKE t \in Sender
  <2>1. snd'[t] = IF t = s THEN a ELSE snd[t]
    BY <1>2
  <2> QED
    BY <1>3, <2>1 DEF Contents
<1>6. FollowedRight(lens, sent)'
  BY <1>1 DEF Contents, FollowedRight
<1> QED
  BY <1>1, <1>4, <1>5, <1>6 DEF Contents

\* Only a header begins a message.
LEMMA OnlyHeaders ==
    ASSUME Types, NEW lens, Contents(lens), NEW f \in Frames, f = rx[1], 1 \in DOMAIN rx,
           StartReceiving(f)
    PROVE  /\ f.header /\ source'.msg = msgOf(f) /\ source'.len = lens[msgOf(f)] /\ msgOf(f) \in 1 .. sent
<1>1. FrameRight(lens, sent, f)
  BY DEF Contents
<1>2. f.seq = 0 /\ source'.msg = f.data[1][1] /\ source'.len \in announced(f)
  BY TypesStart
<1>3. f.header
  BY <1>1, <1>2 DEF FrameRight
<1> QED
  BY <1>1, <1>2, <1>3 DEF FrameRight, announced, msgOf

\* handling takes a frame away;
LEMMA ContentsHandle ==
    ASSUME Types, NEW lens \in LengthOf, Contents(lens), HandleFragment
    PROVE  Contents(lens)'
<1>1. PICK f \in Frames :
           /\ f = rx[1] /\ Handles(f)
           /\ StartReceiving(f) \/ DropIdle(f) \/ IgnoreOther(f) \/ WrongSequence(f) \/ Consume(f)
  BY TypesHandle
<1>2. /\ 1 \in DOMAIN rx /\ UNCHANGED <<snd, sent>>
      /\ \A j \in DOMAIN rx' : j + 1 \in DOMAIN rx /\ rx'[j] = rx[j + 1]
  BY <1>1, Handled DEF Types
<1>3. \A j \in DOMAIN rx' : FrameRight(lens, sent, rx'[j])
  BY <1>2 DEF Contents
<1>4. rcv \in Receivers
  BY DEF Types, ReceiverTypes
<1>5. rcv.expected \in Nat
  BY <1>4 DEF Receivers
<1>6. FollowedRight(lens, sent)'
  <2>1. CASE StartReceiving(f)
    <3>1. rcv'.length = source'.len /\ rcv'.expected = 1
      BY <2>1, TypesStart
    <3>2. source'.msg = msgOf(f) /\ source'.len = lens[msgOf(f)] /\ msgOf(f) \in 1 .. sent
      BY <1>1, <1>2, <2>1, OnlyHeaders
    <3> QED
      BY <1>2, <3>1, <3>2 DEF FollowedRight
  <2>2. CASE DropIdle(f)
    <3>1. ~rcv._is_receiving /\ rcv' = counted(rcv)
      BY <2>2 DEF DropIdle
    <3>2. ~rcv'._is_receiving
      BY <1>4, <3>1, Counted
    <3> QED
      BY <3>2 DEF FollowedRight
  <2>3. ASSUME rcv'._is_receiving => rcv._is_receiving /\ rcv'.length = rcv.length,
               rcv'.expected = rcv.expected + 1, source' = source
        PROVE  FollowedRight(lens, sent)'
    BY <1>2, <1>5, <2>3 DEF Contents, FollowedRight
  <2>4. CASE IgnoreOther(f)
    <3>1. rcv' = counted(rcv) /\ source' = source
      BY <2>4 DEF IgnoreOther
    <3> QED
      BY <1>4, <2>3, <3>1, Counted
  <2>5. CASE WrongSequence(f)
    <3>1. ~rcv'._is_receiving
      BY <2>5, TypesWrong
    <3> QED
      BY <3>1 DEF FollowedRight
  <2>6. CASE Consume(f) /\ completes
    <3>1. /\ rcv'.expected = rcv.expected + 1 /\ rcv._is_receiving
          /\ rcv'._is_receiving => rcv.length = 0 /\ rcv'.length = 0
      BY <2>6, Completed
    <3>2. source' = source
      BY <2>6, TypesConsume
    <3> QED
      BY <2>3, <3>1, <3>2
  <2>7. CASE Consume(f) /\ ~completes
    <3>1. rcv._is_receiving /\ rcv'.expected = rcv.expected + 1 /\ rcv'.length = rcv.length
      BY <2>7, Taken DEF Consume
    <3>2. source' = source
      BY <2>7, TypesConsume
    <3> QED
      BY <2>3, <3>1, <3>2
  <2> QED
    BY <1>1, <2>1, <2>2, <2>4, <2>5, <2>6, <2>7
<1>7. \A s \in Sender : SenderRight(lens, sent, snd[s])
  BY DEF Contents
<1> QED
  BY <1>2, <1>3, <1>6, <1>7 DEF Contents

\* and nothing else adds one.
LEMMA ContentsOther ==
    ASSUME Types, NEW lens \in LengthOf, Contents(lens),
           TimeOut \/ Tick \/ RestartReceiver \/ (\E s \in Sender : RestartSender(s))
    PROVE  Contents(lens)'
<1>1. CASE TimeOut
  <2>1. UNCHANGED <<snd, sent, rx>> /\ ~rcv'._is_receiving
    BY <1>1, TypesTimeOut DEF TimeOut, sending
  <2> QED
    BY <2>1 DEF Contents, FollowedRight
<1>2. CASE Tick
  <2>1. /\ UNCHANGED <<rx, sent, source>> /\ rcv'._is_receiving = rcv._is_receiving
        /\ rcv'.length = rcv.length /\ rcv'.expected = rcv.expected
        /\ \A s \in Sender :
                 /\ snd'[s].msg = snd[s].msg /\ snd'[s].len = snd[s].len
                 /\ snd'[s].index = snd[s].index /\ snd'[s].seq = snd[s].seq
    BY <1>2, TypesTick
  <2>2. \A s \in Sender : SenderRight(lens, sent, snd'[s])
    BY <2>1 DEF Contents, SenderRight
  <2>3. FollowedRight(lens, sent)'
    BY <2>1 DEF Contents, FollowedRight
  <2> QED
    BY <2>1, <2>2, <2>3 DEF Contents
<1>3. CASE RestartReceiver \/ \E s \in Sender : RestartSender(s)
  <2>1. /\ UNCHANGED <<sent, source>>
        /\ \/ snd' = snd /\ rx' = <<>> /\ rcv' = atStart
           \/ rx' = rx /\ rcv' = rcv /\ \E s \in Sender : snd' = [snd EXCEPT ![s] = idle]
    BY <1>3, TypesRestart
  <2>2. CASE snd' = snd /\ rx' = <<>> /\ rcv' = atStart
    <3>1. DOMAIN rx' = {} /\ ~rcv'._is_receiving
      BY <2>2, Fresh
    <3> QED
      BY <2>1, <2>2, <3>1 DEF Contents, FollowedRight
  <2>3. CASE rx' = rx /\ rcv' = rcv /\ \E s \in Sender : snd' = [snd EXCEPT ![s] = idle]
    <3>1. PICK s \in Sender : snd' = [snd EXCEPT ![s] = idle]
      BY <2>3
    <3>2. \A t \in Sender : SenderRight(lens, sent, snd'[t])
      <4>1. SenderRight(lens, sent, idle)
        BY Idle DEF SenderRight
      <4> QED
        BY <3>1, <4>1 DEF Contents, Types, SenderTypes
    <3> QED
      BY <2>1, <2>3, <3>2 DEF Contents, FollowedRight
  <2> QED
    BY <2>1, <2>2, <2>3
<1> QED
  BY <1>1, <1>2, <1>3

-----------------------------------------------------------------------------
(* The order of what is on its way: from the receiver, position 0, over the *)
(* frames in the queue to the senders, position Len(rx) + 1.                *)

heads(i, c, t) == rx[i].header /\ rx[i].canid = c /\ rx[i].stream = t

\* At position i a message of sender c on stream t begins, or has begun.
Opens(i, c, t) ==
    \/ i = 0 /\ rcv._is_receiving /\ rcv.canid = c /\ rcv.stream = t
    \/ i \in DOMAIN rx /\ heads(i, c, t)
messageAt(i) == IF i = 0 THEN source.msg ELSE msgOf(rx[i])

\* At position j such a message goes on.
Continues(j, c, t) ==
    \/ j \in DOMAIN rx /\ ~rx[j].header /\ rx[j].canid = c /\ rx[j].stream = t
    \/ j = Len(rx) + 1 /\ is_sending(c) /\ snd[c].stream = t
continued(j, c) == IF j \in DOMAIN rx THEN msgOf(rx[j]) ELSE snd[c].msg

HeaderBetween(i, j, c, t) == \E k \in DOMAIN rx : i < k /\ k < j /\ heads(k, c, t)

\* Between the beginning of one message and a part of another there is a header.
Order ==
    ~headerLost =>
       \A i \in 0 .. Len(rx), j \in 1 .. Len(rx) + 1, c \in Sender, t \in Streams :
          i < j /\ Opens(i, c, t) /\ Continues(j, c, t) /\ messageAt(i) # continued(j, c)
             => HeaderBetween(i, j, c, t)

\* A message that is still followed after a frame was handled was followed
\* before, and the frame was not a header of its source.
LEMMA StillFollowed ==
    ASSUME Types, NEW lens \in LengthOf, Contents(lens), NEW f \in Frames, f = rx[1], 1 \in DOMAIN rx,
           DropIdle(f) \/ IgnoreOther(f) \/ WrongSequence(f) \/ Consume(f), rcv'._is_receiving
    PROVE  /\ rcv._is_receiving /\ source' = source
           /\ rcv'.canid = rcv.canid /\ rcv'.stream = rcv.stream
           /\ ~(f.header /\ sameSource(f))
           /\ IgnoreOther(f) \/ Consume(f)
<1>1. rcv \in Receivers
  BY DEF Types, ReceiverTypes
<1>2. ~DropIdle(f)
  <2>1. ASSUME DropIdle(f)
        PROVE  ~rcv'._is_receiving
    <3>1. ~rcv._is_receiving /\ rcv' = counted(rcv)
      BY <2>1 DEF DropIdle
    <3> QED
      BY <1>1, <3>1, Counted
  <2> QED
    BY <2>1
<1>3. ~WrongSequence(f)
  BY TypesWrong
<1>4. CASE IgnoreOther(f)
  <2>1. rcv._is_receiving /\ source' = source /\ rcv' = counted(rcv) /\ ~sameSource(f)
    BY <1>4 DEF IgnoreOther
  <2> QED
    BY <1>1, <1>4, <2>1, Counted
<1>5. CASE Consume(f)
  <2>1. rcv._is_receiving /\ f.seq = rcv.expected
    BY <1>5 DEF Consume, inSequence
  <2>2. source' = source
    BY <1>5, TypesConsume
  <2>3. rcv'.canid = rcv.canid /\ rcv'.stream = rcv.stream
    <3>1. CASE completes
      BY <1>5, <3>1, Completed
    <3>2. CASE ~completes
      BY <1>5, <3>2, Taken
    <3> QED
      BY <3>1, <3>2
  <2>4. rcv.expected >= 1 /\ (f.header => f.seq = 0)
    BY <2>1 DEF Contents, FollowedRight, FrameRight
  <2> QED
    BY <1>5, <2>1, <2>2, <2>3, <2>4
<1> QED
  BY <1>2, <1>3, <1>4, <1>5

\* The order of messages in the queue, kept by each action in the same way:
LEMMA OrderHandle ==
    ASSUME Types, NEW lens \in LengthOf, Contents(lens), Order, HandleFragment
    PROVE  Order'
<1>1. PICK f \in Frames :
           /\ f = rx[1] /\ Handles(f)
           /\ StartReceiving(f) \/ DropIdle(f) \/ IgnoreOther(f) \/ WrongSequence(f) \/ Consume(f)
  BY TypesHandle
<1>2. /\ 1 \in DOMAIN rx /\ UNCHANGED <<snd, sent, headerLost>>
      /\ DOMAIN rx = 1 .. Len(rx) /\ DOMAIN rx' = 1 .. Len(rx) - 1
      /\ \A j \in DOMAIN rx' : j + 1 \in DOMAIN rx /\ rx'[j] = rx[j + 1]
  BY <1>1, Handled DEF Types
<1>3. Len(rx) \in Nat /\ Len(rx') = Len(rx) - 1
  <2>1. rx \in Seq(Frames) /\ rx' \in Seq(Frames)
    BY TypesHandle DEF Types, ChannelTypes
  <2>2. Len(rx) \in Nat /\ Len(rx') \in Nat /\ DOMAIN rx' = 1 .. Len(rx')
    BY <2>1, LenProperties
  <2>3. Len(rx) >= 1
    BY <1>2, <2>2
  <2>4. 1 .. Len(rx') = 1 .. Len(rx) - 1
    BY <1>2, <2>2
  <2> QED
    BY <2>2, <2>3, <2>4
<1> SUFFICES ASSUME ~headerLost',
                    NEW i \in 0 .. Len(rx'), NEW j \in 1 .. Len(rx') + 1, NEW c \in Sender, NEW t \in Streams,
                    i < j, Opens(i, c, t)', Continues(j, c, t)', messageAt(i)' # continued(j, c)'
             PROVE  HeaderBetween(i, j, c, t)'
  BY DEF Order
<1>4. j + 1 \in 1 .. Len(rx) + 1 /\ Continues(j + 1, c, t) /\ continued(j + 1, c) = continued(j, c)'
  <2>1. j + 1 \in 1 .. Len(rx) + 1 /\ (j \in DOMAIN rx' <=> j + 1 \in DOMAIN rx)
    BY <1>2, <1>3
  <2>2. CASE j \in DOMAIN rx'
    BY <1>2, <2>1, <2>2 DEF Continues, continued
  <2>3. CASE j \notin DOMAIN rx'
    <3>1. j + 1 \notin DOMAIN rx
      BY <2>1, <2>3
    <3>2. j = Len(rx') + 1 /\ is_sending(c)' /\ snd'[c].stream = t
      BY <2>3 DEF Continues
    <3>3. j + 1 = Len(rx) + 1
      BY <1>3, <3>2
    <3> QED
      BY <1>2, <2>1, <2>3, <3>1, <3>2, <3>3 DEF Continues, continued, is_sending
  <2> QED
    BY <2>2, <2>3
\* The position where the message was opened, and that no header of this source
\* has left the queue since.
<1>5. PICK o \in 0 .. Len(rx) : /\ o < j + 1 /\ Opens(o, c, t) /\ messageAt(o) = messageAt(i)'
                                /\ o = i + 1 \/ (o = 0 /\ i = 0 /\ ~heads(1, c, t))
  <2>1. CASE i \in DOMAIN rx'
    <3>1. i # 0 /\ i + 1 # 0 /\ i + 1 \in 0 .. Len(rx) /\ i + 1 < j + 1
      BY <1>2, <1>3, <2>1
    <3>2. Opens(i + 1, c, t) /\ messageAt(i + 1) = messageAt(i)'
      BY <1>2, <2>1, <3>1 DEF Opens, messageAt, heads
    <3> QED
      BY <3>1, <3>2
  <2>2. CASE i \notin DOMAIN rx'
    <3>1. i = 0 /\ rcv'._is_receiving /\ rcv'.canid = c /\ rcv'.stream = t /\ messageAt(i)' = source'.msg
      BY <2>2 DEF Opens, messageAt
    <3>2. CASE StartReceiving(f)
      <4>1. f.header /\ source'.msg = msgOf(f)
        BY <1>1, <1>2, <3>2, OnlyHeaders
      <4>2. rcv'.canid = f.canid /\ rcv'.stream = f.stream
        BY <3>2, TypesStart
      <4>3. 1 # 0 /\ 1 \in 0 .. Len(rx) /\ 1 < j + 1
        BY <1>2, <1>3
      <4>4. Opens(1, c, t) /\ messageAt(1) = messageAt(i)'
        BY <1>1, <1>2, <3>1, <4>1, <4>2, <4>3 DEF Opens, messageAt, heads
      <4>5. 1 = i + 1
        BY <3>1
      <4> QED
        BY <4>3, <4>4, <4>5
    <3>3. CASE DropIdle(f) \/ IgnoreOther(f) \/ WrongSequence(f) \/ Consume(f)
      <4>1. /\ rcv._is_receiving /\ source' = source
            /\ rcv'.canid = rcv.canid /\ rcv'.stream = rcv.stream
            /\ ~(f.header /\ sameSource(f))
        BY <1>1, <1>2, <3>1, <3>3, StillFollowed
      <4>2. ~heads(1, c, t)
        BY <1>1, <3>1, <4>1 DEF heads, sameSource
      <4>3. Opens(0, c, t) /\ messageAt(0) = messageAt(i)' /\ 0 \in 0 .. Len(rx) /\ 0 < j + 1
        BY <1>3, <3>1, <4>1 DEF Opens, messageAt
      <4> QED
        BY <3>1, <4>2, <4>3
    <3> QED
      BY <1>1, <3>2, <3>3
  <2> QED
    BY <2>1, <2>2
<1>6. HeaderBetween(o, j + 1, c, t)
  <2>1. messageAt(o) # continued(j + 1, c)
    BY <1>4, <1>5
  <2> HIDE DEF messageAt, continued, Opens, Continues, HeaderBetween
  <2> QED
    BY <1>2, <1>4, <1>5, <2>1 DEF Order
<1>7. PICK k \in DOMAIN rx : o < k /\ k < j + 1 /\ heads(k, c, t)
  BY <1>6 DEF HeaderBetween
<1>8. k \in Nat /\ k - 1 \in DOMAIN rx' /\ i < k - 1 /\ k - 1 < j /\ (k - 1) + 1 = k
  <2>1. k \in 1 .. Len(rx)
    BY <1>2
  <2>2. k # 1 \/ o # 0
    BY <1>5, <1>7
  <2> QED
    BY <1>2, <1>3, <1>5, <1>7, <2>1, <2>2
<1>9. rx'[k - 1] = rx[k]
  BY <1>2, <1>8
<1>10. heads(k - 1, c, t)'
  BY <1>7, <1>9 DEF heads
<1> QED
  BY <1>8, <1>10 DEF HeaderBetween

\* a header opens the latest message,
LEMMA OrderSend ==
    ASSUME Types, NEW s \in Sender, NEW stream \in Streams, NEW len \in Lengths,
           sendMultipartMessage(s, stream, len), Order
    PROVE  Order'
<1> DEFINE f == Header(s, stream, sent', len)
           N == Len(rx)
<1>1. PICK n \in {0, 1, 2} : Arrived(f, n) /\ Types' /\ sent' = sent + 1
  BY TypesSend
<1>2. /\ DOMAIN rx = 1 .. N /\ DOMAIN rx' = 1 .. N + n /\ N \in Nat
      /\ \A j \in DOMAIN rx' : (j \in DOMAIN rx /\ rx'[j] = rx[j]) \/ (j > N /\ rx'[j] = f)
  BY <1>1, NewFrames DEF Types
<1>3. /\ f.header /\ f.canid = s /\ f.stream = stream /\ msgOf(f) = sent'
      /\ rcv' = rcv /\ source' = source /\ snd \in [Sender -> Senders]
      /\ snd' = [snd EXCEPT ![s] = [msg |-> sent', stream |-> stream, len |-> len,
                                    index |-> 0, seq |-> 1, gap |-> snd[s].gap]]
  <2>1. f.header /\ f.canid = s /\ f.stream = stream /\ f.data = [k \in 1 .. PAYLOAD |-> byteOf(sent', 0)]
    BY DEF Header
  <2> HIDE DEF f
  <2>2. msgOf(f) = sent'
    BY <2>1, Parameters DEF msgOf, byteOf
  <2> QED
    BY <2>1, <2>2 DEF sendMultipartMessage, history, Types, SenderTypes
<1>4. Len(rx') = N + n /\ (n = 0 => headerLost') /\ (headerLost => headerLost')
  <2>1. f.header \in BOOLEAN /\ headerLost \in BOOLEAN
    BY <1>3 DEF Types, ChannelTypes
  <2>2. n = 0 => headerLost' = (headerLost \/ f.header)
    BY <1>1 DEF Arrived
  <2>3. n # 0 => headerLost' = headerLost
    BY <1>1 DEF Arrived
  <2>4. Len(rx') = N + n
    BY <1>1 DEF Arrived
  <2> HIDE DEF f, N
  <2>5. n = 0 => headerLost'
    BY <1>3, <2>1, <2>2
  <2>6. headerLost => headerLost'
    BY <2>1, <2>2, <2>3
  <2> QED
    BY <2>4, <2>5, <2>6
<1> HIDE DEF f
<1> SUFFICES ASSUME ~headerLost',
                    NEW i \in 0 .. Len(rx'), NEW j \in 1 .. Len(rx') + 1, NEW c \in Sender, NEW t \in Streams,
                    i < j, Opens(i, c, t)', Continues(j, c, t)', messageAt(i)' # continued(j, c)'
             PROVE  HeaderBetween(i, j, c, t)'
  BY DEF Order
<1> HIDE DEF N
\* The part that goes on is in an old frame, or a sender's.
<1>5. (j \in 1 .. N /\ rx'[j] = rx[j]) \/ j = N + n + 1
  <2>1. CASE j \in DOMAIN rx'
    <3>1. ~rx'[j].header
      BY <1>2, <1>4, <2>1 DEF Continues
    <3> QED
      BY <1>2, <1>3, <2>1, <3>1
  <2>2. CASE j \notin DOMAIN rx'
    BY <1>4, <2>2 DEF Continues
  <2> QED
    BY <2>1, <2>2
<1>6. CASE i <= N
  <2>1. Opens(i, c, t) /\ messageAt(i) = messageAt(i)' /\ i \in 0 .. N
    <3>1. CASE i = 0
      BY <1>2, <1>3, <3>1 DEF Opens, messageAt
    <3>2. CASE i # 0
      <4>1. i \in DOMAIN rx /\ i \in DOMAIN rx' /\ ~(i > N)
        BY <1>2, <1>4, <1>6, <3>2
      <4>2. rx'[i] = rx[i]
        BY <1>2, <4>1
      <4> QED
        BY <1>2, <3>2, <4>1, <4>2 DEF Opens, messageAt, heads
    <3> QED
      BY <1>2, <1>6, <3>1, <3>2
  <2>2. ASSUME NEW p \in 1 .. N + 1, p <= j, i < p, Continues(p, c, t), continued(p, c) = continued(j, c)'
        PROVE  HeaderBetween(i, j, c, t)'
    <3>1. messageAt(i) # continued(p, c) /\ ~headerLost
      BY <1>4, <2>1, <2>2
    <3>2. HeaderBetween(i, p, c, t)
      <4> HIDE DEF messageAt, continued, Opens, Continues, HeaderBetween
      <4> QED
        BY <2>1, <2>2, <3>1 DEF Order, N
    <3>3. PICK k \in DOMAIN rx : i < k /\ k < p /\ heads(k, c, t)
      BY <3>2 DEF HeaderBetween
    <3>4. k \in DOMAIN rx' /\ ~(k > N) /\ k < j
      BY <1>2, <2>2, <3>3
    <3>5. rx'[k] = rx[k]
      BY <1>2, <3>4
    <3> QED
      BY <3>3, <3>4, <3>5 DEF HeaderBetween, heads
  <2>3. CASE j \in 1 .. N /\ rx'[j] = rx[j]
    <3>1. j \in DOMAIN rx /\ j \in DOMAIN rx' /\ j # N + 1 /\ j # Len(rx') + 1 /\ j \in 1 .. N + 1
      BY <1>2, <1>4, <2>3
    <3>2. Continues(j, c, t) /\ continued(j, c) = continued(j, c)'
      BY <2>3, <3>1 DEF Continues, continued
    <3> QED
      BY <2>2, <3>1, <3>2
  <2>4. CASE j = N + n + 1
    <3>1. j \notin DOMAIN rx' /\ N + 1 \notin DOMAIN rx /\ N + 1 \in 1 .. N + 1 /\ N + 1 <= j /\ i < N + 1
      BY <1>2, <1>6, <2>4
    <3>2. is_sending(c)' /\ snd'[c].stream = t /\ continued(j, c)' = snd'[c].msg
      BY <3>1 DEF Continues, continued
    <3>3. CASE c # s
      <4>1. snd'[c] = snd[c]
        BY <1>3, <3>3
      <4>2. Continues(N + 1, c, t) /\ continued(N + 1, c) = continued(j, c)'
        BY <3>1, <3>2, <4>1 DEF Continues, continued, is_sending, N
      <4> QED
        BY <2>2, <3>1, <4>2
    <3>4. CASE c = s
      <4>1. t = stream
        BY <1>3, <3>2, <3>4
      <4>2. n # 0
        BY <1>4
      <4>3. N + 1 \in DOMAIN rx' /\ N + 1 > N /\ N + 1 \notin DOMAIN rx /\ N + 1 < j
        BY <1>2, <2>4, <4>2
      <4>4. PICK q \in DOMAIN rx' : i < q /\ q < j /\ rx'[q] = f
        BY <1>2, <3>1, <4>3
      <4>5. heads(q, c, t)'
        BY <1>3, <3>4, <4>1, <4>4 DEF heads
      <4> QED
        BY <4>4, <4>5 DEF HeaderBetween
    <3> QED
      BY <3>3, <3>4
  <2> QED
    BY <1>5, <2>3, <2>4
\* Behind the new header only its own message goes on.
<1>7. CASE i > N
  <2>1. i \in DOMAIN rx' /\ i # 0 /\ i \notin DOMAIN rx /\ j = N + n + 1 /\ j \notin DOMAIN rx'
    BY <1>2, <1>4, <1>5, <1>7
  <2>2. rx'[i] = f
    BY <1>2, <2>1
  <2>3. c = s /\ messageAt(i)' = sent'
    BY <1>3, <2>1, <2>2 DEF Opens, messageAt, heads
  <2>4. continued(j, c)' = snd'[c].msg
    BY <2>1 DEF continued
  <2>5. snd'[s].msg = sent'
    BY <1>3
  <2> QED
    BY <2>3, <2>4, <2>5
<1> QED
  BY <1>2, <1>4, <1>6, <1>7

\* a fragment belongs to it,
LEMMA OrderSendNext ==
    ASSUME NoWrap, Types, NEW lens \in LengthOf, Contents(lens), NEW s \in Sender, SendNext(s), Order
    PROVE  Order'
<1> DEFINE f == Fragment(s)
           N == Len(rx)
<1>1. PICK n \in {0, 1, 2} : Arrived(f, n) /\ Types' /\ UNCHANGED <<rcv, source>>
  BY TypesSendNext
<1>2. /\ DOMAIN rx = 1 .. N /\ DOMAIN rx' = 1 .. N + n /\ N \in Nat
      /\ \A j \in DOMAIN rx' : (j \in DOMAIN rx /\ rx'[j] = rx[j]) \/ (j > N /\ rx'[j] = f)
  BY <1>1, NewFrames DEF Types
<1>3. /\ ~f.header /\ f.canid = s /\ f.stream = snd[s].stream /\ msgOf(f) = snd[s].msg
      /\ is_sending(s) /\ snd \in [Sender -> Senders] /\ snd' = [snd EXCEPT ![s] = afterFragment(snd[s])]
      /\ afterFragment(snd[s]).msg = snd[s].msg /\ afterFragment(snd[s]).stream = snd[s].stream
  <2>1. is_sending(s) /\ snd \in [Sender -> Senders] /\ snd' = [snd EXCEPT ![s] = afterFragment(snd[s])]
    BY DEF SendNext, Types, SenderTypes
  <2>2. SenderRight(lens, sent, snd[s])
    BY DEF Contents
  <2> HIDE DEF f
  <2> QED
    BY <2>1, <2>2, FragmentRight DEF f
<1>4. Len(rx') = N + n /\ (headerLost => headerLost')
  <2>1. f.header \in BOOLEAN /\ headerLost \in BOOLEAN /\ Len(rx') = N + n
    BY <1>1, AFragment DEF Types, ChannelTypes, Arrived, Frames
  <2>2. (n = 0 => headerLost' = (headerLost \/ f.header)) /\ (n # 0 => headerLost' = headerLost)
    BY <1>1 DEF Arrived
  <2> HIDE DEF f, N
  <2> QED
    BY <2>1, <2>2
<1> HIDE DEF f
<1> SUFFICES ASSUME ~headerLost',
                    NEW i \in 0 .. Len(rx'), NEW j \in 1 .. Len(rx') + 1, NEW c \in Sender, NEW t \in Streams,
                    i < j, Opens(i, c, t)', Continues(j, c, t)', messageAt(i)' # continued(j, c)'
             PROVE  HeaderBetween(i, j, c, t)'
  BY DEF Order
<1> HIDE DEF N
<1>5. i <= N /\ i \in 0 .. N /\ Opens(i, c, t) /\ messageAt(i) = messageAt(i)'
  <2>1. CASE i = 0
    BY <1>1, <1>2, <2>1 DEF Opens, messageAt
  <2>2. CASE i # 0
    <3>1. i \in DOMAIN rx' /\ rx'[i].header
      BY <2>2 DEF Opens, heads
    <3>2. i \in DOMAIN rx /\ rx'[i] = rx[i]
      BY <1>2, <1>3, <3>1
    <3> QED
      BY <1>2, <2>2, <3>1, <3>2 DEF Opens, messageAt, heads
  <2> QED
    BY <2>1, <2>2
<1>6. PICK p \in 1 .. N + 1 : p <= j /\ i < p /\ Continues(p, c, t) /\ continued(p, c) = continued(j, c)'
  <2>1. CASE j \in 1 .. N
    <3>1. j \in DOMAIN rx /\ j \in DOMAIN rx' /\ ~(j > N) /\ j # N + 1 /\ j # Len(rx') + 1 /\ j \in 1 .. N + 1
      BY <1>2, <1>4, <2>1
    <3>2. rx'[j] = rx[j]
      BY <1>2, <3>1
    <3>3. Continues(j, c, t) /\ continued(j, c) = continued(j, c)'
      BY <3>1, <3>2 DEF Continues, continued
    <3> QED
      BY <3>1, <3>3
  <2>2. CASE j \notin 1 .. N
    <3>1. N + 1 \notin DOMAIN rx /\ N + 1 \in 1 .. N + 1 /\ N + 1 <= j /\ i < N + 1
      BY <1>2, <1>4, <1>5, <2>2
    <3>2. CASE j \in DOMAIN rx'
      <4>1. rx'[j] = f
        BY <1>2, <2>2, <3>2
      <4>2. j # Len(rx') + 1
        BY <1>2, <1>4, <3>2
      <4>3. c = s /\ t = snd[s].stream /\ continued(j, c)' = snd[s].msg
        BY <1>3, <3>2, <4>1, <4>2 DEF Continues, continued
      <4>4. Continues(N + 1, c, t) /\ continued(N + 1, c) = continued(j, c)'
        BY <1>3, <3>1, <4>3 DEF Continues, continued, N
      <4> QED
        BY <3>1, <4>4
    <3>3. CASE j \notin DOMAIN rx'
      <4>1. is_sending(c)' /\ snd'[c].stream = t /\ continued(j, c)' = snd'[c].msg
        BY <3>3 DEF Continues, continued
      <4>2. is_sending(c) /\ snd[c].stream = t /\ snd[c].msg = snd'[c].msg
        <5>1. CASE c = s
          BY <1>3, <4>1, <5>1
        <5>2. CASE c # s
          BY <1>3, <4>1, <5>2 DEF is_sending
        <5> QED
          BY <5>1, <5>2
      <4>3. Continues(N + 1, c, t) /\ continued(N + 1, c) = continued(j, c)'
        BY <3>1, <4>1, <4>2 DEF Continues, continued, N
      <4> QED
        BY <3>1, <4>3
    <3> QED
      BY <3>2, <3>3
  <2> QED
    BY <2>1, <2>2
<1>7. HeaderBetween(i, p, c, t)
  <2>1. messageAt(i) # continued(p, c) /\ ~headerLost
    BY <1>4, <1>5, <1>6
  <2> HIDE DEF messageAt, continued, Opens, Continues, HeaderBetween
  <2> QED
    BY <1>5, <1>6, <2>1 DEF Order, N
<1>8. PICK k \in DOMAIN rx : i < k /\ k < p /\ heads(k, c, t)
  BY <1>7 DEF HeaderBetween
<1>9. k \in DOMAIN rx' /\ ~(k > N) /\ k < j
  BY <1>2, <1>6, <1>8
<1>10. rx'[k] = rx[k]
  BY <1>2, <1>9
<1> QED
  BY <1>8, <1>9, <1>10 DEF HeaderBetween, heads

\* there is no frame at the start,
LEMMA OrderInit == Init => Order
<1> SUFFICES ASSUME Init
             PROVE  Order
  OBVIOUS
<1>1. ~rcv._is_receiving /\ DOMAIN rx = {}
  BY Fresh DEF Init
<1>2. \A i \in 0 .. Len(rx), c \in Sender, t \in Streams : ~Opens(i, c, t)
  BY <1>1 DEF Opens
<1> QED
  BY <1>2 DEF Order

\* and other actions add none.
LEMMA OrderOther ==
    ASSUME Types, Order, TimeOut \/ Tick \/ RestartReceiver \/ (\E s \in Sender : RestartSender(s))
    PROVE  Order'
<1>1. ASSUME rx' = rx, headerLost' = headerLost, source' = source,
             rcv'._is_receiving =>
                rcv._is_receiving /\ rcv'.canid = rcv.canid /\ rcv'.stream = rcv.stream,
             \A s \in Sender : is_sending(s)' =>
                is_sending(s) /\ snd'[s].stream = snd[s].stream /\ snd'[s].msg = snd[s].msg
      PROVE  Order'
  <2> SUFFICES ASSUME ~headerLost',
                      NEW i \in 0 .. Len(rx), NEW j \in 1 .. Len(rx) + 1, NEW c \in Sender, NEW t \in Streams,
                      i < j, Opens(i, c, t)', Continues(j, c, t)', messageAt(i)' # continued(j, c)'
               PROVE  HeaderBetween(i, j, c, t)'
    BY <1>1 DEF Order
  <2>1. Opens(i, c, t) /\ messageAt(i) = messageAt(i)'
    BY <1>1 DEF Opens, messageAt, heads
  <2>2. Continues(j, c, t) /\ continued(j, c) = continued(j, c)'
    <3>1. CASE j \in DOMAIN rx
      <4>1. j # Len(rx) + 1
        <5>1. DOMAIN rx = 1 .. Len(rx) /\ Len(rx) \in Nat
          BY LenProperties DEF Types, ChannelTypes
        <5> QED
          BY <3>1, <5>1
      <4> QED
        BY <1>1, <3>1, <4>1 DEF Continues, continued
    <3>2. CASE j \notin DOMAIN rx
      <4>1. j = Len(rx) + 1 /\ is_sending(c)' /\ snd'[c].stream = t
        BY <1>1, <3>2 DEF Continues
      <4>2. is_sending(c) /\ snd[c].stream = t /\ snd'[c].msg = snd[c].msg
        BY <1>1, <4>1
      <4> QED
        BY <1>1, <3>2, <4>1, <4>2 DEF Continues, continued
    <3> QED
      BY <3>1, <3>2
  <2>3. HeaderBetween(i, j, c, t)
    <3>1. messageAt(i) # continued(j, c) /\ ~headerLost
      BY <1>1, <2>1, <2>2
    <3> HIDE DEF messageAt, continued, Opens, Continues, HeaderBetween
    <3> QED
      BY <2>1, <2>2, <3>1 DEF Order
  <2> QED
    BY <1>1, <2>3 DEF HeaderBetween, heads
<1>2. CASE TimeOut
  <2>1. UNCHANGED <<snd, rx, source, headerLost>> /\ ~rcv'._is_receiving
    BY <1>2, TypesTimeOut DEF TimeOut, sending, channel
  <2>2. \A s \in Sender : is_sending(s)' =>
                is_sending(s) /\ snd'[s].stream = snd[s].stream /\ snd'[s].msg = snd[s].msg
    BY <2>1 DEF is_sending
  <2> QED
    BY <1>1, <2>1, <2>2
<1>3. CASE Tick
  <2>1. /\ UNCHANGED <<rx, source, headerLost>>
        /\ rcv'._is_receiving = rcv._is_receiving /\ rcv'.stream = rcv.stream /\ rcv'.canid = rcv.canid
        /\ \A s \in Sender :
                 /\ snd'[s].msg = snd[s].msg /\ snd'[s].stream = snd[s].stream
                 /\ snd'[s].len = snd[s].len /\ snd'[s].index = snd[s].index
    BY <1>3, TypesTick
  <2>2. \A s \in Sender : is_sending(s)' =>
                is_sending(s) /\ snd'[s].stream = snd[s].stream /\ snd'[s].msg = snd[s].msg
    BY <2>1 DEF is_sending
  <2> QED
    BY <1>1, <2>1, <2>2
<1>4. CASE RestartReceiver \/ \E s \in Sender : RestartSender(s)
  <2>1. /\ UNCHANGED <<source, headerLost>>
        /\ \/ snd' = snd /\ rx' = <<>> /\ rcv' = atStart
           \/ rx' = rx /\ rcv' = rcv /\ \E s \in Sender : snd' = [snd EXCEPT ![s] = idle]
    BY <1>4, TypesRestart
  <2>2. CASE snd' = snd /\ rx' = <<>> /\ rcv' = atStart
    <3>1. DOMAIN rx' = {} /\ ~rcv'._is_receiving
      BY <2>2, Fresh
    <3>2. \A i \in 0 .. Len(rx'), c \in Sender, t \in Streams : ~Opens(i, c, t)'
      BY <3>1 DEF Opens
    <3> HIDE DEF Opens
    <3> QED
      BY <3>2 DEF Order
  <2>3. CASE rx' = rx /\ rcv' = rcv /\ \E s \in Sender : snd' = [snd EXCEPT ![s] = idle]
    <3>1. PICK s \in Sender : snd' = [snd EXCEPT ![s] = idle]
      BY <2>3
    <3>2. \A c \in Sender : is_sending(c)' =>
                is_sending(c) /\ snd'[c].stream = snd[c].stream /\ snd'[c].msg = snd[c].msg
      <4> TAKE c \in Sender
      <4>1. CASE c = s
        <5>1. snd'[c] = idle
          BY <3>1, <4>1 DEF Types, SenderTypes
        <5> QED
          BY <5>1, Idle DEF is_sending
      <4>2. CASE c # s
        <5>1. snd'[c] = snd[c]
          BY <3>1, <4>2 DEF Types, SenderTypes
        <5> QED
          BY <5>1 DEF is_sending
      <4> QED
        BY <4>1, <4>2
    <3> QED
      BY <1>1, <2>1, <2>3, <3>2
  <2> QED
    BY <2>1, <2>2, <2>3
<1> QED
  BY <1>2, <1>3, <1>4

-----------------------------------------------------------------------------
(* What the receiver has of the message.                                    *)

\* These are first bytes of the message.
Right(src, bytes) ==
    Len(bytes) <= src.len /\ \A k \in 1 .. Len(bytes) : bytes[k] = byteOf(src.msg, k)

held == got \o rcv.buffer

\* c fragments have been taken.  If none was ignored, which would have been
\* counted, they are the first ones.
Progress ==
    rcv._is_receiving /\ ~headerLost =>
       /\ Len(held) = rcv.received
       /\ \E c \in 0 .. rcv.expected - 1 :
             /\ rcv.received = c * PAYLOAD
             /\ c = rcv.expected - 1 => Right(source, held)
             /\ undisturbed => c = rcv.expected - 1

Pieces == undisturbed /\ ~headerLost => Right(source, got)

\* All the receiver has of a message, handed over or in the buffer.
LEMMA Held ==
    ASSUME Types
    PROVE  /\ got \in Seq(Byte) /\ rcv.buffer \in Seq(Byte) /\ held \in Seq(Byte)
           /\ Len(held) = Len(got) + Len(rcv.buffer)
           /\ Len(got) \in Nat /\ Len(rcv.buffer) \in Nat
           /\ \A k \in 1 .. Len(held) :
                 held[k] = IF k <= Len(got) THEN got[k] ELSE rcv.buffer[k - Len(got)]
<1>1. got \in Seq(Byte) /\ rcv \in Receivers
  BY DEF Types, HistoryTypes, ReceiverTypes
<1>2. rcv.buffer \in Seq(Byte)
  BY <1>1 DEF Receivers
<1>3. /\ held \in Seq(Byte) /\ Len(held) = Len(got) + Len(rcv.buffer)
      /\ \A k \in 1 .. Len(got) + Len(rcv.buffer) :
                 held[k] = IF k <= Len(got) THEN got[k] ELSE rcv.buffer[k - Len(got)]
  BY <1>1, <1>2, ConcatProperties DEF held
<1>4. Len(got) \in Nat /\ Len(rcv.buffer) \in Nat
  BY <1>1, <1>2
<1> QED
  BY <1>1, <1>2, <1>3, <1>4

\* The first of some right bytes are right.
LEMMA HandedRight ==
    ASSUME NEW first \in Seq(Byte), NEW rest \in Seq(Byte), NEW src, src.len \in Nat,
           Right(src, first \o rest)
    PROVE  Right(src, first)
<1> DEFINE g == Len(first)
           b == Len(rest)
           all == first \o rest
<1>1. g \in Nat /\ b \in Nat
  OBVIOUS
<1>2. Len(all) = g + b /\ \A k \in 1 .. g + b : all[k] = IF k <= g THEN first[k] ELSE rest[k - g]
  BY ConcatProperties
<1> HIDE DEF g, b, all
<1>3. Len(all) <= src.len /\ \A k \in 1 .. Len(all) : all[k] = byteOf(src.msg, k)
  BY DEF Right, all
<1>4. \A k \in 1 .. g : k \in 1 .. g + b /\ k <= g
  BY <1>1
<1>5. \A k \in 1 .. g : first[k] = byteOf(src.msg, k)
  BY <1>2, <1>3, <1>4
<1>6. g <= src.len
  BY <1>1, <1>2, <1>3
<1> QED
  BY <1>5, <1>6 DEF Right, g

\* A fragment that is consumed puts its bytes behind them.
LEMMA Extended ==
    ASSUME Types, NEW f \in Frames
    PROVE  LET e == got \o consumed(f)
           IN  /\ e \in Seq(Byte) /\ Len(e) = Len(held) + taken(rcv)
               /\ \A k \in 1 .. Len(held) : e[k] = held[k]
               /\ \A k \in 1 .. taken(rcv) : e[Len(held) + k] = f.data[k]
<1> DEFINE e == got \o consumed(f)
           g == Len(got)
           b == Len(rcv.buffer)
           h == Len(held)
           n == taken(rcv)
           l == Len(consumed(f))
<1>1. /\ n \in Nat /\ consumed(f) \in Seq(Byte) /\ l = b + n
      /\ \A k \in 1 .. b : consumed(f)[k] = rcv.buffer[k]
      /\ \A k \in 1 .. n : consumed(f)[b + k] = f.data[k]
  <2>1. rcv \in Receivers
    BY DEF Types, ReceiverTypes
  <2>2. \A k \in 1 .. PAYLOAD : k \in Nat
    BY Parameters
  <2> QED
    BY <2>1, <2>2, BytesTaken
<1>2. g \in Nat /\ b \in Nat /\ h = g + b /\ got \in Seq(Byte)
      /\ \A k \in 1 .. h : held[k] = IF k <= g THEN got[k] ELSE rcv.buffer[k - g]
  BY Held
<1>3. /\ e \in Seq(Byte) /\ Len(e) = g + l
      /\ \A k \in 1 .. g + l : e[k] = IF k <= g THEN got[k] ELSE consumed(f)[k - g]
  BY <1>1, <1>2, ConcatProperties
<1> HIDE DEF e, g, b, h, n, l
<1>4. ASSUME NEW k \in 1 .. h
      PROVE  e[k] = held[k]
  <2>1. k \in 1 .. g + l /\ (k <= g \/ (~(k <= g) /\ k - g \in 1 .. b))
    BY <1>1, <1>2
  <2> QED
    BY <1>1, <1>2, <1>3, <2>1
<1>5. ASSUME NEW k \in 1 .. n
      PROVE  e[h + k] = f.data[k]
  <2>1. h + k \in 1 .. g + l /\ ~(h + k <= g) /\ (h + k) - g = b + k
    BY <1>1, <1>2
  <2> QED
    BY <1>1, <1>3, <2>1
<1>6. Len(e) = h + n
  BY <1>1, <1>2, <1>3
<1> QED
  BY <1>3, <1>4, <1>5, <1>6 DEF e, h, n

\* The fragment that comes next is of the message that is followed.
LEMMA OfThisMessage ==
    ASSUME Types, NEW lens \in LengthOf, Contents(lens), Order, ~headerLost,
           NEW f \in Frames, f = rx[1], 1 \in DOMAIN rx, Consume(f)
    PROVE  /\ ~f.header /\ msgOf(f) = source.msg /\ f.seq = rcv.expected
           /\ FrameRight(lens, sent, f)
           /\ rcv.length = source.len /\ source.len = lens[source.msg] /\ rcv.expected >= 1
<1>1. rcv._is_receiving /\ f.seq = rcv.expected /\ f.canid = rcv.canid /\ f.stream = rcv.stream
  BY DEF Consume, inSequence, sameSource
<1>2. /\ rcv.length = source.len /\ source.len = lens[source.msg] /\ rcv.expected >= 1
      /\ FrameRight(lens, sent, f)
  BY <1>1 DEF Contents, FollowedRight
<1>3. ~f.header
  BY <1>1, <1>2 DEF FrameRight
<1>4. msgOf(f) = source.msg
  <2>1. SUFFICES ASSUME msgOf(f) # source.msg
                 PROVE  FALSE
    OBVIOUS
  <2>2. DOMAIN rx = 1 .. Len(rx) /\ Len(rx) \in Nat
    BY LenProperties DEF Types, ChannelTypes
  <2>3. 0 \in 0 .. Len(rx) /\ 1 \in 1 .. Len(rx) + 1 /\ 0 < 1 /\ f.canid \in Sender /\ f.stream \in Streams
    BY <2>2 DEF Frames
  <2>4. Opens(0, f.canid, f.stream) /\ messageAt(0) = source.msg
    BY <1>1 DEF Opens, messageAt
  <2>5. Continues(1, f.canid, f.stream) /\ continued(1, f.canid) = msgOf(f)
    BY <1>3 DEF Continues, continued
  <2>6. HeaderBetween(0, 1, f.canid, f.stream)
    <3> HIDE DEF messageAt, continued, Opens, Continues, HeaderBetween
    <3> QED
      BY <2>1, <2>3, <2>4, <2>5 DEF Order
  <2>7. PICK k \in 1 .. Len(rx) : 0 < k /\ k < 1
    BY <2>2, <2>6 DEF HeaderBetween
  <2> QED
    BY <2>7
<1> QED
  BY <1>1, <1>2, <1>3, <1>4

\* A fragment that is taken is the next of its message, or one after an ignored
\* one, which never completes it.
LEMMA ConsumeRight ==
    ASSUME Types, NEW lens \in LengthOf, Contents(lens), Order, Progress, ~headerLost,
           NEW f \in Frames, f = rx[1], 1 \in DOMAIN rx, Consume(f)
    PROVE  /\ completes => /\ Right(source, got \o consumed(f)) /\ Len(got \o consumed(f)) = source.len
                           /\ rcv.length # 0
           /\ ~completes =>
                 /\ Len(got \o consumed(f)) = rcv.received + taken(rcv)
                 /\ \E c \in 0 .. rcv.expected :
                       /\ rcv.received + taken(rcv) = c * PAYLOAD
                       /\ c = rcv.expected => Right(source, got \o consumed(f))
                       /\ undisturbed => c = rcv.expected
<1> DEFINE n == taken(rcv)
           L == source.len
           R == rcv.received
           E == rcv.expected
           P == PAYLOAD
           e == got \o consumed(f)
           start == (E - 1) * P
<1>1. /\ ~f.header /\ msgOf(f) = source.msg /\ f.seq = E /\ rcv.length = L /\ L = lens[source.msg]
      /\ E >= 1 /\ FrameRight(lens, sent, f)
  BY OfThisMessage
<1>2. L \in Nat /\ R \in Nat /\ E \in Nat /\ P \in Nat /\ P >= 1
  <2>1. rcv \in Receivers /\ source.len \in LengthsOr0
    BY DEF Types, ReceiverTypes, HistoryTypes
  <2> QED
    BY <2>1, Parameters DEF Receivers
<1>3. start < L /\ \A k \in 1 .. P : start + k <= L => f.data[k] = byteOf(source.msg, start + k)
  BY <1>1 DEF FrameRight
<1>4. rcv._is_receiving
  BY DEF Consume
<1>5. PICK c \in 0 .. E - 1 : R = c * P /\ (c = E - 1 => Right(source, held)) /\ (undisturbed => c = E - 1)
  BY <1>4 DEF Progress
<1>6. Len(held) = R
  BY <1>4 DEF Progress
<1>7. n = (IF L <= R THEN 1 ELSE IF L - R < P THEN L - R ELSE P) /\ (completes <=> R + n >= L)
  BY <1>1 DEF taken, completes
<1>8. /\ e \in Seq(Byte) /\ Len(e) = R + n
      /\ \A k \in 1 .. R : e[k] = held[k]
      /\ \A k \in 1 .. n : e[R + k] = f.data[k]
  BY <1>6, Extended
<1>9. start \in Nat /\ R <= start
  <2>1. c <= E - 1 /\ c \in Nat /\ E - 1 \in Nat
    BY <1>1, <1>2
  <2>2. c * P <= (E - 1) * P /\ (E - 1) * P \in Nat
    BY <1>2, <2>1
  <2> QED
    BY <1>5, <2>2
<1> HIDE DEF n, e, completes
<1>10. /\ n \in Nat /\ (completes => R + n = L) /\ (~completes => n = P) /\ L > 0 /\ n <= P /\ R + n <= L
  <2> HIDE DEF start, L, R, P
  <2> QED
    BY <1>2, <1>3, <1>7, <1>9
<1>11. ASSUME c = E - 1
       PROVE  Right(source, e)
  <2>1. R = start /\ Len(e) <= L
    BY <1>5, <1>8, <1>10, <1>11
  <2>2. \A k \in 1 .. R : held[k] = byteOf(source.msg, k)
    BY <1>5, <1>6, <1>11 DEF Right
  <2>3. ASSUME NEW k \in 1 .. R + n
        PROVE  e[k] = byteOf(source.msg, k)
    <3>1. CASE k <= R
      <4>1. k \in 1 .. R
        BY <1>2, <1>10, <3>1
      <4> QED
        BY <1>8, <2>2, <4>1
    <3>2. CASE ~(k <= R)
      <4> HIDE DEF start
      <4>1. k - R \in 1 .. n /\ k - R \in 1 .. P /\ R + (k - R) = k /\ k <= L
        BY <1>2, <1>10, <3>2
      <4>2. e[k] = f.data[k - R]
        <5>1. e[R + (k - R)] = f.data[k - R]
          BY <1>8, <4>1
        <5> QED
          BY <4>1, <5>1
      <4>3. f.data[k - R] = byteOf(source.msg, start + (k - R))
        BY <1>3, <2>1, <4>1
      <4> QED
        BY <2>1, <4>1, <4>2, <4>3
    <3> QED
      BY <3>1, <3>2
  <2> QED
    BY <1>8, <2>1, <2>3 DEF Right
<1>12. c # E - 1 => ~completes
  <2>1. SUFFICES ASSUME c # E - 1
                 PROVE  ~completes
    OBVIOUS
  <2>2. c + 1 <= E - 1 /\ c + 1 \in Nat /\ E - 1 \in Nat /\ c \in Nat
    BY <1>1, <1>2, <2>1
  <2>3. (c + 1) * P <= (E - 1) * P
    BY <1>2, <2>2
  <2>4. (c + 1) * P = R + P
    BY <1>2, <1>5, <2>2
  <2>5. R + P <= start
    BY <2>3, <2>4
  <2> HIDE DEF start
  <2> QED
    BY <1>2, <1>3, <1>9, <1>10, <2>5
<1>13. ASSUME completes
       PROVE  Right(source, e) /\ Len(e) = L /\ rcv.length # 0
  BY <1>1, <1>8, <1>10, <1>11, <1>12, <1>13
<1>14. ASSUME ~completes
       PROVE  /\ Len(e) = R + n
              /\ \E d \in 0 .. E : /\ R + n = d * P
                                   /\ d = E => Right(source, e)
                                   /\ undisturbed => d = E
  <2>1. c + 1 \in 0 .. E /\ (c + 1) * P = R + P /\ (c + 1 = E <=> c = E - 1)
    BY <1>2, <1>5
  <2>2. R + n = (c + 1) * P
    BY <1>10, <1>14, <2>1
  <2>3. (c + 1 = E => Right(source, e)) /\ (undisturbed => c + 1 = E)
    BY <1>5, <1>11, <2>1
  <2> QED
    BY <1>8, <2>1, <2>2, <2>3
<1> QED
  BY <1>13, <1>14 DEF n, e

\* A message whose bytes are all there is the whole message.
LEMMA WholeIs ==
    ASSUME NEW bytes \in Seq(Byte), NEW src, src.len \in Nat, Right(src, bytes), Len(bytes) = src.len
    PROVE  bytes = whole(src)
<1> DEFINE L == src.len
<1>1. DOMAIN bytes = 1 .. L
  BY LenProperties
<1>2. bytes = [k \in 1 .. L |-> bytes[k]]
  BY <1>1
<1>3. \A k \in 1 .. L : bytes[k] = byteOf(src.msg, k)
  BY DEF Right
<1>4. whole(src) = [k \in 1 .. L |-> byteOf(src.msg, k)]
  BY DEF whole
<1> HIDE DEF L
<1> QED
  BY <1>2, <1>3, <1>4

\* Bytes that are right are the beginning of the message.
LEMMA PrefixIs ==
    ASSUME NEW bytes \in Seq(Byte), NEW src, src.len \in Nat, Right(src, bytes)
    PROVE  IsPrefix(bytes, whole(src))
<1> DEFINE L == src.len
           n == Len(bytes)
           w == whole(src)
<1>1. n \in Nat /\ n <= L /\ \A k \in 1 .. n : bytes[k] = byteOf(src.msg, k)
  BY DEF Right
<1>2. w = [k \in 1 .. L |-> byteOf(src.msg, k)] /\ \A k \in 1 .. L : w[k] = byteOf(src.msg, k)
  BY DEF whole
<1> DEFINE Known == {byteOf(src.msg, k) : k \in 1 .. L}
<1>3. w \in [1 .. L -> Known]
  BY <1>2
<1> HIDE DEF w, Known
<1>4. w \in Seq(Known) /\ Len(w) = L
  BY <1>3, FunctionIsSeq
<1>5. bytes = SubSeq(w, 1, n)
  <2>1. \A k \in 1 .. n : k \in 1 .. L /\ w[k] \in Known
    BY <1>1, <1>3
  <2> DEFINE s == SubSeq(w, 1, n)
  <2>2. s \in Seq(Known) /\ Len(s) = n /\ \A k \in 1 .. n : s[k] = w[k]
    <3>1. /\ SubSeq(w, 1, n) \in Seq(Known)
          /\ Len(SubSeq(w, 1, n)) = IF 1 <= n THEN n - 1 + 1 ELSE 0
          /\ \A k \in 1 .. n - 1 + 1 : SubSeq(w, 1, n)[k] = w[1 + k - 1]
      BY <1>1, <2>1, SubSeqProperties
    <3>2. n - 1 + 1 = n /\ \A k \in 1 .. n : 1 + k - 1 = k
      BY <1>1
    <3>3. (IF 1 <= n THEN n - 1 + 1 ELSE 0) = n
      BY <1>1
    <3> HIDE DEF n
    <3> QED
      BY <3>1, <3>2, <3>3
  <2> HIDE DEF s
  <2>3. DOMAIN s = 1 .. n /\ DOMAIN bytes = 1 .. n
    BY <2>2, LenProperties
  <2>4. s = [k \in 1 .. n |-> s[k]] /\ bytes = [k \in 1 .. n |-> bytes[k]]
    BY <2>2, <2>3
  <2> HIDE DEF n
  <2>5. \A k \in 1 .. n : s[k] = bytes[k]
    BY <1>1, <1>2, <2>1, <2>2
  <2>6. s = bytes
    BY <2>4, <2>5
  <2> QED
    BY <2>6 DEF s
<1>6. IsPrefix(bytes, w) <=> (Len(bytes) <= Len(w) /\ bytes = SubSeq(w, 1, Len(bytes)))
  BY DEF IsPrefix
<1> QED
  BY <1>1, <1>4, <1>5, <1>6 DEF w

\* Steps that hand over nothing and leave the receiver's bytes as they are.
LEMMA NothingNew ==
    ASSUME Types, Progress, Pieces, calls' = <<>>, UNCHANGED <<got, source, undisturbed>>,
           headerLost => headerLost',
           rcv'._is_receiving =>
              /\ rcv._is_receiving /\ rcv'.buffer = rcv.buffer /\ rcv'.received = rcv.received
              /\ rcv'.expected = rcv.expected
    PROVE  Progress' /\ Pieces' /\ CompleteIsSent'
<1>1. Pieces'
  BY DEF Pieces, Right
<1>2. CompleteIsSent'
  <2>1. ~surfaced("COMPLETE")'
    BY Silent DEF surfaced
  <2> QED
    BY <2>1 DEF CompleteIsSent
<1>3. Progress'
  <2> SUFFICES ASSUME rcv'._is_receiving, ~headerLost'
               PROVE  /\ Len(held') = rcv'.received
                      /\ \E c \in 0 .. rcv'.expected - 1 :
                            /\ rcv'.received = c * PAYLOAD
                            /\ c = rcv'.expected - 1 => Right(source', held')
                            /\ undisturbed' => c = rcv'.expected - 1
    BY DEF Progress
  <2>1. held' = held
    BY DEF held
  <2>2. rcv._is_receiving /\ ~headerLost
    OBVIOUS
  <2>3. /\ Len(held) = rcv.received
        /\ \E c \in 0 .. rcv.expected - 1 :
              /\ rcv.received = c * PAYLOAD
              /\ c = rcv.expected - 1 => Right(source, held)
              /\ undisturbed => c = rcv.expected - 1
    BY <2>2 DEF Progress
  <2> HIDE DEF held
  <2> QED
    BY <2>1, <2>3
<1> QED
  BY <1>1, <1>2, <1>3

\* Steps that end the attempt and hand over what is held.
LEMMA GivenUpRight ==
    ASSUME Types, Progress, Pieces, rcv._is_receiving, ~rcv'._is_receiving,
           NEW status \in Statuses, status # "COMPLETE", surface(<<Call(status, rcv.buffer)>>),
           UNCHANGED <<source, undisturbed, headerLost>>
    PROVE  Progress' /\ Pieces' /\ CompleteIsSent'
<1>1. /\ DOMAIN calls' = {1} /\ calls'[1].status = status /\ got' = held
  BY Reported DEF held
<1>2. CompleteIsSent'
  <2>1. ~surfaced("COMPLETE")'
    BY <1>1 DEF surfaced
  <2> QED
    BY <2>1 DEF CompleteIsSent
<1>3. Progress'
  BY DEF Progress
<1>4. Pieces'
  <2> SUFFICES ASSUME undisturbed, ~headerLost
               PROVE  Right(source, held)
    BY <1>1 DEF Pieces, Right
  <2> HIDE DEF held
  <2> QED
    BY DEF Progress
<1> QED
  BY <1>2, <1>3, <1>4

\* A frame that is handled leaves right what the receiver has, and what it reports complete.
LEMMA HandleRight ==
    ASSUME Types, NEW lens \in LengthOf, Contents(lens), Order, Progress, Pieces, HandleFragment
    PROVE  Progress' /\ Pieces' /\ CompleteIsSent'
<1>1. PICK f \in Frames :
           /\ f = rx[1] /\ Handles(f)
           /\ StartReceiving(f) \/ DropIdle(f) \/ IgnoreOther(f) \/ WrongSequence(f) \/ Consume(f)
  BY TypesHandle
<1>2. 1 \in DOMAIN rx /\ UNCHANGED <<snd, sent, headerLost>>
  BY <1>1, Handled DEF Types
<1>3. rcv \in Receivers /\ source \in [msg : Nat, len : LengthsOr0]
  BY DEF Types, ReceiverTypes, HistoryTypes
<1>4. rcv.expected \in Nat /\ source.len \in Nat /\ rcv.received \in Nat /\ Types'
  BY <1>3, TypesHandle, Parameters DEF Receivers
<1>5. CASE StartReceiving(f)
  <2>1. /\ calls' = <<>> /\ got' = <<>> /\ rcv'.buffer = <<>> /\ rcv'.received = 0 /\ rcv'.expected = 1
    BY <1>5, TypesStart
  <2>2. source'.len \in Nat
    <3>1. source' \in [msg : Nat, len : LengthsOr0]
      BY <1>4 DEF Types, HistoryTypes
    <3> QED
      BY <3>1, Parameters
  <2>3. held' = <<>> /\ Len(held') = 0
    BY <2>1 DEF held
  <2>4. Right(source', <<>>)
    BY <2>2 DEF Right
  <2>5. Pieces'
    BY <2>1, <2>4 DEF Pieces, Right
  <2>6. Progress'
    <3>1. 0 \in 0 .. 1 - 1 /\ 0 = 0 * PAYLOAD /\ 0 = 1 - 1
      BY Parameters
    <3>2. Right(source', held')
      BY <2>3, <2>4
    <3> HIDE DEF held, Right
    <3>3. \E c \in 0 .. rcv'.expected - 1 :
             /\ rcv'.received = c * PAYLOAD
             /\ c = rcv'.expected - 1 => Right(source', held')
             /\ undisturbed' => c = rcv'.expected - 1
      BY <2>1, <3>1, <3>2
    <3>4. Len(held') = rcv'.received
      BY <2>1, <2>3
    <3> QED
      BY <3>3, <3>4 DEF Progress, Right
  <2>7. CompleteIsSent'
    <3>1. ~surfaced("COMPLETE")'
      BY <2>1, Silent DEF surfaced
    <3> QED
      BY <3>1 DEF CompleteIsSent
  <2> QED
    BY <2>5, <2>6, <2>7
<1>6. CASE DropIdle(f)
  <2>1. /\ calls' = <<>> /\ UNCHANGED <<got, source, undisturbed>>
        /\ ~rcv._is_receiving /\ rcv' = counted(rcv)
    BY <1>6 DEF DropIdle, history
  <2>2. ~rcv'._is_receiving
    BY <1>3, <2>1, Counted
  <2> QED
    BY <1>2, <2>1, <2>2, NothingNew
<1>7. CASE IgnoreOther(f)
  <2>1. /\ calls' = <<>> /\ got' = got /\ source' = source /\ undisturbed' = FALSE
        /\ rcv._is_receiving /\ rcv' = counted(rcv)
    BY <1>7 DEF IgnoreOther
  <2>2. rcv'.buffer = rcv.buffer /\ rcv'.received = rcv.received /\ rcv'.expected = rcv.expected + 1
    BY <1>3, <2>1, Counted
  <2>3. Pieces'
    BY <2>1 DEF Pieces
  <2>4. CompleteIsSent'
    <3>1. ~surfaced("COMPLETE")'
      BY <2>1, Silent DEF surfaced
    <3> QED
      BY <3>1 DEF CompleteIsSent
  <2>5. held' = held
    BY <2>1, <2>2 DEF held
  <2>6. ASSUME ~headerLost
        PROVE  /\ Len(held') = rcv'.received
               /\ \E c \in 0 .. rcv'.expected - 1 :
                     /\ rcv'.received = c * PAYLOAD
                     /\ c = rcv'.expected - 1 => Right(source', held')
                     /\ undisturbed' => c = rcv'.expected - 1
    <3>1. PICK c \in 0 .. rcv.expected - 1 : rcv.received = c * PAYLOAD
      BY <2>1, <2>6 DEF Progress
    <3>2. Len(held) = rcv.received
      BY <2>1, <2>6 DEF Progress
    <3>3. c \in 0 .. rcv'.expected - 1 /\ c # rcv'.expected - 1
      BY <1>4, <2>2
    <3> HIDE DEF held
    <3> QED
      BY <2>1, <2>2, <2>5, <3>1, <3>2, <3>3
  <2>7. Progress'
    <3> HIDE DEF held
    <3> QED
      BY <1>2, <2>6 DEF Progress, Right
  <2> QED
    BY <2>3, <2>4, <2>7
<1>8. CASE WrongSequence(f)
  <2>1. /\ surface(<<Call("SEQUENCE_ERROR", rcv.buffer)>>) /\ rcv._is_receiving
        /\ UNCHANGED <<source, undisturbed>>
    BY <1>8 DEF WrongSequence
  <2>2. ~rcv'._is_receiving
    BY <1>8, TypesWrong
  <2>3. "SEQUENCE_ERROR" \in Statuses
    BY DEF Statuses
  <2>4. "SEQUENCE_ERROR" # "COMPLETE"
    OBVIOUS
  <2> QED
    BY <1>2, <2>1, <2>2, <2>3, <2>4, GivenUpRight
<1>9. CASE Consume(f) /\ headerLost
  BY <1>2, <1>9 DEF Progress, Pieces, CompleteIsSent
<1>10. CASE Consume(f) /\ ~headerLost /\ completes
  <2>1. /\ Right(source, got \o consumed(f)) /\ Len(got \o consumed(f)) = source.len /\ rcv.length # 0
    BY <1>1, <1>2, <1>10, ConsumeRight
  <2>2. got' = got \o consumed(f) /\ got' \in Seq(Byte) /\ (rcv'._is_receiving => rcv.length = 0)
    BY <1>10, Completed
  <2>3. UNCHANGED <<source, undisturbed>>
    BY <1>10, TypesConsume
  <2>4. Right(source, got') /\ Len(got') = source.len
    BY <2>1, <2>2
  <2>5. got' = whole(source)
    BY <1>4, <2>2, <2>4, WholeIs
  <2>6. CompleteIsSent'
    BY <2>3, <2>5 DEF CompleteIsSent, whole
  <2>7. Pieces'
    BY <2>3, <2>4 DEF Pieces, Right
  <2>8. Progress'
    BY <2>1, <2>2 DEF Progress
  <2> QED
    BY <2>6, <2>7, <2>8
<1>11. CASE Consume(f) /\ ~headerLost /\ ~completes
  <2>1. /\ rcv'.expected = rcv.expected + 1
        /\ rcv'.received = rcv.received + taken(rcv)
        /\ held' = got \o consumed(f)
        /\ \A i \in DOMAIN calls' : calls'[i].status = "INCOMPLETE"
    BY <1>11, Taken DEF held
  <2>2. UNCHANGED <<source, undisturbed>>
    BY <1>11, TypesConsume
  <2>3. /\ Len(got \o consumed(f)) = rcv.received + taken(rcv)
        /\ \E c \in 0 .. rcv.expected :
              /\ rcv.received + taken(rcv) = c * PAYLOAD
              /\ c = rcv.expected => Right(source, got \o consumed(f))
              /\ undisturbed => c = rcv.expected
    BY <1>1, <1>2, <1>11, ConsumeRight
  <2>4. rcv'.expected - 1 = rcv.expected
    BY <1>4, <2>1
  <2> DEFINE e == got \o consumed(f)
  <2>5. /\ Len(held') = rcv'.received
        /\ \E c \in 0 .. rcv'.expected - 1 :
              /\ rcv'.received = c * PAYLOAD
              /\ c = rcv'.expected - 1 => Right(source, held')
              /\ undisturbed => c = rcv'.expected - 1
    <3>1. /\ held' = e /\ Len(e) = rcv'.received
          /\ \E c \in 0 .. rcv.expected :
              /\ rcv'.received = c * PAYLOAD
              /\ c = rcv.expected => Right(source, e)
              /\ undisturbed => c = rcv.expected
      BY <2>1, <2>3
    <3> HIDE DEF e, held
    <3> QED
      BY <2>4, <3>1
  <2>6. Progress'
    <3> HIDE DEF held
    <3> QED
      BY <2>2, <2>5 DEF Progress, Right
  <2>7. CompleteIsSent'
    <3>1. ~surfaced("COMPLETE")'
      BY <2>1 DEF surfaced
    <3> QED
      BY <3>1 DEF CompleteIsSent
  <2>8. Pieces'
    <3>1. ASSUME undisturbed
          PROVE  Right(source, held')
      <4> HIDE DEF held
      <4> QED
        BY <2>5, <3>1
    <3>2. ASSUME undisturbed
          PROVE  Right(source, got')
      <4>1. got' \in Seq(Byte) /\ rcv'.buffer \in Seq(Byte)
        BY <1>4 DEF Types, HistoryTypes, ReceiverTypes, Receivers
      <4>2. Right(source, got' \o rcv'.buffer)
        BY <3>1, <3>2 DEF held
      <4> QED
        BY <1>4, <4>1, <4>2, HandedRight
    <3> QED
      BY <2>2, <3>2 DEF Pieces, Right
  <2> QED
    BY <2>6, <2>7, <2>8
<1> QED
  BY <1>1, <1>5, <1>6, <1>7, <1>8, <1>9, <1>10, <1>11

\* A header that was lost stays lost.
LEMMA LostStays ==
    ASSUME ChannelTypes, NEW f \in Frames, NEW n \in {0, 1, 2}, Arrived(f, n)
    PROVE  headerLost => headerLost'
<1>1. f.header \in BOOLEAN /\ headerLost \in BOOLEAN
  BY DEF Frames, ChannelTypes
<1>2. CASE n = 0
  <2>1. headerLost' = (headerLost \/ f.header)
    BY <1>2 DEF Arrived
  <2> QED
    BY <1>1, <2>1
<1>3. CASE n # 0
  BY <1>3 DEF Arrived
<1> QED
  BY <1>2, <1>3

\* All other steps leave that alone.
LEMMA OtherRight ==
    ASSUME Types, Progress, Pieces, [Next]_vars, ~HandleFragment, CompleteIsSent
    PROVE  Progress' /\ Pieces' /\ CompleteIsSent'
<1>1. ASSUME NEW s \in Sender, NEW stream \in Streams, NEW len \in Lengths,
             sendMultipartMessage(s, stream, len)
      PROVE  Progress' /\ Pieces' /\ CompleteIsSent'
  <2>1. calls' = <<>> /\ rcv' = rcv /\ UNCHANGED <<got, source, undisturbed>>
    BY <1>1 DEF sendMultipartMessage, history
  <2>2. headerLost => headerLost'
    <3>1. PICK n \in {0, 1, 2} : Arrived(Header(s, stream, sent', len), n)
      BY <1>1, TypesSend
    <3>2. sent' \in 0 .. MAX_MESSAGES
      BY <1>1, TypesSend DEF Types, SenderTypes
    <3>3. Header(s, stream, sent', len) \in Frames
      BY <3>2, AHeader
    <3> QED
      BY <3>1, <3>3, LostStays DEF Types
  <2> QED
    BY <2>1, <2>2, NothingNew
<1>2. ASSUME NEW s \in Sender, SendNext(s)
      PROVE  Progress' /\ Pieces' /\ CompleteIsSent'
  <2>1. calls' = <<>> /\ rcv' = rcv /\ UNCHANGED <<got, source, undisturbed>>
    BY <1>2, TypesSendNext
  <2>2. headerLost => headerLost'
    <3>1. PICK n \in {0, 1, 2} : Arrived(Fragment(s), n)
      BY <1>2, TypesSendNext
    <3>2. Fragment(s) \in Frames
      BY AFragment DEF Types
    <3> QED
      BY <3>1, <3>2, LostStays DEF Types
  <2> QED
    BY <2>1, <2>2, NothingNew
<1>3. CASE TimeOut
  <2>1. /\ surface(<<Call("TIMEOUT_ERROR", rcv.buffer)>>) /\ rcv._is_receiving
        /\ UNCHANGED <<source, undisturbed, headerLost>>
    BY <1>3 DEF TimeOut, channel
  <2>2. ~rcv'._is_receiving
    BY <1>3, TypesTimeOut
  <2>3. "TIMEOUT_ERROR" \in Statuses
    BY DEF Statuses
  <2>4. "TIMEOUT_ERROR" # "COMPLETE"
    OBVIOUS
  <2> QED
    BY <2>1, <2>2, <2>3, <2>4, GivenUpRight
<1>4. CASE Tick
  <2>1. /\ calls' = <<>> /\ UNCHANGED <<got, source, undisturbed, headerLost>>
        /\ rcv'._is_receiving = rcv._is_receiving /\ rcv'.buffer = rcv.buffer
        /\ rcv'.received = rcv.received /\ rcv'.expected = rcv.expected
    BY <1>4, TypesTick
  <2> QED
    BY <2>1, NothingNew
<1>5. CASE RestartReceiver \/ \E s \in Sender : RestartSender(s)
  <2>1. /\ calls' = <<>> /\ UNCHANGED <<got, source, undisturbed, headerLost>>
        /\ rcv' = atStart \/ rcv' = rcv
    BY <1>5, TypesRestart
  <2> QED
    BY <2>1, Fresh, NothingNew
<1>6. CASE UNCHANGED vars
  <2>1. UNCHANGED <<rcv, calls, got, source, undisturbed, headerLost>>
    BY <1>6 DEF vars, history, channel
  <2> QED
    BY <2>1 DEF Progress, Pieces, CompleteIsSent, held, Right, surfaced, whole
<1> QED
  BY <1>1, <1>2, <1>3, <1>4, <1>5, <1>6 DEF Next

\* The inductive invariant for messages without wrapped numbers.
IInv ==
    /\ Types
    /\ \E lens \in LengthOf : Contents(lens)
    /\ Order
    /\ Progress
    /\ Pieces
    /\ CompleteIsSent

\* The invariant holds at the start,
LEMMA IInvInit == Init => IInv
<1> SUFFICES ASSUME Init
             PROVE  IInv
  OBVIOUS
<1>1. Types /\ (\E lens \in LengthOf : Contents(lens)) /\ Order
  BY TypesInit, ContentsInit, OrderInit
<1>2. Progress
  BY Fresh DEF Init, Progress
<1>3. Pieces
  BY Parameters DEF Init, Pieces, Right
<1>4. CompleteIsSent
  BY DEF Init, CompleteIsSent, surfaced
<1> QED
  BY <1>1, <1>2, <1>3, <1>4 DEF IInv

\* and every step keeps it.
LEMMA IInvNext == NoWrap /\ IInv /\ [Next]_vars => IInv'
<1> SUFFICES ASSUME NoWrap, IInv, [Next]_vars
             PROVE  IInv'
  OBVIOUS
<1>1. PICK lens \in LengthOf : Contents(lens)
  BY DEF IInv
<1>2. Types /\ Order /\ Progress /\ Pieces /\ CompleteIsSent
  BY DEF IInv
<1>3. Types'
  BY <1>2, TypesNext
<1>4. Progress' /\ Pieces' /\ CompleteIsSent'
  BY <1>1, <1>2, HandleRight, OtherRight
<1>5. Order' /\ \E more \in LengthOf : Contents(more)'
  <2>1. ASSUME NEW s \in Sender, NEW stream \in Streams, NEW len \in Lengths,
               sendMultipartMessage(s, stream, len)
        PROVE  Order' /\ \E more \in LengthOf : Contents(more)'
    BY <1>1, <1>2, <2>1, ContentsSend, OrderSend
  <2>2. ASSUME NEW s \in Sender, SendNext(s)
        PROVE  Order' /\ Contents(lens)'
    BY <1>1, <1>2, <2>2, ContentsSendNext, OrderSendNext
  <2>3. CASE HandleFragment
    BY <1>1, <1>2, <2>3, ContentsHandle, OrderHandle
  <2>4. CASE TimeOut \/ Tick \/ RestartReceiver \/ (\E s \in Sender : RestartSender(s))
    BY <1>1, <1>2, <2>4, ContentsOther, OrderOther
  <2>5. CASE UNCHANGED vars
    <3>1. UNCHANGED <<snd, sent, rx, rcv, source, headerLost>>
      BY <2>5 DEF vars, sending, history, channel
    <3>2. Contents(lens)'
      BY <1>1, <3>1 DEF Contents, FollowedRight
    <3>3. Order'
      BY <1>2, <3>1 DEF Order, Opens, messageAt, Continues, continued, HeaderBetween, heads, is_sending
    <3> QED
      BY <3>2, <3>3
  <2> QED
    BY <2>1, <2>2, <2>3, <2>4, <2>5 DEF Next
<1> QED
  BY <1>3, <1>4, <1>5 DEF IInv

\* With messages whose numbers do not wrap: frames hold what their sender was given, messages
\* arrive in order, and the receiver has the beginning of the one it follows (Contents, Order,
\* Progress, Pieces).
THEOREM Following ==
    ASSUME NoWrap
    PROVE  Spec => []IInv
<1>1. Init => IInv
  BY IInvInit
<1>2. IInv /\ [Next]_vars => IInv'
  BY IInvNext
<1> QED
  BY <1>1, <1>2, PTL DEF Spec

\* A message that is reported complete is the message whose header was
\* accepted, unless a header was lost: CompleteIsSent.
THEOREM CompleteMessagesAreSent ==
    ASSUME NoWrap
    PROVE  Spec => []CompleteIsSent
<1>1. IInv => CompleteIsSent
  BY DEF IInv
<1> QED
  BY <1>1, Following, PTL

\* What is handed over piece by piece is the beginning of that message, if no
\* fragment was ignored in between: PiecesArePrefix.
THEOREM PiecesInOrder ==
    ASSUME NoWrap
    PROVE  Spec => []PiecesArePrefix
<1>1. IInv => PiecesArePrefix
  <2> SUFFICES ASSUME IInv, undisturbed /\ ~headerLost
               PROVE  IsPrefix(got, whole(source))
    BY DEF PiecesArePrefix
  <2>1. Right(source, got)
    BY DEF IInv, Pieces
  <2>2. got \in Seq(Byte) /\ source \in [msg : Nat, len : LengthsOr0]
    BY DEF IInv, Types, HistoryTypes
  <2>3. source.len \in Nat
    BY <2>2, Parameters
  <2> QED
    BY <2>1, <2>2, <2>3, PrefixIs
<1> QED
  BY <1>1, Following, PTL

-----------------------------------------------------------------------------
(* Nothing is missing: the frames of each sender follow each other while     *)
(* nothing is lost, repeated or restarted.                                  *)

\* Position i holds something of sender c.
at(i, c) ==
    \/ i = 0 /\ rcv._is_receiving /\ undisturbed /\ rcv.canid = c
    \/ i \in DOMAIN rx /\ rx[i].canid = c
streamAt(i) == IF i = 0 THEN rcv.stream ELSE rx[i].stream
numberAt(i) == IF i = 0 THEN rcv.expected - 1 ELSE rx[i].seq
NothingBetween(i, j, c) == \A k \in DOMAIN rx : i < k /\ k < j => rx[k].canid # c

\* The next frame: the next fragment, or a header after the end of the message.
Follows(lens, i, f) ==
    IF f.header THEN lens[messageAt(i)] <= numberAt(i) * PAYLOAD
    ELSE f.stream = streamAt(i) /\ msgOf(f) = messageAt(i) /\ f.seq = numberAt(i) + 1

\* What the sender sends next, if it sends.
Sends(lens, i, c) ==
    IF is_sending(c)
    THEN snd[c].stream = streamAt(i) /\ snd[c].msg = messageAt(i) /\ snd[c].seq = numberAt(i) + 1
    ELSE lens[messageAt(i)] <= numberAt(i) * PAYLOAD

Chain(lens) ==
    ~faulty =>
       \A i \in 0 .. Len(rx), j \in 1 .. Len(rx) + 1, c \in Sender :
          i < j /\ at(i, c) /\ NothingBetween(i, j, c) =>
             /\ j \in DOMAIN rx /\ rx[j].canid = c => Follows(lens, i, rx[j])
             /\ j = Len(rx) + 1 => Sends(lens, i, c)

\* A lost header is a fault, and a message with bytes is not over while it is
\* being received.
Quiet == ~faulty => ~headerLost
Unfinished == rcv._is_receiving /\ rcv.length > 0 => rcv.received < rcv.length

\* A frame that arrives when nothing goes wrong is put at the end of the queue.
LEMMA ArrivesOnce ==
    ASSUME ChannelTypes, ChannelTypes', NEW f \in Frames, NEW n \in {0, 1, 2}, Arrived(f, n), ~faulty'
    PROVE  /\ n = 1 /\ ~faulty /\ headerLost' = headerLost
           /\ Len(rx) \in Nat /\ Len(rx') = Len(rx) + 1
           /\ DOMAIN rx = 1 .. Len(rx) /\ DOMAIN rx' = 1 .. Len(rx) + 1
           /\ \A j \in DOMAIN rx : rx'[j] = rx[j]
           /\ rx'[Len(rx) + 1] = f
<1>1. n = 1
  BY DEF Arrived
<1>2. faulty' = faulty /\ headerLost' = headerLost
  BY <1>1 DEF Arrived
<1>3. DOMAIN rx = 1 .. Len(rx) /\ Len(rx) \in Nat
  BY LenProperties DEF ChannelTypes
<1>4. Len(rx') = Len(rx) + 1 /\ (\A j \in 1 .. Len(rx) : rx'[j] = rx[j]) /\ (\A j \in Len(rx) + 1 .. Len(rx) + 1 : rx'[j] = f)
  BY <1>1 DEF Arrived
<1>5. DOMAIN rx' = 1 .. Len(rx')
  BY LenProperties DEF ChannelTypes
<1>6. Len(rx) + 1 \in Len(rx) + 1 .. Len(rx) + 1
  BY <1>3
<1>7. rx'[Len(rx) + 1] = f
  BY <1>4, <1>6
<1> QED
  BY <1>1, <1>2, <1>3, <1>4, <1>5, <1>7

\* That frames of a sender follow each other without a gap, kept by handling the first,
LEMMA ChainHandle ==
    ASSUME Types, NEW lens \in LengthOf, Contents(lens), Order, Quiet, Chain(lens), HandleFragment
    PROVE  Chain(lens)'
<1>1. PICK f \in Frames :
           /\ f = rx[1] /\ Handles(f)
           /\ StartReceiving(f) \/ DropIdle(f) \/ IgnoreOther(f) \/ WrongSequence(f) \/ Consume(f)
  BY TypesHandle
<1>2. /\ 1 \in DOMAIN rx /\ UNCHANGED <<snd, sent, faulty>>
      /\ DOMAIN rx = 1 .. Len(rx) /\ DOMAIN rx' = 1 .. Len(rx) - 1
      /\ \A j \in DOMAIN rx' : j + 1 \in DOMAIN rx /\ rx'[j] = rx[j + 1]
  BY <1>1, Handled DEF Types
<1>3. Len(rx) \in Nat /\ Len(rx') = Len(rx) - 1
  <2>1. rx \in Seq(Frames) /\ rx' \in Seq(Frames)
    BY TypesHandle DEF Types, ChannelTypes
  <2>2. Len(rx) \in Nat /\ Len(rx') \in Nat /\ DOMAIN rx' = 1 .. Len(rx')
    BY <2>1, LenProperties
  <2>3. Len(rx) >= 1
    BY <1>2, <2>2
  <2>4. 1 .. Len(rx') = 1 .. Len(rx) - 1
    BY <1>2, <2>2
  <2> QED
    BY <2>2, <2>3, <2>4
<1> SUFFICES ASSUME ~faulty', NEW i \in 0 .. Len(rx'), NEW j \in 1 .. Len(rx') + 1, NEW c \in Sender,
                    i < j, at(i, c)', NothingBetween(i, j, c)'
             PROVE  /\ j \in DOMAIN rx' /\ rx'[j].canid = c => Follows(lens, i, rx[j])'
                    /\ j = Len(rx') + 1 => Sends(lens, i, c)'
  BY DEF Chain
<1>4. /\ i + 1 \in DOMAIN rx /\ rx[i + 1].canid = c
      /\ streamAt(i)' = rx[i + 1].stream /\ messageAt(i)' = msgOf(rx[i + 1])
      /\ numberAt(i)' = rx[i + 1].seq
  <2>1. CASE i # 0
    <3>1. i \in DOMAIN rx' /\ rx'[i].canid = c
      BY <2>1 DEF at
    <3>2. i + 1 \in DOMAIN rx /\ rx'[i] = rx[i + 1]
      BY <1>2, <3>1
    <3> QED
      BY <2>1, <3>1, <3>2 DEF streamAt, messageAt, numberAt
  <2>2. CASE i = 0
    <3>0. 0 \notin DOMAIN rx' /\ 0 + 1 = 1
      BY <1>2
    <3>1. rcv'._is_receiving /\ undisturbed' /\ rcv'.canid = c
      BY <2>2, <3>0 DEF at
    <3>2. streamAt(i)' = rcv'.stream /\ messageAt(i)' = source'.msg /\ numberAt(i)' = rcv'.expected - 1
      BY <2>2 DEF streamAt, messageAt, numberAt
    <3>3. CASE StartReceiving(f)
      <4>1. source'.msg = msgOf(f)
        BY <1>1, <1>2, <3>3, OnlyHeaders
      <4>2. rcv'.canid = f.canid /\ rcv'.stream = f.stream /\ rcv'.expected = 1 /\ f.seq = 0
        BY <3>3, TypesStart
      <4>3. rcv'.expected - 1 = f.seq
        BY <4>2
      <4> QED
        BY <1>1, <1>2, <2>2, <3>0, <3>1, <3>2, <4>1, <4>2, <4>3
    <3>4. CASE Consume(f)
      <4>1. msgOf(f) = source.msg /\ f.seq = rcv.expected
        BY <1>1, <1>2, <3>4, OfThisMessage DEF Quiet
      <4>2. source' = source /\ rcv'.canid = rcv.canid /\ rcv'.stream = rcv.stream
        BY <1>1, <1>2, <3>1, <3>4, StillFollowed
      <4>3. rcv'.expected = rcv.expected + 1
        <5>1. CASE completes
          BY <3>4, <5>1, Completed
        <5>2. CASE ~completes
          BY <3>4, <5>2, Taken
        <5> QED
          BY <5>1, <5>2
      <4>4. f.canid = rcv.canid /\ f.stream = rcv.stream
        BY <3>4 DEF Consume, sameSource
      <4>5. rcv.expected \in Nat
        <5>1. rcv \in Receivers
          BY DEF Types, ReceiverTypes
        <5> QED
          BY <5>1 DEF Receivers
      <4>6. rcv'.expected - 1 = f.seq
        BY <4>1, <4>3, <4>5
      <4> QED
        BY <1>1, <1>2, <2>2, <3>0, <3>1, <3>2, <4>1, <4>2, <4>4, <4>6
    <3>5. CASE DropIdle(f) \/ IgnoreOther(f) \/ WrongSequence(f)
      <4>1. IgnoreOther(f) \/ Consume(f)
        BY <1>1, <1>2, <3>1, <3>5, StillFollowed
      <4>2. ~IgnoreOther(f)
        BY <3>1 DEF IgnoreOther
      <4> QED
        BY <3>4, <4>1, <4>2
    <3> QED
      BY <1>1, <3>3, <3>4, <3>5
  <2> QED
    BY <2>1, <2>2
<1>5. /\ i + 1 # 0 /\ i + 1 \in 0 .. Len(rx) /\ j + 1 \in 1 .. Len(rx) + 1 /\ i + 1 < j + 1
      /\ (j \in DOMAIN rx' <=> j + 1 \in DOMAIN rx) /\ (j = Len(rx') + 1 <=> j + 1 = Len(rx) + 1)
  <2> DEFINE N == Len(rx)
             M == Len(rx')
             D == DOMAIN rx
             E == DOMAIN rx'
  <2>1. N \in Nat /\ M = N - 1 /\ D = 1 .. N /\ E = 1 .. N - 1 /\ i \in 0 .. M /\ j \in 1 .. M + 1 /\ i < j
    BY <1>2, <1>3
  <2> HIDE DEF N, M, D, E
  <2>2. i \in Nat /\ j \in Nat /\ i <= N - 1 /\ 1 <= j /\ j <= N
    BY <2>1
  <2>3. i + 1 # 0 /\ i + 1 \in 0 .. N /\ j + 1 \in 1 .. N + 1 /\ i + 1 < j + 1
    BY <2>1, <2>2
  <2>4. (j \in E <=> j + 1 \in D) /\ (j = M + 1 <=> j + 1 = N + 1)
    BY <2>1, <2>2
  <2> QED
    BY <2>3, <2>4 DEF N, M, D, E
<1>6. at(i + 1, c)
  BY <1>4 DEF at
<1>7. /\ streamAt(i)' = streamAt(i + 1) /\ messageAt(i)' = messageAt(i + 1) /\ numberAt(i)' = numberAt(i + 1)
  BY <1>4, <1>5 DEF streamAt, messageAt, numberAt
<1>8. NothingBetween(i + 1, j + 1, c)
  <2> SUFFICES ASSUME NEW k \in DOMAIN rx, i + 1 < k, k < j + 1
               PROVE  rx[k].canid # c
    BY DEF NothingBetween
  <2>1. k - 1 \in DOMAIN rx' /\ i < k - 1 /\ k - 1 < j /\ (k - 1) + 1 = k
    BY <1>2, <1>3
  <2>2. rx'[k - 1] = rx[k]
    BY <1>2, <2>1
  <2>3. rx'[k - 1].canid # c
    BY <2>1 DEF NothingBetween
  <2> QED
    BY <2>2, <2>3
<1>9. /\ j + 1 \in DOMAIN rx /\ rx[j + 1].canid = c => Follows(lens, i + 1, rx[j + 1])
      /\ j + 1 = Len(rx) + 1 => Sends(lens, i + 1, c)
  <2>1. ~faulty
    BY <1>2
  <2> HIDE DEF at, NothingBetween, Follows, Sends
  <2> QED
    BY <1>5, <1>6, <1>8, <2>1 DEF Chain
<1>10. ASSUME j \in DOMAIN rx', rx'[j].canid = c
       PROVE  Follows(lens, i, rx[j])'
  <2>1. rx'[j] = rx[j + 1]
    BY <1>2, <1>10
  <2>2. Follows(lens, i + 1, rx[j + 1])
    BY <1>5, <1>9, <1>10, <2>1
  <2> QED
    BY <1>7, <2>1, <2>2 DEF Follows
<1>11. ASSUME j = Len(rx') + 1
       PROVE  Sends(lens, i, c)'
  <2>1. Sends(lens, i + 1, c)
    BY <1>5, <1>9, <1>11
  <2> QED
    BY <1>2, <1>7, <2>1 DEF Sends, is_sending
<1> QED
  BY <1>10, <1>11

\* The positions in a queue a frame has been added to.
LEMMA OldPositions ==
    ASSUME Types, ChannelTypes', NEW f \in Frames, NEW n \in {0, 1, 2}, Arrived(f, n), ~faulty',
           UNCHANGED <<rcv, source, undisturbed>>,
           NEW i \in 0 .. Len(rx'), NEW c \in Sender, at(i, c)'
    PROVE  /\ \/ /\ i \in 0 .. Len(rx) /\ at(i, c) /\ streamAt(i)' = streamAt(i)
                 /\ messageAt(i)' = messageAt(i) /\ numberAt(i)' = numberAt(i)
              \/ /\ i = Len(rx) + 1 /\ f.canid = c /\ streamAt(i)' = f.stream
                 /\ messageAt(i)' = msgOf(f) /\ numberAt(i)' = f.seq
           /\ \A j \in Nat : NothingBetween(i, j, c)' => NothingBetween(i, j, c)
<1>1. /\ Len(rx) \in Nat /\ Len(rx') = Len(rx) + 1
      /\ DOMAIN rx = 1 .. Len(rx) /\ DOMAIN rx' = 1 .. Len(rx) + 1
      /\ \A j \in DOMAIN rx : rx'[j] = rx[j]
      /\ rx'[Len(rx) + 1] = f
  BY ArrivesOnce DEF Types
<1>2. \A j \in Nat : NothingBetween(i, j, c)' => NothingBetween(i, j, c)
  <2> SUFFICES ASSUME NEW j \in Nat, NothingBetween(i, j, c)', NEW k \in DOMAIN rx, i < k, k < j
               PROVE  rx[k].canid # c
    BY DEF NothingBetween
  <2>1. k \in DOMAIN rx' /\ rx'[k] = rx[k]
    BY <1>1
  <2> QED
    BY <2>1 DEF NothingBetween
<1>3. CASE i = 0
  <2>1. 0 \notin DOMAIN rx' /\ i \in 0 .. Len(rx)
    BY <1>1, <1>3
  <2>2. rcv._is_receiving /\ undisturbed /\ rcv.canid = c
    BY <1>3, <2>1 DEF at
  <2> QED
    BY <1>2, <1>3, <2>1, <2>2 DEF at, streamAt, messageAt, numberAt
<1>4. CASE i # 0 /\ i <= Len(rx)
  <2>1. i \in DOMAIN rx /\ i \in 0 .. Len(rx)
    BY <1>1, <1>4
  <2>2. rx'[i] = rx[i] /\ rx'[i].canid = c
    BY <1>1, <1>4, <2>1 DEF at
  <2> QED
    BY <1>2, <1>4, <2>1, <2>2 DEF at, streamAt, messageAt, numberAt
<1>5. CASE i = Len(rx) + 1
  <2>1. i # 0 /\ rx'[i] = f
    BY <1>1, <1>5
  <2>2. rx'[i].canid = c
    BY <2>1 DEF at
  <2> QED
    BY <1>2, <1>5, <2>1, <2>2 DEF streamAt, messageAt, numberAt
<1> QED
  BY <1>1, <1>3, <1>4, <1>5

\* The message at a position has been sent.
LEMMA MessageKnown ==
    ASSUME Types, NEW lens, Contents(lens), NEW i, NEW c, at(i, c)
    PROVE  messageAt(i) \in 1 .. sent
<1>1. 0 \notin DOMAIN rx
  <2>1. DOMAIN rx = 1 .. Len(rx)
    BY LenProperties DEF Types, ChannelTypes
  <2> QED
    BY <2>1
<1>2. CASE i = 0
  BY <1>1, <1>2 DEF at, Contents, FollowedRight, messageAt
<1>3. CASE i # 0
  BY <1>3 DEF at, Contents, FrameRight, messageAt
<1> QED
  BY <1>2, <1>3

\* by a header behind the last fragment,
LEMMA ChainSend ==
    ASSUME Types, NEW lens \in LengthOf, Contents(lens), Chain(lens),
           NEW s \in Sender, NEW stream \in Streams, NEW len \in Lengths,
           sendMultipartMessage(s, stream, len),
           NEW more \in LengthOf, more[sent'] = len, \A k \in 1 .. sent : more[k] = lens[k]
    PROVE  Chain(more)'
<1> DEFINE f == Header(s, stream, sent', len)
           N == Len(rx)
<1>1. PICK n \in {0, 1, 2} : Arrived(f, n) /\ Types' /\ sent' = sent + 1
  BY TypesSend
<1>2. /\ f.header /\ f.canid = s /\ f.stream = stream /\ msgOf(f) = sent' /\ f.seq = 0 /\ f \in Frames
      /\ UNCHANGED <<rcv, source, undisturbed>> /\ snd \in [Sender -> Senders] /\ ~is_sending(s)
      /\ snd' = [snd EXCEPT ![s] = [msg |-> sent', stream |-> stream, len |-> len,
                                    index |-> 0, seq |-> 1, gap |-> snd[s].gap]]
  <2>1. /\ f.header /\ f.canid = s /\ f.stream = stream /\ f.seq = 0
        /\ f.data = [k \in 1 .. PAYLOAD |-> byteOf(sent', 0)]
    BY DEF Header
  <2>2. f \in Frames
    <3>1. sent' \in 0 .. MAX_MESSAGES
      BY <1>1 DEF Types, SenderTypes
    <3> QED
      BY <3>1, AHeader
  <2> HIDE DEF f
  <2>3. msgOf(f) = sent'
    BY <2>1, Parameters DEF msgOf, byteOf
  <2> QED
    BY <2>1, <2>2, <2>3 DEF sendMultipartMessage, history, Types, SenderTypes
<1> HIDE DEF f
<1> SUFFICES ASSUME ~faulty', NEW i \in 0 .. Len(rx'), NEW j \in 1 .. Len(rx') + 1, NEW c \in Sender,
                    i < j, at(i, c)', NothingBetween(i, j, c)'
             PROVE  /\ j \in DOMAIN rx' /\ rx'[j].canid = c => Follows(more, i, rx[j])'
                    /\ j = Len(rx') + 1 => Sends(more, i, c)'
  BY DEF Chain
<1>3. /\ N \in Nat /\ Len(rx') = N + 1 /\ ~faulty
      /\ DOMAIN rx = 1 .. N /\ DOMAIN rx' = 1 .. N + 1
      /\ \A k \in DOMAIN rx : rx'[k] = rx[k]
      /\ rx'[N + 1] = f
  BY <1>1, <1>2, ArrivesOnce DEF Types
<1>4. /\ \/ /\ i \in 0 .. N /\ at(i, c) /\ streamAt(i)' = streamAt(i)
            /\ messageAt(i)' = messageAt(i) /\ numberAt(i)' = numberAt(i)
         \/ /\ i = N + 1 /\ f.canid = c /\ streamAt(i)' = f.stream
            /\ messageAt(i)' = msgOf(f) /\ numberAt(i)' = f.seq
      /\ \A k \in Nat : NothingBetween(i, k, c)' => NothingBetween(i, k, c)
  BY <1>1, <1>2, OldPositions DEF Types
<1> HIDE DEF N
<1>5. CASE /\ i \in 0 .. N /\ at(i, c) /\ streamAt(i)' = streamAt(i)
           /\ messageAt(i)' = messageAt(i) /\ numberAt(i)' = numberAt(i)
  <2>1. more[messageAt(i)] = lens[messageAt(i)]
    <3>1. messageAt(i) \in 1 .. sent
      BY <1>5, MessageKnown
    <3> HIDE DEF messageAt
    <3> QED
      BY <3>1
  <2>2. ASSUME NEW q \in 1 .. N + 1, q <= j, i < q
        PROVE  /\ q \in DOMAIN rx /\ rx[q].canid = c => Follows(lens, i, rx[q])
               /\ q = N + 1 => Sends(lens, i, c)
    <3>1. NothingBetween(i, q, c)
      <4>1. NothingBetween(i, j, c)
        <5>1. j \in Nat
          BY <1>3
        <5> QED
          BY <1>4, <5>1
      <4>2. \A k \in DOMAIN rx : k < q => k < j
        BY <1>3, <2>2
      <4> QED
        BY <4>1, <4>2 DEF NothingBetween
    <3> HIDE DEF at, NothingBetween, Follows, Sends
    <3> QED
      BY <1>3, <1>5, <2>2, <3>1 DEF Chain, N
  <2>3. CASE j \in DOMAIN rx
    <3>1. j \in 1 .. N + 1 /\ j <= j /\ rx'[j] = rx[j] /\ j # Len(rx') + 1
      BY <1>3, <2>3
    <3>2. rx[j].canid = c => Follows(lens, i, rx[j])
      BY <2>2, <2>3, <3>1
    <3>3. rx'[j].canid = c => Follows(more, i, rx[j])'
      BY <1>5, <2>1, <3>1, <3>2 DEF Follows
    <3> QED
      BY <3>1, <3>3
  <2>4. CASE j \notin DOMAIN rx
    <3>1. N + 1 \in 1 .. N + 1 /\ N + 1 <= j /\ i < N + 1 /\ (j = N + 1 \/ j = N + 2)
      BY <1>3, <1>5, <2>4
    <3>2. Sends(lens, i, c)
      BY <2>2, <3>1
    <3>3. ASSUME j = N + 1, rx'[j].canid = c
          PROVE  Follows(more, i, rx[j])'
      <4>1. rx'[j] = f /\ c = s
        BY <1>2, <1>3, <3>3
      <4>2. lens[messageAt(i)] <= numberAt(i) * PAYLOAD
        BY <1>2, <3>2, <4>1 DEF Sends
      <4> QED
        BY <1>2, <1>5, <2>1, <4>1, <4>2 DEF Follows
    <3>4. ASSUME j = N + 2
          PROVE  Sends(more, i, c)'
      <4>1. PICK q \in DOMAIN rx' : i < q /\ q < j /\ rx'[q] = f
        BY <1>3, <3>1, <3>4
      <4>2. c # s
        BY <1>2, <4>1 DEF NothingBetween
      <4>3. snd'[c] = snd[c]
        BY <1>2, <4>2
      <4> QED
        BY <1>5, <2>1, <3>2, <4>3 DEF Sends, is_sending
    <3>5. j \in DOMAIN rx' => j = N + 1
      BY <1>3, <2>4
    <3>6. j = Len(rx') + 1 => j = N + 2
      BY <1>3
    <3> QED
      BY <3>3, <3>4, <3>5, <3>6
  <2> QED
    BY <2>3, <2>4
<1>6. CASE /\ i = N + 1 /\ f.canid = c /\ streamAt(i)' = f.stream
           /\ messageAt(i)' = msgOf(f) /\ numberAt(i)' = f.seq
  <2>1. j = N + 2 /\ j \notin DOMAIN rx' /\ c = s
    BY <1>2, <1>3, <1>6
  <2>2. /\ snd'[s].msg = sent' /\ snd'[s].stream = stream /\ snd'[s].len = len
        /\ snd'[s].index = 0 /\ snd'[s].seq = 1
    BY <1>2
  <2>3. /\ streamAt(i)' = stream /\ messageAt(i)' = sent' /\ numberAt(i)' = 0
    BY <1>2, <1>6
  <2>4. CASE 0 < len
    <3>1. is_sending(s)' /\ 1 = 0 + 1
      BY <2>2, <2>4 DEF is_sending
    <3> QED
      BY <2>1, <2>2, <2>3, <3>1 DEF Sends
  <2>5. CASE ~(0 < len)
    <3>1. ~is_sending(s)' /\ len <= 0 * PAYLOAD
      <4>1. len \in Nat /\ PAYLOAD \in Nat
        BY Parameters
      <4>2. ~is_sending(s)'
        BY <2>2, <2>5 DEF is_sending
      <4> QED
        BY <2>5, <4>1, <4>2
    <3> QED
      BY <2>1, <2>2, <2>3, <3>1 DEF Sends
  <2> QED
    BY <2>4, <2>5
<1> QED
  BY <1>4, <1>5, <1>6

\* and by a fragment behind the one before it.
LEMMA ChainSendNext ==
    ASSUME NoWrap, Types, NEW lens \in LengthOf, Contents(lens), Chain(lens),
           NEW s \in Sender, SendNext(s)
    PROVE  Chain(lens)'
<1> DEFINE f == Fragment(s)
           N == Len(rx)
           m == snd[s]
           a == afterFragment(m)
<1>1. PICK n \in {0, 1, 2} : Arrived(f, n) /\ Types' /\ UNCHANGED <<rcv, source, undisturbed>>
  BY TypesSendNext
<1>2. /\ ~f.header /\ f.canid = s /\ f.stream = m.stream /\ msgOf(f) = m.msg /\ f.seq = m.seq
      /\ f \in Frames /\ is_sending(s) /\ snd \in [Sender -> Senders] /\ snd' = [snd EXCEPT ![s] = a]
      /\ a.msg = m.msg /\ a.stream = m.stream /\ a.len = m.len /\ a.seq = m.seq + 1
      /\ ~(a.index < a.len) => m.len <= m.seq * PAYLOAD
      /\ m.len = lens[m.msg]
  <2>1. is_sending(s) /\ snd \in [Sender -> Senders] /\ snd' = [snd EXCEPT ![s] = a] /\ f \in Frames
    BY AFragment DEF SendNext, Types, SenderTypes
  <2>2. SenderRight(lens, sent, m)
    BY DEF Contents
  <2>3. m.len = lens[m.msg]
    BY <2>1, <2>2 DEF SenderRight, is_sending
  <2> HIDE DEF f, a
  <2> QED
    BY <2>1, <2>2, <2>3, FragmentRight DEF f, a
<1> HIDE DEF f, a, m
<1> SUFFICES ASSUME ~faulty', NEW i \in 0 .. Len(rx'), NEW j \in 1 .. Len(rx') + 1, NEW c \in Sender,
                    i < j, at(i, c)', NothingBetween(i, j, c)'
             PROVE  /\ j \in DOMAIN rx' /\ rx'[j].canid = c => Follows(lens, i, rx[j])'
                    /\ j = Len(rx') + 1 => Sends(lens, i, c)'
  BY DEF Chain
<1>3. /\ N \in Nat /\ Len(rx') = N + 1 /\ ~faulty
      /\ DOMAIN rx = 1 .. N /\ DOMAIN rx' = 1 .. N + 1
      /\ \A k \in DOMAIN rx : rx'[k] = rx[k]
      /\ rx'[N + 1] = f
  BY <1>1, <1>2, ArrivesOnce DEF Types
<1>4. /\ \/ /\ i \in 0 .. N /\ at(i, c) /\ streamAt(i)' = streamAt(i)
            /\ messageAt(i)' = messageAt(i) /\ numberAt(i)' = numberAt(i)
         \/ /\ i = N + 1 /\ f.canid = c /\ streamAt(i)' = f.stream
            /\ messageAt(i)' = msgOf(f) /\ numberAt(i)' = f.seq
      /\ \A k \in Nat : NothingBetween(i, k, c)' => NothingBetween(i, k, c)
  BY <1>1, <1>2, OldPositions DEF Types
<1> HIDE DEF N
<1>5. CASE /\ i \in 0 .. N /\ at(i, c) /\ streamAt(i)' = streamAt(i)
           /\ messageAt(i)' = messageAt(i) /\ numberAt(i)' = numberAt(i)
  <2>2. ASSUME NEW q \in 1 .. N + 1, q <= j, i < q
        PROVE  /\ q \in DOMAIN rx /\ rx[q].canid = c => Follows(lens, i, rx[q])
               /\ q = N + 1 => Sends(lens, i, c)
    <3>1. NothingBetween(i, q, c)
      <4>1. NothingBetween(i, j, c)
        <5>1. j \in Nat
          BY <1>3
        <5> QED
          BY <1>4, <5>1
      <4>2. \A k \in DOMAIN rx : k < q => k < j
        BY <1>3, <2>2
      <4> QED
        BY <4>1, <4>2 DEF NothingBetween
    <3> HIDE DEF at, NothingBetween, Follows, Sends
    <3> QED
      BY <1>3, <1>5, <2>2, <3>1 DEF Chain, N
  <2>3. CASE j \in DOMAIN rx
    <3>1. j \in 1 .. N + 1 /\ j <= j /\ rx'[j] = rx[j] /\ j # Len(rx') + 1
      BY <1>3, <2>3
    <3>2. rx[j].canid = c => Follows(lens, i, rx[j])
      BY <2>2, <2>3, <3>1
    <3>3. rx'[j].canid = c => Follows(lens, i, rx[j])'
      BY <1>5, <3>1, <3>2 DEF Follows
    <3> QED
      BY <3>1, <3>3
  <2>4. CASE j \notin DOMAIN rx
    <3>1. N + 1 \in 1 .. N + 1 /\ N + 1 <= j /\ i < N + 1 /\ (j = N + 1 \/ j = N + 2)
      BY <1>3, <1>5, <2>4
    <3>2. Sends(lens, i, c)
      BY <2>2, <3>1
    <3>3. ASSUME j = N + 1, rx'[j].canid = c
          PROVE  Follows(lens, i, rx[j])'
      <4>1. rx'[j] = f /\ c = s
        BY <1>2, <1>3, <3>3
      <4>2. m.stream = streamAt(i) /\ m.msg = messageAt(i) /\ m.seq = numberAt(i) + 1
        BY <1>2, <3>2, <4>1 DEF Sends, m
      <4> QED
        BY <1>2, <1>5, <4>1, <4>2 DEF Follows
    <3>4. ASSUME j = N + 2
          PROVE  Sends(lens, i, c)'
      <4>1. PICK q \in DOMAIN rx' : i < q /\ q < j /\ rx'[q] = f
        BY <1>3, <3>1, <3>4
      <4>2. c # s
        BY <1>2, <4>1 DEF NothingBetween
      <4>3. snd'[c] = snd[c]
        BY <1>2, <4>2
      <4> QED
        BY <1>5, <3>2, <4>3 DEF Sends, is_sending
    <3>5. j \in DOMAIN rx' => j = N + 1
      BY <1>3, <2>4
    <3>6. j = Len(rx') + 1 => j = N + 2
      BY <1>3
    <3> QED
      BY <3>3, <3>4, <3>5, <3>6
  <2> QED
    BY <2>3, <2>4
<1>6. CASE /\ i = N + 1 /\ f.canid = c /\ streamAt(i)' = f.stream
           /\ messageAt(i)' = msgOf(f) /\ numberAt(i)' = f.seq
  <2>1. j \notin DOMAIN rx' /\ c = s
    BY <1>2, <1>3, <1>6
  <2>2. snd'[s] = a
    BY <1>2
  <2>3. /\ streamAt(i)' = m.stream /\ messageAt(i)' = m.msg /\ numberAt(i)' = m.seq
    BY <1>2, <1>6
  <2>4. CASE a.index < a.len
    <3>1. is_sending(s)'
      BY <2>2, <2>4 DEF is_sending
    <3> QED
      BY <1>2, <2>1, <2>2, <2>3, <3>1 DEF Sends
  <2>5. CASE ~(a.index < a.len)
    <3>1. ~is_sending(s)'
      BY <2>2, <2>5 DEF is_sending
    <3>2. lens[m.msg] <= m.seq * PAYLOAD
      BY <1>2, <2>5
    <3> QED
      BY <2>1, <2>3, <3>1, <3>2 DEF Sends
  <2> QED
    BY <2>4, <2>5
<1> QED
  BY <1>4, <1>5, <1>6

\* At the start there is nothing to follow.
LEMMA ChainInit == Init => Quiet /\ Unfinished /\ \A lens \in LengthOf : Chain(lens)
<1> SUFFICES ASSUME Init
             PROVE  Quiet /\ Unfinished /\ \A lens \in LengthOf : Chain(lens)
  OBVIOUS
<1>1. ~rcv._is_receiving /\ DOMAIN rx = {}
  BY Fresh DEF Init
<1>2. Quiet
  BY DEF Init, Quiet
<1> QED
  BY <1>1, <1>2 DEF Unfinished, Chain, at

\* Time does not change what follows what, and after a restart nothing is said.
LEMMA ChainOther ==
    ASSUME Types, NEW lens \in LengthOf, Chain(lens), Quiet,
           TimeOut \/ Tick \/ RestartReceiver \/ (\E s \in Sender : RestartSender(s))
    PROVE  Chain(lens)' /\ Quiet'
<1>1. ASSUME rx' = rx, faulty' = faulty, headerLost' = headerLost, source' = source, undisturbed' = undisturbed,
             rcv'._is_receiving =>
                /\ rcv._is_receiving /\ rcv'.canid = rcv.canid /\ rcv'.stream = rcv.stream
                /\ rcv'.expected = rcv.expected,
             \A s \in Sender :
                /\ is_sending(s)' <=> is_sending(s)
                /\ snd'[s].stream = snd[s].stream /\ snd'[s].msg = snd[s].msg /\ snd'[s].seq = snd[s].seq
      PROVE  Chain(lens)' /\ Quiet'
  <2>1. Quiet'
    BY <1>1 DEF Quiet
  <2>2. SUFFICES ASSUME ~faulty, NEW i \in 0 .. Len(rx), NEW j \in 1 .. Len(rx) + 1, NEW c \in Sender,
                        i < j, at(i, c)', NothingBetween(i, j, c)'
                 PROVE  /\ j \in DOMAIN rx /\ rx[j].canid = c => Follows(lens, i, rx[j])'
                        /\ j = Len(rx) + 1 => Sends(lens, i, c)'
    BY <1>1, <2>1 DEF Chain
  <2>3. 0 \notin DOMAIN rx
    <3>1. DOMAIN rx = 1 .. Len(rx)
      BY LenProperties DEF Types, ChannelTypes
    <3> QED
      BY <3>1
  <2>4. /\ at(i, c) /\ NothingBetween(i, j, c) /\ streamAt(i)' = streamAt(i)
        /\ messageAt(i)' = messageAt(i) /\ numberAt(i)' = numberAt(i)
    <3>1. NothingBetween(i, j, c)
      BY <1>1, <2>2 DEF NothingBetween
    <3>2. CASE i = 0
      <4>1. rcv'._is_receiving /\ undisturbed' /\ rcv'.canid = c
        BY <1>1, <2>2, <2>3, <3>2 DEF at
      <4>2. rcv._is_receiving /\ rcv'.canid = rcv.canid /\ rcv'.stream = rcv.stream /\ rcv'.expected = rcv.expected
        BY <1>1, <4>1
      <4>3. at(i, c)
        BY <1>1, <3>2, <4>1, <4>2 DEF at
      <4>4. streamAt(i)' = streamAt(i) /\ messageAt(i)' = messageAt(i) /\ numberAt(i)' = numberAt(i)
        BY <1>1, <3>2, <4>2 DEF streamAt, messageAt, numberAt
      <4> QED
        BY <3>1, <4>3, <4>4
    <3>3. CASE i # 0
      <4>1. at(i, c)
        BY <1>1, <2>2, <3>3 DEF at
      <4>2. streamAt(i)' = streamAt(i) /\ messageAt(i)' = messageAt(i) /\ numberAt(i)' = numberAt(i)
        BY <1>1, <3>3 DEF streamAt, messageAt, numberAt
      <4> QED
        BY <3>1, <4>1, <4>2
    <3> QED
      BY <3>2, <3>3
  <2>5. /\ j \in DOMAIN rx /\ rx[j].canid = c => Follows(lens, i, rx[j])
        /\ j = Len(rx) + 1 => Sends(lens, i, c)
    <3> HIDE DEF at, NothingBetween, Follows, Sends
    <3> QED
      BY <2>2, <2>4 DEF Chain
  <2>6. Follows(lens, i, rx[j]) => Follows(lens, i, rx[j])'
    BY <1>1, <2>4 DEF Follows
  <2>7. Sends(lens, i, c) => Sends(lens, i, c)'
    BY <1>1, <2>4 DEF Sends
  <2> QED
    BY <2>5, <2>6, <2>7
<1>2. CASE TimeOut
  <2>1. UNCHANGED <<snd, rx, source, undisturbed, headerLost, faulty>> /\ ~rcv'._is_receiving
    BY <1>2, TypesTimeOut DEF TimeOut, sending, channel
  <2>2. \A s \in Sender : is_sending(s)' <=> is_sending(s)
    BY <2>1 DEF is_sending
  <2> QED
    BY <1>1, <2>1, <2>2
<1>3. CASE Tick
  <2>1. /\ UNCHANGED <<rx, source, undisturbed, headerLost, faulty>>
        /\ rcv'._is_receiving = rcv._is_receiving /\ rcv'.stream = rcv.stream /\ rcv'.canid = rcv.canid
        /\ rcv'.expected = rcv.expected
        /\ \A s \in Sender :
                 /\ snd'[s].msg = snd[s].msg /\ snd'[s].stream = snd[s].stream
                 /\ snd'[s].len = snd[s].len /\ snd'[s].index = snd[s].index
                 /\ snd'[s].seq = snd[s].seq
    BY <1>3, TypesTick
  <2>2. \A s \in Sender : is_sending(s)' <=> is_sending(s)
    BY <2>1 DEF is_sending
  <2> QED
    BY <1>1, <2>1, <2>2
<1>4. CASE RestartReceiver \/ \E s \in Sender : RestartSender(s)
  <2>1. faulty' = TRUE
    BY <1>4, TypesRestart
  <2> QED
    BY <2>1 DEF Chain, Quiet
<1> QED
  BY <1>2, <1>3, <1>4

\* A message with bytes is not over while it is being received.
LEMMA UnfinishedNext ==
    ASSUME Types, Unfinished, [Next]_vars
    PROVE  Unfinished'
<1>1. rcv \in Receivers
  BY DEF Types, ReceiverTypes
<1>2. rcv.received \in Nat /\ rcv.length \in Nat
  BY <1>1, Parameters DEF Receivers
<1>3. ASSUME rcv'._is_receiving => rcv._is_receiving,
             rcv'.received = rcv.received /\ rcv'.length = rcv.length
      PROVE  Unfinished'
  BY <1>3 DEF Unfinished
<1>4. CASE HandleFragment
  <2>1. PICK f \in Frames :
           StartReceiving(f) \/ DropIdle(f) \/ IgnoreOther(f) \/ WrongSequence(f) \/ Consume(f)
    BY <1>4, TypesHandle
  <2>2. CASE StartReceiving(f)
    BY <2>2, TypesStart DEF Unfinished
  <2>3. CASE DropIdle(f) \/ IgnoreOther(f)
    <3>1. rcv' = counted(rcv)
      BY <2>3, TypesCounted
    <3> QED
      BY <1>1, <1>3, <3>1, Counted
  <2>4. CASE WrongSequence(f)
    BY <2>4, TypesWrong DEF Unfinished
  <2>5. CASE Consume(f) /\ completes
    <3>1. rcv'._is_receiving => rcv'.length = 0
      BY <2>5, Completed
    <3> QED
      BY <3>1 DEF Unfinished
  <2>6. CASE Consume(f) /\ ~completes
    <3>1. rcv'.received = rcv.received + taken(rcv) /\ rcv'.length = rcv.length
      BY <2>6, Taken
    <3>2. taken(rcv) \in Nat
      <4>1. taken(rcv) \in 1 .. PAYLOAD
        BY <1>1, <2>1, BytesTaken
      <4> HIDE DEF taken
      <4> QED
        BY <4>1, Parameters
    <3> HIDE DEF taken
    <3>3. rcv.received + taken(rcv) < rcv.length
      BY <1>2, <2>6, <3>2 DEF completes
    <3> QED
      BY <3>1, <3>3 DEF Unfinished
  <2> QED
    BY <2>1, <2>2, <2>3, <2>4, <2>5, <2>6
<1>5. ASSUME NEW s \in Sender, NEW stream \in Streams, NEW len \in Lengths,
             sendMultipartMessage(s, stream, len)
      PROVE  Unfinished'
  BY <1>3, <1>5 DEF sendMultipartMessage
<1>6. ASSUME NEW s \in Sender, SendNext(s)
      PROVE  Unfinished'
  BY <1>3, <1>6 DEF SendNext
<1>7. CASE TimeOut
  BY <1>7, TypesTimeOut DEF Unfinished
<1>8. CASE Tick
  BY <1>3, <1>8, TypesTick
<1>9. CASE RestartReceiver \/ \E s \in Sender : RestartSender(s)
  <2>1. rcv' = atStart \/ rcv' = rcv
    BY <1>9, TypesRestart
  <2> QED
    BY <1>3, <2>1, Fresh DEF Unfinished
<1>10. CASE UNCHANGED vars
  BY <1>3, <1>10 DEF vars
<1> QED
  BY <1>4, <1>5, <1>6, <1>7, <1>8, <1>9, <1>10 DEF Next

\* A sequence error is told of a message of which a frame is missing.
LEMMA CauseHandle ==
    ASSUME Types, NEW lens \in LengthOf, Contents(lens), Progress, Chain(lens), Quiet, Unfinished,
           HandleFragment
    PROVE  ErrorsHaveCause'
<1>1. PICK f \in Frames :
           /\ f = rx[1] /\ Handles(f)
           /\ StartReceiving(f) \/ DropIdle(f) \/ IgnoreOther(f) \/ WrongSequence(f) \/ Consume(f)
  BY TypesHandle
<1>2. CASE StartReceiving(f) \/ DropIdle(f) \/ IgnoreOther(f)
  <2>1. calls' = <<>>
    BY <1>2 DEF StartReceiving, DropIdle, IgnoreOther
  <2> QED
    BY <2>1 DEF ErrorsHaveCause, surfaced
<1>3. CASE Consume(f)
  <2>1. CASE completes
    <3>1. \A i \in DOMAIN calls' : calls'[i].status \in {"INCOMPLETE", "COMPLETE"}
      BY <1>3, <2>1, Completed
    <3> QED
      BY <3>1 DEF ErrorsHaveCause, surfaced
  <2>2. CASE ~completes
    <3>1. \A i \in DOMAIN calls' : calls'[i].status = "INCOMPLETE"
      BY <1>3, <2>2, Taken
    <3> QED
      BY <3>1 DEF ErrorsHaveCause, surfaced
  <2> QED
    BY <2>1, <2>2
<1>4. CASE WrongSequence(f)
  <2>1. /\ rcv._is_receiving /\ f.canid = rcv.canid /\ f.stream = rcv.stream /\ f.seq # rcv.expected
        /\ UNCHANGED <<source, undisturbed, faulty>>
    BY <1>4 DEF WrongSequence, Handles, channel, sameSource, inSequence
  <2> SUFFICES ASSUME ~faulty, undisturbed, source.len # 0
               PROVE  FALSE
    BY <2>1 DEF ErrorsHaveCause
  <2>2. rcv \in Receivers /\ source \in [msg : Nat, len : LengthsOr0] /\ f.canid \in Sender
    BY DEF Types, ReceiverTypes, HistoryTypes, Frames
  <2>3. /\ rcv.expected \in Nat /\ rcv.received \in Nat /\ source.len \in Nat /\ PAYLOAD \in Nat
        /\ rcv.length = source.len /\ rcv.expected >= 1 /\ source.len = lens[source.msg]
    <3>1. rcv.expected \in Nat /\ rcv.received \in Nat
      BY <2>2 DEF Receivers
    <3>2. source.len \in Nat /\ PAYLOAD \in Nat
      BY <2>2, Parameters
    <3> QED
      BY <2>1, <3>1, <3>2 DEF Contents, FollowedRight
  <2>4. rcv.received = (rcv.expected - 1) * PAYLOAD /\ rcv.received < source.len
    <3>1. ~headerLost
      BY DEF Quiet
    <3>2. PICK k \in 0 .. rcv.expected - 1 : rcv.received = k * PAYLOAD /\ k = rcv.expected - 1
      BY <2>1, <3>1 DEF Progress
    <3>3. rcv.length > 0
      BY <2>3
    <3>4. rcv.received < rcv.length
      BY <2>1, <3>3 DEF Unfinished
    <3> QED
      BY <2>3, <3>2, <3>4
  <2>5. Follows(lens, 0, f)
    <3>1. at(0, f.canid)
      BY <2>1 DEF at
    <3>2. 1 \in DOMAIN rx /\ DOMAIN rx = 1 .. Len(rx) /\ Len(rx) \in Nat /\ rx[1] = f
      <4>1. Len(rx) \in Nat
        BY LenProperties DEF Types, ChannelTypes
      <4> QED
        BY <1>1, <4>1, Handled DEF Types
    <3>3. NothingBetween(0, 1, f.canid)
      BY <3>2 DEF NothingBetween
    <3>4. 0 \in 0 .. Len(rx) /\ 1 \in 1 .. Len(rx) + 1 /\ 0 < 1
      BY <3>2
    <3> HIDE DEF at, NothingBetween, Follows, Sends
    <3> QED
      BY <2>2, <3>1, <3>2, <3>3, <3>4 DEF Chain
  <2>6. CASE f.header
    <3>1. lens[source.msg] <= (rcv.expected - 1) * PAYLOAD
      BY <2>5, <2>6 DEF Follows, messageAt, numberAt
    <3> DEFINE p == (rcv.expected - 1) * PAYLOAD
    <3>2. p < source.len /\ source.len <= p /\ p \in Nat
      BY <2>3, <2>4, <3>1
    <3> HIDE DEF p
    <3> QED
      BY <2>3, <3>2
  <2>7. CASE ~f.header
    <3>1. f.seq = rcv.expected - 1 + 1
      BY <2>5, <2>7 DEF Follows, numberAt
    <3> QED
      BY <2>1, <2>3, <3>1
  <2> QED
    BY <2>6, <2>7
<1> QED
  BY <1>1, <1>2, <1>3, <1>4

\* Only handling a frame reports an error of sequence.
LEMMA CauseOther ==
    ASSUME Types, ErrorsHaveCause, [Next]_vars, ~HandleFragment
    PROVE  ErrorsHaveCause'
<1>1. ASSUME calls' = <<>>
      PROVE  ErrorsHaveCause'
  BY <1>1 DEF ErrorsHaveCause, surfaced
<1>2. CASE \E s \in Sender, stream \in Streams, len \in Lengths : sendMultipartMessage(s, stream, len)
  BY <1>1, <1>2 DEF sendMultipartMessage
<1>3. CASE \E s \in Sender : SendNext(s)
  BY <1>1, <1>3, TypesSendNext
<1>4. CASE TimeOut
  <2>1. surface(<<Call("TIMEOUT_ERROR", rcv.buffer)>>) /\ "TIMEOUT_ERROR" \in Statuses
    BY <1>4 DEF TimeOut, Statuses
  <2>2. DOMAIN calls' = {1} /\ calls'[1].status = "TIMEOUT_ERROR"
    BY <2>1, Reported
  <2>3. ~surfaced("SEQUENCE_ERROR")'
    BY <2>2 DEF surfaced
  <2> QED
    BY <2>3 DEF ErrorsHaveCause
<1>5. CASE Tick
  BY <1>1, <1>5, TypesTick
<1>6. CASE RestartReceiver \/ \E s \in Sender : RestartSender(s)
  BY <1>1, <1>6, TypesRestart
<1>7. CASE UNCHANGED vars
  BY <1>7 DEF vars, history, channel, ErrorsHaveCause, surfaced
<1> QED
  BY <1>2, <1>3, <1>4, <1>5, <1>6, <1>7 DEF Next

\* A frame that is sent does no harm while there is no fault.
LEMMA QuietArrived ==
    ASSUME ChannelTypes, ChannelTypes', Quiet, NEW f \in Frames, NEW n \in {0, 1, 2}, Arrived(f, n)
    PROVE  Quiet'
BY ArrivesOnce DEF Quiet

\* The inductive invariant for what a sequence error means.
ChainInv ==
    /\ Types /\ Order /\ Progress /\ Pieces /\ CompleteIsSent
    /\ Quiet /\ Unfinished /\ ErrorsHaveCause
    /\ \E lens \in LengthOf : Contents(lens) /\ Chain(lens)

\* The invariant holds at the start,
LEMMA ChainInvInit == Init => ChainInv
<1> SUFFICES ASSUME Init
             PROVE  ChainInv
  OBVIOUS
<1>1. PICK lens \in LengthOf : Contents(lens)
  BY ContentsInit
<1>2. Types /\ Order /\ Progress /\ Pieces /\ CompleteIsSent
  BY IInvInit DEF IInv
<1>3. Quiet /\ Unfinished /\ Chain(lens)
  BY ChainInit
<1>4. ErrorsHaveCause
  BY DEF Init, ErrorsHaveCause, surfaced
<1> QED
  BY <1>1, <1>2, <1>3, <1>4 DEF ChainInv

\* and every step keeps it.
LEMMA ChainInvNext == NoWrap /\ ChainInv /\ [Next]_vars => ChainInv'
<1> SUFFICES ASSUME NoWrap, ChainInv, [Next]_vars
             PROVE  ChainInv'
  OBVIOUS
<1>1. PICK lens \in LengthOf : Contents(lens) /\ Chain(lens)
  BY DEF ChainInv
<1>2. Types /\ Order /\ Progress /\ Pieces /\ CompleteIsSent /\ Quiet /\ Unfinished /\ ErrorsHaveCause
  BY DEF ChainInv
<1>3. IInv'
  <2>1. IInv
    BY <1>1, <1>2 DEF IInv
  <2> QED
    BY <2>1, IInvNext
<1>4. Types' /\ Order' /\ Progress' /\ Pieces' /\ CompleteIsSent'
  BY <1>3 DEF IInv
<1>5. Unfinished' /\ ErrorsHaveCause'
  BY <1>1, <1>2, UnfinishedNext, CauseHandle, CauseOther
<1>6. Quiet' /\ \E more \in LengthOf : Contents(more)' /\ Chain(more)'
  <2>1. ASSUME NEW s \in Sender, NEW stream \in Streams, NEW len \in Lengths,
               sendMultipartMessage(s, stream, len)
        PROVE  Quiet' /\ \E more \in LengthOf : Contents(more)' /\ Chain(more)'
    <3>1. PICK more \in LengthOf : Contents(more)' /\ more[sent'] = len /\ \A k \in 1 .. sent : more[k] = lens[k]
      BY <1>1, <1>2, <2>1, ContentsSend
    <3>2. Chain(more)'
      BY <1>1, <1>2, <2>1, <3>1, ChainSend
    <3>3. Quiet'
      <4>1. PICK n \in {0, 1, 2} : Arrived(Header(s, stream, sent', len), n)
        BY <1>2, <2>1, TypesSend
      <4>2. sent' \in 0 .. MAX_MESSAGES
        BY <1>4 DEF Types, SenderTypes
      <4>3. Header(s, stream, sent', len) \in Frames
        BY <4>2, AHeader
      <4> QED
        BY <1>2, <1>4, <4>1, <4>3, QuietArrived DEF Types
    <3> QED
      BY <3>1, <3>2, <3>3
  <2>2. ASSUME NEW s \in Sender, SendNext(s)
        PROVE  Quiet' /\ Contents(lens)' /\ Chain(lens)'
    <3>1. Contents(lens)' /\ Chain(lens)'
      BY <1>1, <1>2, <2>2, ContentsSendNext, ChainSendNext
    <3>2. PICK n \in {0, 1, 2} : Arrived(Fragment(s), n)
      BY <1>2, <2>2, TypesSendNext
    <3>3. Fragment(s) \in Frames
      BY <1>2, AFragment DEF Types
    <3> QED
      BY <1>2, <1>4, <3>1, <3>2, <3>3, QuietArrived DEF Types
  <2>3. CASE HandleFragment
    <3>1. UNCHANGED <<headerLost, faulty>>
      BY <1>2, <2>3, TypesHandle, Handled DEF Types
    <3>2. Quiet'
      BY <1>2, <3>1 DEF Quiet
    <3>3. Contents(lens)' /\ Chain(lens)'
      BY <1>1, <1>2, <2>3, ContentsHandle, ChainHandle
    <3> QED
      BY <3>2, <3>3
  <2>4. CASE TimeOut \/ Tick \/ RestartReceiver \/ (\E s \in Sender : RestartSender(s))
    BY <1>1, <1>2, <2>4, ContentsOther, ChainOther
  <2>5. CASE UNCHANGED vars
    <3>1. UNCHANGED <<snd, sent, rx, rcv, source, undisturbed, headerLost, faulty>>
      BY <2>5 DEF vars, sending, history, channel
    <3>2. Contents(lens)' /\ Quiet'
      BY <1>1, <1>2, <3>1 DEF Contents, FollowedRight, Quiet
    <3>3. Chain(lens)'
      BY <1>1, <3>1 DEF Chain, at, NothingBetween, Follows, Sends, messageAt, streamAt, numberAt, is_sending
    <3> QED
      BY <3>2, <3>3
  <2> QED
    BY <2>1, <2>2, <2>3, <2>4, <2>5 DEF Next
<1> QED
  BY <1>4, <1>5, <1>6 DEF ChainInv

\* A sequence error is only reported after a fault, an ignored fragment or a
\* message without bytes: ErrorsHaveCause.
THEOREM ErrorsHaveACause ==
    ASSUME NoWrap
    PROVE  Spec => []ErrorsHaveCause
<1>1. Init => ChainInv
  BY ChainInvInit
<1>2. ChainInv /\ [Next]_vars => ChainInv'
  BY ChainInvNext
<1>3. ChainInv => ErrorsHaveCause
  BY DEF ChainInv
<1> QED
  BY <1>1, <1>2, <1>3, PTL DEF Spec
=============================================================================
