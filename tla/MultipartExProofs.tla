-------------------------- MODULE MultipartExProofs --------------------------
(***************************************************************************)
(* Proofs about MultipartEx, for any number of nodes, contexts, streams and *)
(* messages, any size of fragment, buffer and queue, and any faults.        *)
(***************************************************************************)
EXTENDS MultipartEx, LeastElement, SequenceTheorems, FiniteSetTheorems, FunctionTheorems

-----------------------------------------------------------------------------
(* The contexts given up in one call, one after the other.                  *)

\* The least of a set of numbers.
LEMMA MinIs ==
    ASSUME NEW S, S \subseteq Nat, S # {}
    PROVE  Min(S) \in S /\ \A y \in S : Min(S) <= y
<1>1. \E x \in S : \A y \in S : x <= y
  BY LeastNat
<1>2. Min(S) = CHOOSE x \in S : \A y \in S : x <= y
  BY DEF Min
<1> QED
  BY <1>1, <1>2

\* The sequence of a finite set of numbers in order holds each of them.
LEMMA InOrder ==
    ASSUME NEW S, S \subseteq Nat, IsFiniteSet(S)
    PROVE  /\ Cardinality(S) \in Nat
           /\ inOrder(S) \in [1 .. Cardinality(S) -> S]
           /\ \A x \in S : \E k \in 1 .. Cardinality(S) : inOrder(S)[k] = x
<1> DEFINE n == Cardinality(S)
           D == 1 .. n
           below(x) == {y \in S : y < x}
           rank == [x \in S |-> Cardinality(below(x)) + 1]
           ordered(q) == \A i, j \in DOMAIN q : i < j => q[i] < q[j]
           o == inOrder(S)
<1>1. n \in Nat /\ IsFiniteSet(D) /\ Cardinality(D) = n
  <2>1. n \in Nat
    BY FS_CardinalityType
  <2> HIDE DEF n
  <2> QED
    BY <2>1, FS_Interval
<1>2. ASSUME NEW x \in S
      PROVE  IsFiniteSet(below(x)) /\ Cardinality(below(x)) \in Nat /\ Cardinality(below(x)) + 1 \in D
  <2>1. below(x) \subseteq S /\ x \notin below(x)
    OBVIOUS
  <2> HIDE DEF below
  <2>2. below(x) \in SUBSET S /\ below(x) # S
    BY <2>1
  <2>3. IsFiniteSet(below(x)) /\ Cardinality(below(x)) <= n /\ Cardinality(below(x)) # n
    BY <2>2, FS_Subset
  <2>4. Cardinality(below(x)) \in Nat
    BY <2>3, FS_CardinalityType
  <2> HIDE DEF n
  <2> QED
    BY <1>1, <2>3, <2>4
<1>3. ASSUME NEW x \in S, NEW y \in S, x < y
      PROVE  Cardinality(below(x)) < Cardinality(below(y))
  <2>1. below(x) \subseteq below(y) /\ x \in below(y) /\ x \notin below(x)
    <3>1. x \in Nat /\ y \in Nat /\ \A z \in S : z \in Nat
      OBVIOUS
    <3>2. \A z \in S : z < x => z < y
      BY <1>3, <3>1
    <3>3. ~(x < x)
      BY <3>1
    <3> QED
      BY <1>3, <3>2, <3>3
  <2>2. /\ IsFiniteSet(below(y)) /\ Cardinality(below(x)) \in Nat /\ Cardinality(below(y)) \in Nat
    BY <1>2
  <2> HIDE DEF below
  <2>3. below(x) \in SUBSET below(y) /\ below(x) # below(y)
    BY <2>1
  <2>4. Cardinality(below(x)) <= Cardinality(below(y)) /\ Cardinality(below(x)) # Cardinality(below(y))
    BY <2>2, <2>3, FS_Subset
  <2> QED
    BY <2>2, <2>4
<1> HIDE DEF below
<1>4. rank \in [S -> D] /\ \A x, y \in S : x < y => rank[x] < rank[y]
  BY <1>2, <1>3
<1> HIDE DEF rank
<1>5. \A x, y \in S : rank[x] = rank[y] => x = y
  <2> SUFFICES ASSUME NEW x \in S, NEW y \in S, rank[x] = rank[y]
               PROVE  x = y
    OBVIOUS
  <2>1. rank[x] \in Nat /\ rank[y] \in Nat /\ x \in Nat /\ y \in Nat
    BY <1>1, <1>4
  <2>2. ~(rank[x] < rank[y]) /\ ~(rank[y] < rank[x])
    BY <2>1
  <2>3. ~(x < y) /\ ~(y < x)
    BY <1>4, <2>2
  <2> QED
    BY <2>1, <2>3
<1>6. \A k \in D : \E x \in S : rank[x] = k
  <2>1. rank \in Injection(S, D)
    BY <1>4, <1>5 DEF Injection, IsInjective
  <2>2. rank \in Surjection(S, D)
    <3> HIDE DEF D
    <3> QED
      BY <1>1, <2>1, FS_Injection
  <2> QED
    BY <2>2 DEF Surjection
<1>7. \E q \in [D -> S] : ordered(q)
  <2> DEFINE q == [k \in D |-> CHOOSE x \in S : rank[x] = k]
  <2>1. q \in [D -> S] /\ \A k \in D : rank[q[k]] = k
    BY <1>6
  <2> HIDE DEF q
  <2>2. ASSUME NEW i \in D, NEW j \in D, i < j
        PROVE  q[i] < q[j]
    <3>1. q[i] \in Nat /\ q[j] \in Nat /\ q[i] \in S /\ q[j] \in S /\ rank[q[i]] = i /\ rank[q[j]] = j
      BY <2>1
    <3>2. i \in Nat /\ j \in Nat /\ ~(j < i) /\ i # j
      BY <1>1, <2>2
    <3>3. ~(q[j] < q[i]) /\ q[i] # q[j]
      BY <1>4, <3>1, <3>2
    <3> QED
      BY <3>1, <3>3
  <2> QED
    BY <2>1, <2>2
<1>8. o \in [D -> S] /\ ordered(o)
  <2>1. o = CHOOSE q \in [D -> S] : ordered(q)
    BY DEF inOrder
  <2> HIDE DEF o, ordered
  <2> QED
    BY <1>7, <2>1
<1> HIDE DEF o
<1>9. \A i, j \in D : o[i] = o[j] => i = j
  <2> SUFFICES ASSUME NEW i \in D, NEW j \in D, o[i] = o[j]
               PROVE  i = j
    OBVIOUS
  <2>1. o[i] \in Nat /\ i \in Nat /\ j \in Nat
    <3>1. o[i] \in S
      BY <1>8
    <3>2. o[i] \in Nat
      BY <3>1
    <3> HIDE DEF n
    <3> QED
      BY <1>1, <3>2
  <2>2. ~(i < j) /\ ~(j < i)
    BY <1>8, <2>1
  <2> QED
    BY <2>1, <2>2
<1>10. \A x \in S : \E k \in D : o[k] = x
  <2>1. o \in Injection(D, S)
    BY <1>8, <1>9 DEF Injection, IsInjective
  <2>2. o \in Surjection(D, S)
    <3> HIDE DEF D
    <3> QED
      BY <1>1, <2>1, FS_Injection
  <2> QED
    BY <2>2 DEF Surjection
<1> QED
  BY <1>1, <1>8, <1>10 DEF o

-----------------------------------------------------------------------------
(* Types.                                                                   *)

Byte == Nat \X Nat
LengthsOr0 == Lengths \cup {0}
AllContexts == SendContexts \cup {Beyond}

\* What the assumptions say of the constants.
LEMMA Parameters ==
    /\ PAYLOAD \in Nat /\ PAYLOAD >= 1 /\ SEQ_MOD \in Nat /\ SEQ_MOD >= 1
    /\ _num_send_contexts \in Nat /\ _num_send_contexts >= 1
    /\ _num_receive_contexts \in Nat /\ _num_receive_contexts >= 1
    /\ _receive_buffer_len \in Nat /\ _receive_buffer_len >= 1
    /\ _receive_timeout \in Nat /\ _receive_timeout >= 1 /\ RX_SIZE \in Nat /\ RX_SIZE >= 1
    /\ _msg_delay \in Nat /\ MAX_MESSAGES \in Nat /\ MAX_FAULTS \in Nat
    /\ Lengths \subseteq LengthsOr0 /\ 0 \in LengthsOr0 /\ LengthsOr0 \subseteq Nat
    /\ Streams # {} /\ _stream_ids \subseteq Streams /\ CrcSenders \subseteq Sender
    /\ \A s \in Sender : \A kind \in Messages[s] : kind[1] \in Lengths /\ kind[2] \in Nat
<1>1. \A s \in Sender : \A kind \in Messages[s] : kind[1] \in Nat /\ kind[2] \in Nat
  <2> SUFFICES ASSUME NEW s \in Sender, NEW kind \in Messages[s]
               PROVE  kind[1] \in Nat /\ kind[2] \in Nat
    OBVIOUS
  <2>1. kind \in Nat \X Nat
    BY MultipartExAssumption
  <2> QED
    BY <2>1
<1>2. \A s \in Sender : \A kind \in Messages[s] : kind[1] \in Lengths
  BY DEF Lengths
<1>3. Lengths \subseteq Nat
  BY <1>1 DEF Lengths
<1> QED
  BY <1>1, <1>2, <1>3, MultipartExAssumption DEF LengthsOr0

\* A function on 1 .. n is a sequence.
LEMMA FunctionIsSeq ==
    ASSUME NEW S, NEW n \in Nat, NEW f \in [1 .. n -> S]
    PROVE  f \in Seq(S) /\ Len(f) = n
<1>1. f \in Seq(S)
  BY SeqDef
<1>2. Len(f) \in Nat /\ 1 .. Len(f) = 1 .. n
  BY <1>1, LenProperties
<1> QED
  BY <1>1, <1>2

\* The array of send contexts, and what lies behind it.
LEMMA ContextsAre ==
    /\ SendContexts \subseteq Nat /\ Beyond \in Nat /\ Beyond \notin SendContexts /\ 0 \in SendContexts
    /\ SendContexts \subseteq AllContexts /\ Beyond \in AllContexts /\ AllContexts \subseteq Nat
    /\ \A i \in SendContexts : i < Beyond
    /\ ReceiveContexts \subseteq Nat /\ IsFiniteSet(ReceiveContexts)
    /\ \A c \in SendContexts : nextContext(c) \in SendContexts
<1>1. \A c \in SendContexts : nextContext(c) \in SendContexts
  BY Parameters DEF SendContexts, nextContext
<1>2. IsFiniteSet(ReceiveContexts)
  BY Parameters, FS_Interval DEF ReceiveContexts
<1> QED
  BY <1>1, <1>2, Parameters DEF SendContexts, Beyond, AllContexts, ReceiveContexts

SendRecords ==
    [in_use : BOOLEAN, msg : Nat, stream : Streams, len : LengthsOr0, zero : Nat, index : Nat,
     seq : Nat, gap : 0 .. _msg_delay]

ReceiveRecords ==
    [in_use : BOOLEAN, stream : Streams, canid : Sender \cup {0}, msg : Nat, body : Seq(Byte),
     length : LengthsOr0, crc : Seq(Byte), buffer : Seq(Byte), expected : Nat,
     age : 0 .. _receive_timeout]

Frames ==
    {f \in [canid : Sender, stream : Streams, seq : 0 .. SEQ_MOD - 1, header : BOOLEAN, msg : Nat,
            length : LengthsOr0, crc : Seq(Byte), data : Seq(Byte), body : Seq(Byte)] :
        /\ f.header => f.seq = 0 /\ f.length \in Lengths
        /\ ~f.header => Len(f.data) = PAYLOAD}

\* A context in use has something to send, or its message is empty.
ToSend(m) == m.in_use => m.index < m.len \/ m.len = 0

\* A context in use waits for something that its buffer has room for; for a
\* message of length 0 it waits for the first byte.
ToReceive(r) ==
    /\ Len(r.buffer) < _receive_buffer_len
    /\ r.in_use => Len(r.buffer) < r.length \/ (r.length = 0 /\ r.buffer = <<>>)

SenderTypes ==
    /\ snd \in [Sender -> [AllContexts -> SendRecords]]
    /\ \A s \in Sender, i \in SendContexts : ToSend(snd[s][i])
    /\ context \in [Sender -> SendContexts]
    /\ sent \in Nat

ChannelTypes ==
    /\ rx \in Seq(Frames) /\ Len(rx) <= RX_SIZE
    /\ faults \in 0 .. MAX_FAULTS /\ disturbed \subseteq Sender \X Streams

ReceiverTypes ==
    /\ rcv \in [ReceiveContexts -> ReceiveRecords]
    /\ \A i \in ReceiveContexts : ToReceive(rcv[i])

Types == SenderTypes /\ ChannelTypes /\ ReceiverTypes

\* What arrives when a frame is sent: nothing, the frame, or the frame twice.
Arrived(f, n) ==
    /\ Len(rx') = Len(rx) + n
    /\ \A j \in 1 .. Len(rx) : rx'[j] = rx[j]
    /\ \A j \in Len(rx) + 1 .. Len(rx) + n : rx'[j] = f
    /\ n = 1 => disturbed' = disturbed
    /\ n # 1 => disturbed' = disturbed \cup {<<f.canid, f.stream>>}

\* A frame that is sent is put behind the queue never, once or twice.
LEMMA Arrives ==
    ASSUME ChannelTypes, NEW f \in Frames, sendMessageFragment(f)
    PROVE  ChannelTypes' /\ \E n \in {0, 1, 2} : Arrived(f, n)
<1>1. <<f.canid, f.stream>> \in Sender \X Streams
  BY DEF Frames
<1>2. RX_SIZE \in Nat /\ MAX_FAULTS \in Nat /\ Len(rx) \in Nat /\ rx \in Seq(Frames) /\ Len(rx) <= RX_SIZE
  BY Parameters DEF ChannelTypes
<1>3. CASE Len(rx) < RX_SIZE /\ rx' = Append(rx, f) /\ UNCHANGED channel
  <2>1. /\ rx' \in Seq(Frames) /\ Len(rx') = Len(rx) + 1
        /\ \A j \in 1 .. Len(rx) : rx'[j] = rx[j]
        /\ rx'[Len(rx) + 1] = f
    BY <1>2, <1>3
  <2>2. \A j \in Len(rx) + 1 .. Len(rx) + 1 : rx'[j] = f
    BY <1>2, <2>1
  <2>3. UNCHANGED <<faults, disturbed>>
    BY <1>3 DEF channel
  <2>4. Arrived(f, 1)
    BY <2>1, <2>2, <2>3 DEF Arrived
  <2>5. ChannelTypes'
    BY <1>2, <1>3, <2>1, <2>3 DEF ChannelTypes
  <2> QED
    BY <2>4, <2>5
<1>4. ASSUME Lost(f), faults' \in 0 .. MAX_FAULTS
      PROVE  ChannelTypes' /\ Arrived(f, 0)
  <2>1. rx' = rx /\ disturbed' = disturbed \cup {<<f.canid, f.stream>>}
    BY <1>4 DEF Lost
  <2>2. \A j \in Len(rx) + 1 .. Len(rx) + 0 : rx'[j] = f
    BY <1>2
  <2> QED
    BY <1>1, <1>2, <1>4, <2>1, <2>2 DEF Arrived, ChannelTypes
<1>5. CASE Len(rx) = RX_SIZE /\ Lost(f) /\ UNCHANGED faults
  BY <1>4, <1>5 DEF ChannelTypes
<1>6. CASE faults < MAX_FAULTS /\ faults' = faults + 1 /\ Lost(f)
  BY <1>2, <1>4, <1>6 DEF ChannelTypes
<1>7. CASE /\ faults < MAX_FAULTS /\ faults' = faults + 1
           /\ Len(rx) + 1 < RX_SIZE /\ rx' = rx \o <<f, f>>
           /\ disturbed' = disturbed \cup {<<f.canid, f.stream>>}
  <2> DEFINE two == <<f, f>>
  <2>1. two \in Seq(Frames) /\ Len(two) = 2 /\ two[1] = f /\ two[2] = f
    OBVIOUS
  <2> HIDE DEF two
  <2>2. /\ rx' \in Seq(Frames) /\ Len(rx') = Len(rx) + Len(two)
        /\ \A j \in 1 .. Len(rx) + Len(two) : rx'[j] = IF j <= Len(rx) THEN rx[j] ELSE two[j - Len(rx)]
    <3>1. rx' = rx \o two
      BY <1>7 DEF two
    <3> QED
      BY <1>2, <2>1, <3>1, ConcatProperties
  <2> DEFINE len == Len(rx)
             n == Len(two)
  <2>3. len \in Nat /\ n = 2
    BY <1>2, <2>1
  <2> HIDE DEF len, n
  <2>4. \A j \in 1 .. len : j \in 1 .. len + n /\ j <= len
    BY <2>3
  <2>5. \A j \in len + 1 .. len + 2 : j \in 1 .. len + n /\ ~(j <= len) /\ (j - len = 1 \/ j - len = 2)
    BY <2>3
  <2>6. \A j \in 1 .. len : rx'[j] = rx[j]
    BY <2>2, <2>4 DEF len, n
  <2>7. \A j \in len + 1 .. len + 2 : rx'[j] = f
    BY <2>1, <2>2, <2>5 DEF len, n
  <2>8. Len(rx') = len + 2
    BY <2>2, <2>3 DEF len, n
  <2>9. Len(rx') <= RX_SIZE
    BY <1>2, <1>7, <2>8 DEF len
  <2>10. faults' \in 0 .. MAX_FAULTS
    BY <1>2, <1>7 DEF ChannelTypes
  <2>11. Arrived(f, 2)
    BY <1>7, <2>6, <2>7, <2>8 DEF Arrived, len
  <2>12. ChannelTypes'
    BY <1>1, <1>7, <2>2, <2>9, <2>10 DEF ChannelTypes
  <2> QED
    BY <2>11, <2>12
<1> QED
  BY <1>3, <1>4, <1>5, <1>6, <1>7 DEF sendMessageFragment

\* The frame that is handled leaves the queue.
LEMMA Handled ==
    ASSUME ChannelTypes, NEW f, Handles(f)
    PROVE  /\ f = rx[1] /\ 1 \in DOMAIN rx /\ f \in Frames
           /\ ChannelTypes' /\ UNCHANGED <<snd, context, sent, faults, disturbed>>
           /\ Len(rx) \in Nat /\ DOMAIN rx = 1 .. Len(rx) /\ DOMAIN rx' = 1 .. Len(rx) - 1
           /\ \A j \in DOMAIN rx' : j + 1 \in DOMAIN rx /\ rx'[j] = rx[j + 1]
<1>1. rx \in Seq(Frames) /\ rx # <<>> /\ f = Head(rx) /\ rx' = Tail(rx)
  BY DEF ChannelTypes, Handles
<1>2. UNCHANGED <<snd, context, sent, faults, disturbed>>
  BY DEF Handles, sending, channel
<1>3. /\ Len(rx) \in Nat /\ Len(rx) >= 1 /\ DOMAIN rx = 1 .. Len(rx) /\ f = rx[1] /\ f \in Frames
      /\ rx' \in Seq(Frames) /\ Len(rx') = Len(rx) - 1 /\ DOMAIN rx' = 1 .. Len(rx) - 1
      /\ \A j \in 1 .. Len(rx) - 1 : rx'[j] = rx[j + 1]
  BY <1>1
<1>4. ChannelTypes'
  BY <1>2, <1>3, Parameters DEF ChannelTypes
<1>5. \A j \in 1 .. Len(rx) - 1 : j + 1 \in 1 .. Len(rx)
  BY <1>3
<1> QED
  BY <1>2, <1>3, <1>4, <1>5

-----------------------------------------------------------------------------
(* Messages and frames have their types.                                    *)

\* The bytes of a message, and of its copy.
LEMMA MessageIs ==
    ASSUME NEW m \in SendRecords
    PROVE  /\ m.len \in Nat /\ message(m) \in Seq(Byte) /\ Len(message(m)) = m.len
           /\ copied(m) \in [1 .. m.len -> Byte]
<1>1. m.len \in Nat /\ m.msg \in Nat /\ m.zero \in Nat
  BY Parameters DEF SendRecords
<1>2. message(m) \in [1 .. m.len -> Byte]
  <2>1. \A k \in 1 .. m.len : (IF k = m.zero THEN Pad ELSE <<m.msg, k>>) \in Byte
    BY <1>1 DEF Pad, Byte
  <2> QED
    BY <2>1 DEF message
<1>3. copied(m) \in [1 .. m.len -> Byte]
  <2>1. \A k \in 1 .. m.len : (IF m.zero # 0 /\ k > m.zero THEN Garbage ELSE message(m)[k]) \in Byte
    <3>1. Garbage \in Byte
      BY DEF Garbage, Byte
    <3> QED
      BY <1>2, <3>1
  <2> QED
    BY <2>1 DEF copied
<1> QED
  BY <1>1, <1>2, <1>3, FunctionIsSeq

\* What a header tells.
LEMMA AHeader ==
    ASSUME NEW s \in Sender, NEW m \in SendRecords, m.len \in Lengths
    PROVE  LET f == Header(s, m)
           IN  /\ f \in Frames /\ f.header /\ f.canid = s /\ f.stream = m.stream /\ f.seq = 0
               /\ f.length = m.len /\ f.body = message(m)
               /\ f.crc = IF s \in CrcSenders THEN message(m) ELSE <<>>
<1> DEFINE crc == IF s \in CrcSenders THEN message(m) ELSE <<>>
           body == message(m)
<1>1. crc \in Seq(Byte) /\ body \in Seq(Byte) /\ <<>> \in Seq(Byte)
  BY MessageIs
<1>2. m.stream \in Streams /\ m.msg \in Nat
  BY DEF SendRecords
<1>3. Header(s, m) = [canid |-> s, stream |-> m.stream, seq |-> 0, header |-> TRUE, msg |-> m.msg,
                      length |-> m.len, crc |-> crc, data |-> <<>>, body |-> body]
  BY DEF Header, crc16
<1> HIDE DEF crc, body
<1>4. 0 \in 0 .. SEQ_MOD - 1 /\ m.len \in LengthsOr0
  <2>1. 0 \in 0 .. SEQ_MOD - 1
    BY Parameters
  <2>2. m.len \in LengthsOr0
    BY DEF LengthsOr0
  <2> QED
    BY <2>1, <2>2
<1>5. Header(s, m) \in Frames
  BY <1>1, <1>2, <1>3, <1>4 DEF Frames
<1> QED
  BY <1>3, <1>5 DEF crc, body

\* What a fragment holds.
LEMMA AFragment ==
    ASSUME NEW s \in Sender, NEW m \in SendRecords
    PROVE  LET f == Fragment(s, m)
           IN  /\ f \in Frames /\ ~f.header /\ f.canid = s /\ f.stream = m.stream
               /\ f.seq = m.seq % SEQ_MOD /\ f.body = message(m)
               /\ Len(f.data) = PAYLOAD
               /\ \A k \in 1 .. PAYLOAD :
                     f.data[k] = IF m.index + k <= m.len THEN copied(m)[m.index + k] ELSE Pad
<1> DEFINE data == [k \in 1 .. PAYLOAD |-> IF m.index + k <= m.len THEN copied(m)[m.index + k] ELSE Pad]
           body == message(m)
<1>1. m.stream \in Streams /\ m.msg \in Nat /\ m.seq \in Nat /\ m.index \in Nat /\ m.len \in Nat
  BY MessageIs DEF SendRecords
<1>2. data \in [1 .. PAYLOAD -> Byte]
  <2>1. \A k \in 1 .. PAYLOAD : (IF m.index + k <= m.len THEN copied(m)[m.index + k] ELSE Pad) \in Byte
    <3> SUFFICES ASSUME NEW k \in 1 .. PAYLOAD
                 PROVE  (IF m.index + k <= m.len THEN copied(m)[m.index + k] ELSE Pad) \in Byte
      OBVIOUS
    <3>1. Pad \in Byte
      BY DEF Pad, Byte
    <3>2. m.index + k <= m.len => m.index + k \in 1 .. m.len
      BY <1>1, Parameters
    <3> QED
      BY <3>1, <3>2, MessageIs
  <2> QED
    BY <2>1
<1>3. data \in Seq(Byte) /\ Len(data) = PAYLOAD
  BY <1>2, Parameters, FunctionIsSeq
<1>4. m.seq % SEQ_MOD \in 0 .. SEQ_MOD - 1
  BY <1>1, Parameters
<1>5. Fragment(s, m) = [canid |-> s, stream |-> m.stream, seq |-> m.seq % SEQ_MOD, header |-> FALSE,
                        msg |-> m.msg, length |-> 0, crc |-> <<>>, body |-> body, data |-> data]
  BY DEF Fragment
<1>6. body \in Seq(Byte) /\ <<>> \in Seq(Byte)
  BY MessageIs
<1>7. \A k \in 1 .. PAYLOAD : data[k] = IF m.index + k <= m.len THEN copied(m)[m.index + k] ELSE Pad
  OBVIOUS
<1> HIDE DEF data, body
<1>8. Fragment(s, m) \in Frames
  BY <1>1, <1>3, <1>4, <1>5, <1>6, Parameters DEF Frames
<1> QED
  BY <1>3, <1>5, <1>7, <1>8 DEF body

\* A context that is not in use.
LEMMA Unused ==
    ASSUME NEW gap \in 0 .. _msg_delay
    PROVE  unused(gap) \in SendRecords /\ ~unused(gap).in_use /\ unused(gap).gap = gap
<1>1. (CHOOSE x \in Streams : TRUE) \in Streams
  BY Parameters
<1> QED
  BY <1>1, Parameters DEF unused, SendRecords

\* A context after a fragment was sent from it.
LEMMA Advanced ==
    ASSUME NEW m \in SendRecords
    PROVE  LET a == afterFragment(m)
           IN  /\ a \in SendRecords /\ ToSend(a)
               /\ m.index + PAYLOAD >= m.len => ~a.in_use
               /\ ~(m.index + PAYLOAD >= m.len) =>
                     /\ a.in_use = m.in_use /\ a.msg = m.msg /\ a.stream = m.stream /\ a.len = m.len
                     /\ a.zero = m.zero /\ a.index = m.index + PAYLOAD /\ a.seq = m.seq + 1
<1>1. m.index \in Nat /\ m.seq \in Nat /\ m.len \in Nat /\ PAYLOAD \in Nat /\ 0 \in 0 .. _msg_delay
  <2>1. m.index \in Nat /\ m.seq \in Nat
    BY DEF SendRecords
  <2>2. PAYLOAD \in Nat /\ 0 \in 0 .. _msg_delay
    BY Parameters
  <2> QED
    BY <2>1, <2>2, MessageIs
<1>2. CASE m.index + PAYLOAD >= m.len
  <2>1. afterFragment(m) = unused(m.gap)
    BY <1>2 DEF afterFragment
  <2>2. m.gap \in 0 .. _msg_delay
    BY DEF SendRecords
  <2> QED
    BY <1>2, <2>1, <2>2, Unused DEF ToSend
<1>3. CASE ~(m.index + PAYLOAD >= m.len)
  <2> DEFINE to == m.index + PAYLOAD
             a == [m EXCEPT !.index = to]
             b == [a EXCEPT !.seq = @ + 1]
             c == [b EXCEPT !.gap = 0]
  <2>1. to \in Nat /\ to < m.len
    BY <1>1, <1>3
  <2> HIDE DEF to
  <2>2. /\ a \in SendRecords /\ a.in_use = m.in_use /\ a.msg = m.msg /\ a.stream = m.stream
        /\ a.len = m.len /\ a.zero = m.zero /\ a.index = to /\ a.seq = m.seq
    BY <2>1 DEF SendRecords
  <2> HIDE DEF a
  <2>3. /\ b \in SendRecords /\ b.in_use = m.in_use /\ b.msg = m.msg /\ b.stream = m.stream
        /\ b.len = m.len /\ b.zero = m.zero /\ b.index = to /\ b.seq = m.seq + 1
    BY <1>1, <2>2 DEF SendRecords
  <2> HIDE DEF b
  <2>4. /\ c \in SendRecords /\ c.in_use = m.in_use /\ c.msg = m.msg /\ c.stream = m.stream
        /\ c.len = m.len /\ c.zero = m.zero /\ c.index = to /\ c.seq = m.seq + 1
    BY <1>1, <2>3 DEF SendRecords
  <2>5. afterFragment(m) = c
    BY <1>3 DEF afterFragment, a, b, c, to
  <2> HIDE DEF c
  <2>6. ToSend(c)
    BY <2>1, <2>4 DEF ToSend
  <2> QED
    BY <1>3, <2>4, <2>5, <2>6 DEF to
<1> QED
  BY <1>2, <1>3

\* One send context is changed.
LEMMA OneContext ==
    ASSUME NEW all \in [Sender -> [AllContexts -> SendRecords]], NEW s \in Sender, NEW i \in AllContexts,
           NEW m \in SendRecords, NEW new, new = [all EXCEPT ![s][i] = m]
    PROVE  /\ new \in [Sender -> [AllContexts -> SendRecords]] /\ new[s][i] = m
           /\ \A c \in Sender, j \in AllContexts : c # s \/ j # i => new[c][j] = all[c][j]
           /\ \A c \in Sender : c # s => new[c] = all[c]
OBVIOUS

-----------------------------------------------------------------------------
(* Types are kept by the senders.                                           *)

\* The search for a free context finds one, or the place behind the last if there is none.
LEMMA FreeSendIs ==
    ASSUME SenderTypes, NEW s \in Sender
    PROVE  /\ freeSend(s) \in AllContexts
           /\ freeSend(s) \in SendContexts => ~snd[s][freeSend(s)].in_use
           /\ freeSend(s) \notin SendContexts => \A i \in SendContexts : snd[s][i].in_use
<1> DEFINE free == {i \in SendContexts : ~snd[s][i].in_use}
           F == free \cup {Beyond}
<1>1. F \subseteq Nat /\ F # {}
  BY ContextsAre
<1>2. freeSend(s) = Min(F)
  BY DEF freeSend
<1> HIDE DEF F
<1>3. Min(F) \in F /\ \A y \in F : Min(F) <= y
  BY <1>1, MinIs
<1>4. ASSUME Min(F) \notin SendContexts
      PROVE  \A i \in SendContexts : snd[s][i].in_use
  <2>1. Min(F) = Beyond
    BY <1>3, <1>4 DEF F
  <2> SUFFICES ASSUME NEW i \in SendContexts, ~snd[s][i].in_use
               PROVE  FALSE
    OBVIOUS
  <2>2. i \in F /\ i \in Nat /\ Beyond \in Nat /\ i < Beyond
    BY ContextsAre DEF F
  <2>3. Beyond <= i
    BY <1>3, <2>1, <2>2
  <2> QED
    BY <2>2, <2>3
<1> QED
  BY <1>2, <1>3, <1>4, ContextsAre DEF F

\* Every action keeps the types, and what it changes: a message takes a context,
LEMMA TypesSend ==
    ASSUME Types, NEW s \in Sender, NEW stream \in Streams, NEW kind \in Messages[s],
           sendMultipartMessage(s, stream, kind[1], kind[2])
    PROVE  /\ Types' /\ UNCHANGED <<context, rcv>> /\ calls' = <<>> /\ ~alreadySending(s, stream)
           /\ \E m \in SendRecords :
                 /\ m.in_use /\ m.stream = stream /\ m.index = 0 /\ m.seq = 1
                 /\ m.len \in Lengths
                 /\ snd' = [snd EXCEPT ![s][freeSend(s)] = m]
                 /\ \E n \in {0, 1, 2} : Arrived(Header(s, m), n)
<1> DEFINE i == freeSend(s)
           m == [in_use |-> TRUE, msg |-> sent', stream |-> stream, len |-> kind[1], zero |-> kind[2],
                 index |-> 0, seq |-> 1, gap |-> snd[s][i].gap]
<1>1. /\ snd' = [snd EXCEPT ![s][i] = m] /\ sendMessageFragment(Header(s, m)) /\ sent' = sent + 1
      /\ calls' = <<>> /\ UNCHANGED <<context, rcv>> /\ ~alreadySending(s, stream)
  BY DEF sendMultipartMessage
<1>2. i \in AllContexts /\ snd \in [Sender -> [AllContexts -> SendRecords]] /\ sent' \in Nat
  BY <1>1, FreeSendIs DEF Types, SenderTypes
<1> HIDE DEF i
<1>3. kind[1] \in Lengths /\ kind[2] \in Nat /\ kind[1] \in LengthsOr0
  BY Parameters
<1>4. snd[s][i].gap \in 0 .. _msg_delay
  <2>1. snd[s][i] \in SendRecords
    BY <1>2
  <2> QED
    BY <2>1 DEF SendRecords
<1>5. /\ m \in SendRecords /\ m.in_use /\ m.stream = stream /\ m.index = 0 /\ m.seq = 1
      /\ m.len \in Lengths /\ m.len \in Nat
  BY <1>2, <1>3, <1>4, Parameters DEF SendRecords
<1> HIDE DEF m
<1>6. ToSend(m)
  BY <1>5 DEF ToSend
<1>7. Header(s, m) \in Frames
  BY <1>5, AHeader
<1>8. ChannelTypes' /\ \E n \in {0, 1, 2} : Arrived(Header(s, m), n)
  BY <1>1, <1>7, Arrives DEF Types
<1>9. SenderTypes'
  <2>1. /\ snd' \in [Sender -> [AllContexts -> SendRecords]] /\ snd'[s][i] = m
        /\ \A c \in Sender, j \in AllContexts : c # s \/ j # i => snd'[c][j] = snd[c][j]
    BY <1>1, <1>2, <1>5, OneContext
  <2>2. \A c \in Sender, j \in SendContexts : ToSend(snd'[c][j])
    BY <1>6, <2>1, ContextsAre DEF Types, SenderTypes
  <2> QED
    BY <1>1, <1>2, <2>1, <2>2 DEF Types, SenderTypes
<1>10. ReceiverTypes'
  BY <1>1 DEF Types, ReceiverTypes
<1> QED
  BY <1>1, <1>5, <1>8, <1>9, <1>10 DEF Types, i

\* the context whose turn it is sends a fragment, or nothing,
LEMMA TypesProcess ==
    ASSUME Types, NEW s \in Sender, Process(s)
    PROVE  /\ Types' /\ UNCHANGED <<sent, rcv, open>> /\ calls' = <<>>
           /\ context[s] \in SendContexts
           /\ \/ UNCHANGED <<snd, rx, faults, disturbed>>
              \/ /\ due(snd[s][context[s]])
                 /\ snd' = [snd EXCEPT ![s][context[s]] = afterFragment(snd[s][context[s]])]
                 /\ \E n \in {0, 1, 2} : Arrived(Fragment(s, snd[s][context[s]]), n)
<1> DEFINE i == context[s]
           m == snd[s][i]
<1>1. /\ calls' = <<>> /\ UNCHANGED <<sent, rcv, open>>
      /\ context' = [context EXCEPT ![s] = nextContext(i)]
      /\ \/ ~due(m) /\ UNCHANGED <<snd, rx, channel>>
         \/ /\ due(m) /\ snd' = [snd EXCEPT ![s][i] = afterFragment(m)]
            /\ sendMessageFragment(Fragment(s, m))
  BY DEF Process
<1>2. /\ i \in SendContexts /\ i \in AllContexts /\ snd \in [Sender -> [AllContexts -> SendRecords]]
      /\ context \in [Sender -> SendContexts]
  BY ContextsAre DEF Types, SenderTypes
<1> HIDE DEF i
<1>3. m \in SendRecords
  BY <1>2
<1> HIDE DEF m
<1>4. context' \in [Sender -> SendContexts]
  BY <1>1, <1>2, ContextsAre
<1>5. ReceiverTypes'
  BY <1>1 DEF Types, ReceiverTypes
<1>6. CASE UNCHANGED <<snd, rx, channel>>
  <2>1. UNCHANGED <<snd, rx, faults, disturbed>>
    BY <1>6 DEF channel
  <2>2. SenderTypes' /\ ChannelTypes'
    BY <1>1, <1>4, <2>1 DEF Types, SenderTypes, ChannelTypes
  <2> QED
    BY <1>1, <1>2, <1>5, <2>1, <2>2 DEF Types, i
<1>7. CASE /\ due(m) /\ snd' = [snd EXCEPT ![s][i] = afterFragment(m)]
           /\ sendMessageFragment(Fragment(s, m))
  <2>1. Fragment(s, m) \in Frames
    BY <1>3, AFragment
  <2>2. ChannelTypes' /\ \E n \in {0, 1, 2} : Arrived(Fragment(s, m), n)
    BY <1>7, <2>1, Arrives DEF Types
  <2>3. afterFragment(m) \in SendRecords /\ ToSend(afterFragment(m))
    BY <1>3, Advanced
  <2>4. /\ snd' \in [Sender -> [AllContexts -> SendRecords]] /\ snd'[s][i] = afterFragment(m)
        /\ \A c \in Sender, j \in AllContexts : c # s \/ j # i => snd'[c][j] = snd[c][j]
    BY <1>2, <1>7, <2>3, OneContext
  <2>5. \A c \in Sender, j \in SendContexts : ToSend(snd'[c][j])
    BY <2>3, <2>4, ContextsAre DEF Types, SenderTypes
  <2>6. SenderTypes'
    BY <1>1, <1>4, <2>4, <2>5 DEF Types, SenderTypes
  <2> QED
    BY <1>1, <1>2, <1>5, <1>7, <2>2, <2>6 DEF Types, i, m
<1> QED
  BY <1>1, <1>6, <1>7

-----------------------------------------------------------------------------
(* Types are kept by the receiver.                                          *)

\* (a context that is freed, and one that is begun)
LEMMA Fresh ==
    /\ freed \in ReceiveRecords /\ ~freed.in_use /\ ToReceive(freed)
    /\ \A f \in Frames, len \in LengthsOr0, crc \in Seq(Byte) :
          LET b == begun(f, len, crc)
          IN  /\ b \in ReceiveRecords /\ ToReceive(b) /\ b.in_use /\ b.stream = f.stream
              /\ b.canid = f.canid /\ b.body = f.body /\ b.length = len /\ b.crc = crc
              /\ b.buffer = <<>> /\ b.expected = 1 /\ b.age = 0
<1>1. (CHOOSE x \in Streams : TRUE) \in Streams /\ 0 \in 0 .. _receive_timeout /\ 0 \in LengthsOr0
  BY Parameters
<1>2. <<>> \in Seq(Byte) /\ Len(<<>>) < _receive_buffer_len
  BY Parameters
<1>3. freed \in ReceiveRecords /\ ~freed.in_use /\ freed.buffer = <<>>
  BY <1>1, <1>2 DEF freed, ReceiveRecords
<1>4. ToReceive(freed)
  BY <1>2, <1>3 DEF ToReceive
<1>5. ASSUME NEW f \in Frames, NEW len \in LengthsOr0, NEW crc \in Seq(Byte)
      PROVE  LET b == begun(f, len, crc)
             IN  /\ b \in ReceiveRecords /\ ToReceive(b) /\ b.in_use /\ b.stream = f.stream
                 /\ b.canid = f.canid /\ b.body = f.body /\ b.length = len /\ b.crc = crc
                 /\ b.buffer = <<>> /\ b.expected = 1 /\ b.age = 0
  <2> DEFINE b == begun(f, len, crc)
  <2>1. f.stream \in Streams /\ f.canid \in Sender \cup {0} /\ f.msg \in Nat /\ f.body \in Seq(Byte)
    BY DEF Frames
  <2>2. /\ b \in ReceiveRecords /\ b.in_use /\ b.stream = f.stream
        /\ b.canid = f.canid /\ b.body = f.body /\ b.length = len /\ b.crc = crc
        /\ b.buffer = <<>> /\ b.expected = 1 /\ b.age = 0
    BY <1>1, <1>2, <2>1 DEF begun, ReceiveRecords
  <2> HIDE DEF b
  <2>3. ToReceive(b)
    <3>1. len \in Nat /\ Len(<<>>) = 0
      BY Parameters
    <3>2. 0 < len \/ len = 0
      BY <3>1
    <3> QED
      BY <1>2, <2>2, <3>1, <3>2 DEF ToReceive
  <2> QED
    BY <2>2, <2>3 DEF b
<1> QED
  BY <1>3, <1>4, <1>5

\* The bytes a context takes of a fragment.
missing(r) == IF r.length = 0 THEN 1 ELSE r.length - Len(r.buffer)
taken(r) == least(PAYLOAD, least(missing(r), _receive_buffer_len - Len(r.buffer)))

\* (a fragment puts its bytes behind those in the buffer)
LEMMA Consumed ==
    ASSUME NEW r \in ReceiveRecords, ToReceive(r), r.in_use, NEW f \in Frames, ~f.header
    PROVE  LET c == consumed(f, r)
           IN  /\ c \in ReceiveRecords /\ c.in_use /\ c.stream = r.stream /\ c.canid = r.canid
               /\ c.msg = r.msg /\ c.body = r.body /\ c.length = r.length /\ c.crc = r.crc
               /\ c.expected = r.expected + 1 /\ c.age = 0
               /\ taken(r) \in 1 .. PAYLOAD
               /\ Len(r.buffer) \in Nat /\ Len(c.buffer) = Len(r.buffer) + taken(r)
               /\ \A k \in 1 .. Len(r.buffer) : c.buffer[k] = r.buffer[k]
               /\ \A k \in 1 .. taken(r) : c.buffer[Len(r.buffer) + k] = f.data[k]
               /\ r.length # 0 => Len(c.buffer) <= r.length
               /\ ~allReceived(c) /\ Len(c.buffer) < _receive_buffer_len =>
                     ToReceive(c) /\ taken(r) = PAYLOAD
<1> DEFINE n == taken(r)
           part == SubSeq(f.data, 1, n)
           have == r.buffer
           bytes == have \o part
           h == Len(have)
           B == _receive_buffer_len
           c == consumed(f, r)
<1>1. /\ PAYLOAD \in Nat /\ PAYLOAD >= 1 /\ B \in Nat /\ have \in Seq(Byte) /\ h \in Nat /\ h < B
      /\ f.data \in Seq(Byte) /\ Len(f.data) = PAYLOAD
  BY Parameters DEF ReceiveRecords, ToReceive, Frames
<1>2. r.length \in Nat /\ r.expected \in Nat /\ (h < r.length \/ (r.length = 0 /\ have = <<>>))
  <2>1. r.length \in LengthsOr0 /\ r.expected \in Nat
    BY DEF ReceiveRecords
  <2> QED
    BY <2>1, Parameters DEF ToReceive
<1>3. r.length = 0 => h = 0
  BY <1>1, <1>2
<1> DEFINE miss == missing(r)
<1> HIDE DEF have, h, B
<1>4. miss \in Nat /\ miss >= 1 /\ (r.length # 0 => miss = r.length - h)
  <2>1. miss = IF r.length = 0 THEN 1 ELSE r.length - h
    BY DEF missing, h, have
  <2> QED
    BY <1>1, <1>2, <2>1
<1>5. n = least(PAYLOAD, least(miss, B - h))
  BY DEF taken, h, have, B
<1> HIDE DEF n, miss
<1>6. n \in Nat /\ n >= 1 /\ n <= PAYLOAD /\ n <= miss /\ n <= B - h /\ (n = PAYLOAD \/ n = miss \/ n = B - h)
  BY <1>1, <1>4, <1>5 DEF least
<1>7. part \in Seq(Byte) /\ Len(part) = n /\ \A k \in 1 .. n : part[k] = f.data[k]
  <2>1. \A k \in 1 .. n : k \in 1 .. Len(f.data) /\ f.data[k] \in Byte
    BY <1>1, <1>6
  <2>2. part \in [1 .. n -> Byte] /\ \A k \in 1 .. n : part[k] = f.data[k]
    <3>1. part = [k \in 1 .. n |-> f.data[1 + k - 1]]
      <4>1. 1 .. (n - 1 + 1) = 1 .. n
        BY <1>6
      <4> QED
        BY <1>1, <1>6, <4>1
    <3>2. \A k \in 1 .. n : 1 + k - 1 = k
      BY <1>6
    <3> QED
      BY <2>1, <3>1, <3>2
  <2> QED
    BY <1>6, <2>2, FunctionIsSeq
<1> HIDE DEF part
<1>8. /\ bytes \in Seq(Byte) /\ Len(bytes) = Len(have) + Len(part)
      /\ \A k \in 1 .. Len(have) + Len(part) : bytes[k] = IF k <= Len(have) THEN have[k] ELSE part[k - Len(have)]
  <2>1. have \in Seq(Byte) /\ part \in Seq(Byte)
    BY <1>1, <1>7
  <2> HIDE DEF bytes
  <2>2. bytes = have \o part
    BY DEF bytes
  <2> QED
    BY <2>1, <2>2, ConcatProperties, Zenon
<1>9. \A k \in 1 .. h : k \in 1 .. h + n /\ k <= h
  BY <1>1, <1>6
<1>10. \A k \in 1 .. n : h + k \in 1 .. h + n /\ ~(h + k <= h) /\ (h + k) - h = k
  BY <1>1, <1>6
<1>11. Len(bytes) = h + n /\ \A k \in 1 .. h : bytes[k] = have[k]
  BY <1>7, <1>8, <1>9 DEF h
<1>12. \A k \in 1 .. n : bytes[h + k] = f.data[k]
  BY <1>7, <1>8, <1>10 DEF h
<1>13. c = [[[r EXCEPT !.buffer = bytes] EXCEPT !.expected = @ + 1] EXCEPT !.age = 0]
  BY DEF consumed, bytes, part, n, taken, missing, have
<1> HIDE DEF bytes, c
<1> DEFINE x == [r EXCEPT !.buffer = bytes]
           y == [x EXCEPT !.expected = @ + 1]
<1>14. /\ x \in ReceiveRecords /\ x.in_use /\ x.stream = r.stream /\ x.canid = r.canid
       /\ x.msg = r.msg /\ x.body = r.body /\ x.length = r.length /\ x.crc = r.crc
       /\ x.buffer = bytes /\ x.expected = r.expected
  BY <1>8 DEF ReceiveRecords
<1>15. c = [[x EXCEPT !.expected = @ + 1] EXCEPT !.age = 0]
  BY <1>13
<1> HIDE DEF x
<1>16. /\ y \in ReceiveRecords /\ y.in_use /\ y.stream = r.stream /\ y.canid = r.canid
       /\ y.msg = r.msg /\ y.body = r.body /\ y.length = r.length /\ y.crc = r.crc
       /\ y.buffer = bytes /\ y.expected = r.expected + 1
  <2>1. r.expected + 1 \in Nat
    BY <1>2
  <2>2. y = [x EXCEPT !.expected = r.expected + 1]
    BY <1>14
  <2> HIDE DEF y
  <2> DEFINE e == r.expected + 1
  <2> HIDE DEF e
  <2>3. e \in Nat /\ y = [x EXCEPT !.expected = e]
    BY <2>1, <2>2 DEF e
  <2>4. /\ y \in ReceiveRecords /\ y.in_use /\ y.stream = r.stream /\ y.canid = r.canid
        /\ y.msg = r.msg /\ y.body = r.body /\ y.length = r.length /\ y.crc = r.crc
        /\ y.buffer = bytes /\ y.expected = e
    BY <1>14, <2>3 DEF ReceiveRecords
  <2> QED
    BY <2>4 DEF e
<1>17. c = [y EXCEPT !.age = 0]
  BY <1>15
<1> HIDE DEF y
<1>18. /\ c \in ReceiveRecords /\ c.in_use /\ c.stream = r.stream /\ c.canid = r.canid
       /\ c.msg = r.msg /\ c.body = r.body /\ c.length = r.length /\ c.crc = r.crc
       /\ c.buffer = bytes /\ c.expected = r.expected + 1 /\ c.age = 0
  <2>1. 0 \in 0 .. _receive_timeout
    BY Parameters
  <2> QED
    BY <1>16, <1>17, <2>1 DEF ReceiveRecords
<1>19. r.length # 0 => h + n <= r.length
  BY <1>1, <1>2, <1>4, <1>6
<1>20. ASSUME ~allReceived(c), Len(c.buffer) < B
       PROVE  ToReceive(c) /\ n = PAYLOAD
  <2>1. ~(h + n >= r.length) /\ h + n < B
    BY <1>11, <1>18, <1>20 DEF allReceived
  <2>2. h + n < r.length
    BY <1>1, <1>2, <1>6, <2>1
  <2>3. r.length # 0
    BY <1>1, <1>6, <2>2
  <2>4. n = PAYLOAD
    BY <1>1, <1>2, <1>4, <1>6, <2>1, <2>2, <2>3
  <2>5. ToReceive(c)
    BY <1>11, <1>18, <1>20, <2>2 DEF ToReceive, B
  <2> QED
    BY <2>4, <2>5
<1> QED
  BY <1>1, <1>6, <1>11, <1>12, <1>18, <1>19, <1>20 DEF n, have, h, B, c

\* (the context a fragment continues)
LEMMA Matched ==
    ASSUME Types, NEW f \in Frames, NEW i \in ReceiveContexts, Continues(f, i)
    PROVE  /\ ~f.header /\ rcv[i].in_use /\ rcv[i].stream = f.stream /\ rcv[i].canid = f.canid
           /\ rcv[i] \in ReceiveRecords /\ ToReceive(rcv[i])
<1>1. matching(f) \subseteq Nat /\ matching(f) # {} /\ i = Min(matching(f)) /\ f.seq # 0
  BY ContextsAre DEF Continues, matching
<1>2. i \in matching(f)
  BY <1>1, MinIs
<1>3. ~f.header
  BY <1>1 DEF Frames
<1> QED
  BY <1>2, <1>3 DEF matching, Types, ReceiverTypes

\* The contexts after a step that changes one of them.
LEMMA OneReceiveContext ==
    ASSUME ReceiverTypes, NEW i \in ReceiveContexts, NEW r \in ReceiveRecords, ToReceive(r),
           rcv' = [rcv EXCEPT ![i] = r]
    PROVE  /\ ReceiverTypes' /\ rcv'[i] = r
           /\ \A j \in ReceiveContexts : j # i => rcv'[j] = rcv[j]
<1>1. rcv' \in [ReceiveContexts -> ReceiveRecords]
  BY DEF ReceiverTypes
<1>2. rcv'[i] = r /\ \A j \in ReceiveContexts : j # i => rcv'[j] = rcv[j]
  BY DEF ReceiverTypes
<1>3. \A j \in ReceiveContexts : ToReceive(rcv'[j])
  BY <1>2 DEF ReceiverTypes
<1> QED
  BY <1>1, <1>2, <1>3 DEF ReceiverTypes

\* What handling a header that is accepted does.
LEMMA Accepted ==
    ASSUME Types, NEW f \in Frames, AcceptHeader(f)
    PROVE  /\ ReceiverTypes' /\ calls' = <<>> /\ f.seq = 0
           /\ \E i \in ReceiveContexts, a \in announced(f) :
                 /\ ~rcv[i].in_use /\ rcv' = [rcv EXCEPT ![i] = begun(f, a[1], a[2])]
                 /\ rcv'[i] = begun(f, a[1], a[2])
                 /\ \A j \in ReceiveContexts : j # i => rcv'[j] = rcv[j]
                 /\ a[1] \in LengthsOr0 /\ a[2] \in Seq(Byte)
<1> DEFINE i == Min(freeContexts)
<1>1. freeContexts \subseteq Nat /\ freeContexts # {} /\ freeContexts \subseteq ReceiveContexts
  BY ContextsAre DEF AcceptHeader, freeContexts
<1>2. i \in freeContexts
  BY <1>1, MinIs
<1>3. i \in ReceiveContexts /\ ~rcv[i].in_use
  BY <1>2 DEF freeContexts
<1>4. PICK a \in announced(f) : rcv' = [rcv EXCEPT ![i] = begun(f, a[1], a[2])]
  BY DEF AcceptHeader
<1> HIDE DEF i
<1>5. a[1] \in LengthsOr0 /\ a[2] \in Seq(Byte)
  <2>1. CASE f.header
    <3>1. a = <<f.length, f.crc>>
      BY <2>1 DEF announced
    <3> QED
      BY <3>1 DEF Frames
  <2>2. CASE ~f.header
    <3>1. a \in Lengths \X {<<>>, <<Garbage>>}
      BY <2>2 DEF announced
    <3>2. <<>> \in Seq(Byte) /\ <<Garbage>> \in Seq(Byte)
      BY DEF Garbage, Byte
    <3> QED
      BY <3>1, <3>2, Parameters
  <2> QED
    BY <2>1, <2>2
<1>6. begun(f, a[1], a[2]) \in ReceiveRecords /\ ToReceive(begun(f, a[1], a[2]))
  BY <1>5, Fresh
<1>7. /\ ReceiverTypes' /\ rcv'[i] = begun(f, a[1], a[2])
      /\ \A j \in ReceiveContexts : j # i => rcv'[j] = rcv[j]
  BY <1>3, <1>4, <1>6, OneReceiveContext DEF Types
<1> QED
  BY <1>3, <1>4, <1>5, <1>7 DEF AcceptHeader

\* What reporting a context does.
LEMMA Reported ==
    ASSUME Types, NEW i \in ReceiveContexts, NEW r, NEW status, report(i, r, status)
    PROVE  /\ ReceiverTypes' /\ calls' = <<Call(status, r)>> /\ rcv'[i] = freed
           /\ rcv' = [rcv EXCEPT ![i] = freed]
           /\ \A j \in ReceiveContexts : j # i => rcv'[j] = rcv[j]
<1>1. rcv' = [rcv EXCEPT ![i] = freed] /\ calls' = <<Call(status, r)>>
  BY DEF report
<1> QED
  BY <1>1, Fresh, OneReceiveContext DEF Types

\* The ways a fragment that is in order can go: its context is reported with
\* what it then holds, or goes on.
LEMMA ConsumedAs ==
    ASSUME Types, NEW f \in Frames, NEW i \in ReceiveContexts, Consume(f, i)
    PROVE  LET r == consumed(f, rcv[i])
           IN  /\ ReceiverTypes' /\ f.seq = rcv[i].expected
               /\ \A j \in ReceiveContexts : j # i => rcv'[j] = rcv[j]
               /\ \/ allReceived(r) /\ report(i, r, statusOf(r))
                  \/ ~allReceived(r) /\ report(i, r, "TRUNCATED")
                  \/ /\ ~allReceived(r) /\ Len(r.buffer) < _receive_buffer_len
                     /\ rcv'[i] = r /\ rcv' = [rcv EXCEPT ![i] = r] /\ calls' = <<>>
<1> DEFINE r == consumed(f, rcv[i])
<1>1. Continues(f, i) /\ f.seq = rcv[i].expected
  BY DEF Consume
<1>2. CASE allReceived(r) /\ report(i, r, statusOf(r))
  BY <1>1, <1>2, Reported
<1>3. CASE /\ ~allReceived(r) /\ Len(r.buffer) >= _receive_buffer_len
           /\ report(i, r, "TRUNCATED")
  BY <1>1, <1>3, Reported
<1>4. CASE /\ ~allReceived(r) /\ Len(r.buffer) < _receive_buffer_len
           /\ rcv' = [rcv EXCEPT ![i] = r] /\ calls' = <<>>
  <2>1. r \in ReceiveRecords /\ ToReceive(r)
    BY <1>1, <1>4, Matched, Consumed
  <2> HIDE DEF r
  <2> QED
    BY <1>1, <1>4, <2>1, OneReceiveContext DEF Types, r
<1> QED
  BY <1>2, <1>3, <1>4 DEF Consume

\* a frame is handled in one of five ways,
LEMMA TypesHandle ==
    ASSUME Types, HandleFragment
    PROVE  /\ Types' /\ UNCHANGED <<snd, context, sent, faults, disturbed>>
           /\ \E f \in Frames :
                 /\ f = rx[1] /\ Handles(f)
                 /\ \/ AcceptHeader(f) \/ DropHeader(f) \/ DropFragment(f)
                    \/ \E i \in ReceiveContexts : WrongSequence(f, i) \/ Consume(f, i)
<1> DEFINE f == Head(rx)
<1>1. /\ Handles(f)
      /\ \/ AcceptHeader(f) \/ DropHeader(f) \/ DropFragment(f)
         \/ \E i \in ReceiveContexts : WrongSequence(f, i) \/ Consume(f, i)
  BY DEF HandleFragment, AcceptHeader, DropHeader, DropFragment, WrongSequence, Consume, Continues
<1> HIDE DEF f
<1>2. /\ f = rx[1] /\ f \in Frames /\ ChannelTypes' /\ UNCHANGED <<snd, context, sent, faults, disturbed>>
  BY <1>1, Handled DEF Types
<1>3. SenderTypes'
  BY <1>2 DEF Types, SenderTypes
<1>4. ReceiverTypes'
  <2>1. CASE AcceptHeader(f)
    BY <1>2, <2>1, Accepted
  <2>2. CASE DropHeader(f) \/ DropFragment(f)
    BY <2>2 DEF DropHeader, DropFragment, Types, ReceiverTypes
  <2>3. ASSUME NEW i \in ReceiveContexts, WrongSequence(f, i)
        PROVE  ReceiverTypes'
    BY <2>3, Reported DEF WrongSequence
  <2>4. ASSUME NEW i \in ReceiveContexts, Consume(f, i)
        PROVE  ReceiverTypes'
    BY <1>2, <2>4, ConsumedAs
  <2> QED
    BY <1>1, <2>1, <2>2, <2>3, <2>4
<1> QED
  BY <1>1, <1>2, <1>3, <1>4 DEF Types

-----------------------------------------------------------------------------
(* Types are kept as time passes and nodes restart.                         *)

\* all contexts that are overdue are freed and reported,
LEMMA TypesTimeOut ==
    ASSUME Types, TimeOut
    PROVE  /\ Types' /\ UNCHANGED <<snd, context, sent, rx, faults, disturbed>>
           /\ timedOut \subseteq ReceiveContexts
           /\ \A i \in ReceiveContexts : rcv'[i] = IF i \in timedOut THEN freed ELSE rcv[i]
           /\ Len(calls') = Cardinality(timedOut) /\ DOMAIN calls' = 1 .. Cardinality(timedOut)
           /\ \A k \in DOMAIN calls' : \E i \in timedOut : calls'[k] = Call("TIMEOUT_ERROR", rcv[i])
           /\ \A i \in timedOut : \E k \in DOMAIN calls' : calls'[k] = Call("TIMEOUT_ERROR", rcv[i])
<1> DEFINE S == timedOut
           n == Cardinality(S)
           o == inOrder(S)
           call(i) == Call("TIMEOUT_ERROR", rcv[i])
<1>1. /\ calls' = [k \in 1 .. n |-> call(o[k])]
      /\ rcv' = [i \in ReceiveContexts |-> IF i \in S THEN freed ELSE rcv[i]]
      /\ UNCHANGED <<snd, context, sent, rx, faults, disturbed>>
  BY DEF TimeOut, sending, channel
<1>2. S \subseteq ReceiveContexts /\ S \subseteq Nat /\ IsFiniteSet(S)
  <2>1. S \subseteq ReceiveContexts
    BY DEF timedOut
  <2> HIDE DEF S
  <2> QED
    BY <2>1, ContextsAre, FS_Subset
<1> HIDE DEF S
<1>3. n \in Nat /\ o \in [1 .. n -> S] /\ \A i \in S : \E k \in 1 .. n : o[k] = i
  BY <1>2, InOrder
<1> HIDE DEF o, n, call
<1>4. \A k \in 1 .. n : o[k] \in S /\ calls'[k] = call(o[k])
  BY <1>1, <1>3
<1>5. Len(calls') = n /\ DOMAIN calls' = 1 .. n
  <2>1. calls' \in [1 .. n -> {call(i) : i \in S}]
    BY <1>1, <1>3
  <2> QED
    BY <1>3, <2>1, FunctionIsSeq
<1>6. ReceiverTypes'
  <2> DEFINE new(i) == IF i \in S THEN freed ELSE rcv[i]
  <2>1. \A i \in ReceiveContexts : new(i) \in ReceiveRecords /\ ToReceive(new(i))
    BY Fresh DEF Types, ReceiverTypes
  <2> HIDE DEF new
  <2>2. rcv' = [i \in ReceiveContexts |-> new(i)]
    BY <1>1 DEF new
  <2>3. rcv' \in [ReceiveContexts -> ReceiveRecords] /\ \A i \in ReceiveContexts : rcv'[i] = new(i)
    BY <2>1, <2>2
  <2> QED
    BY <2>1, <2>3 DEF ReceiverTypes
<1>7. SenderTypes' /\ ChannelTypes'
  BY <1>1 DEF Types, SenderTypes, ChannelTypes
<1> QED
  BY <1>1, <1>2, <1>3, <1>4, <1>5, <1>6, <1>7 DEF Types, S, n, call

\* Contexts grow older.
LEMMA Aged ==
    ASSUME NEW r \in ReceiveRecords, ToReceive(r), NEW age \in 0 .. _receive_timeout
    PROVE  LET a == [r EXCEPT !.age = age]
           IN  /\ a \in ReceiveRecords /\ ToReceive(a) /\ a.in_use = r.in_use /\ a.stream = r.stream
               /\ a.canid = r.canid /\ a.msg = r.msg /\ a.body = r.body /\ a.length = r.length
               /\ a.crc = r.crc /\ a.buffer = r.buffer /\ a.expected = r.expected /\ a.age = age
BY DEF ReceiveRecords, ToReceive

\* (a context that has waited)
LEMMA Waited ==
    ASSUME NEW m \in SendRecords, NEW gap \in 0 .. _msg_delay
    PROVE  LET w == [m EXCEPT !.gap = gap]
           IN  /\ w \in SendRecords /\ w.in_use = m.in_use /\ w.msg = m.msg /\ w.stream = m.stream
               /\ w.len = m.len /\ w.zero = m.zero /\ w.index = m.index /\ w.seq = m.seq
               /\ w.gap = gap
BY DEF SendRecords

older(r) == IF r.in_use /\ r.age < _receive_timeout THEN r.age + 1 ELSE r.age
longer(m) == IF m.gap < _msg_delay THEN m.gap + 1 ELSE m.gap

\* contexts wait up to their limits,
LEMMA TypesTick ==
    ASSUME Types, Tick
    PROVE  /\ Types' /\ UNCHANGED <<context, sent, rx, faults, disturbed>> /\ calls' = <<>>
           /\ \A i \in ReceiveContexts : rcv'[i] = [rcv[i] EXCEPT !.age = older(rcv[i])]
           /\ \A s \in Sender, i \in AllContexts : snd'[s][i] = [snd[s][i] EXCEPT !.gap = longer(snd[s][i])]
           /\ \A i \in ReceiveContexts : older(rcv[i]) \in 0 .. _receive_timeout
           /\ \A s \in Sender, i \in AllContexts : longer(snd[s][i]) \in 0 .. _msg_delay
<1>1. UNCHANGED <<context, sent, rx, faults, disturbed>> /\ calls' = <<>>
  BY DEF Tick, channel
<1>2. \A i \in ReceiveContexts : rcv[i] \in ReceiveRecords /\ ToReceive(rcv[i])
  BY DEF Types, ReceiverTypes
<1>3. \A i \in ReceiveContexts : older(rcv[i]) \in 0 .. _receive_timeout
  BY <1>2, Parameters DEF ReceiveRecords, older
<1>4. rcv' = [i \in ReceiveContexts |-> [rcv[i] EXCEPT !.age = older(rcv[i])]]
  BY DEF Tick, older
<1>5. ReceiverTypes' /\ \A i \in ReceiveContexts : rcv'[i] = [rcv[i] EXCEPT !.age = older(rcv[i])]
  <2> DEFINE new(i) == [rcv[i] EXCEPT !.age = older(rcv[i])]
  <2>1. \A i \in ReceiveContexts : new(i) \in ReceiveRecords /\ ToReceive(new(i))
    BY <1>2, <1>3, Aged
  <2> HIDE DEF new
  <2>2. rcv' = [i \in ReceiveContexts |-> new(i)]
    BY <1>4 DEF new
  <2>3. rcv' \in [ReceiveContexts -> ReceiveRecords] /\ \A i \in ReceiveContexts : rcv'[i] = new(i)
    BY <2>1, <2>2
  <2>4. \A i \in ReceiveContexts : ToReceive(rcv'[i])
    BY <2>1, <2>3
  <2> QED
    BY <2>3, <2>4 DEF ReceiverTypes, new
<1>6. \A s \in Sender, i \in AllContexts : snd[s][i] \in SendRecords
  BY DEF Types, SenderTypes
<1>7. \A s \in Sender, i \in AllContexts : longer(snd[s][i]) \in 0 .. _msg_delay
  BY <1>6, Parameters DEF SendRecords, longer
<1>8. snd' = [s \in Sender |-> [i \in AllContexts |-> [snd[s][i] EXCEPT !.gap = longer(snd[s][i])]]]
  <2>1. \A s \in Sender : DOMAIN snd[s] = AllContexts
    BY DEF Types, SenderTypes
  <2> QED
    BY <2>1 DEF Tick, longer
<1>9. SenderTypes' /\ \A s \in Sender, i \in AllContexts :
                         snd'[s][i] = [snd[s][i] EXCEPT !.gap = longer(snd[s][i])]
  <2> DEFINE new(s, i) == [snd[s][i] EXCEPT !.gap = longer(snd[s][i])]
  <2>1. \A s \in Sender, i \in AllContexts :
           /\ new(s, i) \in SendRecords /\ new(s, i).in_use = snd[s][i].in_use
           /\ new(s, i).index = snd[s][i].index /\ new(s, i).len = snd[s][i].len
    BY <1>6, <1>7, Waited
  <2> HIDE DEF new
  <2>2. snd' = [s \in Sender |-> [i \in AllContexts |-> new(s, i)]]
    BY <1>8 DEF new
  <2>3. /\ snd' \in [Sender -> [AllContexts -> SendRecords]]
        /\ \A s \in Sender, i \in AllContexts : snd'[s][i] = new(s, i)
    BY <2>1, <2>2
  <2>4. \A s \in Sender, i \in SendContexts : ToSend(snd'[s][i])
    BY <2>1, <2>3, ContextsAre DEF Types, SenderTypes, ToSend
  <2> QED
    BY <1>1, <2>3, <2>4 DEF Types, SenderTypes, new
<1>10. ChannelTypes'
  BY <1>1 DEF Types, ChannelTypes
<1> QED
  BY <1>1, <1>3, <1>5, <1>7, <1>9, <1>10 DEF Types

\* a sender forgets its contexts,
LEMMA TypesRestartSender ==
    ASSUME Types, NEW s \in Sender, RestartSender(s)
    PROVE  /\ Types' /\ UNCHANGED <<rx, rcv, sent>> /\ calls' = <<>> /\ faults' = faults + 1
           /\ disturbed' = disturbed \cup ({s} \X Streams)
           /\ \A i \in AllContexts : ~snd'[s][i].in_use
           /\ \A c \in Sender : c # s => snd'[c] = snd[c]
<1>1. /\ UNCHANGED <<rx, rcv, sent>> /\ calls' = <<>> /\ faults < MAX_FAULTS /\ faults' = faults + 1
      /\ disturbed' = disturbed \cup ({s} \X Streams) /\ context' = [context EXCEPT ![s] = 0]
  BY DEF RestartSender, Fault
<1>2. snd \in [Sender -> [AllContexts -> SendRecords]] /\ context \in [Sender -> SendContexts]
  BY DEF Types, SenderTypes
<1>3. PICK gap \in 0 .. _msg_delay : snd' = [snd EXCEPT ![s] = [i \in DOMAIN snd[s] |-> unused(gap)]]
  BY DEF RestartSender
<1> DEFINE new == [i \in AllContexts |-> unused(gap)]
<1>4. new \in [AllContexts -> SendRecords] /\ \A i \in AllContexts : ~new[i].in_use
  BY <1>3, Unused
<1>5. snd' = [snd EXCEPT ![s] = new]
  <2>1. DOMAIN snd[s] = AllContexts
    BY <1>2
  <2> QED
    BY <1>3, <2>1
<1> HIDE DEF new
<1>6. /\ snd' \in [Sender -> [AllContexts -> SendRecords]] /\ snd'[s] = new
      /\ \A c \in Sender : c # s => snd'[c] = snd[c]
  BY <1>2, <1>4, <1>5
<1>7. \A c \in Sender, i \in SendContexts : ToSend(snd'[c][i])
  BY <1>4, <1>6, ContextsAre DEF Types, SenderTypes, ToSend
<1>8. SenderTypes'
  BY <1>1, <1>2, <1>6, <1>7, ContextsAre DEF Types, SenderTypes
<1>9. ChannelTypes'
  BY <1>1, Parameters DEF Types, ChannelTypes
<1>10. ReceiverTypes'
  BY <1>1 DEF Types, ReceiverTypes
<1> QED
  BY <1>1, <1>4, <1>6, <1>8, <1>9, <1>10 DEF Types

\* and so does the receiver.
LEMMA TypesRestartReceiver ==
    ASSUME Types, RestartReceiver
    PROVE  /\ Types' /\ UNCHANGED <<snd, context, sent>> /\ calls' = <<>> /\ faults' = faults + 1
           /\ rx' = <<>> /\ disturbed' = disturbed \cup (Sender \X Streams)
           /\ \A i \in ReceiveContexts : rcv'[i] = freed
<1>1. /\ UNCHANGED <<snd, context, sent>> /\ calls' = <<>> /\ faults < MAX_FAULTS /\ faults' = faults + 1
      /\ rx' = <<>> /\ disturbed' = disturbed \cup (Sender \X Streams)
      /\ rcv' = [i \in ReceiveContexts |-> freed]
  BY DEF RestartReceiver, Fault
<1>2. ReceiverTypes' /\ \A i \in ReceiveContexts : rcv'[i] = freed
  BY <1>1, Fresh DEF ReceiverTypes
<1>3. SenderTypes'
  BY <1>1 DEF Types, SenderTypes
<1>4. ChannelTypes'
  <2>1. <<>> \in Seq(Frames) /\ Len(<<>>) <= RX_SIZE
    BY Parameters
  <2> QED
    BY <1>1, <2>1, Parameters DEF Types, ChannelTypes
<1> QED
  BY <1>1, <1>2, <1>3, <1>4 DEF Types

-----------------------------------------------------------------------------
(* Type correctness.                                                        *)

\* The types hold at the start,
LEMMA TypesInit == Init => Types
<1> SUFFICES ASSUME Init
             PROVE  Types
  OBVIOUS
<1>1. PICK gap \in 0 .. _msg_delay :
        snd = [s \in Sender |-> [i \in AllContexts |-> unused(gap)]]
  BY DEF Init, AllContexts
<1>2. unused(gap) \in SendRecords /\ ToSend(unused(gap))
  BY <1>1, Unused DEF ToSend
<1>3. SenderTypes
  <2>1. snd \in [Sender -> [AllContexts -> SendRecords]]
    BY <1>1, <1>2
  <2>2. \A s \in Sender, i \in SendContexts : ToSend(snd[s][i])
    BY <1>1, <1>2, ContextsAre
  <2>3. context \in [Sender -> SendContexts] /\ sent \in Nat
    BY ContextsAre DEF Init
  <2> QED
    BY <2>1, <2>2, <2>3 DEF SenderTypes
<1>4. ChannelTypes
  <2>1. <<>> \in Seq(Frames) /\ Len(<<>>) <= RX_SIZE
    BY Parameters
  <2> QED
    BY <2>1, Parameters DEF Init, ChannelTypes
<1>5. ReceiverTypes
  <2>1. rcv = [i \in ReceiveContexts |-> freed]
    BY DEF Init
  <2> QED
    BY <2>1, Fresh DEF ReceiverTypes
<1> QED
  BY <1>3, <1>4, <1>5 DEF Types

\* in a step that changes nothing,
LEMMA TypesStutter ==
    ASSUME Types, UNCHANGED vars
    PROVE  Types'
BY DEF Types, SenderTypes, ChannelTypes, ReceiverTypes, vars, sending, channel

\* and after every step.
LEMMA TypesNext ==
    ASSUME Types, [Next]_vars
    PROVE  Types'
<1>1. ASSUME NEW s \in Sender, NEW stream \in Streams, NEW kind \in Messages[s],
             sendMultipartMessage(s, stream, kind[1], kind[2])
      PROVE  Types'
  BY <1>1, TypesSend
<1>2. ASSUME NEW s \in Sender, Process(s)
      PROVE  Types'
  BY <1>2, TypesProcess
<1>3. ASSUME NEW s \in Sender, RestartSender(s)
      PROVE  Types'
  BY <1>3, TypesRestartSender
<1>4. CASE HandleFragment
  BY <1>4, TypesHandle
<1>5. CASE TimeOut
  BY <1>5, TypesTimeOut
<1>6. CASE Tick
  BY <1>6, TypesTick
<1>7. CASE RestartReceiver
  BY <1>7, TypesRestartReceiver
<1>8. CASE UNCHANGED vars
  BY <1>8, TypesStutter
<1> QED
  BY <1>1, <1>2, <1>3, <1>4, <1>5, <1>6, <1>7, <1>8 DEF Next

\* The invariant is inductive: no message, frame, fault or lapse of time leads out of it.
THEOREM Inductive == Spec => []Types
<1>1. Init => Types
  BY TypesInit
<1>2. Types /\ [Next]_vars => Types'
  BY TypesNext
<1> QED
  BY <1>1, <1>2, PTL DEF Spec

\* Every context keeps its type: a send context in use has bytes left to send, a
\* receive context has room left in its buffer, and the context that process() is
\* to visit exists (TypeOK).
THEOREM TypeCorrect == Spec => []TypeOK
<1>1. Types => TypeOK
  <2> SUFFICES ASSUME Types
               PROVE  TypeOK
    OBVIOUS
  <2>1. ASSUME NEW s \in Sender, NEW i \in SendContexts
        PROVE  LET m == snd[s][i]
               IN  /\ m.in_use \in BOOLEAN /\ m.stream \in Streams
                   /\ m.index \in Nat /\ m.seq \in Nat /\ m.gap \in 0 .. _msg_delay
                   /\ m.in_use => m.index < m.len \/ m.len = 0
    <3>1. snd[s][i] \in SendRecords /\ ToSend(snd[s][i])
      BY ContextsAre DEF Types, SenderTypes
    <3> QED
      BY <3>1 DEF SendRecords, ToSend
  <2>2. ASSUME NEW i \in ReceiveContexts
        PROVE  LET r == rcv[i]
               IN  /\ r.in_use \in BOOLEAN /\ r.stream \in Streams /\ r.length \in Lengths \cup {0}
                   /\ r.age \in 0 .. _receive_timeout
                   /\ Len(r.buffer) < _receive_buffer_len
    <3>1. rcv[i] \in ReceiveRecords /\ ToReceive(rcv[i])
      BY DEF Types, ReceiverTypes
    <3> QED
      BY <3>1 DEF ReceiveRecords, ToReceive, LengthsOr0
  <2>3. Len(rx) <= RX_SIZE /\ faults \in 0 .. MAX_FAULTS /\ \A s \in Sender : context[s] \in SendContexts
    BY DEF Types, SenderTypes, ChannelTypes
  <2> QED
    BY <2>1, <2>2, <2>3 DEF TypeOK
<1> QED
  BY <1>1, Inductive, PTL

-----------------------------------------------------------------------------
(* One report for every context that ends.                                  *)

ended == {i \in ReceiveContexts : rcv[i].in_use /\ ~rcv'[i].in_use}

\* The reports of a step are those of the contexts that end.
ReportsEnded ==
    /\ Len(calls') = Cardinality(ended)
    /\ {rcv[i].msg : i \in ended} = {calls'[k].msg : k \in DOMAIN calls'}

\* A step that frees no context and reports nothing,
LEMMA NoneEnds ==
    ASSUME calls' = <<>>, \A i \in ReceiveContexts : rcv[i].in_use => rcv'[i].in_use
    PROVE  ReportsEnded
<1>1. ended = {}
  BY DEF ended
<1>2. Cardinality({}) = 0
  BY FS_EmptySet
<1>3. Len(calls') = 0 /\ DOMAIN calls' = {}
  OBVIOUS
<1> QED
  BY <1>1, <1>2, <1>3 DEF ReportsEnded

\* and one that reports the context it frees, report what ends.
LEMMA OneEnds ==
    ASSUME Types, NEW i \in ReceiveContexts, rcv[i].in_use, NEW r, r.msg = rcv[i].msg,
           NEW status, report(i, r, status)
    PROVE  ReportsEnded
<1>1. /\ calls' = <<Call(status, r)>> /\ rcv'[i] = freed
      /\ \A j \in ReceiveContexts : j # i => rcv'[j] = rcv[j]
  BY Reported
<1>2. ended = {i}
  BY <1>1, Fresh DEF ended
<1>3. Cardinality({i}) = 1
  BY FS_Singleton
<1>4. Len(calls') = 1 /\ DOMAIN calls' = {1} /\ calls'[1].msg = rcv[i].msg
  <2> DEFINE c == Call(status, r)
  <2>1. c.msg = rcv[i].msg
    BY DEF Call
  <2> HIDE DEF c
  <2>2. calls' = <<c>>
    BY <1>1 DEF c
  <2> QED
    BY <2>1, <2>2
<1> QED
  BY <1>2, <1>3, <1>4 DEF ReportsEnded

\* So does every step, several time-outs at once included.
LEMMA ContextsEnd ==
    ASSUME Types, [Next]_vars, faults' = faults, ~UNCHANGED vars
    PROVE  ReportsEnded
<1>1. CASE calls' = <<>> /\ UNCHANGED rcv
  BY <1>1, NoneEnds
<1>2. ASSUME NEW s \in Sender, NEW stream \in Streams, NEW kind \in Messages[s],
             sendMultipartMessage(s, stream, kind[1], kind[2])
      PROVE  ReportsEnded
  BY <1>1, <1>2, TypesSend
<1>3. ASSUME NEW s \in Sender, Process(s)
      PROVE  ReportsEnded
  BY <1>1, <1>3, TypesProcess
<1>4. faults \in Nat
  BY Parameters DEF Types, ChannelTypes
<1>5. ASSUME NEW s \in Sender, RestartSender(s)
      PROVE  ReportsEnded
  BY <1>4, <1>5, TypesRestartSender
<1>6. CASE RestartReceiver
  BY <1>4, <1>6, TypesRestartReceiver
<1>7. CASE HandleFragment
  <2>1. PICK f \in Frames :
           \/ AcceptHeader(f) \/ DropHeader(f) \/ DropFragment(f)
           \/ \E i \in ReceiveContexts : WrongSequence(f, i) \/ Consume(f, i)
    BY <1>7, TypesHandle
  <2>2. CASE AcceptHeader(f)
    <3>1. PICK i \in ReceiveContexts, a \in announced(f) :
             /\ calls' = <<>> /\ ~rcv[i].in_use
             /\ \A j \in ReceiveContexts : j # i => rcv'[j] = rcv[j]
      BY <2>2, Accepted
    <3> QED
      BY <3>1, NoneEnds
  <2>3. CASE DropHeader(f) \/ DropFragment(f)
    BY <1>1, <2>3 DEF DropHeader, DropFragment
  <2>4. ASSUME NEW i \in ReceiveContexts, WrongSequence(f, i)
        PROVE  ReportsEnded
    <3>1. rcv[i].in_use
      BY <2>4, Matched DEF WrongSequence
    <3> QED
      BY <2>4, <3>1, OneEnds DEF WrongSequence
  <2>5. ASSUME NEW i \in ReceiveContexts, Consume(f, i)
        PROVE  ReportsEnded
    <3> DEFINE r == consumed(f, rcv[i])
    <3>1. Continues(f, i)
      BY <2>5 DEF Consume
    <3>2. rcv[i] \in ReceiveRecords /\ ToReceive(rcv[i]) /\ rcv[i].in_use /\ ~f.header
      BY <3>1, Matched
    <3>3. r.msg = rcv[i].msg /\ r.in_use
      BY <3>2, Consumed
    <3>4. /\ \A j \in ReceiveContexts : j # i => rcv'[j] = rcv[j]
          /\ \/ report(i, r, statusOf(r)) \/ report(i, r, "TRUNCATED")
             \/ rcv'[i] = r /\ calls' = <<>>
      BY <2>5, ConsumedAs
    <3> HIDE DEF r
    <3>5. CASE rcv'[i] = r /\ calls' = <<>>
      BY <3>3, <3>4, <3>5, NoneEnds
    <3>6. ASSUME NEW status, report(i, r, status)
          PROVE  ReportsEnded
      BY <3>2, <3>3, <3>6, OneEnds
    <3> QED
      BY <3>4, <3>5, <3>6
  <2> QED
    BY <2>1, <2>2, <2>3, <2>4, <2>5
<1>8. CASE TimeOut
  <2>1. /\ timedOut \subseteq ReceiveContexts
        /\ \A i \in ReceiveContexts : rcv'[i] = IF i \in timedOut THEN freed ELSE rcv[i]
        /\ Len(calls') = Cardinality(timedOut)
        /\ \A k \in DOMAIN calls' : \E i \in timedOut : calls'[k] = Call("TIMEOUT_ERROR", rcv[i])
        /\ \A i \in timedOut : \E k \in DOMAIN calls' : calls'[k] = Call("TIMEOUT_ERROR", rcv[i])
    BY <1>8, TypesTimeOut
  <2>2. ended = timedOut
    <3>1. \A i \in timedOut : rcv[i].in_use
      BY DEF timedOut
    <3> QED
      BY <2>1, <3>1, Fresh DEF ended
  <2>3. \A i : Call("TIMEOUT_ERROR", rcv[i]).msg = rcv[i].msg
    BY DEF Call
  <2>4. {rcv[i].msg : i \in timedOut} = {calls'[k].msg : k \in DOMAIN calls'}
    BY <2>1, <2>3
  <2> QED
    BY <2>1, <2>2, <2>4 DEF ReportsEnded
<1>9. CASE Tick
  <2>1. /\ calls' = <<>>
        /\ \A i \in ReceiveContexts : rcv'[i] = [rcv[i] EXCEPT !.age = older(rcv[i])]
        /\ \A i \in ReceiveContexts : older(rcv[i]) \in 0 .. _receive_timeout
    BY <1>9, TypesTick
  <2>2. \A i \in ReceiveContexts : rcv'[i].in_use = rcv[i].in_use
    <3> SUFFICES ASSUME NEW i \in ReceiveContexts
                 PROVE  rcv'[i].in_use = rcv[i].in_use
      OBVIOUS
    <3> DEFINE r == rcv[i]
               age == older(r)
    <3>1. r \in ReceiveRecords /\ ToReceive(r)
      BY DEF Types, ReceiverTypes
    <3>2. age \in 0 .. _receive_timeout /\ rcv'[i] = [r EXCEPT !.age = age]
      BY <2>1
    <3> HIDE DEF r, age
    <3>3. rcv'[i].in_use = r.in_use
      BY <3>1, <3>2, Aged
    <3> QED
      BY <3>3 DEF r
  <2> QED
    BY <2>1, <2>2, NoneEnds
<1> QED
  BY <1>2, <1>3, <1>5, <1>6, <1>7, <1>8, <1>9 DEF Next

\* A step that is not a fault frees a context exactly when it reports it, once:
\* by its last fragment, an error, or the time-out that runs through the array
\* (EndsOnce).
THEOREM EveryEndIsReported == Spec => EndsOnce
<1>1. Types /\ [Next]_vars =>
        [faults' = faults =>
           LET over == {i \in ReceiveContexts : rcv[i].in_use /\ ~rcv'[i].in_use}
           IN  /\ Len(calls') = Cardinality(over)
               /\ {rcv[i].msg : i \in over} = {calls'[k].msg : k \in DOMAIN calls'}]_vars
  BY ContextsEnd DEF ReportsEnded, ended
<1> QED
  BY <1>1, Inductive, PTL DEF Spec, EndsOnce

-----------------------------------------------------------------------------
(* Where a fragment belongs in its message.                                 *)

\* No message is so long that the sequence number of a fragment wraps.
NoWrap == SEQ_MOD > 1 /\ \A len \in Lengths : len <= (SEQ_MOD - 1) * PAYLOAD

\* The bytes sent before fragment n.
offset(n) == (n - 1) * PAYLOAD

\* The offset of a fragment by its number; as long as there are bytes the number does not wrap.
LEMMA Offsets ==
    /\ offset(1) = 0
    /\ \A n \in Nat : n >= 1 => /\ offset(n) \in Nat /\ offset(n + 1) = offset(n) + PAYLOAD
                                /\ offset(n) = 0 => n = 1
    /\ NoWrap => \A n \in Nat, len \in LengthsOr0 : n >= 1 /\ offset(n) < len => n < SEQ_MOD
<1>1. PAYLOAD \in Nat /\ PAYLOAD >= 1 /\ SEQ_MOD \in Nat
  BY Parameters
<1>2. offset(1) = 0
  BY <1>1 DEF offset
<1>3. ASSUME NEW n \in Nat, n >= 1
      PROVE  /\ offset(n) \in Nat /\ offset(n + 1) = offset(n) + PAYLOAD
             /\ offset(n) = 0 => n = 1
  <2>1. n - 1 \in Nat
    BY <1>3
  <2>2. \A k \in Nat : k * PAYLOAD \in Nat /\ (k + 1) * PAYLOAD = k * PAYLOAD + PAYLOAD
    BY <1>1
  <2>3. \A k \in Nat : k * PAYLOAD = 0 => k = 0
    BY <1>1
  <2>4. n + 1 - 1 = (n - 1) + 1 /\ (n - 1 = 0 => n = 1)
    BY <1>3
  <2> QED
    BY <2>1, <2>2, <2>3, <2>4 DEF offset
<1>4. ASSUME NoWrap, NEW n \in Nat, NEW len \in LengthsOr0, n >= 1, offset(n) < len
      PROVE  n < SEQ_MOD
  <2>1. SEQ_MOD > 1 /\ len <= (SEQ_MOD - 1) * PAYLOAD /\ len \in Nat
    <3>1. SEQ_MOD > 1 /\ (SEQ_MOD - 1) * PAYLOAD >= 0 /\ (SEQ_MOD - 1) * PAYLOAD \in Nat
      BY <1>1, <1>4 DEF NoWrap
    <3>2. len \in Lengths \/ len = 0
      BY DEF LengthsOr0
    <3> QED
      BY <1>4, <3>1, <3>2, Parameters DEF NoWrap
  <2>2. (n - 1) * PAYLOAD < (SEQ_MOD - 1) * PAYLOAD
    <3> DEFINE a == (n - 1) * PAYLOAD
               b == (SEQ_MOD - 1) * PAYLOAD
    <3>1. a \in Int /\ b \in Int /\ a < len /\ len <= b
      BY <1>1, <1>4, <2>1 DEF offset
    <3> HIDE DEF a, b
    <3>2. a < b
      BY <2>1, <3>1
    <3> QED
      BY <3>2 DEF a, b
  <2>3. \A j, k \in Nat : j >= k => j * PAYLOAD >= k * PAYLOAD
    BY <1>1
  <2>4. n - 1 \in Nat /\ SEQ_MOD - 1 \in Nat
    BY <1>1, <1>4, <2>1
  <2>5. ~(n - 1 >= SEQ_MOD - 1)
    <3>1. (n - 1) * PAYLOAD \in Int /\ (SEQ_MOD - 1) * PAYLOAD \in Int
      BY <1>1, <1>4
    <3>2. ~((n - 1) * PAYLOAD >= (SEQ_MOD - 1) * PAYLOAD)
      BY <2>2, <3>1
    <3> QED
      BY <2>3, <2>4, <3>2
  <2> QED
    BY <1>1, <2>4, <2>5
<1> QED
  BY <1>2, <1>3, <1>4

\* The number of the fragment tells where a send context is in its message.
SendRight(m) ==
    m.in_use => m.seq >= 1 /\ m.index = offset(m.seq) /\ (m.index < m.len \/ m.index = 0)

\* A message has no zero byte.
Whole(body) == \A k \in DOMAIN body : body[k] # Pad

\* A fragment holds the bytes of its message that its number stands for.
FrameRight(f) ==
    /\ f.header => f.length = Len(f.body) /\ (f.crc = <<>> \/ f.crc = f.body)
                   /\ (CrcSenders = {} => f.crc = <<>>)
    /\ ~f.header =>
          /\ f.seq >= 1
          /\ Whole(f.body) => \A k \in 1 .. PAYLOAD :
                                 offset(f.seq) + k <= Len(f.body) =>
                                    f.data[k] = f.body[offset(f.seq) + k]

\* The number that a receive context expects tells how much of its message it has.
ReceiveRight(r) ==
    r.in_use =>
       /\ r.canid \in Sender /\ r.length = Len(r.body) /\ (r.crc = <<>> \/ r.crc = r.body)
       /\ CrcSenders = {} => r.crc = <<>>
       /\ r.expected >= 1 /\ Len(r.buffer) = offset(r.expected)

Right ==
    /\ \A s \in Sender, i \in SendContexts : SendRight(snd[s][i])
    /\ \A j \in DOMAIN rx : FrameRight(rx[j])
    /\ \A i \in ReceiveContexts : ReceiveRight(rcv[i])

\* The string that a message without zero byte is copied to is the message.
LEMMA CopiedWhole ==
    ASSUME NEW m \in SendRecords, Whole(message(m))
    PROVE  \A k \in 1 .. m.len : copied(m)[k] = message(m)[k]
<1>1. m.len \in Nat /\ m.zero \in Nat
  BY MessageIs DEF SendRecords
<1>2. \A k \in 1 .. m.len : k # m.zero
  <2> SUFFICES ASSUME NEW k \in 1 .. m.len, k = m.zero
               PROVE  FALSE
    OBVIOUS
  <2>1. message(m)[k] = Pad /\ k \in DOMAIN message(m)
    BY DEF message
  <2> QED
    BY <2>1 DEF Whole
<1>3. ASSUME NEW k \in 1 .. m.len
      PROVE  copied(m)[k] = message(m)[k]
  <2>1. ~(m.zero # 0 /\ k > m.zero)
    BY <1>1, <1>2
  <2>2. copied(m)[k] = IF m.zero # 0 /\ k > m.zero THEN Garbage ELSE message(m)[k]
    BY DEF copied
  <2> QED
    BY <2>1, <2>2
<1> QED
  BY <1>3

\* A header is right,
LEMMA HeaderRight ==
    ASSUME NEW s \in Sender, NEW m \in SendRecords, m.len \in Lengths
    PROVE  FrameRight(Header(s, m))
<1> DEFINE f == Header(s, m)
<1>1. /\ f.header /\ f.length = m.len /\ f.body = message(m)
      /\ f.crc = IF s \in CrcSenders THEN message(m) ELSE <<>>
  BY AHeader
<1>2. Len(message(m)) = m.len
  BY MessageIs
<1> HIDE DEF f
<1> QED
  BY <1>1, <1>2 DEF FrameRight, f

\* a fragment holds the bytes at the offset of its number,
LEMMA FragmentRight ==
    ASSUME NoWrap, NEW s \in Sender, NEW m \in SendRecords, SendRight(m), m.in_use
    PROVE  /\ FrameRight(Fragment(s, m)) /\ Fragment(s, m).seq = m.seq
           /\ m.index + PAYLOAD = offset(m.seq + 1) /\ m.seq \in Nat /\ m.seq >= 1
<1> DEFINE f == Fragment(s, m)
           n == m.seq
<1>1. n \in Nat /\ n >= 1 /\ m.len \in Nat /\ m.len \in LengthsOr0 /\ m.index \in Nat
  BY MessageIs DEF SendRecords, SendRight
<1>2. m.index = offset(n) /\ n < SEQ_MOD
  <2>1. m.index = offset(n) /\ (m.index < m.len \/ m.index = 0)
    BY DEF SendRight
  <2>2. CASE m.index < m.len
    BY <1>1, <2>1, <2>2, Offsets
  <2>3. CASE m.index = 0
    <3>1. n = 1
      BY <1>1, <2>1, <2>3, Offsets
    <3> QED
      BY <2>1, <3>1 DEF NoWrap
  <2> QED
    BY <2>1, <2>2, <2>3
<1>3. /\ ~f.header /\ f.seq = n % SEQ_MOD /\ f.body = message(m)
      /\ \A k \in 1 .. PAYLOAD :
            f.data[k] = IF m.index + k <= m.len THEN copied(m)[m.index + k] ELSE Pad
  BY AFragment
<1>4. n % SEQ_MOD = n
  BY <1>1, <1>2, Parameters
<1>5. m.index + PAYLOAD = offset(n + 1)
  BY <1>1, <1>2, Offsets
<1> HIDE DEF f, n
<1>6. ASSUME Whole(f.body), NEW k \in 1 .. PAYLOAD, offset(f.seq) + k <= Len(f.body)
      PROVE  f.data[k] = f.body[offset(f.seq) + k]
  <2>1. Len(f.body) = m.len /\ offset(f.seq) = m.index
    BY <1>2, <1>3, <1>4, MessageIs
  <2>2. m.index + k <= m.len
    BY <1>6, <2>1
  <2>3. m.index + k \in 1 .. m.len
    BY <1>1, <2>2, Parameters
  <2>4. copied(m)[m.index + k] = message(m)[m.index + k]
    BY <1>3, <1>6, <2>3, CopiedWhole
  <2> QED
    BY <1>3, <2>1, <2>2, <2>4
<1>7. FrameRight(f)
  BY <1>1, <1>3, <1>4, <1>6 DEF FrameRight
<1> QED
  BY <1>1, <1>3, <1>4, <1>5, <1>7 DEF f, n

\* and the context goes on to the next offset.
LEMMA AdvancedRight ==
    ASSUME NEW m \in SendRecords, SendRight(m)
    PROVE  SendRight(afterFragment(m))
<1> DEFINE a == afterFragment(m)
<1>1. m.seq \in Nat /\ m.index \in Nat /\ m.len \in Nat /\ PAYLOAD \in Nat
  BY MessageIs, Parameters DEF SendRecords
<1>2. CASE m.index + PAYLOAD >= m.len
  BY <1>2, Advanced DEF SendRight
<1>3. CASE ~(m.index + PAYLOAD >= m.len)
  <2>1. a.in_use = m.in_use /\ a.len = m.len /\ a.index = m.index + PAYLOAD /\ a.seq = m.seq + 1
    BY <1>3, Advanced
  <2> HIDE DEF a
  <2>2. ASSUME m.in_use
        PROVE  a.seq >= 1 /\ a.index = offset(a.seq) /\ a.index < a.len
    <3>1. m.seq >= 1 /\ m.index = offset(m.seq)
      BY <2>2 DEF SendRight
    <3>2. offset(m.seq + 1) = m.index + PAYLOAD
      BY <1>1, <3>1, Offsets
    <3> QED
      BY <1>1, <1>3, <2>1, <3>1, <3>2
  <2>3. SendRight(a)
    BY <2>1, <2>2 DEF SendRight
  <2> QED
    BY <2>3 DEF a
<1> QED
  BY <1>2, <1>3

\* The frames in the queue after some arrived.
LEMMA ArrivedRight ==
    ASSUME ChannelTypes, ChannelTypes', \A j \in DOMAIN rx : FrameRight(rx[j]),
           NEW f, FrameRight(f), NEW n \in {0, 1, 2}, Arrived(f, n)
    PROVE  \A j \in DOMAIN rx' : FrameRight(rx'[j])
<1>1. /\ Len(rx) \in Nat /\ DOMAIN rx = 1 .. Len(rx) /\ DOMAIN rx' = 1 .. Len(rx')
      /\ Len(rx') = Len(rx) + n
  BY DEF ChannelTypes, Arrived
<1>2. \A j \in DOMAIN rx' : j \in 1 .. Len(rx) \/ j \in Len(rx) + 1 .. Len(rx) + n
  BY <1>1
<1>3. /\ \A j \in 1 .. Len(rx) : rx'[j] = rx[j]
      /\ \A j \in Len(rx) + 1 .. Len(rx) + n : rx'[j] = f
  BY DEF Arrived
<1> QED
  BY <1>1, <1>2, <1>3

-----------------------------------------------------------------------------
(* Every step keeps the fragments right.                                    *)

\* Right is kept by a new message,
LEMMA RightSend ==
    ASSUME Types, Right, NEW s \in Sender, NEW stream \in Streams, NEW kind \in Messages[s],
           sendMultipartMessage(s, stream, kind[1], kind[2])
    PROVE  Right'
<1>1. PICK m \in SendRecords, n \in {0, 1, 2} :
         /\ m.in_use /\ m.stream = stream /\ m.index = 0 /\ m.seq = 1 /\ m.len \in Lengths
         /\ snd' = [snd EXCEPT ![s][freeSend(s)] = m] /\ Arrived(Header(s, m), n)
  BY TypesSend
<1>2. Types' /\ UNCHANGED rcv
  BY TypesSend
<1>3. SendRight(m)
  BY <1>1, Offsets DEF SendRight
<1>4. \A c \in Sender, j \in SendContexts : SendRight(snd'[c][j])
  <2>1. freeSend(s) \in AllContexts /\ snd \in [Sender -> [AllContexts -> SendRecords]]
    BY FreeSendIs DEF Types, SenderTypes
  <2>2. /\ snd'[s][freeSend(s)] = m
        /\ \A c \in Sender, j \in AllContexts : c # s \/ j # freeSend(s) => snd'[c][j] = snd[c][j]
    BY <1>1, <2>1, OneContext
  <2> QED
    BY <1>3, <2>2, ContextsAre DEF Right
<1>5. \A j \in DOMAIN rx' : FrameRight(rx'[j])
  BY <1>1, <1>2, HeaderRight, ArrivedRight DEF Types, Right
<1> QED
  BY <1>2, <1>4, <1>5 DEF Right

\* by the next fragment,
LEMMA RightProcess ==
    ASSUME NoWrap, Types, Right, NEW s \in Sender, Process(s)
    PROVE  Right'
<1> DEFINE i == context[s]
           m == snd[s][i]
<1>1. Types' /\ UNCHANGED rcv /\ i \in SendContexts
  BY TypesProcess
<1>2. CASE UNCHANGED <<snd, rx, faults, disturbed>>
  BY <1>1, <1>2 DEF Right
<1>3. ASSUME NEW n \in {0, 1, 2}, due(m), snd' = [snd EXCEPT ![s][i] = afterFragment(m)],
             Arrived(Fragment(s, m), n)
      PROVE  Right'
  <2>1. m \in SendRecords /\ SendRight(m) /\ m.in_use /\ snd \in [Sender -> [AllContexts -> SendRecords]]
    <3>1. snd \in [Sender -> [AllContexts -> SendRecords]] /\ i \in AllContexts
      BY <1>1, ContextsAre DEF Types, SenderTypes
    <3>2. SendRight(m)
      BY <1>1 DEF Right
    <3> HIDE DEF i
    <3>3. m \in SendRecords
      BY <3>1
    <3> QED
      BY <1>3, <3>1, <3>2, <3>3 DEF due
  <2> HIDE DEF i, m
  <2>2. /\ snd'[s][i] = afterFragment(m)
        /\ \A c \in Sender, j \in AllContexts : c # s \/ j # i => snd'[c][j] = snd[c][j]
    BY <1>1, <1>3, <2>1, ContextsAre, Advanced, OneContext
  <2>3. \A c \in Sender, j \in SendContexts : SendRight(snd'[c][j])
    <3>1. SendRight(afterFragment(m))
      BY <2>1, AdvancedRight
    <3>2. \A c \in Sender, j \in SendContexts : SendRight(snd[c][j]) /\ j \in AllContexts
      BY ContextsAre DEF Right
    <3> QED
      BY <2>2, <3>1, <3>2
  <2>4. \A j \in DOMAIN rx' : FrameRight(rx'[j])
    BY <1>1, <1>3, <2>1, FragmentRight, ArrivedRight DEF Types, Right
  <2> QED
    BY <1>1, <2>3, <2>4 DEF Right
<1> QED
  BY <1>2, <1>3, TypesProcess

\* A header opens a context with its length, CRC and message.
LEMMA BegunRight ==
    ASSUME Types, Right, NEW f \in Frames, FrameRight(f), f.seq = 0, NEW a \in announced(f)
    PROVE  f.header /\ ReceiveRight(begun(f, a[1], a[2]))
<1>1. f.header
  BY DEF FrameRight
<1>2. a = <<f.length, f.crc>>
  BY <1>1 DEF announced
<1>3. f.length \in LengthsOr0 /\ f.crc \in Seq(Byte) /\ f.canid \in Sender
  BY DEF Frames
<1> DEFINE b == begun(f, a[1], a[2])
<1>4. /\ b.in_use /\ b.canid \in Sender /\ b.body = f.body /\ b.length = f.length /\ b.crc = f.crc /\ b.buffer = <<>>
      /\ b.expected = 1
  BY <1>2, <1>3, Fresh
<1> HIDE DEF b
<1>5. Len(b.buffer) = offset(b.expected)
  BY <1>4, Offsets
<1> QED
  BY <1>1, <1>4, <1>5 DEF ReceiveRight, FrameRight, b

\* (a context that consumes a fragment goes on to the next offset)
LEMMA ConsumedRight ==
    ASSUME NEW r \in ReceiveRecords, ToReceive(r), r.in_use, ReceiveRight(r),
           NEW f \in Frames, ~f.header, ~allReceived(consumed(f, r)),
           Len(consumed(f, r).buffer) < _receive_buffer_len
    PROVE  ReceiveRight(consumed(f, r))
<1> DEFINE c == consumed(f, r)
<1>1. /\ c.body = r.body /\ c.length = r.length /\ c.crc = r.crc /\ c.expected = r.expected + 1
      /\ c.canid = r.canid
      /\ Len(c.buffer) = Len(r.buffer) + PAYLOAD /\ c.in_use
  BY Consumed
<1>2. r.expected \in Nat /\ r.expected >= 1 /\ Len(r.buffer) = offset(r.expected)
  BY DEF ReceiveRecords, ReceiveRight
<1> HIDE DEF c
<1>3. Len(c.buffer) = offset(c.expected) /\ c.expected >= 1
  <2>1. offset(r.expected + 1) = offset(r.expected) + PAYLOAD
    BY <1>2, Offsets
  <2>2. c.expected >= 1
    BY <1>1, <1>2
  <2> QED
    BY <1>1, <1>2, <2>1, <2>2
<1> QED
  BY <1>1, <1>3 DEF ReceiveRight, c

\* by handling a frame,
LEMMA RightHandle ==
    ASSUME Types, Right, HandleFragment
    PROVE  Right'
<1>1. PICK f \in Frames :
         /\ f = rx[1] /\ Handles(f)
         /\ \/ AcceptHeader(f) \/ DropHeader(f) \/ DropFragment(f)
            \/ \E i \in ReceiveContexts : WrongSequence(f, i) \/ Consume(f, i)
  BY TypesHandle
<1>2. /\ UNCHANGED snd /\ 1 \in DOMAIN rx
      /\ \A j \in DOMAIN rx' : j + 1 \in DOMAIN rx /\ rx'[j] = rx[j + 1]
  BY <1>1, Handled DEF Types
<1>3. FrameRight(f) /\ \A j \in DOMAIN rx' : FrameRight(rx'[j])
  BY <1>1, <1>2 DEF Right
<1>4. ~freed.in_use
  BY Fresh
<1>5. \A i \in ReceiveContexts : ReceiveRight(rcv'[i])
  <2>1. CASE AcceptHeader(f)
    <3>1. PICK i \in ReceiveContexts, a \in announced(f) :
             /\ rcv'[i] = begun(f, a[1], a[2])
             /\ \A j \in ReceiveContexts : j # i => rcv'[j] = rcv[j]
      BY <2>1, Accepted
    <3>2. ReceiveRight(rcv'[i])
      BY <1>3, <2>1, <3>1, Accepted, BegunRight
    <3> QED
      BY <3>1, <3>2 DEF Right
  <2>2. CASE DropHeader(f) \/ DropFragment(f)
    BY <2>2 DEF DropHeader, DropFragment, Right
  <2>3. ASSUME NEW i \in ReceiveContexts, NEW r, NEW status, report(i, r, status)
        PROVE  \A j \in ReceiveContexts : ReceiveRight(rcv'[j])
    BY <1>4, <2>3, Reported DEF ReceiveRight, Right
  <2>4. ASSUME NEW i \in ReceiveContexts, WrongSequence(f, i)
        PROVE  \A j \in ReceiveContexts : ReceiveRight(rcv'[j])
    BY <2>3, <2>4 DEF WrongSequence
  <2>5. ASSUME NEW i \in ReceiveContexts, Consume(f, i)
        PROVE  \A j \in ReceiveContexts : ReceiveRight(rcv'[j])
    <3> DEFINE r == consumed(f, rcv[i])
    <3>1. /\ \A j \in ReceiveContexts : j # i => rcv'[j] = rcv[j]
          /\ \/ report(i, r, statusOf(r)) \/ report(i, r, "TRUNCATED")
             \/ /\ ~allReceived(r) /\ Len(r.buffer) < _receive_buffer_len /\ rcv'[i] = r
      BY <2>5, ConsumedAs
    <3>2. CASE ~allReceived(r) /\ Len(r.buffer) < _receive_buffer_len /\ rcv'[i] = r
      <4>1. Continues(f, i)
        BY <2>5 DEF Consume
      <4>2. rcv[i] \in ReceiveRecords /\ ToReceive(rcv[i]) /\ rcv[i].in_use /\ ~f.header
        BY <4>1, Matched
      <4>3. ReceiveRight(rcv[i])
        BY DEF Right
      <4>4. ReceiveRight(r)
        BY <3>2, <4>2, <4>3, ConsumedRight
      <4> HIDE DEF r
      <4> QED
        BY <3>1, <3>2, <4>4 DEF Right
    <3> QED
      BY <2>3, <3>1, <3>2
  <2> QED
    BY <1>1, <2>1, <2>2, <2>4, <2>5
<1> QED
  BY <1>2, <1>3, <1>5 DEF Right

\* by time,
LEMMA RightTime ==
    ASSUME Types, Right, TimeOut \/ Tick
    PROVE  Right'
<1>1. ~freed.in_use
  BY Fresh
<1>2. CASE TimeOut
  <2>1. UNCHANGED <<snd, rx>> /\ \A i \in ReceiveContexts : rcv'[i] = freed \/ rcv'[i] = rcv[i]
    BY <1>2, TypesTimeOut
  <2>2. \A i \in ReceiveContexts : ReceiveRight(rcv'[i])
    BY <1>1, <2>1 DEF Right, ReceiveRight
  <2> QED
    BY <2>1, <2>2 DEF Right
<1>3. CASE Tick
  <2>1. UNCHANGED rx
    BY <1>3, TypesTick
  <2>2. ASSUME NEW i \in ReceiveContexts
        PROVE  ReceiveRight(rcv'[i])
    <3>1. rcv[i] \in ReceiveRecords /\ ToReceive(rcv[i]) /\ ReceiveRight(rcv[i])
      BY DEF Types, ReceiverTypes, Right
    <3>2. PICK age \in 0 .. _receive_timeout : rcv'[i] = [rcv[i] EXCEPT !.age = age]
      BY <1>3, TypesTick
    <3>3. LET r == rcv[i] a == rcv'[i]
          IN  /\ a.in_use = r.in_use /\ a.canid = r.canid /\ a.body = r.body /\ a.length = r.length
              /\ a.crc = r.crc /\ a.buffer = r.buffer /\ a.expected = r.expected
      BY <3>1, <3>2, Aged
    <3> QED
      BY <3>1, <3>3 DEF ReceiveRight
  <2>3. ASSUME NEW s \in Sender, NEW i \in SendContexts
        PROVE  SendRight(snd'[s][i])
    <3>1. snd[s][i] \in SendRecords /\ SendRight(snd[s][i]) /\ i \in AllContexts
      BY ContextsAre DEF Types, SenderTypes, Right
    <3>2. PICK gap \in 0 .. _msg_delay : snd'[s][i] = [snd[s][i] EXCEPT !.gap = gap]
      BY <1>3, <3>1, TypesTick
    <3>3. LET m == snd[s][i] w == snd'[s][i]
          IN  w.in_use = m.in_use /\ w.len = m.len /\ w.index = m.index /\ w.seq = m.seq
      BY <3>1, <3>2, Waited
    <3> QED
      BY <3>1, <3>3 DEF SendRight
  <2> QED
    BY <2>1, <2>2, <2>3 DEF Right
<1> QED
  BY <1>2, <1>3

\* and by restarts.
LEMMA RightRestart ==
    ASSUME Types, Right, RestartReceiver \/ \E s \in Sender : RestartSender(s)
    PROVE  Right'
<1>1. CASE RestartReceiver
  <2>1. UNCHANGED snd /\ rx' = <<>> /\ \A i \in ReceiveContexts : ~rcv'[i].in_use
    BY <1>1, TypesRestartReceiver, Fresh
  <2> QED
    BY <2>1 DEF Right, ReceiveRight
<1>2. ASSUME NEW s \in Sender, RestartSender(s)
      PROVE  Right'
  <2>1. /\ UNCHANGED <<rx, rcv>> /\ \A i \in AllContexts : ~snd'[s][i].in_use
        /\ \A c \in Sender : c # s => snd'[c] = snd[c]
    BY <1>2, TypesRestartSender
  <2>2. \A c \in Sender, i \in SendContexts : SendRight(snd'[c][i])
    BY <2>1, ContextsAre DEF Right, SendRight
  <2> QED
    BY <2>1, <2>2 DEF Right
<1> QED
  BY <1>1, <1>2

\* It holds at the start,
LEMMA RightInit == Init => Right
<1> SUFFICES ASSUME Init
             PROVE  Right
  OBVIOUS
<1>1. rx = <<>> /\ rcv = [i \in ReceiveContexts |-> freed] /\ ~freed.in_use
  BY Fresh DEF Init
<1>2. PICK gap \in 0 .. _msg_delay :
        snd = [s \in Sender |-> [i \in SendContexts \cup {Beyond} |-> unused(gap)]]
  BY DEF Init
<1>3. \A s \in Sender, i \in SendContexts : ~snd[s][i].in_use
  BY <1>2, Unused
<1> QED
  BY <1>1, <1>3 DEF Right, SendRight, ReceiveRight

\* and after every step.
LEMMA RightNext ==
    ASSUME NoWrap, Types, Right, [Next]_vars
    PROVE  Right'
<1>1. CASE UNCHANGED vars
  BY <1>1 DEF vars, sending, Right
<1> QED
  BY <1>1, RightSend, RightProcess, RightHandle, RightTime, RightRestart DEF Next

-----------------------------------------------------------------------------
(* A node sends one message of a stream at a time.                          *)

\* Each stream can have a send context of its own.
EnoughContexts == IsFiniteSet(Streams) /\ Cardinality(Streams) <= _num_send_contexts

OneSender ==
    \A s \in Sender, i, j \in SendContexts :
        snd[s][i].in_use /\ snd[s][j].in_use /\ snd[s][i].stream = snd[s][j].stream => i = j

\* A message of a stream that is not being sent finds a context.
LEMMA FreeExists ==
    ASSUME EnoughContexts, Types, OneSender, NEW s \in Sender, NEW stream \in Streams,
           ~alreadySending(s, stream)
    PROVE  freeSend(s) \in SendContexts
<1> SUFFICES ASSUME freeSend(s) \notin SendContexts
             PROVE  FALSE
  OBVIOUS
<1> DEFINE others == Streams \ {stream}
           of == [i \in SendContexts |-> snd[s][i].stream]
<1>1. \A i \in SendContexts : snd[s][i].in_use
  BY FreeSendIs DEF Types
<1>2. \A i \in SendContexts : snd[s][i].stream \in Streams
  <2>1. \A i \in SendContexts : snd[s][i] \in SendRecords
    BY ContextsAre DEF Types, SenderTypes
  <2> QED
    BY <2>1 DEF SendRecords
<1>3. of \in Injection(SendContexts, others)
  BY <1>1, <1>2 DEF alreadySending, OneSender, Injection, IsInjective
<1>4. IsFiniteSet(others) /\ Cardinality(others) = Cardinality(Streams) - 1
  BY FS_RemoveElement DEF EnoughContexts
<1>5. Cardinality(SendContexts) = _num_send_contexts
  <2> DEFINE n == _num_send_contexts
  <2>1. n \in Nat /\ n >= 1 /\ n - 1 \in Int
    BY Parameters
  <2> HIDE DEF n
  <2>2. Cardinality(0 .. n - 1) = n
    BY <2>1, FS_Interval
  <2> QED
    BY <2>2 DEF n, SendContexts
<1> HIDE DEF others, of
<1>6. Cardinality(SendContexts) <= Cardinality(others)
  BY <1>3, <1>4, FS_Injection
<1>7. Cardinality(Streams) \in Nat
  BY FS_CardinalityType DEF EnoughContexts
<1> QED
  BY <1>4, <1>5, <1>6, <1>7, Parameters DEF EnoughContexts

\* A second message of a stream is refused while the first is sent.
LEMMA OneSenderNext ==
    ASSUME Types, OneSender, [Next]_vars
    PROVE  OneSender'
<1>1. CASE UNCHANGED snd
  BY <1>1 DEF OneSender
<1>2. snd \in [Sender -> [AllContexts -> SendRecords]]
  BY DEF Types, SenderTypes
<1>3. ASSUME NEW s \in Sender, NEW stream \in Streams, NEW kind \in Messages[s],
             sendMultipartMessage(s, stream, kind[1], kind[2])
      PROVE  OneSender'
  <2>1. PICK m \in SendRecords : m.stream = stream /\ snd' = [snd EXCEPT ![s][freeSend(s)] = m]
    BY <1>3, TypesSend
  <2>2. ~alreadySending(s, stream)
    BY <1>3, TypesSend
  <2>3. freeSend(s) \in AllContexts
    BY FreeSendIs DEF Types
  <2>4. /\ snd'[s][freeSend(s)] = m
        /\ \A c \in Sender, j \in AllContexts : c # s \/ j # freeSend(s) => snd'[c][j] = snd[c][j]
    BY <1>2, <2>1, <2>3, OneContext
  <2> QED
    BY <2>1, <2>2, <2>4, ContextsAre DEF OneSender, alreadySending
<1>4. ASSUME NEW s \in Sender, Process(s)
      PROVE  OneSender'
  <2> DEFINE i == context[s]
             m == snd[s][i]
             a == afterFragment(m)
  <2>1. i \in SendContexts /\ (UNCHANGED snd \/ (due(m) /\ snd' = [snd EXCEPT ![s][i] = a]))
    BY <1>4, TypesProcess
  <2>2. m \in SendRecords
    <3> HIDE DEF i
    <3> QED
      BY <1>2, <2>1, ContextsAre
  <2>3. CASE due(m) /\ snd' = [snd EXCEPT ![s][i] = a]
    <3>1. m.in_use /\ a \in SendRecords /\ (a.in_use => a.stream = m.stream)
      BY <2>2, <2>3, Advanced DEF due
    <3> HIDE DEF a
    <3>2. \A j \in SendContexts : j # i /\ snd[s][j].in_use => snd[s][j].stream # m.stream
      BY <2>1, <3>1 DEF OneSender
    <3> HIDE DEF i, m
    <3>3. /\ snd'[s][i] = a
          /\ \A c \in Sender, j \in AllContexts : c # s \/ j # i => snd'[c][j] = snd[c][j]
      BY <1>2, <2>1, <2>3, <3>1, ContextsAre, OneContext
    <3> QED
      BY <2>1, <3>1, <3>2, <3>3, ContextsAre DEF OneSender
  <2> QED
    BY <1>1, <2>1, <2>3
<1>5. ASSUME NEW s \in Sender, RestartSender(s)
      PROVE  OneSender'
  <2>1. (\A i \in AllContexts : ~snd'[s][i].in_use) /\ \A c \in Sender : c # s => snd'[c] = snd[c]
    BY <1>5, TypesRestartSender
  <2> QED
    BY <2>1, ContextsAre DEF OneSender
<1>6. CASE Tick
  <2>1. \A s \in Sender, i \in SendContexts :
           snd'[s][i].in_use = snd[s][i].in_use /\ snd'[s][i].stream = snd[s][i].stream
    <3> SUFFICES ASSUME NEW s \in Sender, NEW i \in SendContexts
                 PROVE  snd'[s][i].in_use = snd[s][i].in_use /\ snd'[s][i].stream = snd[s][i].stream
      OBVIOUS
    <3>1. snd[s][i] \in SendRecords /\ i \in AllContexts
      BY <1>2, ContextsAre
    <3>2. PICK gap \in 0 .. _msg_delay : snd'[s][i] = [snd[s][i] EXCEPT !.gap = gap]
      BY <1>6, <3>1, TypesTick
    <3> QED
      BY <3>1, <3>2, Waited
  <2> QED
    BY <2>1 DEF OneSender
<1>7. CASE HandleFragment
  BY <1>1, <1>7, TypesHandle
<1>8. CASE TimeOut
  BY <1>1, <1>8, TypesTimeOut
<1>9. CASE RestartReceiver
  BY <1>1, <1>9, TypesRestartReceiver
<1>10. CASE UNCHANGED vars
  BY <1>1, <1>10 DEF vars, sending
<1> QED
  BY <1>3, <1>4, <1>5, <1>6, <1>7, <1>8, <1>9, <1>10 DEF Next

-----------------------------------------------------------------------------
(* What comes next on a stream: in the queue, or still to be sent.          *)

Keyed(f, s, c) == f.canid = s /\ f.stream = c

NoneKeyed(q, s, c, a, b) == \A j \in a .. b : ~Keyed(q[j], s, c)

\* The next frame of stream c of node s behind place p is one of W; or there is
\* none, and b holds.
NextIs(q, s, c, p, W, b) ==
    \/ \E k \in p + 1 .. Len(q) : NoneKeyed(q, s, c, p + 1, k - 1) /\ Keyed(q[k], s, c) /\ q[k] \in W
    \/ NoneKeyed(q, s, c, p + 1, Len(q)) /\ b

\* The first frame is taken out of the queue.
LEMMA NextShift ==
    ASSUME NEW q, Len(q) \in Nat, Len(q) >= 1, NEW q2, Len(q2) = Len(q) - 1,
           \A j \in 1 .. Len(q) - 1 : q2[j] = q[j + 1],
           NEW s, NEW c, NEW p \in Nat, NEW W, NEW b, NextIs(q, s, c, p + 1, W, b)
    PROVE  NextIs(q2, s, c, p, W, b)
<1> DEFINE n == Len(q)
<1>1. n \in Nat /\ n >= 1 /\ Len(q2) = n - 1 /\ \A j \in 1 .. n - 1 : q2[j] = q[j + 1]
  OBVIOUS
<1>2. ASSUME NEW a \in Nat, a <= n, NoneKeyed(q, s, c, p + 1 + 1, a)
      PROVE  NoneKeyed(q2, s, c, p + 1, a - 1)
  <2> HIDE DEF n
  <2>1. \A j \in p + 1 .. a - 1 : j \in 1 .. n - 1 /\ j + 1 \in p + 1 + 1 .. a
    BY <1>1, <1>2
  <2> QED
    BY <1>1, <1>2, <2>1 DEF NoneKeyed
<1>3. CASE NoneKeyed(q, s, c, p + 1 + 1, n) /\ b
  <2>1. NoneKeyed(q2, s, c, p + 1, n - 1)
    BY <1>1, <1>2, <1>3
  <2> QED
    BY <1>1, <1>3, <2>1 DEF NextIs
<1>4. ASSUME NEW k \in p + 1 + 1 .. n, NoneKeyed(q, s, c, p + 1 + 1, k - 1), Keyed(q[k], s, c), q[k] \in W
      PROVE  NextIs(q2, s, c, p, W, b)
  <2> HIDE DEF n
  <2>1. k - 1 \in Nat /\ k - 1 <= n /\ k - 1 \in p + 1 .. n - 1 /\ k - 1 \in 1 .. n - 1 /\ k - 1 + 1 = k
    BY <1>1, <1>4
  <2>2. NoneKeyed(q2, s, c, p + 1, k - 1 - 1)
    BY <1>2, <1>4, <2>1
  <2>3. q2[k - 1] = q[k]
    BY <1>1, <2>1
  <2> QED
    BY <1>1, <1>4, <2>1, <2>2, <2>3 DEF NextIs
<1> QED
  BY <1>3, <1>4 DEF NextIs

\* The first frame is of another stream.
LEMMA NextSkip ==
    ASSUME NEW q, Len(q) \in Nat, Len(q) >= 1, NEW s, NEW c, ~Keyed(q[1], s, c), NEW W, NEW b,
           NextIs(q, s, c, 0, W, b)
    PROVE  NextIs(q, s, c, 0 + 1, W, b)
<1>1. \A a : NoneKeyed(q, s, c, 0 + 1, a) => NoneKeyed(q, s, c, 0 + 1 + 1, a)
  <2>1. \A a : \A j \in 0 + 1 + 1 .. a : j \in 0 + 1 .. a
    OBVIOUS
  <2> QED
    BY <2>1 DEF NoneKeyed
<1>2. \A k \in 0 + 1 .. Len(q) : k \in 0 + 1 + 1 .. Len(q) \/ k = 1
  OBVIOUS
<1> QED
  BY <1>1, <1>2 DEF NextIs

\* The first frame is of the stream.
LEMMA NextFirst ==
    ASSUME NEW q, Len(q) \in Nat, Len(q) >= 1, NEW s, NEW c, Keyed(q[1], s, c), NEW W, NEW b,
           NextIs(q, s, c, 0, W, b)
    PROVE  q[1] \in W
<1>1. \A a \in Nat : a >= 1 => ~NoneKeyed(q, s, c, 0 + 1, a)
  <2>1. \A a \in Nat : a >= 1 => 1 \in 0 + 1 .. a
    OBVIOUS
  <2> QED
    BY <2>1 DEF NoneKeyed
<1>2. PICK k \in 0 + 1 .. Len(q) : NoneKeyed(q, s, c, 0 + 1, k - 1) /\ q[k] \in W
  BY <1>1 DEF NextIs
<1>3. ~(k - 1 >= 1)
  BY <1>1, <1>2
<1>4. k = 1
  BY <1>2, <1>3
<1> QED
  BY <1>2, <1>4

\* Frames of other streams come in.
LEMMA NextOther ==
    ASSUME NEW q, Len(q) \in Nat, NEW q2, NEW n \in Nat, Len(q2) = Len(q) + n,
           \A j \in 1 .. Len(q) : q2[j] = q[j], NEW s, NEW c,
           \A j \in Len(q) + 1 .. Len(q) + n : ~Keyed(q2[j], s, c),
           NEW p \in Nat, NEW W, NEW b, NEW b2, b => b2, NextIs(q, s, c, p, W, b)
    PROVE  NextIs(q2, s, c, p, W, b2)
<1> DEFINE len == Len(q)
<1>1. len \in Nat /\ \A j \in 1 .. len : q2[j] = q[j]
  OBVIOUS
<1> HIDE DEF len
<1>2. CASE NoneKeyed(q, s, c, p + 1, len) /\ b
  <2>1. \A j \in p + 1 .. len + n : (j \in p + 1 .. len /\ j \in 1 .. len) \/ j \in len + 1 .. len + n
    BY <1>1
  <2>2. \A j \in len + 1 .. len + n : ~Keyed(q2[j], s, c)
    BY DEF len
  <2>3. NoneKeyed(q2, s, c, p + 1, len + n)
    BY <1>1, <1>2, <2>1, <2>2 DEF NoneKeyed
  <2>4. NoneKeyed(q2, s, c, p + 1, Len(q2))
    BY <2>3 DEF len
  <2> QED
    BY <1>2, <2>4 DEF NextIs
<1>3. ASSUME NEW k \in p + 1 .. len, NoneKeyed(q, s, c, p + 1, k - 1), Keyed(q[k], s, c), q[k] \in W
      PROVE  NextIs(q2, s, c, p, W, b2)
  <2>1. k \in 1 .. len /\ \A j \in p + 1 .. k - 1 : j \in 1 .. len
    BY <1>1, <1>3
  <2>2. NoneKeyed(q2, s, c, p + 1, k - 1) /\ q2[k] = q[k]
    BY <1>1, <1>3, <2>1 DEF NoneKeyed
  <2>3. k \in p + 1 .. Len(q2)
    <3>1. Len(q2) = len + n
      BY DEF len
    <3> QED
      BY <1>1, <1>3, <3>1
  <2> QED
    BY <1>3, <2>2, <2>3 DEF NextIs
<1> QED
  BY <1>2, <1>3 DEF NextIs, len

\* A frame of the stream comes in, one of W unless the queue held one.
LEMMA NextSame ==
    ASSUME NEW q, Len(q) \in Nat, NEW q2, Len(q2) = Len(q) + 1,
           \A j \in 1 .. Len(q) : q2[j] = q[j], NEW s, NEW c, Keyed(q2[Len(q) + 1], s, c),
           NEW p \in Nat, p <= Len(q), NEW W, NEW b, b => q2[Len(q) + 1] \in W, NEW b2,
           NextIs(q, s, c, p, W, b)
    PROVE  NextIs(q2, s, c, p, W, b2)
<1> DEFINE len == Len(q)
<1>1. len \in Nat /\ (\A j \in 1 .. len : q2[j] = q[j]) /\ Len(q2) = len + 1 /\ p <= len
  OBVIOUS
<1>2. Keyed(q2[len + 1], s, c) /\ (b => q2[len + 1] \in W)
  OBVIOUS
<1> HIDE DEF len
<1>3. CASE NoneKeyed(q, s, c, p + 1, len) /\ b
  <2>1. \A j \in p + 1 .. len : j \in 1 .. len
    BY <1>1
  <2>2. NoneKeyed(q2, s, c, p + 1, len)
    BY <1>1, <1>3, <2>1 DEF NoneKeyed
  <2>3. len + 1 \in p + 1 .. len + 1 /\ len + 1 - 1 = len
    BY <1>1
  <2> QED
    BY <1>1, <1>2, <1>3, <2>2, <2>3 DEF NextIs
<1>4. ASSUME NEW k \in p + 1 .. len, NoneKeyed(q, s, c, p + 1, k - 1), Keyed(q[k], s, c), q[k] \in W
      PROVE  NextIs(q2, s, c, p, W, b2)
  <2>1. k \in 1 .. len /\ k \in p + 1 .. len + 1 /\ \A j \in p + 1 .. k - 1 : j \in 1 .. len
    BY <1>1, <1>4
  <2>2. NoneKeyed(q2, s, c, p + 1, k - 1) /\ q2[k] = q[k]
    BY <1>1, <1>4, <2>1 DEF NoneKeyed
  <2> QED
    BY <1>1, <1>4, <2>1, <2>2 DEF NextIs
<1> QED
  BY <1>3, <1>4 DEF NextIs, len

-----------------------------------------------------------------------------
(* The frames of a stream no fault has hit, in the queue and to come.       *)

\* One of the send contexts S is about to send fragment seq of a message.
Sends(S, c, body, seq) ==
    \E i \in SendContexts : S[i].in_use /\ S[i].stream = c /\ message(S[i]) = body /\ S[i].seq = seq

Idle(S, c) == \A i \in SendContexts : S[i].in_use => S[i].stream # c

Fragments(body, seq) == {f \in Frames : ~f.header /\ f.body = body /\ f.seq = seq}

Headers == {f \in Frames : f.header}

\* The last fragment of its message.
Final(f) == ~f.header /\ offset(f.seq + 1) >= Len(f.body)

Continued(q, S, s, c, p, body, seq) == NextIs(q, s, c, p, Fragments(body, seq), Sends(S, c, body, seq))

Ended(q, S, s, c, p) == NextIs(q, s, c, p, Headers, Idle(S, c))

\* Every frame is followed by the next fragment of its message, the last one by a
\* header.
ChainOf(q, S, s, c) ==
    \A j \in DOMAIN q : Keyed(q[j], s, c) =>
        IF Final(q[j]) THEN Ended(q, S, s, c, j) ELSE Continued(q, S, s, c, j, q[j].body, q[j].seq + 1)

\* A receive context of the stream.
Holds(r, s, c) == r.in_use /\ r.canid = s /\ r.stream = c

\* The next frame is the fragment that the receive context waits for.
Awaited(q, S, s, c, r) == Continued(q, S, s, c, 0, r.body, r.expected)

\* Both for one stream, which has one receive context at most.
InOrderOn(q, S, R, s, c) ==
    /\ ChainOf(q, S, s, c)
    /\ \A i \in ReceiveContexts : Holds(R[i], s, c) => Awaited(q, S, s, c, R[i])
    /\ \A i, j \in ReceiveContexts : Holds(R[i], s, c) /\ Holds(R[j], s, c) => i = j

Ordered ==
    \A s \in Sender, c \in Streams :
        <<s, c>> \notin disturbed => InOrderOn(rx, snd[s], rcv, s, c)

\* The send contexts S2 have of stream c what S has.
AlikeSend(S, S2, c) ==
    /\ \A body, seq : Sends(S, c, body, seq) => Sends(S2, c, body, seq)
    /\ Idle(S, c) => Idle(S2, c)

\* Frames of other streams come in, and nothing is sent of this one.
LEMMA ChainOther ==
    ASSUME NEW q \in Seq(Frames), NEW q2 \in Seq(Frames), NEW n \in Nat, Len(q2) = Len(q) + n,
           \A j \in 1 .. Len(q) : q2[j] = q[j], NEW s, NEW c,
           \A j \in Len(q) + 1 .. Len(q) + n : ~Keyed(q2[j], s, c),
           NEW S, NEW S2, AlikeSend(S, S2, c)
    PROVE  /\ ChainOf(q, S, s, c) => ChainOf(q2, S2, s, c)
           /\ \A p \in Nat : \A body, seq :
                 Continued(q, S, s, c, p, body, seq) => Continued(q2, S2, s, c, p, body, seq)
<1>1. Len(q) \in Nat /\ DOMAIN q = 1 .. Len(q) /\ DOMAIN q2 = 1 .. Len(q) + n
  OBVIOUS
<1>2. ASSUME NEW p \in Nat, NEW W, NEW b, NEW b2, b => b2, NextIs(q, s, c, p, W, b)
      PROVE  NextIs(q2, s, c, p, W, b2)
  BY <1>1, <1>2, NextOther
<1>3. ASSUME NEW p \in Nat, NEW body, NEW seq, Continued(q, S, s, c, p, body, seq)
      PROVE  Continued(q2, S2, s, c, p, body, seq)
  <2>1. Sends(S, c, body, seq) => Sends(S2, c, body, seq)
    BY DEF AlikeSend
  <2> QED
    BY <1>2, <1>3, <2>1 DEF Continued
<1>4. ASSUME NEW p \in Nat, Ended(q, S, s, c, p)
      PROVE  Ended(q2, S2, s, c, p)
  <2>1. Idle(S, c) => Idle(S2, c)
    BY DEF AlikeSend
  <2> QED
    BY <1>2, <1>4, <2>1 DEF Ended
<1>5. ASSUME ChainOf(q, S, s, c)
      PROVE  ChainOf(q2, S2, s, c)
  <2> SUFFICES ASSUME NEW j \in DOMAIN q2, Keyed(q2[j], s, c)
               PROVE  IF Final(q2[j]) THEN Ended(q2, S2, s, c, j)
                      ELSE Continued(q2, S2, s, c, j, q2[j].body, q2[j].seq + 1)
    BY DEF ChainOf
  <2>1. j \in 1 .. Len(q) \/ j \in Len(q) + 1 .. Len(q) + n
    BY <1>1
  <2>2. j \in DOMAIN q /\ q2[j] = q[j] /\ j \in Nat
    BY <1>1, <2>1
  <2>3. IF Final(q[j]) THEN Ended(q, S, s, c, j) ELSE Continued(q, S, s, c, j, q[j].body, q[j].seq + 1)
    BY <1>5, <2>2 DEF ChainOf
  <2> QED
    BY <1>3, <1>4, <2>2, <2>3
<1> QED
  BY <1>3, <1>5

\* The first frame is taken out of the queue.
LEMMA ChainShift ==
    ASSUME NEW q \in Seq(Frames), NEW q2 \in Seq(Frames), Len(q) >= 1, Len(q2) = Len(q) - 1,
           \A j \in 1 .. Len(q) - 1 : q2[j] = q[j + 1], NEW s, NEW c, NEW S
    PROVE  /\ ChainOf(q, S, s, c) => ChainOf(q2, S, s, c)
           /\ \A body, seq : Continued(q, S, s, c, 1, body, seq) => Continued(q2, S, s, c, 0, body, seq)
           /\ ~Keyed(q[1], s, c) => \A body, seq :
                 Continued(q, S, s, c, 0, body, seq) => Continued(q2, S, s, c, 0, body, seq)
<1>1. Len(q) \in Nat /\ DOMAIN q = 1 .. Len(q) /\ DOMAIN q2 = 1 .. Len(q) - 1
  OBVIOUS
<1>2. ASSUME NEW p \in Nat, NEW W, NEW b, NextIs(q, s, c, p + 1, W, b)
      PROVE  NextIs(q2, s, c, p, W, b)
  BY <1>1, <1>2, NextShift
<1>3. ASSUME NEW body, NEW seq, Continued(q, S, s, c, 1, body, seq)
      PROVE  Continued(q2, S, s, c, 0, body, seq)
  <2>1. NextIs(q, s, c, 0 + 1, Fragments(body, seq), Sends(S, c, body, seq))
    BY <1>3 DEF Continued
  <2> QED
    BY <1>2, <2>1 DEF Continued
<1>4. ASSUME ~Keyed(q[1], s, c), NEW body, NEW seq, Continued(q, S, s, c, 0, body, seq)
      PROVE  Continued(q2, S, s, c, 0, body, seq)
  <2>1. NextIs(q, s, c, 0 + 1, Fragments(body, seq), Sends(S, c, body, seq))
    BY <1>1, <1>4, NextSkip DEF Continued
  <2> QED
    BY <1>2, <2>1 DEF Continued
<1>5. ASSUME ChainOf(q, S, s, c)
      PROVE  ChainOf(q2, S, s, c)
  <2> SUFFICES ASSUME NEW j \in DOMAIN q2, Keyed(q2[j], s, c)
               PROVE  IF Final(q2[j]) THEN Ended(q2, S, s, c, j)
                      ELSE Continued(q2, S, s, c, j, q2[j].body, q2[j].seq + 1)
    BY DEF ChainOf
  <2>1. j + 1 \in DOMAIN q /\ q2[j] = q[j + 1] /\ j \in Nat
    BY <1>1
  <2>2. IF Final(q2[j]) THEN Ended(q, S, s, c, j + 1)
        ELSE Continued(q, S, s, c, j + 1, q2[j].body, q2[j].seq + 1)
    BY <1>5, <2>1 DEF ChainOf
  <2> QED
    BY <1>2, <2>1, <2>2 DEF Ended, Continued
<1> QED
  BY <1>3, <1>4, <1>5

\* A frame of the stream comes in: a header if no message is being sent, or the
\* next fragment of the one that is.
LEMMA ChainSame ==
    ASSUME NEW q \in Seq(Frames), NEW q2 \in Seq(Frames), Len(q2) = Len(q) + 1,
           \A j \in 1 .. Len(q) : q2[j] = q[j], NEW s, NEW c, NEW f \in Frames, f = q2[Len(q) + 1],
           Keyed(f, s, c), NEW S, NEW S2,
           Idle(S, c) => f \in Headers,
           \A body, seq : Sends(S, c, body, seq) => f \in Fragments(body, seq),
           Final(f) => Idle(S2, c),
           ~Final(f) => Sends(S2, c, f.body, f.seq + 1)
    PROVE  /\ ChainOf(q, S, s, c) => ChainOf(q2, S2, s, c)
           /\ \A body, seq :
                 Continued(q, S, s, c, 0, body, seq) => Continued(q2, S2, s, c, 0, body, seq)
<1>1. Len(q) \in Nat /\ DOMAIN q = 1 .. Len(q) /\ DOMAIN q2 = 1 .. Len(q) + 1
  OBVIOUS
<1>2. ASSUME NEW p \in Nat, p <= Len(q), NEW W, NEW b, b => f \in W, NEW b2, NextIs(q, s, c, p, W, b)
      PROVE  NextIs(q2, s, c, p, W, b2)
  BY <1>1, <1>2, NextSame
<1>3. ASSUME NEW p \in Nat, p <= Len(q), NEW body, NEW seq, Continued(q, S, s, c, p, body, seq)
      PROVE  Continued(q2, S2, s, c, p, body, seq)
  BY <1>2, <1>3 DEF Continued
<1>4. ASSUME NEW p \in Nat, p <= Len(q), Ended(q, S, s, c, p)
      PROVE  Ended(q2, S2, s, c, p)
  BY <1>2, <1>4 DEF Ended
<1>5. ASSUME ChainOf(q, S, s, c)
      PROVE  ChainOf(q2, S2, s, c)
  <2> SUFFICES ASSUME NEW j \in DOMAIN q2, Keyed(q2[j], s, c)
               PROVE  IF Final(q2[j]) THEN Ended(q2, S2, s, c, j)
                      ELSE Continued(q2, S2, s, c, j, q2[j].body, q2[j].seq + 1)
    BY DEF ChainOf
  <2>1. j \in 1 .. Len(q) \/ j = Len(q) + 1
    BY <1>1
  <2>2. CASE j \in 1 .. Len(q)
    <3>1. j \in DOMAIN q /\ q2[j] = q[j] /\ j \in Nat /\ j <= Len(q)
      BY <1>1, <2>2
    <3>2. IF Final(q[j]) THEN Ended(q, S, s, c, j)
          ELSE Continued(q, S, s, c, j, q[j].body, q[j].seq + 1)
      BY <1>5, <3>1 DEF ChainOf
    <3> QED
      BY <1>3, <1>4, <3>1, <3>2
  <2>3. CASE j = Len(q) + 1
    <3>1. q2[j] = f
      BY <2>3
    <3>2. NoneKeyed(q2, s, c, j + 1, Len(q2))
      <4>1. \A k \in j + 1 .. Len(q2) : FALSE
        BY <1>1, <2>3
      <4> QED
        BY <4>1 DEF NoneKeyed
    <3> QED
      BY <3>1, <3>2 DEF Ended, Continued, NextIs
  <2> QED
    BY <2>1, <2>2, <2>3
<1> QED
  BY <1>1, <1>3, <1>5

-----------------------------------------------------------------------------
(* Every step keeps the frames in order.                                    *)

\* A send context of another stream is changed.
LEMMA AlikeChanged ==
    ASSUME NEW S, NEW S2, NEW i, NEW c, \A j \in SendContexts : j # i => S2[j] = S[j],
           S[i].in_use => S[i].stream # c, S2[i].in_use => S2[i].stream # c
    PROVE  AlikeSend(S, S2, c)
BY DEF AlikeSend, Sends, Idle

\* A stream on which a sender does nothing stays as it is.
LEMMA AlikeSame ==
    ASSUME NEW S, NEW c
    PROVE  AlikeSend(S, S, c)
BY DEF AlikeSend

\* The receive contexts are as before, or freed.
LEMMA InOrderOther ==
    ASSUME NEW q \in Seq(Frames), NEW q2 \in Seq(Frames), NEW n \in Nat, Len(q2) = Len(q) + n,
           \A j \in 1 .. Len(q) : q2[j] = q[j], NEW s, NEW c,
           \A j \in Len(q) + 1 .. Len(q) + n : ~Keyed(q2[j], s, c),
           NEW S, NEW S2, AlikeSend(S, S2, c), NEW R, NEW R2,
           \A i \in ReceiveContexts : Holds(R2[i], s, c) =>
              Holds(R[i], s, c) /\ R2[i].body = R[i].body /\ R2[i].expected = R[i].expected,
           InOrderOn(q, S, R, s, c)
    PROVE  InOrderOn(q2, S2, R2, s, c)
<1>1. ChainOf(q2, S2, s, c)
  BY ChainOther DEF InOrderOn
<1>2. ASSUME NEW i \in ReceiveContexts, Holds(R2[i], s, c)
      PROVE  Awaited(q2, S2, s, c, R2[i])
  <2>1. Continued(q, S, s, c, 0, R[i].body, R[i].expected)
    BY <1>2 DEF InOrderOn, Awaited
  <2>2. Continued(q2, S2, s, c, 0, R[i].body, R[i].expected)
    BY <2>1, ChainOther
  <2> QED
    BY <1>2, <2>2 DEF Awaited
<1>3. \A i, j \in ReceiveContexts : Holds(R2[i], s, c) /\ Holds(R2[j], s, c) => i = j
  BY DEF InOrderOn
<1> QED
  BY <1>1, <1>2, <1>3 DEF InOrderOn

\* The next frame of a stream put behind its others keeps them in order.
LEMMA InOrderSame ==
    ASSUME NEW q \in Seq(Frames), NEW q2 \in Seq(Frames), Len(q2) = Len(q) + 1,
           \A j \in 1 .. Len(q) : q2[j] = q[j], NEW s, NEW c, NEW f \in Frames, f = q2[Len(q) + 1],
           Keyed(f, s, c), NEW S, NEW S2,
           Idle(S, c) => f \in Headers,
           \A body, seq : Sends(S, c, body, seq) => f \in Fragments(body, seq),
           Final(f) => Idle(S2, c),
           ~Final(f) => Sends(S2, c, f.body, f.seq + 1),
           NEW R, InOrderOn(q, S, R, s, c)
    PROVE  InOrderOn(q2, S2, R, s, c)
<1>1. /\ ChainOf(q, S, s, c) => ChainOf(q2, S2, s, c)
      /\ \A body, seq : Continued(q, S, s, c, 0, body, seq) => Continued(q2, S2, s, c, 0, body, seq)
  BY ChainSame
<1> QED
  BY <1>1 DEF InOrderOn, Awaited

\* Ordered is kept by a new message, whose header follows the last fragment of the one before,
LEMMA OrderedSend ==
    ASSUME EnoughContexts, Types, OneSender, Ordered, NEW s \in Sender, NEW stream \in Streams,
           NEW kind \in Messages[s], sendMultipartMessage(s, stream, kind[1], kind[2])
    PROVE  Ordered'
<1>1. PICK m \in SendRecords, n \in {0, 1, 2} :
         /\ m.in_use /\ m.stream = stream /\ m.index = 0 /\ m.seq = 1 /\ m.len \in Lengths
         /\ snd' = [snd EXCEPT ![s][freeSend(s)] = m] /\ Arrived(Header(s, m), n)
  BY TypesSend
<1>2. Types' /\ UNCHANGED rcv /\ ~alreadySending(s, stream)
  BY TypesSend
<1> DEFINE f == Header(s, m)
           i == freeSend(s)
<1>3. i \in SendContexts /\ i \in AllContexts /\ ~snd[s][i].in_use
  BY <1>2, FreeExists, FreeSendIs, ContextsAre DEF Types
<1>4. f \in Frames /\ f.header /\ f.canid = s /\ f.stream = stream /\ f.seq = 0 /\ f.body = message(m)
  BY <1>1, AHeader
<1>5. /\ snd'[s][i] = m
      /\ \A c \in Sender, j \in AllContexts : c # s \/ j # i => snd'[c][j] = snd[c][j]
      /\ \A c \in Sender : c # s => snd'[c] = snd[c]
  BY <1>1, <1>3, OneContext DEF Types, SenderTypes
<1>6. /\ rx \in Seq(Frames) /\ rx' \in Seq(Frames) /\ Len(rx') = Len(rx) + n
      /\ \A j \in 1 .. Len(rx) : rx'[j] = rx[j]
      /\ \A j \in Len(rx) + 1 .. Len(rx) + n : rx'[j] = f
      /\ n = 1 => disturbed' = disturbed
      /\ n # 1 => disturbed' = disturbed \cup {<<s, stream>>}
  BY <1>1, <1>2, <1>4 DEF Arrived, Types, ChannelTypes
<1> HIDE DEF f, i
<1> SUFFICES ASSUME NEW t \in Sender, NEW c \in Streams, <<t, c>> \notin disturbed'
             PROVE  InOrderOn(rx', snd'[t], rcv', t, c)
  BY DEF Ordered
<1>7. InOrderOn(rx, snd[t], rcv, t, c)
  BY <1>6 DEF Ordered
<1>8. CASE t # s \/ c # stream
  <2>1. AlikeSend(snd[t], snd'[t], c)
    <3>1. CASE t # s
      BY <1>5, <3>1, AlikeSame
    <3>2. CASE t = s /\ c # stream
      <4>1. \A j \in SendContexts : j # i => snd'[s][j] = snd[s][j]
        BY <1>5, ContextsAre
      <4>2. snd'[s][i].in_use => snd'[s][i].stream # c
        BY <1>1, <1>5, <3>2
      <4>3. snd[s][i].in_use => snd[s][i].stream # c
        BY <1>3
      <4> QED
        BY <3>2, <4>1, <4>2, <4>3, AlikeChanged
    <3> QED
      BY <1>8, <3>1, <3>2
  <2>2. \A j \in Len(rx) + 1 .. Len(rx) + n : ~Keyed(rx'[j], t, c)
    BY <1>4, <1>6, <1>8 DEF Keyed
  <2>3. n \in Nat
    OBVIOUS
  <2> QED
    BY <1>2, <1>6, <1>7, <2>1, <2>2, <2>3, InOrderOther
<1>9. CASE t = s /\ c = stream
  <2>1. n = 1
    BY <1>6, <1>9
  <2>2. Idle(snd[s], c) /\ \A body, seq : ~Sends(snd[s], c, body, seq)
    BY <1>2, <1>9 DEF Idle, Sends, alreadySending
  <2>3. f \in Headers /\ ~Final(f) /\ Keyed(f, s, c)
    BY <1>4, <1>9 DEF Headers, Final, Keyed
  <2>4. Sends(snd'[s], c, f.body, f.seq + 1)
    BY <1>1, <1>3, <1>4, <1>5, <1>9 DEF Sends
  <2>5. f = rx'[Len(rx) + 1] /\ Len(rx') = Len(rx) + 1
    <3>1. Len(rx) + 1 \in Len(rx) + 1 .. Len(rx) + 1
      BY <1>6
    <3> QED
      BY <1>6, <2>1, <3>1
  <2>6. InOrderOn(rx, snd[s], rcv, s, c)
    BY <1>7, <1>9
  <2>7. rx \in Seq(Frames) /\ rx' \in Seq(Frames) /\ \A j \in 1 .. Len(rx) : rx'[j] = rx[j]
    BY <1>6
  <2>8. f \in Frames
    BY <1>4
  <2>9. InOrderOn(rx', snd'[s], rcv, s, c)
    BY <2>2, <2>3, <2>4, <2>5, <2>6, <2>7, <2>8, InOrderSame
  <2> QED
    BY <1>2, <1>9, <2>9
<1> QED
  BY <1>8, <1>9

\* by the next fragment,
LEMMA OrderedProcess ==
    ASSUME NoWrap, Types, Right, OneSender, Ordered, NEW s \in Sender, Process(s)
    PROVE  Ordered'
<1> DEFINE i == context[s]
           m == snd[s][i]
           a == afterFragment(m)
           f == Fragment(s, m)
<1>1. Types' /\ UNCHANGED rcv /\ i \in SendContexts
  BY TypesProcess
<1>2. CASE UNCHANGED <<snd, rx, faults, disturbed>>
  BY <1>1, <1>2 DEF Ordered
<1>3. ASSUME NEW n \in {0, 1, 2}, due(m), snd' = [snd EXCEPT ![s][i] = a], Arrived(f, n)
      PROVE  Ordered'
  <2>1. snd \in [Sender -> [AllContexts -> SendRecords]] /\ i \in AllContexts
    BY <1>1, ContextsAre DEF Types, SenderTypes
  <2>2. SendRight(m) /\ \A j \in SendContexts : j # i /\ snd[s][j].in_use => snd[s][j].stream # m.stream
    BY <1>1, <1>3 DEF Right, OneSender, due
  <2>3. m \in SendRecords /\ m.in_use
    <3> HIDE DEF i
    <3> QED
      BY <1>3, <2>1 DEF due
  <2>4. /\ snd'[s][i] = a
        /\ \A c \in Sender, j \in AllContexts : c # s \/ j # i => snd'[c][j] = snd[c][j]
        /\ \A c \in Sender : c # s => snd'[c] = snd[c]
    <3> HIDE DEF i, m
    <3>1. a \in SendRecords
      BY <2>3, Advanced
    <3> HIDE DEF a
    <3> QED
      BY <1>3, <2>1, <3>1, OneContext
  <2>5. i \in SendContexts /\ snd[s][i] = m
    BY <1>1
  <2> HIDE DEF i, m
  <2>6. /\ f \in Frames /\ ~f.header /\ f.canid = s /\ f.stream = m.stream /\ f.seq = m.seq
        /\ f.body = message(m) /\ Len(f.body) = m.len /\ m.index + PAYLOAD = offset(f.seq + 1)
    BY <2>2, <2>3, AFragment, FragmentRight, MessageIs
  <2>7. IF Final(f) THEN ~a.in_use
        ELSE a.in_use /\ a.stream = m.stream /\ message(a) = message(m) /\ a.seq = m.seq + 1
    <3>1. Final(f) <=> m.index + PAYLOAD >= m.len
      BY <2>6 DEF Final
    <3>2. CASE Final(f)
      BY <2>3, <3>1, <3>2, Advanced
    <3>3. CASE ~Final(f)
      <4>1. /\ a.in_use /\ a.msg = m.msg /\ a.stream = m.stream /\ a.len = m.len
            /\ a.zero = m.zero /\ a.seq = m.seq + 1
        BY <2>3, <3>1, <3>3, Advanced
      <4>2. message(a) = message(m)
        BY <4>1 DEF message
      <4> QED
        BY <3>3, <4>1, <4>2
    <3> QED
      BY <3>2, <3>3
  <2>8. /\ rx \in Seq(Frames) /\ rx' \in Seq(Frames) /\ Len(rx') = Len(rx) + n
        /\ \A j \in 1 .. Len(rx) : rx'[j] = rx[j]
        /\ \A j \in Len(rx) + 1 .. Len(rx) + n : rx'[j] = f
        /\ n = 1 => disturbed' = disturbed
        /\ n # 1 => disturbed' = disturbed \cup {<<s, m.stream>>}
    BY <1>1, <1>3, <2>6 DEF Arrived, Types, ChannelTypes
  <2> HIDE DEF a, f
  <2> SUFFICES ASSUME NEW t \in Sender, NEW c \in Streams, <<t, c>> \notin disturbed'
               PROVE  InOrderOn(rx', snd'[t], rcv', t, c)
    BY DEF Ordered
  <2>9. InOrderOn(rx, snd[t], rcv, t, c)
    BY <2>8 DEF Ordered
  <2>10. \A j \in SendContexts : j # i => snd'[s][j] = snd[s][j]
    BY <2>4, ContextsAre
  <2>11. CASE t # s \/ c # m.stream
    <3>1. AlikeSend(snd[t], snd'[t], c)
      <4>1. CASE t # s
        BY <2>4, <4>1, AlikeSame
      <4>2. CASE t = s /\ c # m.stream
        <5>1. snd'[s][i].in_use => snd'[s][i].stream # c
          BY <2>4, <2>7, <4>2
        <5>2. snd[s][i].in_use => snd[s][i].stream # c
          BY <2>5, <4>2
        <5> QED
          BY <2>10, <4>2, <5>1, <5>2, AlikeChanged
      <4> QED
        BY <2>11, <4>1, <4>2
    <3>2. \A j \in Len(rx) + 1 .. Len(rx) + n : ~Keyed(rx'[j], t, c)
      BY <2>6, <2>8, <2>11 DEF Keyed
    <3>3. n \in Nat
      OBVIOUS
    <3> QED
      BY <1>1, <2>8, <2>9, <3>1, <3>2, <3>3, InOrderOther
  <2>12. CASE t = s /\ c = m.stream
    <3>1. n = 1
      BY <2>8, <2>12
    <3>2. ~Idle(snd[s], c)
      BY <2>3, <2>5, <2>12 DEF Idle
    <3>3. ASSUME NEW body, NEW seq, Sends(snd[s], c, body, seq)
          PROVE  f \in Fragments(body, seq)
      <4>1. PICK j \in SendContexts :
               /\ snd[s][j].in_use /\ snd[s][j].stream = c /\ message(snd[s][j]) = body
               /\ snd[s][j].seq = seq
        BY <3>3 DEF Sends
      <4>2. j = i
        BY <2>2, <2>12, <4>1
      <4> QED
        BY <2>5, <2>6, <4>1, <4>2 DEF Fragments
    <3>4. Final(f) => Idle(snd'[s], c)
      BY <2>2, <2>4, <2>7, <2>10, <2>12 DEF Idle
    <3>5. ~Final(f) => Sends(snd'[s], c, f.body, f.seq + 1)
      BY <2>4, <2>5, <2>6, <2>7, <2>12 DEF Sends
    <3>6. f = rx'[Len(rx) + 1] /\ Len(rx') = Len(rx) + 1
      <4>1. Len(rx) + 1 \in Len(rx) + 1 .. Len(rx) + 1
        BY <2>8
      <4> QED
        BY <2>8, <3>1, <4>1
    <3>7. Keyed(f, s, c)
      BY <2>6, <2>12 DEF Keyed
    <3>8. InOrderOn(rx, snd[s], rcv, s, c)
      BY <2>9, <2>12
    <3>9. rx \in Seq(Frames) /\ rx' \in Seq(Frames) /\ \A j \in 1 .. Len(rx) : rx'[j] = rx[j]
      BY <2>8
    <3>10. f \in Frames
      BY <2>6
    <3>11. InOrderOn(rx', snd'[s], rcv, s, c)
      BY <3>2, <3>3, <3>4, <3>5, <3>6, <3>7, <3>8, <3>9, <3>10, InOrderSame
    <3> QED
      BY <1>1, <2>12, <3>11
  <2> QED
    BY <2>11, <2>12
<1> QED
  BY <1>2, <1>3, TypesProcess

\* The first frame is taken out of the queue, of another stream.
LEMMA InOrderSkip ==
    ASSUME NEW q \in Seq(Frames), NEW q2 \in Seq(Frames), Len(q) >= 1, Len(q2) = Len(q) - 1,
           \A j \in 1 .. Len(q) - 1 : q2[j] = q[j + 1], NEW s, NEW c, NEW S, NEW R, NEW R2,
           ~Keyed(q[1], s, c), InOrderOn(q, S, R, s, c),
           \A i \in ReceiveContexts : Holds(R2[i], s, c) =>
              Holds(R[i], s, c) /\ R2[i].body = R[i].body /\ R2[i].expected = R[i].expected
    PROVE  InOrderOn(q2, S, R2, s, c)
<1>1. /\ ChainOf(q, S, s, c) => ChainOf(q2, S, s, c)
      /\ \A body, seq : Continued(q, S, s, c, 0, body, seq) => Continued(q2, S, s, c, 0, body, seq)
  BY ChainShift
<1> QED
  BY <1>1 DEF InOrderOn, Awaited

\* The first frame is taken out of the queue, and what now holds a context waits
\* for the frame after it.
LEMMA InOrderTake ==
    ASSUME NEW q \in Seq(Frames), NEW q2 \in Seq(Frames), Len(q) >= 1, Len(q2) = Len(q) - 1,
           \A j \in 1 .. Len(q) - 1 : q2[j] = q[j + 1], NEW s, NEW c, NEW S, NEW R, NEW R2,
           Keyed(q[1], s, c), InOrderOn(q, S, R, s, c),
           \A i \in ReceiveContexts : Holds(R2[i], s, c) =>
              ~Final(q[1]) /\ R2[i].body = q[1].body /\ R2[i].expected = q[1].seq + 1,
           \A i, j \in ReceiveContexts : Holds(R2[i], s, c) /\ Holds(R2[j], s, c) => i = j
    PROVE  InOrderOn(q2, S, R2, s, c)
<1>1. /\ ChainOf(q, S, s, c) => ChainOf(q2, S, s, c)
      /\ \A body, seq : Continued(q, S, s, c, 1, body, seq) => Continued(q2, S, s, c, 0, body, seq)
  BY ChainShift
<1>2. 1 \in DOMAIN q
  OBVIOUS
<1>3. ~Final(q[1]) => Continued(q, S, s, c, 1, q[1].body, q[1].seq + 1)
  BY <1>2 DEF InOrderOn, ChainOf
<1> QED
  BY <1>1, <1>3 DEF InOrderOn, Awaited

\* What holds a context waits for the first frame.
LEMMA InOrderFirst ==
    ASSUME NEW q \in Seq(Frames), Len(q) >= 1, NEW s, NEW c, NEW S, NEW R,
           Keyed(q[1], s, c), InOrderOn(q, S, R, s, c), NEW i \in ReceiveContexts, Holds(R[i], s, c)
    PROVE  ~q[1].header /\ q[1].body = R[i].body /\ q[1].seq = R[i].expected
<1>1. NextIs(q, s, c, 0, Fragments(R[i].body, R[i].expected), Sends(S, c, R[i].body, R[i].expected))
  BY DEF InOrderOn, Awaited, Continued
<1>2. Len(q) \in Nat
  OBVIOUS
<1>3. q[1] \in Fragments(R[i].body, R[i].expected)
  BY <1>1, <1>2, NextFirst
<1> QED
  BY <1>3 DEF Fragments

\* A context that goes on after fragment f has not had the last one.
LEMMA NotFinal ==
    ASSUME NEW r \in ReceiveRecords, ToReceive(r), r.in_use, ReceiveRight(r), NEW f \in Frames, ~f.header,
           f.body = r.body, f.seq = r.expected, ~allReceived(consumed(f, r)),
           Len(consumed(f, r).buffer) < _receive_buffer_len
    PROVE  ~Final(f)
<1> DEFINE c == consumed(f, r)
<1>1. ReceiveRight(c)
  BY ConsumedRight
<1>2. c.body = r.body /\ c.length = r.length /\ c.expected = r.expected + 1 /\ c.in_use /\ c \in ReceiveRecords
  BY Consumed
<1>3. ~(Len(c.buffer) >= c.length)
  BY DEF allReceived
<1> HIDE DEF c
<1>4. Len(c.buffer) = offset(f.seq + 1) /\ c.length = Len(f.body)
  BY <1>1, <1>2 DEF ReceiveRight
<1> QED
  BY <1>3, <1>4 DEF Final

Handling(f) ==
    \/ AcceptHeader(f) \/ DropHeader(f) \/ DropFragment(f)
    \/ \E i \in ReceiveContexts : WrongSequence(f, i) \/ Consume(f, i)

\* A frame of another stream leaves a context as it is.
LEMMA HandledOther ==
    ASSUME Types, NEW f \in Frames, Handling(f), NEW t, NEW c, ~Keyed(f, t, c),
           NEW i \in ReceiveContexts, Holds(rcv'[i], t, c)
    PROVE  rcv'[i] = rcv[i]
<1> SUFFICES ASSUME rcv'[i] # rcv[i]
             PROVE  FALSE
  OBVIOUS
<1>1. CASE AcceptHeader(f)
  <2>1. PICK k \in ReceiveContexts, a \in announced(f) :
           /\ rcv'[k] = begun(f, a[1], a[2]) /\ \A j \in ReceiveContexts : j # k => rcv'[j] = rcv[j]
    BY <1>1, Accepted
  <2>2. rcv'[i].canid = f.canid /\ rcv'[i].stream = f.stream
    BY <2>1 DEF begun
  <2> QED
    BY <2>2 DEF Holds, Keyed
<1>2. CASE DropHeader(f) \/ DropFragment(f)
  BY <1>2 DEF DropHeader, DropFragment
<1>3. ASSUME NEW k \in ReceiveContexts, NEW r, NEW status, report(k, r, status)
      PROVE  FALSE
  BY <1>3, Fresh, Reported DEF Holds
<1>4. ASSUME NEW k \in ReceiveContexts, WrongSequence(f, k)
      PROVE  FALSE
  BY <1>3, <1>4 DEF WrongSequence
<1>5. ASSUME NEW k \in ReceiveContexts, Consume(f, k)
      PROVE  FALSE
  <2> DEFINE r == consumed(f, rcv[k])
  <2>1. Continues(f, k)
    BY <1>5 DEF Consume
  <2>2. /\ rcv[k] \in ReceiveRecords /\ ToReceive(rcv[k]) /\ rcv[k].in_use /\ ~f.header
        /\ rcv[k].stream = f.stream /\ rcv[k].canid = f.canid
    BY <2>1, Matched
  <2>3. r.stream = f.stream /\ r.canid = f.canid
    BY <2>2, Consumed
  <2>4. /\ \A j \in ReceiveContexts : j # k => rcv'[j] = rcv[j]
        /\ report(k, r, statusOf(r)) \/ report(k, r, "TRUNCATED") \/ rcv'[k] = r
    BY <1>5, ConsumedAs
  <2> HIDE DEF r
  <2>5. CASE rcv'[k] = r
    BY <2>3, <2>4, <2>5 DEF Holds, Keyed
  <2> QED
    BY <1>3, <2>4, <2>5
<1> QED
  BY <1>1, <1>2, <1>4, <1>5 DEF Handling

\* After a frame of its own stream, which no fault has hit, a context is freed or
\* has had the frame and waits for the next.
LEMMA HandledSame ==
    ASSUME Types, Right, Ordered, NEW f \in Frames, Handling(f), NEW t \in Sender, NEW c \in Streams,
           Keyed(f, t, c), <<t, c>> \notin disturbed
    PROVE  \E i \in ReceiveContexts :
              /\ \A j \in ReceiveContexts : j # i => ~Holds(rcv'[j], t, c)
              /\ Holds(rcv'[i], t, c) =>
                    /\ ~Final(f) /\ rcv'[i].body = f.body /\ rcv'[i].expected = f.seq + 1
                    /\ rcv'[i].age = 0
<1> DEFINE After(i) ==
             /\ \A j \in ReceiveContexts : j # i => ~Holds(rcv'[j], t, c)
             /\ Holds(rcv'[i], t, c) =>
                   /\ ~Final(f) /\ rcv'[i].body = f.body /\ rcv'[i].expected = f.seq + 1
                   /\ rcv'[i].age = 0
<1>1. f = rx[1] /\ rx \in Seq(Frames) /\ Len(rx) >= 1 /\ FrameRight(f)
  <2>1. Handles(f)
    BY DEF Handling, AcceptHeader, DropHeader, DropFragment, WrongSequence, Consume, Continues
  <2>2. f = rx[1] /\ 1 \in DOMAIN rx
    BY <2>1, Handled DEF Types
  <2>3. rx \in Seq(Frames)
    BY DEF Types, ChannelTypes
  <2> QED
    BY <2>2, <2>3 DEF Right
<1>2. InOrderOn(rx, snd[t], rcv, t, c)
  BY DEF Ordered
<1>3. \A i \in ReceiveContexts : Holds(rcv[i], t, c) =>
         ~f.header /\ f.body = rcv[i].body /\ f.seq = rcv[i].expected
  BY <1>1, <1>2, InOrderFirst
<1>4. \A i, j \in ReceiveContexts : Holds(rcv[i], t, c) /\ Holds(rcv[j], t, c) => i = j
  BY <1>2 DEF InOrderOn
<1>5. CASE AcceptHeader(f)
  <2>1. f.seq = 0
    BY <1>5 DEF AcceptHeader
  <2>2. PICK i \in ReceiveContexts, a \in announced(f) :
           /\ rcv'[i] = begun(f, a[1], a[2]) /\ \A j \in ReceiveContexts : j # i => rcv'[j] = rcv[j]
    BY <1>5, Accepted
  <2>3. f.header
    BY <1>1, <2>1 DEF FrameRight
  <2>4. ~Final(f) /\ rcv'[i].body = f.body /\ rcv'[i].expected = f.seq + 1 /\ rcv'[i].age = 0
    BY <2>1, <2>2, <2>3 DEF Final, begun
  <2>5. \A j \in ReceiveContexts : j # i => ~Holds(rcv'[j], t, c)
    BY <1>3, <2>2, <2>3
  <2> QED
    BY <2>4, <2>5
<1>6. CASE DropHeader(f) \/ DropFragment(f)
  <2>1. \A i \in ReceiveContexts : ~Holds(rcv[i], t, c)
    <3>1. CASE DropHeader(f)
      <4>1. f.header
        BY <1>1, <3>1 DEF DropHeader, FrameRight
      <4> QED
        BY <1>3, <4>1
    <3>2. CASE DropFragment(f)
      BY <3>2 DEF DropFragment, matching, Holds, Keyed
    <3> QED
      BY <1>6, <3>1, <3>2
  <2>2. UNCHANGED rcv
    BY <1>6 DEF DropHeader, DropFragment
  <2>3. 0 \in ReceiveContexts
    BY Parameters DEF ReceiveContexts
  <2> QED
    BY <2>1, <2>2, <2>3
<1>7. ASSUME NEW i \in ReceiveContexts, Continues(f, i)
      PROVE  /\ Holds(rcv[i], t, c) /\ rcv[i] \in ReceiveRecords /\ ToReceive(rcv[i])
             /\ \A j \in ReceiveContexts : j # i => ~Holds(rcv[j], t, c)
  <2>1. /\ rcv[i].in_use /\ rcv[i].stream = f.stream /\ rcv[i].canid = f.canid
        /\ rcv[i] \in ReceiveRecords /\ ToReceive(rcv[i])
    BY <1>7, Matched
  <2>2. Holds(rcv[i], t, c)
    BY <2>1 DEF Holds, Keyed
  <2> QED
    BY <1>4, <2>1, <2>2
<1>8. ASSUME NEW i \in ReceiveContexts, Continues(f, i), NEW r, NEW status, report(i, r, status)
      PROVE  After(i)
  <2>1. rcv'[i] = freed /\ \A j \in ReceiveContexts : j # i => rcv'[j] = rcv[j]
    BY <1>8, Reported
  <2>2. ~Holds(rcv'[i], t, c)
    BY <2>1, Fresh DEF Holds
  <2> QED
    BY <1>7, <1>8, <2>1, <2>2
<1>9. ASSUME NEW i \in ReceiveContexts, WrongSequence(f, i)
      PROVE  After(i)
  BY <1>8, <1>9 DEF WrongSequence
<1>10. ASSUME NEW i \in ReceiveContexts, Consume(f, i)
       PROVE  After(i)
  <2> DEFINE r == consumed(f, rcv[i])
  <2>1. Continues(f, i) /\ f.seq = rcv[i].expected
    BY <1>10 DEF Consume
  <2>2. /\ \A j \in ReceiveContexts : j # i => rcv'[j] = rcv[j]
        /\ \/ report(i, r, statusOf(r)) \/ report(i, r, "TRUNCATED")
           \/ ~allReceived(r) /\ Len(r.buffer) < _receive_buffer_len /\ rcv'[i] = r
    BY <1>10, ConsumedAs
  <2>3. CASE ~allReceived(r) /\ Len(r.buffer) < _receive_buffer_len /\ rcv'[i] = r
    <3>1. /\ Holds(rcv[i], t, c) /\ rcv[i] \in ReceiveRecords /\ ToReceive(rcv[i])
          /\ \A j \in ReceiveContexts : j # i => ~Holds(rcv[j], t, c)
      BY <1>7, <2>1
    <3>2. ~f.header /\ f.body = rcv[i].body /\ rcv[i].in_use /\ ReceiveRight(rcv[i])
      BY <1>3, <3>1 DEF Holds, Right
    <3>3. ~Final(f)
      BY <2>1, <2>3, <3>1, <3>2, NotFinal
    <3>4. r.body = f.body /\ r.expected = f.seq + 1 /\ r.age = 0
      BY <2>1, <3>1, <3>2, Consumed
    <3> HIDE DEF r
    <3>5. \A j \in ReceiveContexts : j # i => ~Holds(rcv'[j], t, c)
      BY <2>2, <3>1
    <3> QED
      BY <2>3, <3>3, <3>4, <3>5
  <2> QED
    BY <1>8, <2>1, <2>2, <2>3
<1> QED
  BY <1>5, <1>6, <1>9, <1>10 DEF Handling

\* by handling the first frame,
LEMMA OrderedHandle ==
    ASSUME Types, Right, Ordered, HandleFragment
    PROVE  Ordered'
<1>1. PICK f \in Frames : f = rx[1] /\ Handles(f) /\ Handling(f)
  BY TypesHandle DEF Handling
<1>2. UNCHANGED <<snd, disturbed>> /\ Types'
  BY TypesHandle
<1>3. /\ rx \in Seq(Frames) /\ rx' \in Seq(Frames) /\ Len(rx) >= 1 /\ Len(rx') = Len(rx) - 1
      /\ \A j \in 1 .. Len(rx) - 1 : rx'[j] = rx[j + 1]
  <2>1. rx \in Seq(Frames) /\ rx # <<>> /\ rx' = Tail(rx) /\ rx' \in Seq(Frames)
    BY <1>1, <1>2 DEF Handles, Types, ChannelTypes
  <2> QED
    BY <2>1
<1> SUFFICES ASSUME NEW t \in Sender, NEW c \in Streams, <<t, c>> \notin disturbed
             PROVE  InOrderOn(rx', snd[t], rcv', t, c)
  BY <1>2 DEF Ordered
<1>4. InOrderOn(rx, snd[t], rcv, t, c)
  BY DEF Ordered
<1>5. CASE ~Keyed(f, t, c)
  <2>1. \A i \in ReceiveContexts : Holds(rcv'[i], t, c) => rcv'[i] = rcv[i]
    BY <1>1, <1>5, HandledOther
  <2>2. \A i \in ReceiveContexts : Holds(rcv'[i], t, c) =>
           Holds(rcv[i], t, c) /\ rcv'[i].body = rcv[i].body /\ rcv'[i].expected = rcv[i].expected
    BY <2>1
  <2> QED
    BY <1>1, <1>3, <1>4, <1>5, <2>2, InOrderSkip
<1>6. CASE Keyed(f, t, c)
  <2>1. PICK i \in ReceiveContexts :
           /\ \A j \in ReceiveContexts : j # i => ~Holds(rcv'[j], t, c)
           /\ Holds(rcv'[i], t, c) =>
                 ~Final(f) /\ rcv'[i].body = f.body /\ rcv'[i].expected = f.seq + 1
    BY <1>1, <1>6, HandledSame
  <2>2. /\ \A j \in ReceiveContexts : Holds(rcv'[j], t, c) =>
              ~Final(rx[1]) /\ rcv'[j].body = rx[1].body /\ rcv'[j].expected = rx[1].seq + 1
        /\ \A j, k \in ReceiveContexts : Holds(rcv'[j], t, c) /\ Holds(rcv'[k], t, c) => j = k
    BY <1>1, <2>1
  <2> QED
    BY <1>1, <1>3, <1>4, <1>6, <2>2, InOrderTake
<1> QED
  BY <1>5, <1>6

\* by time,
LEMMA OrderedTime ==
    ASSUME Types, Ordered, TimeOut \/ Tick
    PROVE  Ordered'
<1>1. UNCHANGED <<rx, disturbed>>
  BY TypesTimeOut, TypesTick
<1>2. \A i \in ReceiveContexts : rcv'[i].in_use =>
         /\ rcv[i].in_use /\ rcv'[i].canid = rcv[i].canid /\ rcv'[i].stream = rcv[i].stream
         /\ rcv'[i].body = rcv[i].body /\ rcv'[i].expected = rcv[i].expected
  <2> SUFFICES ASSUME NEW i \in ReceiveContexts, rcv'[i].in_use
               PROVE  /\ rcv[i].in_use /\ rcv'[i].canid = rcv[i].canid /\ rcv'[i].stream = rcv[i].stream
                      /\ rcv'[i].body = rcv[i].body /\ rcv'[i].expected = rcv[i].expected
    OBVIOUS
  <2>1. CASE TimeOut
    BY <2>1, TypesTimeOut, Fresh
  <2>2. CASE Tick
    <3>1. rcv[i] \in ReceiveRecords /\ ToReceive(rcv[i])
      BY DEF Types, ReceiverTypes
    <3>2. PICK age \in 0 .. _receive_timeout : rcv'[i] = [rcv[i] EXCEPT !.age = age]
      BY <2>2, TypesTick
    <3> QED
      BY <3>1, <3>2, Aged
  <2> QED
    BY <2>1, <2>2
<1>3. \A s \in Sender, i \in SendContexts :
         /\ snd'[s][i].in_use = snd[s][i].in_use /\ snd'[s][i].stream = snd[s][i].stream
         /\ snd'[s][i].seq = snd[s][i].seq /\ message(snd'[s][i]) = message(snd[s][i])
  <2> SUFFICES ASSUME NEW s \in Sender, NEW i \in SendContexts
               PROVE  /\ snd'[s][i].in_use = snd[s][i].in_use /\ snd'[s][i].stream = snd[s][i].stream
                      /\ snd'[s][i].seq = snd[s][i].seq /\ message(snd'[s][i]) = message(snd[s][i])
    OBVIOUS
  <2>1. CASE TimeOut
    BY <2>1, TypesTimeOut
  <2>2. CASE Tick
    <3>1. snd[s][i] \in SendRecords /\ i \in AllContexts
      BY ContextsAre DEF Types, SenderTypes
    <3>2. PICK gap \in 0 .. _msg_delay : snd'[s][i] = [snd[s][i] EXCEPT !.gap = gap]
      BY <2>2, <3>1, TypesTick
    <3>3. LET m == snd[s][i] w == snd'[s][i]
          IN  /\ w.in_use = m.in_use /\ w.stream = m.stream /\ w.seq = m.seq
              /\ w.msg = m.msg /\ w.len = m.len /\ w.zero = m.zero
      BY <3>1, <3>2, Waited
    <3> QED
      BY <3>3 DEF message
  <2> QED
    BY <2>1, <2>2
<1> SUFFICES ASSUME NEW t \in Sender, NEW c \in Streams, <<t, c>> \notin disturbed
             PROVE  InOrderOn(rx, snd'[t], rcv', t, c)
  BY <1>1 DEF Ordered
<1>4. InOrderOn(rx, snd[t], rcv, t, c)
  BY DEF Ordered
<1>5. AlikeSend(snd[t], snd'[t], c)
  BY <1>3 DEF AlikeSend, Sends, Idle
<1>6. /\ rx \in Seq(Frames) /\ 0 \in Nat /\ Len(rx) = Len(rx) + 0
      /\ \A j \in Len(rx) + 1 .. Len(rx) + 0 : ~Keyed(rx[j], t, c)
  <2>1. rx \in Seq(Frames) /\ Len(rx) \in Nat
    BY DEF Types, ChannelTypes
  <2>2. \A j \in Len(rx) + 1 .. Len(rx) + 0 : FALSE
    BY <2>1
  <2> QED
    BY <2>1, <2>2
<1>7. \A i \in ReceiveContexts : Holds(rcv'[i], t, c) =>
         Holds(rcv[i], t, c) /\ rcv'[i].body = rcv[i].body /\ rcv'[i].expected = rcv[i].expected
  BY <1>2 DEF Holds
<1> QED
  BY <1>4, <1>5, <1>6, <1>7, InOrderOther

\* and by restarts, which disturb all streams they reach.
LEMMA OrderedRestart ==
    ASSUME Types, Ordered, RestartReceiver \/ \E s \in Sender : RestartSender(s)
    PROVE  Ordered'
<1>1. CASE RestartReceiver
  <2>1. disturbed' = disturbed \cup (Sender \X Streams)
    BY <1>1, TypesRestartReceiver
  <2> QED
    BY <2>1 DEF Ordered
<1>2. ASSUME NEW s \in Sender, RestartSender(s)
      PROVE  Ordered'
  <2>1. /\ UNCHANGED <<rx, rcv>> /\ disturbed' = disturbed \cup ({s} \X Streams)
        /\ \A c \in Sender : c # s => snd'[c] = snd[c]
    BY <1>2, TypesRestartSender
  <2> QED
    BY <2>1 DEF Ordered
<1> QED
  BY <1>1, <1>2

\* It holds at the start,
LEMMA OrderedInit == Init => OneSender /\ Ordered
<1> SUFFICES ASSUME Init
             PROVE  OneSender /\ Ordered
  OBVIOUS
<1>1. rx = <<>> /\ rcv = [i \in ReceiveContexts |-> freed] /\ ~freed.in_use
  BY Fresh DEF Init
<1>2. PICK gap \in 0 .. _msg_delay :
        snd = [s \in Sender |-> [i \in SendContexts \cup {Beyond} |-> unused(gap)]]
  BY DEF Init
<1>3. \A s \in Sender, i \in SendContexts : ~snd[s][i].in_use
  BY <1>2, Unused
<1> QED
  BY <1>1, <1>3 DEF OneSender, Ordered, InOrderOn, ChainOf, Holds

\* and after every step.
LEMMA OrderedNext ==
    ASSUME NoWrap, EnoughContexts, Types, Right, OneSender, Ordered, [Next]_vars
    PROVE  Ordered'
<1>1. CASE UNCHANGED vars
  BY <1>1 DEF vars, sending, channel, Ordered
<1> QED
  BY <1>1, OrderedSend, OrderedProcess, OrderedHandle, OrderedTime, OrderedRestart DEF Next

-----------------------------------------------------------------------------
(* The bytes received of a stream no fault has hit.                         *)

\* A context holds the first bytes of its message.
Prefix(r) == \A k \in 1 .. Len(r.buffer) : r.buffer[k] = r.body[k]

Unharmed(r, D) == r.in_use /\ <<r.canid, r.stream>> \notin D /\ Whole(r.body)

Pieces == \A i \in ReceiveContexts : Unharmed(rcv[i], disturbed) => Prefix(rcv[i])

\* A message without zero bytes is copied whole.
LEMMA WholeIs ==
    ASSUME NEW body
    PROVE  Pad \notin Range(body) <=> Whole(body)
BY DEF Range, Whole

\* With the next fragment of its message a context goes on holding its first bytes.
LEMMA PrefixConsumed ==
    ASSUME NEW r \in ReceiveRecords, ToReceive(r), r.in_use, ReceiveRight(r), Prefix(r), Whole(r.body),
           r.body # <<>>, NEW f \in Frames, ~f.header, FrameRight(f), f.body = r.body, f.seq = r.expected
    PROVE  Prefix(consumed(f, r)) /\ Len(consumed(f, r).buffer) <= Len(r.body)
<1> DEFINE c == consumed(f, r)
           h == Len(r.buffer)
           n == taken(r)
           len == Len(c.buffer)
<1>1. /\ c.body = r.body /\ n \in 1 .. PAYLOAD /\ h \in Nat /\ len = h + n
      /\ \A k \in 1 .. h : c.buffer[k] = r.buffer[k]
      /\ \A k \in 1 .. n : c.buffer[h + k] = f.data[k]
      /\ r.length # 0 => len <= r.length
  BY Consumed
<1>2. h = offset(f.seq) /\ r.length = Len(r.body)
  BY DEF ReceiveRight
<1>3. r.length # 0 /\ Len(r.body) \in Nat
  <2>1. r.body \in Seq(Byte)
    BY DEF ReceiveRecords
  <2> QED
    BY <1>2, <2>1
<1>4. \A k \in 1 .. PAYLOAD : h + k <= Len(r.body) => f.data[k] = r.body[h + k]
  BY <1>2 DEF FrameRight
<1>5. \A k \in 1 .. h : r.buffer[k] = r.body[k]
  BY DEF Prefix
<1> HIDE DEF c, h, n, len
<1>6. PAYLOAD \in Nat /\ n \in Nat /\ n <= PAYLOAD
  BY <1>1, Parameters
<1>7. ASSUME NEW k \in 1 .. len
      PROVE  c.buffer[k] = r.body[k]
  <2>1. CASE k \in 1 .. h
    BY <1>1, <1>5, <2>1
  <2>2. CASE k \notin 1 .. h
    <3> DEFINE d == k - h
    <3>1. d \in 1 .. n /\ d \in 1 .. PAYLOAD /\ h + d = k /\ h + d <= Len(r.body)
      BY <1>1, <1>2, <1>3, <1>6, <2>2
    <3> HIDE DEF d
    <3> QED
      BY <1>1, <1>4, <3>1
  <2> QED
    BY <2>1, <2>2
<1> QED
  BY <1>1, <1>2, <1>3, <1>7 DEF Prefix, c, len

\* A context of a stream no fault has hit takes the next fragment of its message,
\* and no other.
LEMMA NextComes ==
    ASSUME Types, Right, Ordered, NEW f \in Frames, NEW i \in ReceiveContexts, Continues(f, i)
    PROVE  /\ FrameRight(f) /\ f.canid = rcv[i].canid /\ f.stream = rcv[i].stream
           /\ <<rcv[i].canid, rcv[i].stream>> \notin disturbed =>
                 f.seq = rcv[i].expected /\ f.body = rcv[i].body
<1>1. f = rx[1] /\ 1 \in DOMAIN rx /\ rx \in Seq(Frames) /\ Len(rx) >= 1
  <2>1. f = rx[1] /\ 1 \in DOMAIN rx
    BY Handled DEF Continues, Types
  <2>2. rx \in Seq(Frames)
    BY DEF Types, ChannelTypes
  <2> QED
    BY <2>1, <2>2
<1>2. rcv[i].in_use /\ rcv[i].stream = f.stream /\ rcv[i].canid = f.canid
  BY Matched
<1>3. f.canid \in Sender /\ f.stream \in Streams
  BY DEF Frames
<1>4. Keyed(f, f.canid, f.stream) /\ Holds(rcv[i], f.canid, f.stream)
  BY <1>2 DEF Keyed, Holds
<1>5. ASSUME <<f.canid, f.stream>> \notin disturbed
      PROVE  f.seq = rcv[i].expected /\ f.body = rcv[i].body
  <2>1. InOrderOn(rx, snd[f.canid], rcv, f.canid, f.stream)
    BY <1>3, <1>5 DEF Ordered
  <2> QED
    BY <1>1, <1>4, <2>1, InOrderFirst
<1>6. FrameRight(f)
  BY <1>1 DEF Right
<1> QED
  BY <1>2, <1>5, <1>6

\* A buffer still is the beginning of its message after a frame,
LEMMA PiecesHandle ==
    ASSUME Types, Right, Ordered, Pieces, HandleFragment
    PROVE  Pieces'
<1>1. PICK f \in Frames :
         /\ f = rx[1] /\ Handles(f)
         /\ \/ AcceptHeader(f) \/ DropHeader(f) \/ DropFragment(f)
            \/ \E i \in ReceiveContexts : WrongSequence(f, i) \/ Consume(f, i)
  BY TypesHandle
<1>2. UNCHANGED disturbed
  BY TypesHandle
<1>3. ASSUME NEW i \in ReceiveContexts, NEW r, rcv'[i] = r, ~r.in_use \/ (Unharmed(r, disturbed) => Prefix(r)),
             \A j \in ReceiveContexts : j # i => rcv'[j] = rcv[j]
      PROVE  Pieces'
  BY <1>2, <1>3 DEF Pieces, Unharmed
<1>4. ~freed.in_use
  BY Fresh
<1>5. CASE AcceptHeader(f)
  <2>1. PICK i \in ReceiveContexts, a \in announced(f) :
           /\ rcv'[i] = begun(f, a[1], a[2]) /\ \A j \in ReceiveContexts : j # i => rcv'[j] = rcv[j]
           /\ a[1] \in LengthsOr0 /\ a[2] \in Seq(Byte)
    BY <1>5, Accepted
  <2> DEFINE r == begun(f, a[1], a[2])
  <2>2. r.buffer = <<>>
    BY DEF begun
  <2> HIDE DEF r
  <2>3. Prefix(r)
    BY <2>2 DEF Prefix
  <2> QED
    BY <1>3, <2>1, <2>3 DEF r
<1>6. CASE DropHeader(f) \/ DropFragment(f)
  BY <1>2, <1>6 DEF DropHeader, DropFragment, Pieces
<1>7. ASSUME NEW i \in ReceiveContexts, NEW r, NEW status, report(i, r, status)
      PROVE  Pieces'
  BY <1>3, <1>4, <1>7, Reported
<1>8. ASSUME NEW i \in ReceiveContexts, WrongSequence(f, i)
      PROVE  Pieces'
  BY <1>7, <1>8 DEF WrongSequence
<1>9. ASSUME NEW i \in ReceiveContexts, Consume(f, i)
      PROVE  Pieces'
  <2> DEFINE r == consumed(f, rcv[i])
  <2>1. Continues(f, i) /\ f.seq = rcv[i].expected
    BY <1>9 DEF Consume
  <2>2. /\ \A j \in ReceiveContexts : j # i => rcv'[j] = rcv[j]
        /\ \/ report(i, r, statusOf(r)) \/ report(i, r, "TRUNCATED")
           \/ ~allReceived(r) /\ Len(r.buffer) < _receive_buffer_len /\ rcv'[i] = r
    BY <1>9, ConsumedAs
  <2>3. CASE ~allReceived(r) /\ rcv'[i] = r
    <3>1. rcv[i].in_use /\ rcv[i] \in ReceiveRecords /\ ToReceive(rcv[i]) /\ ~f.header /\ ReceiveRight(rcv[i])
      BY <2>1, Matched DEF Right
    <3>2. /\ r.canid = rcv[i].canid /\ r.stream = rcv[i].stream /\ r.body = rcv[i].body
          /\ r.length = rcv[i].length /\ Len(r.buffer) \in Nat
      BY <3>1, Consumed
    <3>3. ASSUME Unharmed(r, disturbed)
          PROVE  Prefix(r)
      <4>1. Unharmed(rcv[i], disturbed)
        BY <3>1, <3>2, <3>3 DEF Unharmed
      <4>2. Prefix(rcv[i]) /\ Whole(rcv[i].body) /\ <<rcv[i].canid, rcv[i].stream>> \notin disturbed
        BY <4>1 DEF Pieces, Unharmed
      <4>3. f.body = rcv[i].body /\ FrameRight(f)
        BY <2>1, <4>2, NextComes
      <4>4. rcv[i].body # <<>>
        <5>1. Len(r.buffer) < r.length \/ r.length < 0
          BY <2>3, <3>1, <3>2 DEF allReceived, ReceiveRight
        <5> QED
          BY <3>1, <3>2, <5>1 DEF ReceiveRight
      <4> QED
        BY <2>1, <3>1, <4>2, <4>3, <4>4, PrefixConsumed
    <3> HIDE DEF r
    <3> QED
      BY <1>3, <2>2, <2>3, <3>3
  <2> QED
    BY <1>7, <2>2, <2>3
<1> QED
  BY <1>1, <1>5, <1>6, <1>8, <1>9

\* and after any step.
LEMMA PiecesNext ==
    ASSUME Types, Right, Ordered, Pieces, [Next]_vars
    PROVE  Pieces'
<1>1. ASSUME UNCHANGED rcv, disturbed \subseteq disturbed'
      PROVE  Pieces'
  BY <1>1 DEF Pieces, Unharmed
<1>2. ASSUME NEW s \in Sender, NEW stream \in Streams, NEW kind \in Messages[s],
             sendMultipartMessage(s, stream, kind[1], kind[2])
      PROVE  Pieces'
  <2>1. UNCHANGED rcv /\ \E f : \E n \in {0, 1, 2} : Arrived(f, n)
    BY <1>2, TypesSend
  <2> QED
    BY <1>1, <2>1 DEF Arrived
<1>3. ASSUME NEW s \in Sender, Process(s)
      PROVE  Pieces'
  <2>1. UNCHANGED rcv /\ (UNCHANGED disturbed \/ \E f : \E n \in {0, 1, 2} : Arrived(f, n))
    BY <1>3, TypesProcess
  <2> QED
    BY <1>1, <2>1 DEF Arrived
<1>4. ASSUME NEW s \in Sender, RestartSender(s)
      PROVE  Pieces'
  BY <1>1, <1>4, TypesRestartSender
<1>5. CASE RestartReceiver
  BY <1>5, TypesRestartReceiver, Fresh DEF Pieces, Unharmed
<1>6. CASE TimeOut
  <2>1. UNCHANGED disturbed /\ \A i \in ReceiveContexts : rcv'[i] = freed \/ rcv'[i] = rcv[i]
    BY <1>6, TypesTimeOut
  <2> QED
    BY <2>1, Fresh DEF Pieces, Unharmed
<1>7. CASE Tick
  <2>1. UNCHANGED disturbed
    BY <1>7, TypesTick
  <2>2. ASSUME NEW i \in ReceiveContexts
        PROVE  LET r == rcv[i] a == rcv'[i]
               IN  /\ a.in_use = r.in_use /\ a.canid = r.canid /\ a.stream = r.stream
                   /\ a.body = r.body /\ a.buffer = r.buffer
    <3>1. rcv[i] \in ReceiveRecords /\ ToReceive(rcv[i])
      BY DEF Types, ReceiverTypes
    <3>2. PICK age \in 0 .. _receive_timeout : rcv'[i] = [rcv[i] EXCEPT !.age = age]
      BY <1>7, TypesTick
    <3> QED
      BY <3>1, <3>2, Aged
  <2> QED
    BY <2>1, <2>2 DEF Pieces, Unharmed, Prefix
<1>8. CASE UNCHANGED vars
  BY <1>1, <1>8 DEF vars, channel
<1> QED
  BY <1>2, <1>3, <1>4, <1>5, <1>6, <1>7, <1>8, PiecesHandle DEF Next

-----------------------------------------------------------------------------
(* What is reported.                                                        *)

\* A message with a CRC that is reported complete is the one that was sent.
CrcRight(c) == c.status = "COMPLETE" /\ c.crc # <<>> => c.data = c.body

\* So is one without, if no fault hit its stream and it has no zero byte.
CompleteRight(c, D) ==
    c.status = "COMPLETE" /\ c.body # <<>> /\ <<c.canid, c.stream>> \notin D /\ Whole(c.body)
    => c.data = c.body

\* No error is reported of a stream no fault has hit.
InSequence(c, D) == c.status = "SEQUENCE_ERROR" => <<c.canid, c.stream>> \in D
InTime(c, D) == c.status = "TIMEOUT_ERROR" => <<c.canid, c.stream>> \in D
CrcAgrees(c, D) == c.status = "CRC_ERROR" => <<c.canid, c.stream>> \in D \/ ~Whole(c.body)

\* The only calls of a step that are not of the time-out.
LEMMA CalledBy ==
    ASSUME Types, [Next]_vars, ~TimeOut, ~UNCHANGED vars
    PROVE  \/ calls' = <<>>
           \/ \E f \in Frames, i \in ReceiveContexts :
                 /\ UNCHANGED disturbed
                 /\ \/ WrongSequence(f, i) /\ calls' = <<Call("SEQUENCE_ERROR", rcv[i])>>
                    \/ /\ Consume(f, i)
                       /\ \/ calls' = <<Call("TRUNCATED", consumed(f, rcv[i]))>>
                          \/ /\ allReceived(consumed(f, rcv[i]))
                             /\ calls' = <<Call(statusOf(consumed(f, rcv[i])), consumed(f, rcv[i]))>>
<1>1. ASSUME NEW s \in Sender, NEW stream \in Streams, NEW kind \in Messages[s],
             sendMultipartMessage(s, stream, kind[1], kind[2])
      PROVE  calls' = <<>>
  BY <1>1, TypesSend
<1>2. ASSUME NEW s \in Sender, Process(s) \/ RestartSender(s)
      PROVE  calls' = <<>>
  BY <1>2, TypesProcess, TypesRestartSender
<1>3. CASE Tick \/ RestartReceiver
  BY <1>3, TypesTick, TypesRestartReceiver
<1>4. CASE HandleFragment
  <2>1. PICK f \in Frames :
           \/ AcceptHeader(f) \/ DropHeader(f) \/ DropFragment(f)
           \/ \E i \in ReceiveContexts : WrongSequence(f, i) \/ Consume(f, i)
    BY <1>4, TypesHandle
  <2>2. UNCHANGED disturbed
    BY <1>4, TypesHandle
  <2>3. CASE AcceptHeader(f) \/ DropHeader(f) \/ DropFragment(f)
    BY <2>3 DEF AcceptHeader, DropHeader, DropFragment
  <2>4. ASSUME NEW i \in ReceiveContexts, WrongSequence(f, i)
        PROVE  calls' = <<Call("SEQUENCE_ERROR", rcv[i])>>
    BY <2>4 DEF WrongSequence, report
  <2>5. ASSUME NEW i \in ReceiveContexts, Consume(f, i)
        PROVE  \/ calls' = <<>>
               \/ calls' = <<Call("TRUNCATED", consumed(f, rcv[i]))>>
               \/ /\ allReceived(consumed(f, rcv[i]))
                  /\ calls' = <<Call(statusOf(consumed(f, rcv[i])), consumed(f, rcv[i]))>>
    BY <2>5 DEF Consume, report
  <2> QED
    BY <2>1, <2>2, <2>3, <2>4, <2>5
<1> QED
  BY <1>1, <1>2, <1>3, <1>4 DEF Next

\* What a call tells of its context.
LEMMA CallIs ==
    ASSUME NEW status, NEW r
    PROVE  LET c == Call(status, r)
           IN  /\ c.status = status /\ c.canid = r.canid /\ c.stream = r.stream /\ c.body = r.body
               /\ c.crc = r.crc /\ c.data = r.buffer
BY DEF Call

\* What a context holds when its last byte has come.
LEMMA Received ==
    ASSUME Types, Right, NEW f \in Frames, NEW i \in ReceiveContexts, Consume(f, i)
    PROVE  LET r == consumed(f, rcv[i])
           IN  /\ r.canid = rcv[i].canid /\ r.stream = rcv[i].stream /\ r.body = rcv[i].body
               /\ r.crc = <<>> \/ r.crc = r.body
               /\ CrcSenders = {} => r.crc = <<>>
               /\ r.body \in Seq(Byte) /\ r.buffer \in Seq(Byte) /\ r.length = Len(r.body)
<1> DEFINE r == consumed(f, rcv[i])
<1>1. Continues(f, i)
  BY DEF Consume
<1>2. rcv[i].in_use /\ rcv[i] \in ReceiveRecords /\ ToReceive(rcv[i]) /\ ~f.header /\ ReceiveRight(rcv[i])
  BY <1>1, Matched DEF Right
<1>3. /\ r \in ReceiveRecords /\ r.canid = rcv[i].canid /\ r.stream = rcv[i].stream
      /\ r.body = rcv[i].body /\ r.crc = rcv[i].crc /\ r.length = rcv[i].length
  BY <1>2, Consumed
<1> HIDE DEF r
<1>4. r.body \in Seq(Byte) /\ r.buffer \in Seq(Byte)
  BY <1>3 DEF ReceiveRecords
<1> QED
  BY <1>2, <1>3, <1>4 DEF ReceiveRight, r

\* Of a stream no fault has hit it is the message.
LEMMA ReceivedWhole ==
    ASSUME Types, Right, Ordered, Pieces, NEW f \in Frames, NEW i \in ReceiveContexts, Consume(f, i),
           allReceived(consumed(f, rcv[i])), rcv[i].body # <<>>, Unharmed(rcv[i], disturbed)
    PROVE  consumed(f, rcv[i]).buffer = rcv[i].body
<1> DEFINE r == consumed(f, rcv[i])
<1>1. Continues(f, i) /\ f.seq = rcv[i].expected
  BY DEF Consume
<1>2. rcv[i].in_use /\ rcv[i] \in ReceiveRecords /\ ToReceive(rcv[i]) /\ ~f.header /\ ReceiveRight(rcv[i])
  BY <1>1, Matched DEF Right
<1>3. Prefix(rcv[i]) /\ Whole(rcv[i].body) /\ <<rcv[i].canid, rcv[i].stream>> \notin disturbed
  BY DEF Pieces, Unharmed
<1>4. f.body = rcv[i].body /\ FrameRight(f)
  BY <1>1, <1>3, NextComes
<1>5. Prefix(r) /\ Len(r.buffer) <= Len(rcv[i].body)
  BY <1>1, <1>2, <1>3, <1>4, PrefixConsumed
<1>6. /\ r.body = rcv[i].body /\ r.body \in Seq(Byte) /\ r.buffer \in Seq(Byte)
      /\ r.length = Len(r.body)
  BY Received
<1>7. Len(r.buffer) >= r.length
  BY DEF allReceived
<1> HIDE DEF r
<1>8. Len(r.buffer) = Len(r.body)
  BY <1>5, <1>6, <1>7
<1>9. \A k \in 1 .. Len(r.buffer) : r.buffer[k] = r.body[k]
  BY <1>5 DEF Prefix
<1>10. r.buffer = r.body
  BY <1>6, <1>8, <1>9, SeqEqual
<1> QED
  BY <1>6, <1>10 DEF r

\* A message with a CRC is complete only if it is the message of the CRC.
LEMMA StatusIs ==
    ASSUME NEW r, r.crc = <<>> \/ r.crc = r.body
    PROVE  /\ statusOf(r) \in {"COMPLETE", "CRC_ERROR"}
           /\ statusOf(r) = "COMPLETE" /\ r.crc # <<>> => r.buffer = r.body
           /\ statusOf(r) = "CRC_ERROR" => r.crc # <<>> /\ ~(_use_crc /\ r.buffer = r.body)
BY DEF statusOf, crc16

\* What every step tells with a CRC is right,
LEMMA CrcNext ==
    ASSUME Types, Right, [Next]_vars, \A k \in DOMAIN calls : CrcRight(calls[k])
    PROVE  \A k \in DOMAIN calls' : CrcRight(calls'[k])
<1>1. CASE calls' = <<>>
  BY <1>1
<1>2. ASSUME NEW c, calls' = << c >>, CrcRight(c)
      PROVE  \A k \in DOMAIN calls' : CrcRight(calls'[k])
  BY <1>2
<1>3. CASE TimeOut
  <2>1. \A k \in DOMAIN calls' : \E i \in timedOut : calls'[k] = Call("TIMEOUT_ERROR", rcv[i])
    BY <1>3, TypesTimeOut
  <2> QED
    BY <2>1, CallIs DEF CrcRight
<1>4. CASE UNCHANGED vars
  BY <1>4 DEF vars
<1>5. ASSUME NEW f \in Frames, NEW i \in ReceiveContexts,
             \/ calls' = <<Call("SEQUENCE_ERROR", rcv[i])>>
             \/ calls' = <<Call("TRUNCATED", consumed(f, rcv[i]))>>
      PROVE  \A k \in DOMAIN calls' : CrcRight(calls'[k])
  BY <1>2, <1>5, CallIs DEF CrcRight
<1>6. ASSUME NEW f \in Frames, NEW i \in ReceiveContexts, Consume(f, i),
             calls' = <<Call(statusOf(consumed(f, rcv[i])), consumed(f, rcv[i]))>>
      PROVE  \A k \in DOMAIN calls' : CrcRight(calls'[k])
  <2> DEFINE r == consumed(f, rcv[i])
  <2>1. r.crc = <<>> \/ r.crc = r.body
    BY <1>6, Received
  <2> HIDE DEF r
  <2>2. CrcRight(Call(statusOf(r), r))
    BY <2>1, StatusIs, CallIs DEF CrcRight
  <2> QED
    BY <1>2, <1>6, <2>2 DEF r
<1> QED
  BY <1>1, <1>3, <1>4, <1>5, <1>6, CalledBy

\* and so is what it tells of undisturbed streams.
LEMMA CompleteNext ==
    ASSUME Types, Right, Ordered, Pieces, [Next]_vars,
           \A k \in DOMAIN calls : CompleteRight(calls[k], disturbed)
    PROVE  \A k \in DOMAIN calls' : CompleteRight(calls'[k], disturbed')
<1>1. CASE calls' = <<>>
  BY <1>1
<1>2. ASSUME NEW c, calls' = << c >>, CompleteRight(c, disturbed), UNCHANGED disturbed
      PROVE  \A k \in DOMAIN calls' : CompleteRight(calls'[k], disturbed')
  BY <1>2
<1>3. CASE TimeOut
  <2>1. \A k \in DOMAIN calls' : \E i \in timedOut : calls'[k] = Call("TIMEOUT_ERROR", rcv[i])
    BY <1>3, TypesTimeOut
  <2> QED
    BY <2>1, CallIs DEF CompleteRight
<1>4. CASE UNCHANGED vars
  BY <1>4 DEF vars, channel
<1>5. ASSUME NEW f \in Frames, NEW i \in ReceiveContexts, UNCHANGED disturbed,
             \/ calls' = <<Call("SEQUENCE_ERROR", rcv[i])>>
             \/ calls' = <<Call("TRUNCATED", consumed(f, rcv[i]))>>
      PROVE  \A k \in DOMAIN calls' : CompleteRight(calls'[k], disturbed')
  BY <1>2, <1>5, CallIs DEF CompleteRight
<1>6. ASSUME NEW f \in Frames, NEW i \in ReceiveContexts, Consume(f, i), UNCHANGED disturbed,
             allReceived(consumed(f, rcv[i])),
             calls' = <<Call(statusOf(consumed(f, rcv[i])), consumed(f, rcv[i]))>>
      PROVE  \A k \in DOMAIN calls' : CompleteRight(calls'[k], disturbed')
  <2> DEFINE r == consumed(f, rcv[i])
  <2>1. r.canid = rcv[i].canid /\ r.stream = rcv[i].stream /\ r.body = rcv[i].body
    BY <1>6, Received
  <2>2. rcv[i].in_use
    BY <1>6, Matched DEF Consume
  <2>3. Unharmed(rcv[i], disturbed) /\ rcv[i].body # <<>> => r.buffer = rcv[i].body
    BY <1>6, ReceivedWhole
  <2> HIDE DEF r
  <2>4. CompleteRight(Call(statusOf(r), r), disturbed)
    BY <2>1, <2>2, <2>3, CallIs DEF CompleteRight, Unharmed
  <2> QED
    BY <1>2, <1>6, <2>4 DEF r
<1> QED
  BY <1>1, <1>3, <1>4, <1>5, <1>6, CalledBy

-----------------------------------------------------------------------------
(* The errors that are reported.                                            *)

\* The receiver computes CRCs, or no node sends them.
CrcsAgree == _use_crc \/ CrcSenders = {}

\* Time passes only when nothing else is to be done, and a receiver waits for
\* longer than a sender.
TimeEnough == PROMPT /\ _receive_timeout > _msg_delay

\* A receive context of a stream no fault has hit has waited no longer than its
\* sender, which sends the next fragment in time.
Young ==
    \A s \in Sender, c \in Streams : <<s, c>> \notin disturbed =>
       \A i \in ReceiveContexts : Holds(rcv[i], s, c) =>
          /\ rcv[i].age <= _msg_delay
          /\ NoneKeyed(rx, s, c, 1, Len(rx)) =>
                \A j \in SendContexts :
                   snd[s][j].in_use /\ snd[s][j].stream = c => rcv[i].age <= snd[s][j].gap

\* A frame of the stream that has come in is in the queue.
LEMMA ArrivedKeyed ==
    ASSUME ChannelTypes, ChannelTypes', NEW f \in Frames, NEW n \in {0, 1, 2}, Arrived(f, n),
           NEW s, NEW c
    PROVE  /\ disturbed \subseteq disturbed'
           /\ NoneKeyed(rx', s, c, 1, Len(rx')) => NoneKeyed(rx, s, c, 1, Len(rx))
           /\ Keyed(f, s, c) /\ NoneKeyed(rx', s, c, 1, Len(rx')) => <<s, c>> \in disturbed'
<1>1. /\ Len(rx) \in Nat /\ Len(rx') = Len(rx) + n
      /\ \A j \in 1 .. Len(rx) : rx'[j] = rx[j]
      /\ \A j \in Len(rx) + 1 .. Len(rx) + n : rx'[j] = f
      /\ n = 1 => disturbed' = disturbed
      /\ n # 1 => disturbed' = disturbed \cup {<<f.canid, f.stream>>}
  BY DEF ChannelTypes, Arrived
<1>2. ASSUME NoneKeyed(rx', s, c, 1, Len(rx'))
      PROVE  NoneKeyed(rx, s, c, 1, Len(rx))
  <2>1. \A j \in 1 .. Len(rx) : j \in 1 .. Len(rx')
    BY <1>1
  <2> QED
    BY <1>1, <1>2, <2>1 DEF NoneKeyed
<1>3. ASSUME Keyed(f, s, c), NoneKeyed(rx', s, c, 1, Len(rx'))
      PROVE  <<s, c>> \in disturbed'
  <2>1. CASE n = 0
    BY <1>1, <1>3, <2>1 DEF Keyed
  <2>2. CASE n # 0
    <3>1. Len(rx) + 1 \in 1 .. Len(rx') /\ Len(rx) + 1 \in Len(rx) + 1 .. Len(rx) + n
      BY <1>1, <2>2
    <3>2. rx'[Len(rx) + 1] = f
      BY <1>1, <3>1
    <3> QED
      BY <1>3, <3>1, <3>2 DEF NoneKeyed
  <2> QED
    BY <2>1, <2>2
<1> QED
  BY <1>1, <1>2, <1>3

\* The age of a context that is waited for stays below the delay: by sending,
LEMMA YoungSends ==
    ASSUME Types, Young,
           \/ \E s \in Sender, stream \in Streams : \E kind \in Messages[s] :
                 sendMultipartMessage(s, stream, kind[1], kind[2])
           \/ \E s \in Sender : Process(s)
    PROVE  Young'
<1>1. ASSUME NEW s \in Sender, NEW f \in Frames, NEW n \in {0, 1, 2}, Arrived(f, n), Types', UNCHANGED rcv,
             f.canid = s, \A t \in Sender, j \in SendContexts :
                (t = s /\ snd'[t][j].in_use /\ snd'[t][j].stream = f.stream) \/ snd'[t][j] = snd[t][j]
                \/ ~snd'[t][j].in_use
      PROVE  Young'
  <2> SUFFICES ASSUME NEW t \in Sender, NEW c \in Streams, <<t, c>> \notin disturbed',
                      NEW i \in ReceiveContexts, Holds(rcv[i], t, c)
               PROVE  /\ rcv[i].age <= _msg_delay
                      /\ NoneKeyed(rx', t, c, 1, Len(rx')) =>
                            \A j \in SendContexts :
                               snd'[t][j].in_use /\ snd'[t][j].stream = c => rcv[i].age <= snd'[t][j].gap
    BY <1>1 DEF Young
  <2>1. /\ disturbed \subseteq disturbed'
        /\ NoneKeyed(rx', t, c, 1, Len(rx')) => NoneKeyed(rx, t, c, 1, Len(rx)) /\ ~Keyed(f, t, c)
    BY <1>1, ArrivedKeyed DEF Types
  <2>2. /\ rcv[i].age <= _msg_delay
        /\ NoneKeyed(rx, t, c, 1, Len(rx)) =>
              \A j \in SendContexts :
                 snd[t][j].in_use /\ snd[t][j].stream = c => rcv[i].age <= snd[t][j].gap
    BY <2>1 DEF Young
  <2>3. ASSUME NoneKeyed(rx', t, c, 1, Len(rx')), NEW j \in SendContexts,
               snd'[t][j].in_use, snd'[t][j].stream = c
        PROVE  rcv[i].age <= snd'[t][j].gap
    <3>1. snd'[t][j] = snd[t][j]
      BY <1>1, <2>1, <2>3 DEF Keyed
    <3> QED
      BY <2>1, <2>2, <2>3, <3>1
  <2> QED
    BY <2>2, <2>3
<1>2. ASSUME NEW s \in Sender, NEW stream \in Streams, NEW kind \in Messages[s],
             sendMultipartMessage(s, stream, kind[1], kind[2])
      PROVE  Young'
  <2>1. PICK m \in SendRecords, n \in {0, 1, 2} :
           /\ m.in_use /\ m.stream = stream /\ m.len \in Lengths
           /\ snd' = [snd EXCEPT ![s][freeSend(s)] = m] /\ Arrived(Header(s, m), n)
    BY <1>2, TypesSend
  <2>2. Types' /\ UNCHANGED rcv /\ freeSend(s) \in AllContexts
    BY <1>2, TypesSend, FreeSendIs DEF Types
  <2>3. /\ snd'[s][freeSend(s)] = m
        /\ \A t \in Sender, j \in AllContexts : t # s \/ j # freeSend(s) => snd'[t][j] = snd[t][j]
    BY <2>1, <2>2, OneContext DEF Types, SenderTypes
  <2> DEFINE f == Header(s, m)
  <2>4. f \in Frames /\ f.canid = s /\ f.stream = stream
    BY <2>1, AHeader
  <2> HIDE DEF f
  <2>5. Arrived(f, n)
    BY <2>1 DEF f
  <2>6. \A t \in Sender, j \in SendContexts :
           (t = s /\ snd'[t][j].in_use /\ snd'[t][j].stream = f.stream) \/ snd'[t][j] = snd[t][j]
           \/ ~snd'[t][j].in_use
    BY <2>1, <2>3, <2>4, ContextsAre
  <2> QED
    BY <1>1, <2>2, <2>4, <2>5, <2>6
<1>3. ASSUME NEW s \in Sender, Process(s)
      PROVE  Young'
  <2> DEFINE i == context[s]
             m == snd[s][i]
             a == afterFragment(m)
             f == Fragment(s, m)
  <2>1. Types' /\ UNCHANGED rcv /\ i \in SendContexts
    BY <1>3, TypesProcess
  <2>2. CASE UNCHANGED <<snd, rx, faults, disturbed>>
    BY <2>1, <2>2 DEF Young
  <2>3. ASSUME NEW n \in {0, 1, 2}, due(m), snd' = [snd EXCEPT ![s][i] = a], Arrived(f, n)
        PROVE  Young'
    <3>1. snd \in [Sender -> [AllContexts -> SendRecords]] /\ i \in AllContexts
      BY <2>1, ContextsAre DEF Types, SenderTypes
    <3>2. m \in SendRecords
      <4> HIDE DEF i
      <4> QED
        BY <3>1
    <3> HIDE DEF i, m
    <3>3. a \in SendRecords /\ (a.in_use => a.stream = m.stream)
      BY <3>2, Advanced
    <3>4. f \in Frames /\ f.canid = s /\ f.stream = m.stream
      BY <3>2, AFragment
    <3> HIDE DEF a, f
    <3>5. /\ snd'[s][i] = a
          /\ \A t \in Sender, j \in AllContexts : t # s \/ j # i => snd'[t][j] = snd[t][j]
      BY <2>3, <3>1, <3>3, OneContext
    <3>6. \A t \in Sender, j \in SendContexts :
             (t = s /\ snd'[t][j].in_use /\ snd'[t][j].stream = f.stream) \/ snd'[t][j] = snd[t][j]
             \/ ~snd'[t][j].in_use
      BY <3>3, <3>4, <3>5, ContextsAre
    <3> QED
      BY <1>1, <2>1, <2>3, <3>4, <3>6
  <2> QED
    BY <1>3, <2>2, <2>3, TypesProcess
<1> QED
  BY <1>2, <1>3

\* by handling a frame,
LEMMA YoungHandle ==
    ASSUME Types, Right, Ordered, Young, HandleFragment
    PROVE  Young'
<1>1. PICK f \in Frames : f = rx[1] /\ Handles(f) /\ Handling(f)
  BY TypesHandle DEF Handling
<1>2. UNCHANGED <<snd, disturbed>> /\ Types'
  BY TypesHandle
<1>3. /\ Len(rx) \in Nat /\ DOMAIN rx = 1 .. Len(rx) /\ DOMAIN rx' = 1 .. Len(rx) - 1
      /\ \A j \in DOMAIN rx' : rx'[j] = rx[j + 1]
  BY <1>1, Handled DEF Types
<1>4. Len(rx') \in Nat /\ Len(rx') = Len(rx) - 1 /\ Len(rx) >= 1
  <2>1. rx \in Seq(Frames) /\ rx # <<>> /\ rx' = Tail(rx)
    BY <1>1 DEF Handles, Types, ChannelTypes
  <2> QED
    BY <2>1
<1> SUFFICES ASSUME NEW t \in Sender, NEW c \in Streams, <<t, c>> \notin disturbed,
                    NEW i \in ReceiveContexts, Holds(rcv'[i], t, c)
             PROVE  /\ rcv'[i].age <= _msg_delay
                    /\ NoneKeyed(rx', t, c, 1, Len(rx')) =>
                          \A j \in SendContexts :
                             snd[t][j].in_use /\ snd[t][j].stream = c => rcv'[i].age <= snd[t][j].gap
  BY <1>2 DEF Young
<1>5. CASE Keyed(f, t, c)
  <2>1. rcv'[i].age = 0
    BY <1>1, <1>5, HandledSame
  <2>2. \A j \in SendContexts : snd[t][j].gap \in Nat
    <3>1. \A j \in SendContexts : snd[t][j] \in SendRecords
      BY ContextsAre DEF Types, SenderTypes
    <3>2. \A j \in SendContexts : snd[t][j].gap \in 0 .. _msg_delay
      BY <3>1 DEF SendRecords
    <3> QED
      BY <3>2, Parameters
  <2> QED
    BY <2>1, <2>2, Parameters
<1>6. CASE ~Keyed(f, t, c)
  <2>1. rcv'[i] = rcv[i]
    BY <1>1, <1>6, HandledOther
  <2>2. NoneKeyed(rx', t, c, 1, Len(rx')) => NoneKeyed(rx, t, c, 1, Len(rx))
    <3> SUFFICES ASSUME NoneKeyed(rx', t, c, 1, Len(rx')), NEW j \in 1 .. Len(rx)
                 PROVE  ~Keyed(rx[j], t, c)
      BY DEF NoneKeyed
    <3>1. CASE j = 1
      BY <1>1, <1>6, <3>1
    <3>2. CASE j # 1
      <4>1. j - 1 \in 1 .. Len(rx') /\ j - 1 \in DOMAIN rx' /\ j - 1 + 1 = j
        BY <1>3, <1>4, <3>2
      <4>2. rx'[j - 1] = rx[j]
        BY <1>3, <4>1
      <4> QED
        BY <4>1, <4>2 DEF NoneKeyed
    <3> QED
      BY <3>1, <3>2
  <2> QED
    BY <2>1, <2>2 DEF Young
<1> QED
  BY <1>5, <1>6

\* by a tick, which comes only when nothing is due,
LEMMA YoungTick ==
    ASSUME TimeEnough, Types, Ordered, Young, Tick
    PROVE  Young'
<1>1. UNCHANGED <<rx, disturbed>>
  BY TypesTick
<1>2. rx = <<>> /\ \A s \in Sender, j \in SendContexts : ~due(snd[s][j])
  BY DEF Tick, TimeEnough, busy
<1> SUFFICES ASSUME NEW t \in Sender, NEW c \in Streams, <<t, c>> \notin disturbed,
                    NEW i \in ReceiveContexts, Holds(rcv'[i], t, c)
             PROVE  /\ rcv'[i].age <= _msg_delay
                    /\ \A j \in SendContexts :
                          snd'[t][j].in_use /\ snd'[t][j].stream = c => rcv'[i].age <= snd'[t][j].gap
  BY <1>1 DEF Young
<1>3. rcv[i] \in ReceiveRecords /\ ToReceive(rcv[i])
  BY DEF Types, ReceiverTypes
<1>4. PICK age \in 0 .. _receive_timeout :
         age = older(rcv[i]) /\ rcv'[i] = [rcv[i] EXCEPT !.age = age]
  BY TypesTick
<1>5. /\ rcv'[i].in_use = rcv[i].in_use /\ rcv'[i].canid = rcv[i].canid
      /\ rcv'[i].stream = rcv[i].stream /\ rcv'[i].age = age
  BY <1>3, <1>4, Aged
<1>6. Holds(rcv[i], t, c)
  BY <1>5 DEF Holds
<1>7. rcv[i].age \in Nat /\ age <= rcv[i].age + 1
  <2>1. rcv[i].age \in 0 .. _receive_timeout
    BY <1>3 DEF ReceiveRecords
  <2> QED
    BY <1>4, <2>1, Parameters DEF older
<1>8. \A j \in SendContexts :
         /\ snd[t][j].gap \in Nat /\ (snd[t][j].in_use => snd[t][j].gap < _msg_delay)
         /\ snd'[t][j].in_use = snd[t][j].in_use /\ snd'[t][j].stream = snd[t][j].stream
         /\ snd'[t][j].gap = longer(snd[t][j])
  <2> SUFFICES ASSUME NEW j \in SendContexts
               PROVE  /\ snd[t][j].gap \in Nat /\ (snd[t][j].in_use => snd[t][j].gap < _msg_delay)
                      /\ snd'[t][j].in_use = snd[t][j].in_use
                      /\ snd'[t][j].stream = snd[t][j].stream
                      /\ snd'[t][j].gap = longer(snd[t][j])
    OBVIOUS
  <2>1. snd[t][j] \in SendRecords /\ j \in AllContexts
    BY ContextsAre DEF Types, SenderTypes
  <2>2. snd[t][j].gap \in 0 .. _msg_delay
    BY <2>1 DEF SendRecords
  <2>3. PICK gap \in 0 .. _msg_delay :
           gap = longer(snd[t][j]) /\ snd'[t][j] = [snd[t][j] EXCEPT !.gap = gap]
    BY <2>1, TypesTick
  <2>4. /\ snd'[t][j].in_use = snd[t][j].in_use /\ snd'[t][j].stream = snd[t][j].stream
        /\ snd'[t][j].gap = gap
    BY <2>1, <2>3, Waited
  <2>5. snd[t][j].gap \in Nat /\ (snd[t][j].in_use => snd[t][j].gap < _msg_delay)
    BY <1>2, <2>2, Parameters DEF due
  <2> QED
    BY <2>3, <2>4, <2>5
<1>9. NoneKeyed(rx, t, c, 1, Len(rx)) /\ NoneKeyed(rx, t, c, 0 + 1, Len(rx)) /\ Len(rx) = 0
  <2>1. Len(rx) = 0
    BY <1>2
  <2>2. \A j \in 1 .. Len(rx) : FALSE
    BY <2>1
  <2> QED
    BY <2>1, <2>2 DEF NoneKeyed
<1>10. PICK k \in SendContexts : snd[t][k].in_use /\ snd[t][k].stream = c
  <2>1. NextIs(rx, t, c, 0, Fragments(rcv[i].body, rcv[i].expected),
               Sends(snd[t], c, rcv[i].body, rcv[i].expected))
    BY <1>6 DEF Ordered, InOrderOn, Awaited, Continued
  <2>2. \A n \in 0 + 1 .. Len(rx) : FALSE
    BY <1>9
  <2> QED
    BY <2>1, <2>2 DEF NextIs, Sends
<1>11. \A j \in SendContexts :
          snd[t][j].in_use /\ snd[t][j].stream = c => rcv[i].age <= snd[t][j].gap
  BY <1>6, <1>9 DEF Young
<1>12. age <= _msg_delay
  BY <1>4, <1>7, <1>8, <1>10, <1>11, Parameters
<1>13. ASSUME NEW j \in SendContexts, snd'[t][j].in_use, snd'[t][j].stream = c
       PROVE  age <= snd'[t][j].gap
  <2>1. snd[t][j].in_use /\ snd[t][j].stream = c /\ snd[t][j].gap < _msg_delay
    BY <1>8, <1>13
  <2>2. snd'[t][j].gap = snd[t][j].gap + 1
    BY <1>8, <2>1 DEF longer
  <2> QED
    BY <1>4, <1>7, <1>8, <1>11, <2>1, <2>2
<1> QED
  BY <1>5, <1>12, <1>13

\* and so by any step.
LEMMA YoungNext ==
    ASSUME TimeEnough, Types, Right, Ordered, Young, [Next]_vars
    PROVE  Young'
<1>1. CASE TimeOut
  <2>1. /\ UNCHANGED <<snd, rx, disturbed>>
        /\ \A i \in ReceiveContexts : rcv'[i] = freed \/ rcv'[i] = rcv[i]
    BY <1>1, TypesTimeOut
  <2> QED
    BY <2>1, Fresh DEF Young, Holds
<1>2. CASE RestartReceiver
  <2>1. \A i \in ReceiveContexts : ~rcv'[i].in_use
    BY <1>2, TypesRestartReceiver, Fresh
  <2> QED
    BY <2>1 DEF Young, Holds
<1>3. ASSUME NEW s \in Sender, RestartSender(s)
      PROVE  Young'
  <2>1. /\ UNCHANGED <<rx, rcv>> /\ disturbed' = disturbed \cup ({s} \X Streams)
        /\ \A c \in Sender : c # s => snd'[c] = snd[c]
    BY <1>3, TypesRestartSender
  <2> QED
    BY <2>1 DEF Young
<1>4. CASE UNCHANGED vars
  BY <1>4 DEF vars, sending, channel, Young
<1> QED
  BY <1>1, <1>2, <1>3, <1>4, YoungSends, YoungHandle, YoungTick DEF Next

\* What is said of one report.
Isolated(c, D) == InSequence(c, D) /\ InTime(c, D) /\ CrcAgrees(c, D)

\* No step reports an error on a stream no fault has hit.
LEMMA IsolatedNext ==
    ASSUME CrcsAgree, TimeEnough, Types, Right, Ordered, Pieces, Young, [Next]_vars,
           \A k \in DOMAIN calls : Isolated(calls[k], disturbed)
    PROVE  \A k \in DOMAIN calls' : Isolated(calls'[k], disturbed')
<1>1. CASE calls' = <<>>
  BY <1>1
<1>2. ASSUME NEW c, calls' = << c >>, Isolated(c, disturbed), UNCHANGED disturbed
      PROVE  \A k \in DOMAIN calls' : Isolated(calls'[k], disturbed')
  BY <1>2
<1>3. CASE TimeOut
  <2>1. UNCHANGED disturbed /\ timedOut \subseteq ReceiveContexts
    BY <1>3, TypesTimeOut
  <2>2. ASSUME NEW i \in timedOut
        PROVE  <<rcv[i].canid, rcv[i].stream>> \in disturbed
    <3>1. i \in ReceiveContexts /\ rcv[i].in_use /\ rcv[i].age >= _receive_timeout
      BY <2>1 DEF timedOut
    <3>2. rcv[i] \in ReceiveRecords /\ rcv[i].canid \in Sender
      BY <3>1 DEF Types, ReceiverTypes, Right, ReceiveRight
    <3>3. rcv[i].stream \in Streams /\ rcv[i].age \in 0 .. _receive_timeout
      BY <3>2 DEF ReceiveRecords
    <3>4. Holds(rcv[i], rcv[i].canid, rcv[i].stream)
      BY <3>1 DEF Holds
    <3>5. ~(rcv[i].age <= _msg_delay)
      BY <3>1, <3>3, Parameters DEF TimeEnough
    <3> QED
      BY <3>1, <3>2, <3>3, <3>4, <3>5 DEF Young
  <2>3. \A i \in timedOut : Isolated(Call("TIMEOUT_ERROR", rcv[i]), disturbed)
    BY <2>2, CallIs DEF Isolated, InSequence, InTime, CrcAgrees
  <2>4. \A k \in DOMAIN calls' : \E i \in timedOut : calls'[k] = Call("TIMEOUT_ERROR", rcv[i])
    BY <1>3, TypesTimeOut
  <2> QED
    BY <2>1, <2>3, <2>4
<1>4. CASE UNCHANGED vars
  BY <1>4 DEF vars, channel
<1>5. ASSUME NEW f \in Frames, NEW i \in ReceiveContexts, UNCHANGED disturbed,
             WrongSequence(f, i), calls' = <<Call("SEQUENCE_ERROR", rcv[i])>>
      PROVE  \A k \in DOMAIN calls' : Isolated(calls'[k], disturbed')
  <2>1. <<rcv[i].canid, rcv[i].stream>> \in disturbed
    BY <1>5, NextComes DEF WrongSequence
  <2>2. Isolated(Call("SEQUENCE_ERROR", rcv[i]), disturbed)
    BY <2>1, CallIs DEF Isolated, InSequence, InTime, CrcAgrees
  <2> QED
    BY <1>2, <1>5, <2>2
<1>6. ASSUME NEW f \in Frames, NEW i \in ReceiveContexts, UNCHANGED disturbed,
             calls' = <<Call("TRUNCATED", consumed(f, rcv[i]))>>
      PROVE  \A k \in DOMAIN calls' : Isolated(calls'[k], disturbed')
  <2>1. Isolated(Call("TRUNCATED", consumed(f, rcv[i])), disturbed)
    BY CallIs DEF Isolated, InSequence, InTime, CrcAgrees
  <2> QED
    BY <1>2, <1>6, <2>1
<1>7. ASSUME NEW f \in Frames, NEW i \in ReceiveContexts, Consume(f, i), UNCHANGED disturbed,
             allReceived(consumed(f, rcv[i])),
             calls' = <<Call(statusOf(consumed(f, rcv[i])), consumed(f, rcv[i]))>>
      PROVE  \A k \in DOMAIN calls' : Isolated(calls'[k], disturbed')
  <2> DEFINE r == consumed(f, rcv[i])
  <2>1. /\ r.canid = rcv[i].canid /\ r.stream = rcv[i].stream /\ r.body = rcv[i].body
        /\ r.crc = <<>> \/ r.crc = r.body
        /\ CrcSenders = {} => r.crc = <<>>
    BY <1>7, Received
  <2>2. rcv[i].in_use
    BY <1>7, Matched DEF Consume
  <2>3. Unharmed(rcv[i], disturbed) /\ rcv[i].body # <<>> => r.buffer = rcv[i].body
    BY <1>7, ReceivedWhole
  <2> HIDE DEF r
  <2>4. ASSUME statusOf(r) = "CRC_ERROR", <<r.canid, r.stream>> \notin disturbed, Whole(r.body)
        PROVE  FALSE
    <3>1. r.crc # <<>> /\ ~(_use_crc /\ r.buffer = r.body)
      BY <2>1, <2>4, StatusIs
    <3>2. _use_crc /\ r.body # <<>>
      BY <2>1, <3>1 DEF CrcsAgree
    <3>3. r.buffer = r.body
      BY <2>1, <2>2, <2>3, <2>4, <3>2 DEF Unharmed
    <3> QED
      BY <3>1, <3>2, <3>3
  <2>5. statusOf(r) \in {"COMPLETE", "CRC_ERROR"}
    BY <2>1, StatusIs
  <2>6. Isolated(Call(statusOf(r), r), disturbed)
    BY <2>4, <2>5, CallIs DEF Isolated, InSequence, InTime, CrcAgrees
  <2> QED
    BY <1>2, <1>7, <2>6 DEF r
<1> QED
  BY <1>1, <1>3, <1>4, <1>5, <1>6, <1>7, CalledBy

-----------------------------------------------------------------------------
(* The theorems.                                                            *)

\* At the start nothing is told or held.
LEMMA NothingYet == Init => calls = <<>> /\ Pieces /\ Young
<1> SUFFICES ASSUME Init
             PROVE  calls = <<>> /\ Pieces /\ Young
  OBVIOUS
<1>1. calls = <<>> /\ rcv = [i \in ReceiveContexts |-> freed] /\ ~freed.in_use
  BY Fresh DEF Init
<1> QED
  BY <1>1 DEF Pieces, Unharmed, Young, Holds

\* A message with a CRC that is reported complete is the one that was sent, byte
\* for byte, whatever frames were lost or repeated and whoever restarted, as long
\* as no sequence number wraps.
THEOREM CrcTells ==
    ASSUME NoWrap
    PROVE  Spec => [](\A k \in DOMAIN calls :
                         calls[k].status = "COMPLETE" /\ calls[k].crc # <<>> => calls[k].data = calls[k].body)
<1> DEFINE IInv == Types /\ Right /\ \A k \in DOMAIN calls : CrcRight(calls[k])
<1>1. Init => IInv
  BY TypesInit, RightInit, NothingYet
<1>2. IInv /\ [Next]_vars => IInv'
  BY TypesNext, RightNext, CrcNext
<1>3. IInv => \A k \in DOMAIN calls :
         calls[k].status = "COMPLETE" /\ calls[k].crc # <<>> => calls[k].data = calls[k].body
  BY DEF CrcRight
<1> QED
  BY <1>1, <1>2, <1>3, PTL DEF Spec

\* The inductive invariant of a message that is reported complete.
CompleteInv ==
    /\ Types /\ Right /\ OneSender /\ Ordered /\ Pieces
    /\ \A k \in DOMAIN calls : CrcRight(calls[k])
    /\ \A k \in DOMAIN calls : CompleteRight(calls[k], disturbed)

\* The invariant of complete messages holds at the start and after every step.
LEMMA CompleteInvKept ==
    ASSUME NoWrap, EnoughContexts
    PROVE  (Init => CompleteInv) /\ (CompleteInv /\ [Next]_vars => CompleteInv')
<1>1. Init => CompleteInv
  BY TypesInit, RightInit, OrderedInit, NothingYet DEF CompleteInv
<1>2. CompleteInv /\ [Next]_vars => CompleteInv'
  BY TypesNext, RightNext, OneSenderNext, OrderedNext, PiecesNext, CrcNext, CompleteNext DEF CompleteInv
<1> QED
  BY <1>1, <1>2

\* A message that is reported complete is the one whose header opened the context,
\* with a CRC or on a stream no fault has hit (CompleteIsSent).
THEOREM CompleteMessagesAreSent ==
    ASSUME NoWrap, EnoughContexts
    PROVE  Spec => []CompleteIsSent
<1>1. Init => CompleteInv
  BY CompleteInvKept
<1>2. CompleteInv /\ [Next]_vars => CompleteInv'
  BY CompleteInvKept
<1>3. CompleteInv => CompleteIsSent
  BY WholeIs DEF CompleteInv, CrcRight, CompleteRight, CompleteIsSent
<1> QED
  BY <1>1, <1>2, <1>3, PTL DEF Spec

\* A stream that nothing was lost or repeated of is never reported with an error,
\* whatever happens to the others (StreamsIsolated).
THEOREM StreamsAreIsolated ==
    ASSUME NoWrap, EnoughContexts, CrcsAgree, TimeEnough
    PROVE  Spec => []StreamsIsolated
<1> DEFINE IInv == CompleteInv /\ Young /\ \A k \in DOMAIN calls : Isolated(calls[k], disturbed)
<1>1. Init => IInv
  BY CompleteInvKept, NothingYet
<1>2. IInv /\ [Next]_vars => IInv'
  BY CompleteInvKept, YoungNext, IsolatedNext DEF CompleteInv
<1>3. IInv => StreamsIsolated
  BY WholeIs DEF Isolated, InSequence, InTime, CrcAgrees, StreamsIsolated
<1> QED
  BY <1>1, <1>2, <1>3, PTL DEF Spec

=============================================================================
