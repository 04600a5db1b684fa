------------------------------ MODULE Multipart ------------------------------
(***************************************************************************)
(* Lite multipart messages (MLCBMultipartMessage): some nodes send, each one *)
(* message at a time, and one node receives, one message at a time.        *)
(*                                                                         *)
(* A message is a header, sequence number 0, and fragments of PAYLOAD      *)
(* bytes, numbered from 1, which the sender's process() sends at intervals. *)
(* The receiver follows one stream of one sender until the message is      *)
(* complete, a number is wrong, or no fragment has come for some time, and *)
(* hands the sketch what it has each time its buffer is full.              *)
(*                                                                         *)
(* The CAN bus and the drivers are external: rx is the queue of frames the *)
(* receiver has not handled; a frame can be lost or come twice.  A byte of *)
(* message m is <<m, k>>, its k-th one; Pad is the zero that fills up the  *)
(* last fragment.                                                          *)
(***************************************************************************)
EXTENDS Integers, SequencesExt

CONSTANTS
    Sender,           \* the sending nodes, by CAN id
    Streams,          \* stream ids in use
    _stream_ids,      \* those the receiver has subscribed to
    Lengths,          \* message lengths
    PAYLOAD,          \* bytes in a fragment, 5 in the code
    SEQ_MOD,          \* numbers in the sequence byte, 256 in the code
    _receive_buffer_len,
    _receive_timeout, \* ticks without a fragment before the receiver gives up
    _msg_delay,       \* ticks between the fragments of a sender
    RX_SIZE,          \* frames the receiver's queue holds
    MAX_MESSAGES,     \* bound on the messages sent
    MAX_FAULTS        \* bound on lost and repeated frames and restarts

ASSUME MultipartAssumption ==
    /\ Streams # {} /\ _stream_ids \subseteq Streams
    /\ Lengths \subseteq Nat
    /\ {PAYLOAD, SEQ_MOD, _receive_buffer_len, _receive_timeout, RX_SIZE} \subseteq Nat \ {0}
    /\ {_msg_delay, MAX_MESSAGES, MAX_FAULTS} \subseteq Nat

VARIABLES
    snd,         \* each sender: stream, length, bytes sent, next number, timer
    rx,          \* frames on their way to the receiver
    rcv,         \* the receiver's variables
    calls,       \* the calls of the sketch's handler in the last step
    sent,        \* the number of messages begun
    faults,      \* the number of faults used
    got,         \* history: bytes surfaced since the last accepted header
    source,      \* history: the message of that header and its length
    undisturbed, \* history: no fragment was ignored since that header
    headerLost,  \* history: some header was lost
    faulty       \* history: some frame was lost or repeated, or a node restarted

sending == <<snd, sent>>
history == <<got, source, undisturbed>>
channel == <<faults, headerLost, faulty>>
vars == <<sending, rx, rcv, calls, history, channel>>

-----------------------------------------------------------------------------
(* Senders.                                                                *)

Pad == <<0, 0>>
byteOf(msg, k) == <<msg, k>>

idle == [msg |-> 0, stream |-> CHOOSE x \in Streams : TRUE, len |-> 0, index |-> 0,
         seq |-> 0, gap |-> _msg_delay]

is_sending(s) == snd[s].index < snd[s].len

\* The header of message msg.  Its bytes are the length and the flags.
Header(s, stream, msg, len) ==
    [canid |-> s, stream |-> stream, seq |-> 0, header |-> TRUE, length |-> len,
     data |-> [k \in 1 .. PAYLOAD |-> byteOf(msg, 0)]]

\* The next fragment of what s sends; its number is cut to a byte.
Fragment(s) ==
    LET m == snd[s]
    IN  [canid |-> s, stream |-> m.stream, seq |-> m.seq % SEQ_MOD, header |-> FALSE,
         length |-> 0,
         data |-> [k \in 1 .. PAYLOAD |->
                     IF m.index + k <= m.len THEN byteOf(m.msg, m.index + k) ELSE Pad]]

\* A frame goes to the receiver's queue, or is lost, always if the queue is
\* full, or comes twice.
Lost(f) ==
    /\ UNCHANGED rx
    /\ headerLost' = (headerLost \/ f.header)
    /\ faulty' = TRUE

sendMessageFragment(f) ==
    \/ Len(rx) < RX_SIZE /\ rx' = Append(rx, f) /\ UNCHANGED channel
    \/ Len(rx) = RX_SIZE /\ Lost(f) /\ UNCHANGED faults
    \/ /\ faults < MAX_FAULTS
       /\ faults' = faults + 1
       /\ \/ Lost(f)
          \/ /\ Len(rx) + 1 < RX_SIZE
             /\ rx' = rx \o <<f, f>>
             /\ faulty' = TRUE
             /\ UNCHANGED headerLost

\* The sketch sends a message; while one is being sent the call is refused.
sendMultipartMessage(s, stream, len) ==
    /\ sent < MAX_MESSAGES
    /\ ~is_sending(s)
    /\ sent' = sent + 1
    /\ snd' = [snd EXCEPT ![s] = [msg |-> sent', stream |-> stream, len |-> len,
                                  index |-> 0, seq |-> 1, gap |-> snd[s].gap]]
    /\ sendMessageFragment(Header(s, stream, sent', len))
    /\ calls' = <<>>
    /\ UNCHANGED <<rcv, history>>

\* Mutant: the last fragment is counted as full.
afterFragmentFull(m) ==
    [m EXCEPT !.index = @ + PAYLOAD, !.seq = @ + 1, !.gap = 0]

afterFragment(m) ==
    [m EXCEPT !.index = IF @ + PAYLOAD < m.len THEN @ + PAYLOAD ELSE m.len,
              !.seq = @ + 1, !.gap = 0]

\* process() of a sender: the next fragment, when the delay has passed.
SendNext(s) ==
    /\ is_sending(s)
    /\ snd[s].gap >= _msg_delay
    /\ snd' = [snd EXCEPT ![s] = afterFragment(@)]
    /\ sendMessageFragment(Fragment(s))
    /\ calls' = <<>>
    /\ UNCHANGED <<rcv, sent, history>>

-----------------------------------------------------------------------------
(* The receiver: processReceivedMessageFragment() and the timeout.         *)

Call(status, data) == [status |-> status, data |-> data]

\* The sketch's handler is called; history: what it has been handed.
surface(cs) ==
    /\ calls' = cs
    /\ got' = got \o FlattenSeq([i \in DOMAIN cs |-> cs[i].data])

\* Mutant: the receiver does not become free.
finishedNotFree(r) == [r EXCEPT !.length = 0, !.received = 0]

\* The end of a message: the buffer, its index and the expected number are left
\* as they are.
finished(r) == [r EXCEPT !._is_receiving = FALSE, !.length = 0, !.received = 0]

\* Every fragment, ignored or not, restarts the timeout and is counted.
counted(r) == [r EXCEPT !.expected = @ + 1, !.age = 0]

\* The length a frame with number 0 announces; a fragment whose number has
\* wrapped to 0 is read as a header too, with whatever its bytes mean.
announced(f) == IF f.header THEN {f.length} ELSE Lengths

Handles(f) == rx # <<>> /\ f = Head(rx) /\ rx' = Tail(rx) /\ UNCHANGED <<sending, channel>>

\* Mutant: the header itself is not counted.
begunUncounted(f, len) ==
    [_is_receiving |-> TRUE, stream |-> f.stream, canid |-> f.canid, length |-> len,
     received |-> 0, buffer |-> <<>>, expected |-> 0, age |-> 0]

\* The receiver after the header of a message of that length.
begun(f, len) ==
    [_is_receiving |-> TRUE, stream |-> f.stream, canid |-> f.canid, length |-> len,
     received |-> 0, buffer |-> <<>>, expected |-> 1, age |-> 0]

StartReceiving(f) ==
    /\ Handles(f)
    /\ ~rcv._is_receiving
    /\ f.seq = 0
    /\ f.stream \in _stream_ids
    /\ \E len \in announced(f) :
          /\ rcv' = begun(f, len)
          /\ source' = [msg |-> f.data[1][1], len |-> len]
    /\ got' = <<>>
    /\ undisturbed' = TRUE
    /\ calls' = <<>>

\* Nothing is being received and the frame is no header to follow: another
\* stream, a number that is not 0, or a wrapped fragment with non-zero flags.
DropIdle(f) ==
    /\ Handles(f)
    /\ ~rcv._is_receiving
    /\ f.seq # 0 \/ f.stream \notin _stream_ids \/ ~f.header
    /\ rcv' = counted(rcv)
    /\ calls' = <<>>
    /\ UNCHANGED history

sameSource(f) == f.canid = rcv.canid /\ f.stream = rcv.stream

\* A fragment of another sender or stream.
IgnoreOther(f) ==
    /\ Handles(f)
    /\ rcv._is_receiving
    /\ ~sameSource(f)
    /\ rcv' = counted(rcv)
    /\ undisturbed' = FALSE
    /\ calls' = <<>>
    /\ UNCHANGED <<got, source>>

\* Mutants: the number is not compared, or only for going backwards.
inSequenceAlways(f) == TRUE
inSequenceAtLeast(f) == f.seq >= rcv.expected

inSequence(f) == f.seq = rcv.expected

WrongSequence(f) ==
    /\ Handles(f)
    /\ rcv._is_receiving
    /\ sameSource(f)
    /\ ~inSequence(f)
    /\ rcv' = finished(counted(rcv))
    /\ surface(<<Call("SEQUENCE_ERROR", rcv.buffer)>>)
    /\ UNCHANGED <<source, undisturbed>>

\* Bytes of a fragment that are taken: up to the end of the message.  A message
\* announced with length 0 is only tested after a byte has been taken.
taken(r) ==
    IF r.length <= r.received THEN 1
    ELSE IF r.length - r.received < PAYLOAD THEN r.length - r.received ELSE PAYLOAD

\* Mutant: whether the buffer is full is only asked after the whole fragment.
buffersFilledLate(n, done) == IF ~done /\ n = _receive_buffer_len THEN 1 ELSE 0

\* How often the buffer is full while n bytes are in it or put into it; the last
\* byte of the message completes it instead.
buffersFilled(n, done) == (IF done THEN n - 1 ELSE n) \div _receive_buffer_len

\* Its contents at those times, and what remains in it.
fullBuffers(bytes, n) ==
    [i \in 1 .. n |-> Call("INCOMPLETE",
        SubSeq(bytes, (i - 1) * _receive_buffer_len + 1, i * _receive_buffer_len))]
remainder(bytes, n) == SubSeq(bytes, n * _receive_buffer_len + 1, Len(bytes))

Consume(f) ==
    /\ Handles(f)
    /\ rcv._is_receiving
    /\ sameSource(f)
    /\ inSequence(f)
    /\ LET n == taken(rcv)
           bytes == rcv.buffer \o SubSeq(f.data, 1, n)
           done == rcv.received + n >= rcv.length
           full == buffersFilled(Len(bytes), done)
           r == [counted(rcv) EXCEPT
                   !.received = @ + n,
                   !.buffer = IF done THEN <<>> ELSE remainder(bytes, full)]
       IN  /\ rcv' = IF done /\ rcv.length > 0 THEN finished(r) ELSE r
           /\ surface(fullBuffers(bytes, full) \o
                      (IF done THEN <<Call("COMPLETE", remainder(bytes, full))>> ELSE <<>>))
    /\ UNCHANGED <<source, undisturbed>>

HandleFragment ==
    /\ rx # <<>>
    /\ LET f == Head(rx)
       IN  StartReceiving(f) \/ DropIdle(f) \/ IgnoreOther(f) \/ WrongSequence(f) \/ Consume(f)

\* Mutant: the sketch is not told.
TimeOutSilent ==
    /\ rcv._is_receiving
    /\ rcv.age >= _receive_timeout
    /\ rcv' = finished(rcv)
    /\ surface(<<>>)
    /\ UNCHANGED <<sending, rx, source, undisturbed, channel>>

\* process() of the receiver.
TimeOut ==
    /\ rcv._is_receiving
    /\ rcv.age >= _receive_timeout
    /\ rcv' = finished(rcv)
    /\ surface(<<Call("TIMEOUT_ERROR", rcv.buffer)>>)
    /\ UNCHANGED <<sending, rx, source, undisturbed, channel>>

-----------------------------------------------------------------------------
(* Time and restarts.                                                      *)

Tick ==
    /\ rcv' = [rcv EXCEPT !.age =
                 IF rcv._is_receiving /\ @ < _receive_timeout THEN @ + 1 ELSE @]
    /\ snd' = [s \in Sender |->
                 [snd[s] EXCEPT !.gap = IF @ < _msg_delay THEN @ + 1 ELSE @]]
    /\ calls' = <<>>
    /\ UNCHANGED <<rx, sent, history, channel>>

Fault ==
    /\ faults < MAX_FAULTS
    /\ faults' = faults + 1
    /\ faulty' = TRUE
    /\ calls' = <<>>
    /\ UNCHANGED <<sent, history, headerLost>>

RestartSender(s) ==
    /\ Fault
    /\ is_sending(s)
    /\ snd' = [snd EXCEPT ![s] = idle]
    /\ UNCHANGED <<rx, rcv>>

atStart ==
    [_is_receiving |-> FALSE, stream |-> CHOOSE x \in Streams : TRUE, canid |-> 0,
     length |-> 0, received |-> 0, buffer |-> <<>>, expected |-> 0, age |-> 0]

RestartReceiver ==
    /\ Fault
    /\ rcv._is_receiving
    /\ rcv' = atStart
    /\ rx' = <<>>
    /\ UNCHANGED snd

Init ==
    /\ snd = [s \in Sender |-> idle]
    /\ rx = <<>>
    /\ rcv = atStart
    /\ calls = <<>>
    /\ sent = 0
    /\ faults = 0
    /\ got = <<>>
    /\ source = [msg |-> 0, len |-> 0]
    /\ undisturbed = TRUE
    /\ headerLost = FALSE
    /\ faulty = FALSE

Next ==
    \/ \E s \in Sender, stream \in Streams, len \in Lengths : sendMultipartMessage(s, stream, len)
    \/ \E s \in Sender : SendNext(s) \/ RestartSender(s)
    \/ HandleFragment
    \/ TimeOut
    \/ Tick
    \/ RestartReceiver

Spec == Init /\ [][Next]_vars

\* Every node calls process() for ever, and time goes on.
Fairness ==
    /\ \A s \in Sender : WF_vars(SendNext(s))
    /\ WF_vars(HandleFragment)
    /\ WF_vars(TimeOut)
    /\ WF_vars(Tick)

FairSpec == Spec /\ Fairness

-----------------------------------------------------------------------------
(* Properties.                                                             *)

TypeOK ==
    /\ snd \in [Sender -> [msg : 0 .. MAX_MESSAGES, stream : Streams, len : Lengths \cup {0},
                           index : Nat, seq : Nat, gap : 0 .. _msg_delay]]
    /\ \A s \in Sender : snd[s].index <= snd[s].len
    /\ Len(rx) <= RX_SIZE
    /\ rcv._is_receiving \in BOOLEAN
    /\ rcv.stream \in Streams
    /\ rcv.length \in Lengths \cup {0}
    /\ {rcv.received, rcv.expected} \subseteq Nat
    /\ rcv.age \in 0 .. _receive_timeout
    /\ faults \in 0 .. MAX_FAULTS

\* A byte is never written behind the end of the receive buffer: between two
\* fragments there is room for at least one (processReceivedMessageFragment).
BufferFits ==
    /\ Len(rcv.buffer) < _receive_buffer_len
    /\ \A i \in DOMAIN calls : Len(calls[i].data) <= _receive_buffer_len

whole(m) == [k \in 1 .. m.len |-> byteOf(m.msg, k)]

surfaced(status) == \E i \in DOMAIN calls : calls[i].status = status

\* A message that is reported complete is the one whose header was accepted,
\* whatever else is lost or repeated, whoever restarts and whoever else sends,
\* unless a header was lost.
CompleteIsSent == surfaced("COMPLETE") /\ ~headerLost => got = whole(source)

\* What the sketch is handed, piece by piece, are the first bytes of that message
\* without a hole, if no fragment was ignored in between.
PiecesArePrefix == undisturbed /\ ~headerLost => IsPrefix(got, whole(source))

\* "a different sender CANID - ignore the fragment": the same, whether fragments
\* were ignored or not.
IgnoredIsHarmless == ~headerLost => IsPrefix(got, whole(source))

\* Every message the receiver has begun ends in exactly one report (complete,
\* wrong sequence, timeout), the last of that step, and none is made otherwise.
EndsOnce ==
    [][LET final == {i \in DOMAIN calls' : calls'[i].status # "INCOMPLETE"}
           ended == rcv._is_receiving /\ ~rcv'._is_receiving /\ faults' = faults
       IN  /\ ended => final # {}
           /\ final # {} => /\ final = {Len(calls')}
                            /\ ended \/ rcv.length = 0]_vars

\* A sequence error is only reported after a fault or an ignored fragment, or
\* after a message without bytes, which the receiver takes for unfinished.
ErrorsHaveCause ==
    surfaced("SEQUENCE_ERROR") => faulty \/ ~undisturbed \/ source.len = 0

\* The receiver does not wait for ever, so it can take the next message.
ReceptionEnds == rcv._is_receiving ~> ~rcv._is_receiving

=============================================================================
