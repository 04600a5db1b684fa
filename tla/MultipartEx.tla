----------------------------- MODULE MultipartEx -----------------------------
(***************************************************************************)
(* Extended multipart messages (MLCBMultipartMessageEx): every node sends   *)
(* several messages at a time, each in a send context, and the receiver     *)
(* follows several at a time, each in a receive context that belongs to one *)
(* stream of one sender.  process() of a sender visits its contexts in turn *)
(* and sends one fragment of the context it visits, if one is due.          *)
(*                                                                          *)
(* A message is a header, sequence number 0, and fragments of PAYLOAD bytes.*)
(* The header carries the CRC of the message.  The CRC is taken to tell any *)
(* two messages apart: it is the message itself, and no bytes stand for the *)
(* value 0.  The bus is external: rx is the queue of frames the receiver    *)
(* has not handled; a frame can be lost or come twice.                      *)
(***************************************************************************)
EXTENDS Integers, SequencesExt

CONSTANTS
    Sender,                \* the sending nodes, by CAN id
    Streams,               \* stream ids in use
    _stream_ids,           \* those the receiver has subscribed to
    Messages,              \* what each node's sketch sends: lengths of messages with
                           \* the place of their first zero byte, 0 if they have none
    PAYLOAD,               \* bytes in a fragment, 5 in the code
    SEQ_MOD,               \* numbers in the sequence byte, 256 in the code
    _num_send_contexts,
    _num_receive_contexts,
    _receive_buffer_len,
    _use_crc,              \* the receiver calls use_crc(true)
    CrcSenders,            \* the senders that do
    _receive_timeout,      \* ticks without a fragment before a context is given up
    _msg_delay,            \* ticks between two fragments of a message
    RX_SIZE,               \* frames the receiver's queue holds
    MAX_MESSAGES,          \* bound on the messages sent
    MAX_FAULTS,            \* bound on lost and repeated frames and restarts
    PROMPT                 \* time passes only when nothing else is to be done

ASSUME MultipartExAssumption ==
    /\ Streams # {} /\ _stream_ids \subseteq Streams /\ CrcSenders \subseteq Sender
    /\ Messages \in [Sender -> SUBSET (Nat \X Nat)]
    /\ {PAYLOAD, SEQ_MOD, _num_send_contexts, _num_receive_contexts, _receive_buffer_len,
        _receive_timeout, RX_SIZE} \subseteq Nat \ {0}
    /\ {_msg_delay, MAX_MESSAGES, MAX_FAULTS} \subseteq Nat
    /\ {_use_crc, PROMPT} \subseteq BOOLEAN

Lengths == UNION {{kind[1] : kind \in Messages[s]} : s \in Sender}

SendContexts == 0 .. _num_send_contexts - 1
ReceiveContexts == 0 .. _num_receive_contexts - 1

\* The memory behind the array of send contexts, which a message sent while
\* none is free is written to.
Beyond == _num_send_contexts

VARIABLES
    snd,       \* the send contexts of each node, and what is Beyond
    context,   \* the context its process() visits next
    rx,        \* frames on their way to the receiver
    rcv,       \* the receive contexts
    calls,     \* the calls of the sketch's handler in the last step
    sent,      \* the number of messages begun
    faults,    \* the number of faults used
    open,      \* history: messages begun and not reported, with their streams
    disturbed  \* history: the streams a fault has hit, with their senders

sending == <<snd, context, sent>>
channel == <<faults, disturbed>>
vars == <<sending, rx, rcv, calls, open, channel>>

-----------------------------------------------------------------------------
(* Messages and frames.  Byte k of message m is <<m, k>>.                   *)

Pad == <<0, 0>>      \* a zero byte
Garbage == <<0, 1>>  \* a byte of memory that is not the message's

message(m) == [k \in 1 .. m.len |-> IF k = m.zero THEN Pad ELSE <<m.msg, k>>]

\* strdup() copies up to the first zero byte.
copied(m) ==
    [k \in 1 .. m.len |-> IF m.zero # 0 /\ k > m.zero THEN Garbage ELSE message(m)[k]]

crc16(bytes) == bytes

\* body is history: the message the frame belongs to.
Header(s, m) ==
    [canid |-> s, stream |-> m.stream, seq |-> 0, header |-> TRUE, msg |-> m.msg,
     length |-> m.len, crc |-> IF s \in CrcSenders THEN crc16(message(m)) ELSE <<>>,
     data |-> <<>>, body |-> message(m)]

Fragment(s, m) ==
    [canid |-> s, stream |-> m.stream, seq |-> m.seq % SEQ_MOD, header |-> FALSE, msg |-> m.msg,
     length |-> 0, crc |-> <<>>, body |-> message(m),
     data |-> [k \in 1 .. PAYLOAD |->
                 IF m.index + k <= m.len THEN copied(m)[m.index + k] ELSE Pad]]

\* A full queue loses the frame, a fault loses or repeats it.
Lost(f) ==
    /\ UNCHANGED rx
    /\ disturbed' = disturbed \cup {<<f.canid, f.stream>>}

sendMessageFragment(f) ==
    \/ Len(rx) < RX_SIZE /\ rx' = Append(rx, f) /\ UNCHANGED channel
    \/ Len(rx) = RX_SIZE /\ Lost(f) /\ UNCHANGED faults
    \/ /\ faults < MAX_FAULTS
       /\ faults' = faults + 1
       /\ \/ Lost(f)
          \/ /\ Len(rx) + 1 < RX_SIZE
             /\ rx' = rx \o <<f, f>>
             /\ disturbed' = disturbed \cup {<<f.canid, f.stream>>}

-----------------------------------------------------------------------------
(* Senders.                                                                *)

\* A context not in use.  Its last_fragment_sent is never initialised, and not
\* set anew when a message is begun.
unused(gap) ==
    [in_use |-> FALSE, msg |-> 0, stream |-> CHOOSE x \in Streams : TRUE, len |-> 0,
     zero |-> 0, index |-> 0, seq |-> 0, gap |-> gap]

alreadySending(s, stream) ==
    \E i \in SendContexts : snd[s][i].in_use /\ snd[s][i].stream = stream

\* The first free context.  The test for "none is free" lets Beyond through.
freeSend(s) == Min({i \in SendContexts : ~snd[s][i].in_use} \cup {Beyond})

\* The sketch sends a message.  The call is refused while one is being sent on
\* the stream.
sendMultipartMessage(s, stream, len, zero) ==
    /\ sent < MAX_MESSAGES
    /\ ~alreadySending(s, stream)
    /\ sent' = sent + 1
    /\ LET i == freeSend(s)
           m == [in_use |-> TRUE, msg |-> sent', stream |-> stream, len |-> len, zero |-> zero,
                 index |-> 0, seq |-> 1, gap |-> snd[s][i].gap]
       IN  /\ snd' = [snd EXCEPT ![s][i] = m]
           /\ sendMessageFragment(Header(s, m))
    /\ open' = open \cup {[msg |-> sent', canid |-> s, stream |-> stream]}
    /\ calls' = <<>>
    /\ UNCHANGED <<context, rcv>>

due(m) == m.in_use /\ m.gap >= _msg_delay

\* A context after a fragment: released with the last one.
afterFragment(m) ==
    IF m.index + PAYLOAD >= m.len THEN unused(m.gap)
    ELSE [m EXCEPT !.index = @ + PAYLOAD, !.seq = @ + 1, !.gap = 0]

\* Mutant: the counter wraps one context too late.
nextContextLate(c) == IF c + 1 > _num_send_contexts THEN 0 ELSE c + 1

nextContext(c) == IF c + 1 >= _num_send_contexts THEN 0 ELSE c + 1

\* Mutant: an idle context is not passed over.
ProcessStuck(s) ==
    /\ LET m == snd[s][context[s]]
       IN  /\ due(m)
           /\ snd' = [snd EXCEPT ![s][context[s]] = afterFragment(m)]
           /\ sendMessageFragment(Fragment(s, m))
    /\ context' = [context EXCEPT ![s] = nextContext(@)]
    /\ calls' = <<>>
    /\ UNCHANGED <<sent, rcv, open>>

\* process() of a sender: the context it visits, and on to the next.
Process(s) ==
    /\ LET m == snd[s][context[s]]
       IN  \/ /\ due(m)
              /\ snd' = [snd EXCEPT ![s][context[s]] = afterFragment(m)]
              /\ sendMessageFragment(Fragment(s, m))
           \/ ~due(m) /\ UNCHANGED <<snd, rx, channel>>
    /\ context' = [context EXCEPT ![s] = nextContext(@)]
    /\ calls' = <<>>
    /\ UNCHANGED <<sent, rcv, open>>

-----------------------------------------------------------------------------
(* The receiver.                                                           *)

\* What a context holds; receive_buffer_index and incoming_bytes_received both
\* are the length of its buffer.  msg and body are history: the message of its header.
freed ==
    [in_use |-> FALSE, stream |-> CHOOSE x \in Streams : TRUE, canid |-> 0, msg |-> 0,
     body |-> <<>>, length |-> 0, crc |-> <<>>, buffer |-> <<>>, expected |-> 0, age |-> 0]

begun(f, length, crc) ==
    [in_use |-> TRUE, stream |-> f.stream, canid |-> f.canid, msg |-> f.msg,
     body |-> f.body, length |-> length, crc |-> crc, buffer |-> <<>>, expected |-> 1, age |-> 0]

Call(status, r) == [status |-> status, msg |-> r.msg, canid |-> r.canid, stream |-> r.stream,
                    body |-> r.body, crc |-> r.crc, data |-> r.buffer]

\* History: messages that are no longer open.
close(msgs) == open' = {w \in open : w.msg \notin msgs}

\* The handler is called with what context i holds, and the context is free.
report(i, r, status) ==
    /\ calls' = <<Call(status, r)>>
    /\ rcv' = [rcv EXCEPT ![i] = freed]
    /\ close({r.msg})

Handles(f) == rx # <<>> /\ f = Head(rx) /\ rx' = Tail(rx) /\ UNCHANGED <<sending, channel>>

freeContexts == {i \in ReceiveContexts : ~rcv[i].in_use}

\* Length and CRC in a frame with number 0; a fragment whose number has wrapped
\* to 0 is read as a header, with whatever its bytes mean.
announced(f) == IF f.header THEN {<<f.length, f.crc>>} ELSE Lengths \X {<<>>, <<Garbage>>}

AcceptHeader(f) ==
    /\ Handles(f)
    /\ f.seq = 0
    /\ f.stream \in _stream_ids
    /\ freeContexts # {}
    /\ \E a \in announced(f) : rcv' = [rcv EXCEPT ![Min(freeContexts)] = begun(f, a[1], a[2])]
    /\ calls' = <<>>
    /\ UNCHANGED open

\* A header of a stream the receiver has not subscribed to, or for which it has
\* no context, or a wrapped fragment with non-zero flags.
DropHeader(f) ==
    /\ Handles(f)
    /\ f.seq = 0
    /\ f.stream \notin _stream_ids \/ freeContexts = {} \/ ~f.header
    /\ close({f.msg})
    /\ calls' = <<>>
    /\ UNCHANGED rcv

\* Mutant: the sender is not compared.
matchingAnySender(f) ==
    {i \in ReceiveContexts : rcv[i].in_use /\ rcv[i].stream = f.stream}

matching(f) ==
    {i \in ReceiveContexts : rcv[i].in_use /\ rcv[i].stream = f.stream /\ rcv[i].canid = f.canid}

DropFragment(f) ==
    /\ Handles(f)
    /\ f.seq # 0
    /\ matching(f) = {}
    /\ calls' = <<>>
    /\ UNCHANGED <<rcv, open>>

\* The frame is a fragment for context i.
Continues(f, i) ==
    /\ Handles(f)
    /\ f.seq # 0
    /\ matching(f) # {}
    /\ i = Min(matching(f))

WrongSequence(f, i) ==
    /\ Continues(f, i)
    /\ f.seq # rcv[i].expected
    /\ report(i, rcv[i], "SEQUENCE_ERROR")

least(a, b) == IF a < b THEN a ELSE b

\* The context after its part of the fragment: up to the end of the message or
\* of the buffer.  A message of length 0 is complete with its first byte.
consumed(f, r) ==
    LET missing == IF r.length = 0 THEN 1 ELSE r.length - Len(r.buffer)
        n == least(PAYLOAD, least(missing, _receive_buffer_len - Len(r.buffer)))
    IN  [r EXCEPT !.buffer = @ \o SubSeq(f.data, 1, n), !.expected = @ + 1, !.age = 0]

allReceived(r) == Len(r.buffer) >= r.length

\* Mutant: the CRC is not compared.
statusUnchecked(r) == "COMPLETE"

\* The CRC is computed only if it is to be used and the header had one.
statusOf(r) ==
    LET tmpcrc == IF _use_crc /\ r.crc # <<>> THEN crc16(r.buffer) ELSE <<>>
    IN  IF r.crc = tmpcrc THEN "COMPLETE" ELSE "CRC_ERROR"

Consume(f, i) ==
    /\ Continues(f, i)
    /\ f.seq = rcv[i].expected
    /\ LET r == consumed(f, rcv[i])
       IN  \/ allReceived(r) /\ report(i, r, statusOf(r))
           \/ /\ ~allReceived(r)
              /\ Len(r.buffer) >= _receive_buffer_len
              /\ report(i, r, "TRUNCATED")
           \/ /\ ~allReceived(r)
              /\ Len(r.buffer) < _receive_buffer_len
              /\ rcv' = [rcv EXCEPT ![i] = r]
              /\ calls' = <<>>
              /\ UNCHANGED open

HandleFragment ==
    /\ rx # <<>>
    /\ LET f == Head(rx)
       IN  \/ AcceptHeader(f)
           \/ DropHeader(f)
           \/ DropFragment(f)
           \/ \E i \in ReceiveContexts : WrongSequence(f, i) \/ Consume(f, i)

\* Mutant: only the first context is looked at.
timedOutFirst == {i \in {0} : rcv[i].in_use /\ rcv[i].age >= _receive_timeout}

timedOut == {i \in ReceiveContexts : rcv[i].in_use /\ rcv[i].age >= _receive_timeout}

\* Contexts in the order in which the array is run through.
inOrder(S) ==
    CHOOSE q \in [1 .. Cardinality(S) -> S] : \A i, j \in DOMAIN q : i < j => q[i] < q[j]

\* Mutant: a context is reported and not freed.
TimeOutKept ==
    /\ timedOut # {}
    /\ calls' = [k \in 1 .. Cardinality(timedOut) |->
                    Call("TIMEOUT_ERROR", rcv[inOrder(timedOut)[k]])]
    /\ rcv' = [i \in ReceiveContexts |-> IF i \in timedOut THEN [rcv[i] EXCEPT !.age = 0] ELSE rcv[i]]
    /\ close({rcv[i].msg : i \in timedOut})
    /\ UNCHANGED <<sending, rx, channel>>

\* process() of the receiver: every context that has waited too long is given up.
TimeOut ==
    /\ timedOut # {}
    /\ calls' = [k \in 1 .. Cardinality(timedOut) |->
                    Call("TIMEOUT_ERROR", rcv[inOrder(timedOut)[k]])]
    /\ rcv' = [i \in ReceiveContexts |-> IF i \in timedOut THEN freed ELSE rcv[i]]
    /\ close({rcv[i].msg : i \in timedOut})
    /\ UNCHANGED <<sending, rx, channel>>

-----------------------------------------------------------------------------
(* Time and restarts.                                                      *)

busy == rx # <<>> \/ timedOut # {} \/ \E s \in Sender, i \in SendContexts : due(snd[s][i])

Tick ==
    /\ PROMPT => ~busy
    /\ rcv' = [i \in ReceiveContexts |->
                 [rcv[i] EXCEPT !.age = IF rcv[i].in_use /\ @ < _receive_timeout THEN @ + 1 ELSE @]]
    /\ snd' = [s \in Sender |-> [i \in DOMAIN snd[s] |->
                 [snd[s][i] EXCEPT !.gap = IF @ < _msg_delay THEN @ + 1 ELSE @]]]
    /\ calls' = <<>>
    /\ UNCHANGED <<context, sent, rx, open, channel>>

Fault(streams) ==
    /\ faults < MAX_FAULTS
    /\ faults' = faults + 1
    /\ disturbed' = disturbed \cup streams
    /\ calls' = <<>>
    /\ UNCHANGED <<sent, open>>

RestartSender(s) ==
    /\ \E i \in SendContexts : snd[s][i].in_use
    /\ Fault({s} \X Streams)
    /\ \E gap \in 0 .. _msg_delay : snd' = [snd EXCEPT ![s] = [i \in DOMAIN snd[s] |-> unused(gap)]]
    /\ context' = [context EXCEPT ![s] = 0]
    /\ UNCHANGED <<rx, rcv>>

RestartReceiver ==
    /\ \E i \in ReceiveContexts : rcv[i].in_use
    /\ Fault(Sender \X Streams)
    /\ rcv' = [i \in ReceiveContexts |-> freed]
    /\ rx' = <<>>
    /\ UNCHANGED <<snd, context>>

Init ==
    /\ \E gap \in 0 .. _msg_delay :
          snd = [s \in Sender |-> [i \in SendContexts \cup {Beyond} |-> unused(gap)]]
    /\ context = [s \in Sender |-> 0]
    /\ rx = <<>>
    /\ rcv = [i \in ReceiveContexts |-> freed]
    /\ calls = <<>>
    /\ sent = 0
    /\ faults = 0
    /\ open = {}
    /\ disturbed = {}

Next ==
    \/ \E s \in Sender, stream \in Streams : \E kind \in Messages[s] :
          sendMultipartMessage(s, stream, kind[1], kind[2])
    \/ \E s \in Sender : Process(s) \/ RestartSender(s)
    \/ HandleFragment
    \/ TimeOut
    \/ Tick
    \/ RestartReceiver

Spec == Init /\ [][Next]_vars

\* Every node calls process() for ever, and time goes on.
Fairness ==
    /\ \A s \in Sender : WF_vars(Process(s))
    /\ WF_vars(HandleFragment \/ TimeOut)
    /\ WF_vars(Tick)

FairSpec == Spec /\ Fairness

-----------------------------------------------------------------------------
(* Properties.                                                             *)

TypeOK ==
    /\ \A s \in Sender, i \in SendContexts :
          LET m == snd[s][i]
          IN  /\ m.in_use \in BOOLEAN /\ m.stream \in Streams
              /\ m.index \in Nat /\ m.seq \in Nat /\ m.gap \in 0 .. _msg_delay
              /\ m.in_use => m.index < m.len \/ m.len = 0
    /\ \A s \in Sender : context[s] \in SendContexts
    /\ Len(rx) <= RX_SIZE
    /\ \A i \in ReceiveContexts :
          LET r == rcv[i]
          IN  /\ r.in_use \in BOOLEAN /\ r.stream \in Streams /\ r.length \in Lengths \cup {0}
              /\ r.age \in 0 .. _receive_timeout
              /\ Len(r.buffer) < _receive_buffer_len
    /\ faults \in 0 .. MAX_FAULTS

\* A message that is reported complete is the one whose header opened the context,
\* byte for byte: with a CRC whatever was lost or repeated, whoever restarted and
\* whichever contexts a repeated header left behind, and without one as long as no
\* fault hit its stream and it has no zero byte (processReceivedMessageFragment).
\* A message of length 0 is reported with one byte.
CompleteIsSent ==
    \A k \in DOMAIN calls :
        LET c == calls[k]
        IN  /\ c.status = "COMPLETE" /\ c.body # <<>>
            /\ c.crc # <<>> \/ (<<c.canid, c.stream>> \notin disturbed /\ Pad \notin Range(c.body))
            => c.data = c.body

\* A stream that nothing was lost or repeated of is never reported with an error,
\* however its fragments are interleaved with those of other streams and senders,
\* and whatever happens to these; a message with a zero byte excepted, whose copy
\* is not the message.
StreamsIsolated ==
    \A k \in DOMAIN calls :
        /\ calls[k].status \in {"SEQUENCE_ERROR", "TIMEOUT_ERROR"} =>
              <<calls[k].canid, calls[k].stream>> \in disturbed
        /\ calls[k].status = "CRC_ERROR" =>
              \/ <<calls[k].canid, calls[k].stream>> \in disturbed
              \/ Pad \in Range(calls[k].body)

\* Every context that is freed is freed with one report, and none is reported
\* that is not freed.
EndsOnce ==
    [][faults' = faults =>
         LET ended == {i \in ReceiveContexts : rcv[i].in_use /\ ~rcv'[i].in_use}
         IN  /\ Len(calls') = Cardinality(ended)
             /\ {rcv[i].msg : i \in ended} = {calls'[k].msg : k \in DOMAIN calls'}]_vars

\* No receive context is held for ever, though each waits for fragments that may
\* have been lost, so that later messages find one.
ReceptionEnds ==
    LET held == {i \in ReceiveContexts : rcv[i].in_use}
    IN  held # {} ~> held = {}

\* Every message that is begun is reported to the receiving sketch, or refused
\* there, or a fault hit its stream: the round robin over the contexts does not
\* forget one.  It holds where every stream has a send context; a message that finds
\* none (Beyond) is never sent.
MessagesArrive ==
    LET awaited == {w \in open : <<w.canid, w.stream>> \notin disturbed}
    IN  awaited # {} ~> awaited = {}

=============================================================================
