------------------------------ MODULE BusProofs ------------------------------
(***************************************************************************)
(* Proofs about Bus, for any number of nodes, any stimuli in any number,    *)
(* and any sizes of buffers and timers.                                     *)
(***************************************************************************)
EXTENDS Bus, EnumMapProofs, SequenceTheorems

-----------------------------------------------------------------------------
(* Frames and receive buffers.                                              *)

Ops == ForeignOps \cup {"RQNN", "NNREL", "NNACK"}

\* The frames that can be on the bus: a node number is given out by the tool only.
Frames ==
    {f \in [canid : HeaderIds, op : Ops, nn : {0} \cup NodeNumbers, arg : 0 .. 255] :
        f.op = "SNN" => f.nn \in NodeNumbers}

Buffers == {q \in [Node -> Seq(Frames)] : \A n \in Node : Len(q[n]) <= RX_SIZE}

\* A node sends frames of that kind.
LEMMA SentFrame ==
    ASSUME NEW id \in 0 .. 255, NEW op \in Ops \ {"SNN"}, NEW nn \in {0} \cup NodeNumbers,
           NEW arg \in 0 .. 255
    PROVE  Frame(header(id), op, nn, arg) \in Frames
<1>1. header(id) \in HeaderIds
  BY DEF header, HeaderIds
<1> QED
  BY <1>1 DEF Frame, Frames

\* What a node sends is a frame of the protocol.
LEMMA FromFrame ==
    ASSUME cfg \in [Node -> Identity], NEW n \in Node, NEW op \in Ops \ {"SNN"},
           NEW nn \in {0} \cup NodeNumbers, NEW arg \in 0 .. 255
    PROVE  From(n, op, nn, arg) \in Frames
<1>1. cfg[n].CANID \in 0 .. 255
  BY DEF Identity
<1> QED
  BY <1>1, SentFrame DEF From

\* A broadcast, and the handling of a frame, leave buffers.
LEMMA SendBuffers ==
    ASSUME NEW q \in Buffers, NEW n \in Node, NEW f \in Frames
    PROVE  Send(q, n, f) \in Buffers
<1>1. RX_SIZE \in Nat
  BY BusAssumption
<1>2. ASSUME NEW m \in Node
      PROVE  /\ Send(q, n, f)[m] \in Seq(Frames)
             /\ Len(Send(q, n, f)[m]) <= RX_SIZE
  <2>1. q[m] \in Seq(Frames) /\ Len(q[m]) \in Nat /\ Len(q[m]) <= RX_SIZE
    BY DEF Buffers
  <2>2. Append(q[m], f) \in Seq(Frames) /\ Len(Append(q[m], f)) = Len(q[m]) + 1
    BY <2>1
  <2> QED
    BY <1>1, <2>1, <2>2 DEF Send
<1>3. Send(q, n, f) \in [Node -> Seq(Frames)]
  BY <1>2 DEF Send
<1> QED
  BY <1>2, <1>3 DEF Buffers

\* Taking the first frame leaves a buffer of frames.
LEMMA RestBuffers ==
    ASSUME rx \in Buffers, NEW n \in Node, rx[n] # <<>>
    PROVE  rest(n) \in Buffers /\ Head(rx[n]) \in Frames
<1>1. rx[n] \in Seq(Frames) /\ Len(rx[n]) \in Nat /\ Len(rx[n]) <= RX_SIZE
  BY DEF Buffers
<1>2. Tail(rx[n]) \in Seq(Frames) /\ Len(Tail(rx[n])) = Len(rx[n]) - 1 /\ Head(rx[n]) \in Frames
  BY <1>1
<1>3. RX_SIZE \in Nat
  BY BusAssumption
<1>4. rest(n) \in [Node -> Seq(Frames)]
  BY <1>2 DEF rest, Buffers
<1>5. \A m \in Node : Len(rest(n)[m]) <= RX_SIZE
  BY <1>1, <1>2, <1>3 DEF rest, Buffers
<1> QED
  BY <1>2, <1>4, <1>5 DEF Buffers

-----------------------------------------------------------------------------
(* Types.                                                                   *)

\* The frames in the buffers are those a node can send: one with a foreign number
\* would be stored as the node's own.  The mode the LEDs show depends on nothing else.
IInv == TypeOK /\ rx \in Buffers /\ LedShowsMode

\* check_enumeration never selects the id 0.
LEMMA SelectedIsByte ==
    ASSUME NEW responses \in SUBSET Bits
    PROVE  selectedId(responses) \in 1 .. 255
<1> DEFINE U == unusedIds(responses)
<1>1. \A bit \in Bits \ {<<0, 0>>} : idOf(bit) \in 1 .. 255
  <2>1. ASSUME NEW bit \in Bits \ {<<0, 0>>}
        PROVE  idOf(bit) \in 1 .. 255
    <3>1. PICK i \in 0 .. 15, b \in 0 .. 7 : bit = <<i, b>>
      BY DEF Bits
    <3>2. idOf(bit) = i * 16 + b /\ (i # 0 \/ b # 0)
      BY <2>1, <3>1 DEF idOf
    <3> QED
      BY <3>2
  <2> QED
    BY <2>1
<1>2. U \subseteq 1 .. 255
  BY <1>1 DEF unusedIds
<1>3. CASE U = {}
  BY <1>3 DEF selectedId
<1>4. CASE U # {}
  <2>1. \E x \in U : \A y \in U : x <= y
    BY <1>2, <1>4, LeastNat
  <2>2. selectedId(responses) \in U
    BY <1>4, <2>1 DEF selectedId, Min
  <2> QED
    BY <1>2, <2>2
<1> QED
  BY <1>3, <1>4

\* The flags, timers and map after each of the ways they are changed.
LEMMA RamUpdates ==
    ASSUME NEW r \in Ram
    PROVE  /\ enumerating(r) \in Ram
           /\ aged(r) \in Ram
           /\ [r EXCEPT !.mode_changing = TRUE, !.timeout_timer = 0] \in Ram
           /\ [r EXCEPT !.mode_changing = FALSE] \in Ram
           /\ [r EXCEPT !.mode_changing = FALSE, !.enumeration_required = TRUE] \in Ram
           /\ \A b \in BOOLEAN : [r EXCEPT !.enumeration_required = b] \in Ram
           /\ \A id \in HeaderIds : [r EXCEPT !.enumeration_responses = noteResponse(@, id)] \in Ram
<1>1. /\ 0 \in 0 .. ENUM_TIME /\ 0 \in 0 .. MODE_TIME /\ ENUM_TIME \in Nat /\ MODE_TIME \in Nat
  BY BusAssumption
<1>2. enumerating(r) \in Ram
  <2> DEFINE s == [r EXCEPT !.enumeration_required = FALSE, !.enumeration_active = TRUE]
             t == [s EXCEPT !.enumeration_start = 0]
  <2>1. s \in Ram
    BY DEF Ram
  <2>2. t \in Ram
    BY <1>1, <2>1 DEF Ram
  <2>3. enumerating(r) = [t EXCEPT !.enumeration_responses = {}]
    BY DEF enumerating
  <2>4. {} \in SUBSET Bits
    OBVIOUS
  <2> HIDE DEF t
  <2> QED
    BY <2>2, <2>3, <2>4 DEF Ram
<1>3. aged(r) \in Ram
  <2> DEFINE start == IF r.enumeration_active /\ r.enumeration_start < ENUM_TIME
                      THEN r.enumeration_start + 1 ELSE r.enumeration_start
             timer == IF r.mode_changing /\ r.timeout_timer < MODE_TIME
                      THEN r.timeout_timer + 1 ELSE r.timeout_timer
  <2>1. start \in 0 .. ENUM_TIME /\ timer \in 0 .. MODE_TIME
    BY <1>1 DEF Ram
  <2>2. aged(r) = [r EXCEPT !.enumeration_start = start, !.timeout_timer = timer]
    BY DEF aged, Ram
  <2> HIDE DEF start, timer
  <2> QED
    BY <2>1, <2>2 DEF Ram
<1>4. [r EXCEPT !.mode_changing = TRUE, !.timeout_timer = 0] \in Ram
  BY <1>1 DEF Ram
<1>5. /\ [r EXCEPT !.mode_changing = FALSE] \in Ram
      /\ [r EXCEPT !.mode_changing = FALSE, !.enumeration_required = TRUE] \in Ram
      /\ \A b \in BOOLEAN : [r EXCEPT !.enumeration_required = b] \in Ram
  BY DEF Ram
<1>6. ASSUME NEW id \in HeaderIds
      PROVE  [r EXCEPT !.enumeration_responses = noteResponse(@, id)] \in Ram
  <2>1. bitOf(id) \in Bits
    BY DEF bitOf, Bits, HeaderIds
  <2>2. noteResponse(r.enumeration_responses, id) \in SUBSET Bits
    BY <2>1 DEF noteResponse, Ram
  <2> QED
    BY <2>2 DEF Ram
<1> QED
  BY <1>2, <1>3, <1>4, <1>5, <1>6

\* The invariant holds at the start.
LEMMA InitIInv == Init => IInv
<1> SUFFICES ASSUME Init PROVE IInv
  OBVIOUS
<1>1. cfg \in [Node -> Identity]
  BY BusAssumption DEF Init
<1>2. powerOn \in Ram
  BY BusAssumption DEF powerOn, Ram
<1>3. \A n \in Node : mode(n) \in {MODE_SLIM, MODE_FLIM, MODE_CHANGING}
  BY DEF mode
<1>4. Len(<<>>) = 0 /\ <<>> \in Seq(Frames)
  OBVIOUS
<1> QED
  BY <1>1, <1>2, <1>3, <1>4, BusAssumption DEF Init, IInv, TypeOK, Buffers, LedShowsMode, powerOn, mode

\* start_enumeration(), for a conflict or by a short press.
LEMMA StartTyped ==
    ASSUME IInv, NEW n \in Node, start_enumeration(n)
    PROVE  /\ ram' \in [Node -> Ram] /\ rx' \in Buffers /\ steady' \in [Node -> SUBSET Node]
           /\ \A m \in Node : ram'[m].mode_changing = ram[m].mode_changing
<1>1. ram \in [Node -> Ram] /\ enumerating(ram[n]) \in Ram
  BY RamUpdates DEF IInv, TypeOK
<1>2. enumerating(ram[n]).mode_changing = ram[n].mode_changing
  BY <1>1 DEF enumerating, Ram
<1>3. ram' \in [Node -> Ram] /\ \A m \in Node : ram'[m].mode_changing = ram[m].mode_changing
  BY <1>1, <1>2 DEF start_enumeration
<1>4. From(n, "RTR", 0, 0) \in Frames
  BY FromFrame DEF IInv, TypeOK, Ops, ForeignOps
<1>5. rx' \in Buffers
  BY <1>4, SendBuffers DEF start_enumeration, IInv
<1>6. steady' \in [Node -> SUBSET Node]
  BY DEF start_enumeration, enumerationStarted, IInv, TypeOK
<1> QED
  BY <1>3, <1>5, <1>6

\* Nothing but the identity, the mode, the transition and the switch of the node that
\* moves, and its place in process(), can change.
LEMMA IInvKept ==
    ASSUME IInv, NEW n \in Node,
           cfg' \in [Node -> Identity], ram' \in [Node -> Ram], rx' \in Buffers,
           led' \in [Node -> {MODE_SLIM, MODE_FLIM, MODE_CHANGING}],
           sw' \in [Node -> {"up", "held"}], pc' \in [Node -> {"top", "msgs"}],
           mcount' \in [Node -> 0 .. NUM_MESSAGES], stimuli' \in 0 .. MAX_STIMULI,
           steady' \in [Node -> SUBSET Node],
           \A m \in Node \ {n} :
              /\ sw'[m] = sw[m] /\ led'[m] = led[m]
              /\ ram'[m].mode_changing = ram[m].mode_changing /\ cfg'[m] = cfg[m],
           sw'[n] = "up" =>
              led'[n] = IF ram'[n].mode_changing THEN MODE_CHANGING
                        ELSE IF cfg'[n].FLiM THEN MODE_FLIM ELSE MODE_SLIM
    PROVE  IInv'
<1>1. TypeOK'
  BY DEF TypeOK, Buffers
<1>2. LedShowsMode'
  BY DEF LedShowsMode, mode, IInv
<1> QED
  BY <1>1, <1>2 DEF IInv

\* The switch hands over to the loop over frames.
LEMMA AtSwitchTyped ==
    ASSUME IInv, NEW n \in Node, AtSwitch(n)
    PROVE  pc' \in [Node -> {"top", "msgs"}] /\ mcount' \in [Node -> 0 .. NUM_MESSAGES]
<1>1. 0 \in 0 .. NUM_MESSAGES
  BY BusAssumption
<1> QED
  BY <1>1 DEF AtSwitch, IInv, TypeOK

\* A stimulus is counted up to its bound.
LEMMA ActTyped ==
    ASSUME IInv, NEW kind, Act(kind)
    PROVE  stimuli' \in 0 .. MAX_STIMULI
<1>1. MAX_STIMULI \in Nat
  BY BusAssumption
<1> QED
  BY <1>1 DEF Act, IInv, TypeOK

\* initFLiM touches one node, which then shows its transition.
LEMMA InitFLiMTyped ==
    ASSUME IInv, NEW n \in Node, initFLiM(n)
    PROVE  /\ ram' \in [Node -> Ram] /\ rx' \in Buffers /\ cfg' \in [Node -> Identity]
           /\ steady' \in [Node -> SUBSET Node]
           /\ led' \in [Node -> {MODE_SLIM, MODE_FLIM, MODE_CHANGING}]
           /\ led'[n] = MODE_CHANGING /\ ram'[n].mode_changing
           /\ \A m \in Node \ {n} : ram'[m] = ram[m] /\ cfg'[m] = cfg[m] /\ led'[m] = led[m]
<1>1. /\ ram \in [Node -> Ram] /\ cfg[n] \in Identity /\ cfg \in [Node -> Identity]
      /\ led \in [Node -> {MODE_SLIM, MODE_FLIM, MODE_CHANGING}]
      /\ steady \in [Node -> SUBSET Node]
  BY DEF IInv, TypeOK
<1> DEFINE new == [ram[n] EXCEPT !.mode_changing = TRUE, !.timeout_timer = 0]
<1>2. new \in Ram /\ new.mode_changing
  BY <1>1, RamUpdates DEF Ram
<1>3. ram' = [ram EXCEPT ![n] = new]
  BY <1>1 DEF initFLiM
<1>4. From(n, "RQNN", cfg[n].nodeNum, 0) \in Frames
  <2>1. cfg[n].nodeNum \in {0} \cup NodeNumbers /\ "RQNN" \in Ops \ {"SNN"} /\ 0 \in 0 .. 255
    BY <1>1 DEF Identity, Ops, ForeignOps
  <2> QED
    BY <1>1, <2>1, FromFrame
<1>5. rx' \in Buffers
  BY <1>4, SendBuffers DEF initFLiM, IInv
<1> HIDE DEF new
<1> QED
  BY <1>1, <1>2, <1>3, <1>5 DEF initFLiM

\* revertSLiM touches one node, which then is in SLiM and shows it.
LEMMA RevertSLiMTyped ==
    ASSUME IInv, NEW n \in Node, revertSLiM(n)
    PROVE  /\ ram' \in [Node -> Ram] /\ rx' \in Buffers /\ cfg' \in [Node -> Identity]
           /\ steady' \in [Node -> SUBSET Node]
           /\ led' \in [Node -> {MODE_SLIM, MODE_FLIM, MODE_CHANGING}]
           /\ led'[n] = MODE_SLIM /\ ~ram'[n].mode_changing /\ ~cfg'[n].FLiM
           /\ \A m \in Node \ {n} : ram'[m] = ram[m] /\ cfg'[m] = cfg[m] /\ led'[m] = led[m]
<1>1. /\ ram \in [Node -> Ram] /\ cfg[n] \in Identity /\ cfg \in [Node -> Identity]
      /\ led \in [Node -> {MODE_SLIM, MODE_FLIM, MODE_CHANGING}]
  BY DEF IInv, TypeOK
<1> DEFINE new == [ram[n] EXCEPT !.mode_changing = FALSE]
<1>2. new \in Ram /\ ~new.mode_changing
  BY <1>1, RamUpdates DEF Ram
<1>3. ram' = [ram EXCEPT ![n] = new]
  BY <1>1 DEF revertSLiM
<1>4. From(n, "NNREL", cfg[n].nodeNum, 0) \in Frames
  <2>1. cfg[n].nodeNum \in {0} \cup NodeNumbers /\ "NNREL" \in Ops \ {"SNN"} /\ 0 \in 0 .. 255
    BY <1>1 DEF Identity, Ops, ForeignOps
  <2> QED
    BY <1>1, <2>1, FromFrame
<1>5. rx' \in Buffers
  BY <1>4, SendBuffers DEF revertSLiM, IInv
<1>6. [FLiM |-> FALSE, CANID |-> 0, nodeNum |-> 0] \in Identity
  BY DEF Identity
<1>7. steady' \in [Node -> SUBSET Node]
  BY DEF revertSLiM, idChanged, IInv, TypeOK
<1> HIDE DEF new
<1> QED
  BY <1>1, <1>2, <1>3, <1>5, <1>6, <1>7 DEF revertSLiM

\* The steps at the start of process().
LEMMA SwitchKeepsIInv ==
    ASSUME IInv, NEW n \in Node,
           \/ StartRequired(n) \/ SwitchQuiet(n) \/ SwitchHeld(n) \/ ReleaseLong(n)
           \/ Renegotiate(n) \/ PressShort(n)
    PROVE  IInv'
<1>0. TypeOK /\ LedShowsMode /\ rx \in Buffers
  BY DEF IInv
<1>1. CASE StartRequired(n)
  BY <1>0, <1>1, StartTyped, IInvKept DEF StartRequired, TypeOK, LedShowsMode, mode
<1>2. CASE SwitchQuiet(n)
  BY <1>0, <1>2, AtSwitchTyped, IInvKept DEF SwitchQuiet, TypeOK, LedShowsMode, mode
<1>3. CASE SwitchHeld(n)
  BY <1>0, <1>3, AtSwitchTyped, ActTyped, IInvKept DEF SwitchHeld, TypeOK, LedShowsMode, mode
<1>4. CASE ReleaseLong(n)
  <2>1. /\ pc' \in [Node -> {"top", "msgs"}] /\ mcount' \in [Node -> 0 .. NUM_MESSAGES]
        /\ sw' \in [Node -> {"up", "held"}] /\ stimuli' \in 0 .. MAX_STIMULI
        /\ \A m \in Node \ {n} : sw'[m] = sw[m]
    BY <1>0, <1>4, AtSwitchTyped DEF ReleaseLong, TypeOK
  <2>2. CASE initFLiM(n)
    BY <2>1, <2>2, InitFLiMTyped, IInvKept
  <2>3. CASE revertSLiM(n)
    BY <2>1, <2>3, RevertSLiMTyped, IInvKept
  <2> QED
    BY <1>4, <2>2, <2>3 DEF ReleaseLong
<1>5. CASE Renegotiate(n)
  <2>1. /\ pc' \in [Node -> {"top", "msgs"}] /\ mcount' \in [Node -> 0 .. NUM_MESSAGES]
        /\ sw' \in [Node -> {"up", "held"}] /\ stimuli' \in 0 .. MAX_STIMULI
        /\ \A m \in Node \ {n} : sw'[m] = sw[m]
    BY <1>0, <1>5, AtSwitchTyped, ActTyped DEF Renegotiate, TypeOK
  <2>2. initFLiM(n)
    BY <1>5 DEF Renegotiate
  <2> QED
    BY <2>1, <2>2, InitFLiMTyped, IInvKept
<1>6. CASE PressShort(n)
  BY <1>0, <1>6, AtSwitchTyped, ActTyped, StartTyped, IInvKept
     DEF PressShort, TypeOK, LedShowsMode, mode
<1> QED
  BY <1>1, <1>2, <1>3, <1>4, <1>5, <1>6

\* Node n has taken frame f from its buffer.
LEMMA TakesTyped ==
    ASSUME IInv, NEW n \in Node, NEW f, Takes(n, f)
    PROVE  /\ f \in Frames /\ rest(n) \in Buffers
           /\ mcount' \in [Node -> 0 .. NUM_MESSAGES] /\ pc' \in [Node -> {"top", "msgs"}]
           /\ sw' \in [Node -> {"up", "held"}] /\ stimuli' \in 0 .. MAX_STIMULI
           /\ \A m \in Node : sw'[m] = sw[m]
<1>1. f \in Frames /\ rest(n) \in Buffers
  BY RestBuffers DEF Takes, IInv
<1>2. NUM_MESSAGES \in Nat
  BY BusAssumption
<1>3. mcount' \in [Node -> 0 .. NUM_MESSAGES]
  BY <1>2 DEF Takes, IInv, TypeOK
<1> QED
  BY <1>1, <1>3 DEF Takes, IInv, TypeOK

\* The frame makes an enumeration required, or not; the rest is as it was.
LEMMA RequiredTyped ==
    ASSUME IInv, NEW n \in Node, NEW b \in BOOLEAN,
           ram' = [ram EXCEPT ![n].enumeration_required = b]
    PROVE  ram' \in [Node -> Ram] /\ \A m \in Node : ram'[m].mode_changing = ram[m].mode_changing
<1>1. ram \in [Node -> Ram]
  BY DEF IInv, TypeOK
<1> DEFINE new == [ram[n] EXCEPT !.enumeration_required = b]
<1>2. new \in Ram /\ new.mode_changing = ram[n].mode_changing
  BY <1>1, RamUpdates DEF Ram
<1>3. ram' = [ram EXCEPT ![n] = new]
  BY <1>1
<1> HIDE DEF new
<1> QED
  BY <1>1, <1>2, <1>3

\* A node that stays in its mode.
LEMMA SameMode ==
    ASSUME IInv, NEW n \in Node, NEW f, Takes(n, f),
           cfg' \in [Node -> Identity], ram' \in [Node -> Ram], rx' \in Buffers,
           steady' \in [Node -> SUBSET Node], led' = led,
           \A m \in Node : ram'[m].mode_changing = ram[m].mode_changing,
           \A m \in Node : cfg'[m].FLiM = cfg[m].FLiM,
           \A m \in Node \ {n} : cfg'[m] = cfg[m]
    PROVE  IInv'
<1>1. led' \in [Node -> {MODE_SLIM, MODE_FLIM, MODE_CHANGING}]
  BY DEF IInv, TypeOK
<1>2. sw'[n] = "up" => led'[n] = IF ram'[n].mode_changing THEN MODE_CHANGING
                                 ELSE IF cfg'[n].FLiM THEN MODE_FLIM ELSE MODE_SLIM
  BY TakesTyped DEF IInv, LedShowsMode, mode
<1> QED
  BY <1>1, <1>2, TakesTyped, IInvKept

\* Answering an enumeration of another node keeps the invariant.
LEMMA AnswerRTRTyped ==
    ASSUME IInv, NEW n \in Node, NEW f, AnswerRTR(n, f)
    PROVE  IInv'
<1>1. Takes(n, f) /\ led' = led /\ cfg' = cfg /\ ram' = ram /\ steady' = steady
  BY DEF AnswerRTR
<1>2. cfg \in [Node -> Identity] /\ ram \in [Node -> Ram] /\ steady \in [Node -> SUBSET Node]
  BY DEF IInv, TypeOK
<1>3. From(n, "EMPTY", 0, 0) \in Frames
  BY <1>2, FromFrame DEF Ops, ForeignOps
<1>4. rx' \in Buffers
  BY <1>1, <1>3, TakesTyped, SendBuffers DEF AnswerRTR
<1> QED
  BY <1>1, <1>2, <1>4, SameMode

\* So does recording an answer,
LEMMA RecordResponseTyped ==
    ASSUME IInv, NEW n \in Node, NEW f, RecordResponse(n, f)
    PROVE  IInv'
<1>1. Takes(n, f) /\ led' = led /\ cfg' = cfg /\ steady' = steady /\ rx' = rest(n)
  BY DEF RecordResponse
<1>2. cfg \in [Node -> Identity] /\ ram \in [Node -> Ram] /\ steady \in [Node -> SUBSET Node]
  BY DEF IInv, TypeOK
<1>3. f.canid \in HeaderIds /\ rx' \in Buffers
  BY <1>1, TakesTyped DEF Frames
<1> DEFINE new == [ram[n] EXCEPT !.enumeration_responses = noteResponse(@, f.canid)]
<1>4. new \in Ram /\ new.mode_changing = ram[n].mode_changing
  BY <1>2, <1>3, RamUpdates DEF Ram
<1>5. ram' = [ram EXCEPT ![n] = new]
  BY <1>2 DEF RecordResponse
<1> HIDE DEF new
<1>6. ram' \in [Node -> Ram] /\ \A m \in Node : ram'[m].mode_changing = ram[m].mode_changing
  BY <1>2, <1>4, <1>5
<1> QED
  BY <1>1, <1>2, <1>3, <1>6, SameMode

\* The node takes the number of the frame, and is in FLiM.
LEMMA TakeNodeNumberTyped ==
    ASSUME IInv, NEW n \in Node, NEW f, TakeNodeNumber(n, f)
    PROVE  IInv'
<1>1. Takes(n, f) /\ f.op = "SNN" /\ steady' = steady /\ led' = [led EXCEPT ![n] = MODE_FLIM]
  BY DEF TakeNodeNumber
<1>2. /\ cfg \in [Node -> Identity] /\ ram \in [Node -> Ram] /\ steady \in [Node -> SUBSET Node]
      /\ led \in [Node -> {MODE_SLIM, MODE_FLIM, MODE_CHANGING}]
  BY DEF IInv, TypeOK
<1>3. f.nn \in NodeNumbers
  BY <1>1, TakesTyped DEF Frames
<1> DEFINE r == [ram[n] EXCEPT !.mode_changing = FALSE, !.enumeration_required = TRUE]
           id == [cfg[n] EXCEPT !.nodeNum = f.nn, !.FLiM = TRUE]
<1>4. r \in Ram /\ ~r.mode_changing
  BY <1>2, RamUpdates DEF Ram
<1>5. id \in Identity /\ id.FLiM
  <2>1. [cfg[n] EXCEPT !.nodeNum = f.nn] \in Identity
    BY <1>2, <1>3 DEF Identity
  <2>2. id = [[cfg[n] EXCEPT !.nodeNum = f.nn] EXCEPT !.FLiM = TRUE]
    OBVIOUS
  <2> QED
    BY <2>1, <2>2 DEF Identity
<1>6. ram' = [ram EXCEPT ![n] = r] /\ cfg' = [cfg EXCEPT ![n] = id]
  BY <1>2 DEF TakeNodeNumber
<1> HIDE DEF r, id
<1>7. From(n, "NNACK", f.nn, 0) \in Frames
  <2>1. f.nn \in {0} \cup NodeNumbers /\ "NNACK" \in Ops \ {"SNN"} /\ 0 \in 0 .. 255
    BY <1>3 DEF Ops, ForeignOps
  <2> QED
    BY <1>2, <2>1, FromFrame
<1>8. rx' \in Buffers
  BY <1>1, <1>7, TakesTyped, SendBuffers DEF TakeNodeNumber
<1>9. /\ ram' \in [Node -> Ram] /\ cfg' \in [Node -> Identity]
      /\ led' \in [Node -> {MODE_SLIM, MODE_FLIM, MODE_CHANGING}]
      /\ led'[n] = MODE_FLIM /\ ~ram'[n].mode_changing /\ cfg'[n].FLiM
      /\ \A m \in Node \ {n} : ram'[m] = ram[m] /\ cfg'[m] = cfg[m] /\ led'[m] = led[m]
  BY <1>1, <1>2, <1>4, <1>5, <1>6
<1>10. steady' \in [Node -> SUBSET Node]
  BY <1>1, <1>2
<1> QED
  BY <1>1, <1>8, <1>9, <1>10, TakesTyped, IInvKept

\* and taking an id from a tool.
LEMMA TakeCANIDTyped ==
    ASSUME IInv, NEW n \in Node, NEW f, TakeCANID(n, f)
    PROVE  IInv'
<1>1. Takes(n, f) /\ led' = led /\ noteConflict(n, f)
  BY DEF TakeCANID
<1>2. /\ cfg \in [Node -> Identity] /\ cfg[n] \in Identity
      /\ ram \in [Node -> Ram] /\ steady \in [Node -> SUBSET Node]
  BY DEF IInv, TypeOK
<1>3. required(n, f) \in BOOLEAN
  BY <1>2 DEF required, Ram, hasData
<1>4. ram' \in [Node -> Ram] /\ \A m \in Node : ram'[m].mode_changing = ram[m].mode_changing
  BY <1>1, <1>3, RequiredTyped DEF noteConflict
<1>5. CASE f.arg \in 1 .. 99 /\ cfg' = [cfg EXCEPT ![n].CANID = f.arg] /\ rx' = rest(n) /\ idChanged(n)
  <2> DEFINE id == [cfg[n] EXCEPT !.CANID = f.arg]
  <2>1. id \in Identity /\ id.FLiM = cfg[n].FLiM
    BY <1>2, <1>5 DEF Identity
  <2>2. cfg' = [cfg EXCEPT ![n] = id]
    BY <1>2, <1>5
  <2> HIDE DEF id
  <2>3. /\ cfg' \in [Node -> Identity] /\ \A m \in Node : cfg'[m].FLiM = cfg[m].FLiM
        /\ \A m \in Node \ {n} : cfg'[m] = cfg[m]
    BY <1>2, <2>1, <2>2
  <2>4. steady' \in [Node -> SUBSET Node]
    BY <1>2, <1>5 DEF idChanged
  <2> QED
    BY <1>1, <1>4, <1>5, <2>3, <2>4, TakesTyped, SameMode
<1>6. CASE /\ rx' = Send(rest(n), n, From(n, "DATA", cfg[n].nodeNum, 7))
           /\ UNCHANGED <<cfg, steady>>
  <2>1. cfg[n].nodeNum \in {0} \cup NodeNumbers /\ "DATA" \in Ops \ {"SNN"} /\ 7 \in 0 .. 255
    BY <1>2 DEF Identity, Ops, ForeignOps
  <2>2. rx' \in Buffers
    BY <1>1, <1>2, <1>6, <2>1, FromFrame, TakesTyped, SendBuffers
  <2> QED
    BY <1>1, <1>2, <1>4, <1>6, <2>2, SameMode
<1> QED
  BY <1>5, <1>6 DEF TakeCANID

\* The frames that can only make an enumeration required.
LEMMA OtherFramesTyped ==
    ASSUME IInv, NEW n \in Node, NEW f,
           TakeENUM(n, f) \/ AnswerQuery(n, f) \/ Ignore(n, f)
    PROVE  IInv'
<1>1. Takes(n, f) /\ led' = led /\ cfg' = cfg /\ steady' = steady
  BY DEF TakeENUM, AnswerQuery, Ignore
<1>2. /\ cfg \in [Node -> Identity] /\ cfg[n] \in Identity
      /\ ram \in [Node -> Ram] /\ steady \in [Node -> SUBSET Node]
  BY DEF IInv, TypeOK
<1>3. required(n, f) \in BOOLEAN
  BY <1>2 DEF required, Ram, hasData
<1>4. \E b \in BOOLEAN : ram' = [ram EXCEPT ![n].enumeration_required = b]
  BY <1>3 DEF TakeENUM, AnswerQuery, Ignore, noteConflict
<1>5. ram' \in [Node -> Ram] /\ \A m \in Node : ram'[m].mode_changing = ram[m].mode_changing
  BY <1>4, RequiredTyped
<1>6. rx' \in Buffers
  <2>1. cfg[n].nodeNum \in {0} \cup NodeNumbers /\ "DATA" \in Ops \ {"SNN"} /\ 0 \in 0 .. 255
    BY <1>2 DEF Identity, Ops, ForeignOps
  <2>2. From(n, "DATA", cfg[n].nodeNum, 0) \in Frames
    BY <1>2, <2>1, FromFrame
  <2> QED
    BY <1>1, <2>2, TakesTyped, SendBuffers DEF TakeENUM, AnswerQuery, Ignore
<1> QED
  BY <1>1, <1>2, <1>5, <1>6, SameMode

\* Every way through HandleFrame keeps the invariant.
LEMMA HandleFrameTyped ==
    ASSUME IInv, NEW n \in Node, HandleFrame(n)
    PROVE  IInv'
BY AnswerRTRTyped, RecordResponseTyped, TakeNodeNumberTyped, TakeCANIDTyped, OtherFramesTyped
   DEF HandleFrame

\* check_enumeration() leaves the rest of the identity alone, and what is sent under the
\* id it gives is a frame.
LEMMA AckFrame ==
    ASSUME cfg \in [Node -> Identity], ram \in [Node -> Ram], NEW n \in Node
    PROVE  /\ chosen(n) \in Identity /\ chosen(n).FLiM = cfg[n].FLiM
           /\ Frame(header(chosen(n).CANID), "NNACK", cfg[n].nodeNum, 0) \in Frames
<1>1. selectedId(ram[n].enumeration_responses) \in 0 .. 255
  BY SelectedIsByte DEF Ram
<1>2. chosen(n) \in Identity /\ chosen(n).FLiM = cfg[n].FLiM
  BY <1>1 DEF chosen, Identity
<1>3. /\ cfg[n].nodeNum \in {0} \cup NodeNumbers /\ chosen(n).CANID \in 0 .. 255
      /\ "NNACK" \in Ops \ {"SNN"} /\ 0 \in 0 .. 255
  BY <1>2 DEF Identity, Ops, ForeignOps
<1> QED
  BY <1>2, <1>3, SentFrame

\* The end of process(): the identity the enumeration gives, and the mode the LEDs are
\* told at the end of a transition.
LEMMA CheckTimersTyped ==
    ASSUME IInv, NEW n \in Node, CheckTimers(n)
    PROVE  IInv'
<1>1. /\ cfg \in [Node -> Identity] /\ cfg[n] \in Identity /\ ram[n] \in Ram
      /\ ram \in [Node -> Ram] /\ steady \in [Node -> SUBSET Node]
      /\ led \in [Node -> {MODE_SLIM, MODE_FLIM, MODE_CHANGING}]
      /\ 0 \in 0 .. NUM_MESSAGES /\ 0 \in 0 .. ENUM_TIME
  BY BusAssumption DEF IInv, TypeOK
<1>2. chosen(n) \in Identity /\ chosen(n).FLiM = cfg[n].FLiM
  BY <1>1, AckFrame
<1> DEFINE active == ram[n].enumeration_active /\ ~enumerationDue(n)
           start == IF enumerationDue(n) THEN 0 ELSE ram[n].enumeration_start
           changing == ram[n].mode_changing /\ ~transitionDue(n)
           r1 == [ram[n] EXCEPT !.enumeration_active = active]
           r2 == [r1 EXCEPT !.enumeration_start = start]
           r == [r2 EXCEPT !.mode_changing = changing]
<1>3. r \in Ram /\ r.mode_changing = changing
  <2>1. active \in BOOLEAN /\ start \in 0 .. ENUM_TIME /\ changing \in BOOLEAN
    BY <1>1 DEF Ram, enumerationDue, transitionDue
  <2> HIDE DEF active, start, changing
  <2>2. r1 \in Ram
    BY <1>1, <2>1 DEF Ram
  <2> HIDE DEF r1
  <2>3. r2 \in Ram
    BY <2>1, <2>2 DEF Ram
  <2> HIDE DEF r2
  <2> QED
    BY <2>1, <2>3 DEF Ram
<1>4. ram' = [ram EXCEPT ![n] = r] /\ cfg' = [cfg EXCEPT ![n] = chosen(n)]
  BY <1>1 DEF CheckTimers
<1>5. /\ ram' \in [Node -> Ram] /\ cfg' \in [Node -> Identity]
      /\ ram'[n].mode_changing = (ram[n].mode_changing /\ ~transitionDue(n))
      /\ cfg'[n].FLiM = cfg[n].FLiM
      /\ \A m \in Node \ {n} : ram'[m] = ram[m] /\ cfg'[m] = cfg[m]
  <2> HIDE DEF r1, r2, r
  <2> QED
    BY <1>1, <1>2, <1>3, <1>4
<1> HIDE DEF active, start, changing, r1, r2, r
<1>6. rx' \in Buffers
  <2> DEFINE ack == Frame(header(chosen(n).CANID), "NNACK", cfg[n].nodeNum, 0)
             q == IF enumerationDue(n) THEN Send(rx, n, ack) ELSE rx
  <2>2. ack \in Frames
    BY <1>1, AckFrame
  <2>3. q \in Buffers
    BY <2>2, SendBuffers DEF IInv
  <2>4. rx' = IF transitionDue(n) /\ cfg[n].FLiM /\ cfg[n].nodeNum > 0 THEN Send(q, n, ack) ELSE q
    BY DEF CheckTimers
  <2> HIDE DEF q, ack
  <2> QED
    BY <2>2, <2>3, <2>4, SendBuffers
<1>7. steady' \in [Node -> SUBSET Node]
  BY <1>1 DEF CheckTimers, idChanged
<1>8. /\ pc' \in [Node -> {"top", "msgs"}] /\ mcount' \in [Node -> 0 .. NUM_MESSAGES]
      /\ sw' \in [Node -> {"up", "held"}] /\ sw' = sw /\ stimuli' \in 0 .. MAX_STIMULI
  BY <1>1 DEF CheckTimers, IInv, TypeOK
<1>9. /\ led' \in [Node -> {MODE_SLIM, MODE_FLIM, MODE_CHANGING}]
      /\ \A m \in Node \ {n} : led'[m] = led[m]
      /\ transitionDue(n) => led'[n] = mode(n)
      /\ ~transitionDue(n) => led'[n] = led[n]
  BY <1>1 DEF CheckTimers, mode
<1>10. sw'[n] = "up" => led'[n] = IF ram'[n].mode_changing THEN MODE_CHANGING
                                  ELSE IF cfg'[n].FLiM THEN MODE_FLIM ELSE MODE_SLIM
  BY <1>5, <1>8, <1>9 DEF IInv, LedShowsMode, mode
<1> QED
  BY <1>5, <1>6, <1>7, <1>8, <1>9, <1>10, IInvKept

\* Timers stop at their limits.
LEMMA TickTyped == ASSUME IInv, Tick PROVE IInv'
<1>1. ram \in [Node -> Ram]
  BY DEF IInv, TypeOK
<1>2. ram' \in [Node -> Ram] /\ \A n \in Node : ram'[n].mode_changing = ram[n].mode_changing
  BY <1>1, RamUpdates DEF Tick, aged, Ram
<1>3. TypeOK' /\ (rx \in Buffers)'
  BY <1>2 DEF Tick, IInv, TypeOK
<1>4. LedShowsMode'
  BY <1>2 DEF Tick, IInv, LedShowsMode, mode
<1> QED
  BY <1>3, <1>4 DEF IInv

\* A frame from outside is one of the protocol.
LEMMA ForeignFrame ==
    ASSUME NEW f \in ForeignFrames
    PROVE  f \in Frames
<1> DEFINE F == [canid : HeaderIds, op : Ops, nn : {0} \cup NodeNumbers, arg : 0 .. 255]
<1>1. ForeignIds \subseteq HeaderIds /\ SettableIds \subseteq 0 .. 255
  BY BusAssumption
<1>2. /\ {"SNN", "QUERY", "ENUM"} \subseteq Ops /\ {"CANID"} \subseteq Ops
      /\ {"RQNP", "QNN", "EXT", "RTR", "EMPTY", "DATA"} \subseteq Ops
  BY DEF Ops, ForeignOps
<1>3. CASE f \in [canid : ForeignIds, op : {"SNN", "QUERY", "ENUM"}, nn : NodeNumbers, arg : {0}]
  <2>1. f \in F /\ f.nn \in NodeNumbers
    BY <1>1, <1>2, <1>3
  <2> QED
    BY <2>1 DEF Frames
<1>4. CASE f \in [canid : ForeignIds, op : {"CANID"}, nn : NodeNumbers, arg : SettableIds]
  <2>1. f \in F /\ f.nn \in NodeNumbers
    BY <1>1, <1>2, <1>4
  <2> QED
    BY <2>1 DEF Frames
<1>5. CASE f \in [canid : ForeignIds, op : {"RQNP", "QNN", "EXT", "RTR", "EMPTY", "DATA"},
                 nn : {0}, arg : {0}]
  <2>1. f \in F /\ f.op # "SNN"
    BY <1>1, <1>2, <1>5
  <2> QED
    BY <2>1 DEF Frames
<1> QED
  BY <1>3, <1>4, <1>5 DEF ForeignFrames

\* What happens to the nodes from outside.
LEMMA SurroundingsTyped ==
    ASSUME IInv
    PROVE  /\ \A f \in ForeignFrames : Foreign(f) => IInv'
           /\ \A n \in Node : SketchSends(n) \/ Reboot(n) => IInv'
<1>1. /\ cfg \in [Node -> Identity] /\ ram \in [Node -> Ram] /\ steady \in [Node -> SUBSET Node]
      /\ rx \in Buffers /\ RX_SIZE \in Nat
  BY BusAssumption DEF IInv, TypeOK
<1>2. ASSUME NEW f \in ForeignFrames, Foreign(f)
      PROVE  IInv'
  <2>1. f \in Frames
    BY ForeignFrame
  <2>2. \A n \in Node : /\ rx[n] \in Seq(Frames) /\ Len(rx[n]) \in Nat
                        /\ Append(rx[n], f) \in Seq(Frames)
                        /\ Len(Append(rx[n], f)) = Len(rx[n]) + 1
    BY <1>1, <2>1 DEF Buffers
  <2>3. rx' \in Buffers
    BY <1>1, <1>2, <2>2 DEF Foreign, Buffers
  <2>4. TypeOK'
    BY <1>2, <2>3, ActTyped DEF Foreign, IInv, TypeOK, Buffers
  <2>5. LedShowsMode'
    BY <1>2 DEF Foreign, IInv, LedShowsMode, mode
  <2> QED
    BY <2>3, <2>4, <2>5 DEF IInv
<1>3. ASSUME NEW n \in Node, SketchSends(n)
      PROVE  IInv'
  <2>1. cfg[n].nodeNum \in {0} \cup NodeNumbers /\ "DATA" \in Ops \ {"SNN"} /\ 0 \in 0 .. 255
    BY <1>1 DEF Identity, Ops, ForeignOps
  <2>2. rx' \in Buffers
    BY <1>1, <1>3, <2>1, FromFrame, SendBuffers DEF SketchSends
  <2>3. TypeOK'
    BY <1>3, <2>2, ActTyped DEF SketchSends, IInv, TypeOK, Buffers
  <2>4. LedShowsMode'
    BY <1>3 DEF SketchSends, IInv, LedShowsMode, mode
  <2> QED
    BY <2>2, <2>3, <2>4 DEF IInv
<1>4. ASSUME NEW n \in Node, Reboot(n)
      PROVE  IInv'
  <2>1. powerOn \in Ram /\ ~powerOn.mode_changing /\ 0 \in 0 .. NUM_MESSAGES
    BY BusAssumption DEF powerOn, Ram
  <2>2. Len(<<>>) = 0 /\ <<>> \in Seq(Frames)
    OBVIOUS
  <2>3. rx' \in Buffers
    BY <1>1, <1>4, <2>2 DEF Reboot, Buffers
  <2>4. /\ ram' \in [Node -> Ram] /\ steady' \in [Node -> SUBSET Node] /\ cfg' \in [Node -> Identity]
        /\ stimuli' \in 0 .. MAX_STIMULI
    BY <1>1, <1>4, <2>1, ActTyped DEF Reboot, idChanged
  <2>5. /\ led' \in [Node -> {MODE_SLIM, MODE_FLIM, MODE_CHANGING}] /\ sw' \in [Node -> {"up", "held"}]
        /\ pc' \in [Node -> {"top", "msgs"}] /\ mcount' \in [Node -> 0 .. NUM_MESSAGES]
    BY <1>4, <2>1 DEF Reboot, mode, IInv, TypeOK
  <2>6. /\ \A m \in Node \ {n} : /\ sw'[m] = sw[m] /\ led'[m] = led[m]
                               /\ ram'[m].mode_changing = ram[m].mode_changing /\ cfg'[m] = cfg[m]
        /\ led'[n] = IF cfg'[n].FLiM THEN MODE_FLIM ELSE MODE_SLIM
        /\ ~ram'[n].mode_changing
    BY <1>1, <1>4, <2>1 DEF Reboot, mode, IInv, TypeOK
  <2> QED
    BY <2>3, <2>4, <2>5, <2>6, IInvKept
<1> QED
  BY <1>2, <1>3, <1>4

\* Every step keeps the invariant.
LEMMA NextIInv == ASSUME IInv, [Next]_vars PROVE IInv'
<1>1. ASSUME NEW n \in Node, Process(n)
      PROVE  IInv'
  BY <1>1, SwitchKeepsIInv, HandleFrameTyped, CheckTimersTyped DEF Process
<1>2. CASE Surroundings
  BY <1>2, SwitchKeepsIInv, SurroundingsTyped DEF Surroundings
<1>3. CASE UNCHANGED vars
  BY <1>3 DEF vars, IInv, TypeOK, LedShowsMode, mode
<1> QED
  BY <1>1, <1>2, <1>3, TickTyped DEF Next

\* Whatever the nodes, the tool and the people do, in any order, everything keeps its
\* type, and the buffers hold frames of the protocol only.
THEOREM Inductive == Spec => []IInv
BY InitIInv, NextIInv, PTL DEF Spec

\* Every variable keeps its type: timers stop, buffers stay within their size.
THEOREM TypeCorrect == Spec => []TypeOK
<1>1. IInv => TypeOK
  BY DEF IInv
<1> QED
  BY <1>1, Inductive, PTL

\* The LEDs of every node show its mode, or that it is changing it, unless its button
\* is held down.
THEOREM LedsTrue == Spec => []LedShowsMode
<1>1. IInv => LedShowsMode
  BY DEF IInv
<1> QED
  BY <1>1, Inductive, PTL

-----------------------------------------------------------------------------
(* The identity.                                                            *)

\* The five ways an identity changes.
LEMMA IdentityChanges ==
    ASSUME IInv, Next, NEW n \in Node, cfg'[n] # cfg[n]
    PROVE  \/ /\ ram[n].mode_changing /\ ~ram'[n].mode_changing /\ cfg'[n].FLiM
              /\ cfg'[n].CANID = cfg[n].CANID /\ ram'[n].enumeration_required
           \/ cfg'[n] = [FLiM |-> FALSE, CANID |-> 0, nodeNum |-> 0]
           \/ cfg'[n].nodeNum = cfg[n].nodeNum /\ cfg'[n].CANID # 0
<1>1. /\ cfg \in [Node -> Identity] /\ ram \in [Node -> Ram]
  BY DEF IInv, TypeOK
<1>2. PICK k \in Node : \/ ReleaseLong(k) /\ revertSLiM(k)
                        \/ \E f : TakeNodeNumber(k, f) \/ TakeCANID(k, f)
                        \/ CheckTimers(k)
  <2>1. cfg' # cfg
    OBVIOUS
  <2> QED
    BY <2>1 DEF Next, Process, Surroundings, StartRequired, SwitchQuiet, ReleaseLong, initFLiM,
       HandleFrame, AnswerRTR, RecordResponse, TakeENUM, AnswerQuery, Ignore, Tick, Foreign,
       SwitchHeld, Renegotiate, PressShort, SketchSends, Reboot
<1>3. CASE revertSLiM(k)
  BY <1>1, <1>3 DEF revertSLiM
<1>4. CASE \E f : TakeNodeNumber(k, f)
  <2>1. PICK f : TakeNodeNumber(k, f)
    BY <1>4
  <2> DEFINE id == [cfg[k] EXCEPT !.nodeNum = f.nn, !.FLiM = TRUE]
             r == [ram[k] EXCEPT !.mode_changing = FALSE, !.enumeration_required = TRUE]
  <2>2. id.FLiM /\ id.CANID = cfg[k].CANID
    BY <1>1 DEF Identity
  <2>3. ~r.mode_changing /\ r.enumeration_required
    BY <1>1 DEF Ram
  <2>4. cfg' = [cfg EXCEPT ![k] = id] /\ ram' = [ram EXCEPT ![k] = r] /\ ram[k].mode_changing
    BY <1>1, <2>1 DEF TakeNodeNumber
  <2> HIDE DEF id, r
  <2> QED
    BY <1>1, <2>2, <2>3, <2>4
<1>5. CASE \E f : TakeCANID(k, f)
  <2>1. PICK f : TakeCANID(k, f)
    BY <1>5
  <2>2. cfg' = [cfg EXCEPT ![k].CANID = f.arg] /\ f.arg \in 1 .. 99
    BY <2>1 DEF TakeCANID
  <2> QED
    BY <1>1, <2>2 DEF Identity
<1>6. CASE CheckTimers(k)
  <2>1. selectedId(ram[k].enumeration_responses) # 0
    BY <1>1, SelectedIsByte DEF Ram
  <2>2. cfg' = [cfg EXCEPT ![k] = chosen(k)]
    BY <1>6 DEF CheckTimers
  <2> QED
    BY <1>1, <2>1, <2>2 DEF chosen, Identity
<1> QED
  BY <1>2, <1>3, <1>4, <1>5, <1>6

\* A node number is only taken in an open transition, which it closes, and only lost
\* with the mode and the CAN id.
THEOREM NumberGuarded == Spec => NodeNumberGuarded
<1>1. ASSUME IInv, [Next]_vars
      PROVE  [\A n \in Node :
                cfg'[n].nodeNum # cfg[n].nodeNum =>
                   \/ ram[n].mode_changing /\ ~ram'[n].mode_changing /\ cfg'[n].FLiM
                   \/ ~cfg'[n].FLiM /\ cfg'[n].CANID = 0 /\ cfg'[n].nodeNum = 0]_vars
  <2>1. CASE UNCHANGED vars
    BY <2>1
  <2>2. CASE Next
    <3>1. ASSUME NEW n \in Node, cfg'[n].nodeNum # cfg[n].nodeNum
          PROVE  \/ ram[n].mode_changing /\ ~ram'[n].mode_changing /\ cfg'[n].FLiM
                 \/ ~cfg'[n].FLiM /\ cfg'[n].CANID = 0 /\ cfg'[n].nodeNum = 0
      BY <1>1, <2>2, <3>1, IdentityChanges
    <3> QED
      BY <3>1
  <2> QED
    BY <1>1, <2>1, <2>2
<1> QED
  BY <1>1, Inductive, PTL DEF Spec, NodeNumberGuarded

\* What a step other than a start, a tick and a power cycle may do to an enumeration:
\* one can be asked for, a response be noted.
Kept(r, s) ==
    /\ r.enumeration_required => s.enumeration_required
    /\ r.enumeration_responses \subseteq s.enumeration_responses
    /\ s.enumeration_active = r.enumeration_active
    /\ s.enumeration_start = r.enumeration_start

\* No frame ends an enumeration that is required or active.
LEMMA HandleFrameKeeps ==
    ASSUME IInv, NEW k \in Node, NEW n \in Node, HandleFrame(k)
    PROVE  Kept(ram[n], ram'[n])
<1>1. ram \in [Node -> Ram]
  BY DEF IInv, TypeOK
<1>2. ASSUME NEW r, Kept(ram[k], r), ram' = [ram EXCEPT ![k] = r]
      PROVE  Kept(ram[n], ram'[n])
  BY <1>1, <1>2 DEF Kept
<1>3. PICK f : \/ AnswerRTR(k, f) \/ RecordResponse(k, f) \/ TakeNodeNumber(k, f) \/ TakeCANID(k, f)
               \/ TakeENUM(k, f) \/ AnswerQuery(k, f) \/ Ignore(k, f)
  BY DEF HandleFrame
<1>4. CASE AnswerRTR(k, f)
  BY <1>4 DEF AnswerRTR, Kept
<1>5. CASE RecordResponse(k, f)
  <2> DEFINE r == [ram[k] EXCEPT !.enumeration_responses = noteResponse(@, f.canid)]
  <2>1. Kept(ram[k], r)
    BY <1>1 DEF Ram, Kept, noteResponse
  <2>2. ram' = [ram EXCEPT ![k] = r]
    BY <1>1, <1>5 DEF RecordResponse
  <2> HIDE DEF r
  <2> QED
    BY <1>2, <2>1, <2>2
<1>6. CASE TakeNodeNumber(k, f)
  <2> DEFINE r == [ram[k] EXCEPT !.mode_changing = FALSE, !.enumeration_required = TRUE]
  <2>1. Kept(ram[k], r)
    BY <1>1 DEF Ram, Kept
  <2>2. ram' = [ram EXCEPT ![k] = r]
    BY <1>1, <1>6 DEF TakeNodeNumber
  <2> HIDE DEF r
  <2> QED
    BY <1>2, <2>1, <2>2
<1>7. CASE TakeCANID(k, f) \/ TakeENUM(k, f) \/ AnswerQuery(k, f) \/ Ignore(k, f)
  <2>1. required(k, f) \in BOOLEAN /\ (ram[k].enumeration_required => required(k, f))
    BY <1>1 DEF required, Ram, hasData
  <2>2. PICK b \in BOOLEAN : /\ ram[k].enumeration_required => b
                             /\ ram' = [ram EXCEPT ![k].enumeration_required = b]
    BY <1>7, <2>1 DEF TakeCANID, TakeENUM, AnswerQuery, Ignore, noteConflict
  <2> DEFINE r == [ram[k] EXCEPT !.enumeration_required = b]
  <2>3. Kept(ram[k], r)
    BY <1>1, <2>2 DEF Ram, Kept
  <2>4. ram' = [ram EXCEPT ![k] = r]
    BY <1>1, <2>2
  <2> HIDE DEF r
  <2> QED
    BY <1>2, <2>3, <2>4
<1> QED
  BY <1>3, <1>4, <1>5, <1>6, <1>7

\* The timers end an enumeration only with an id.
LEMMA CheckTimersKeeps ==
    ASSUME IInv, NEW k \in Node, NEW n \in Node, CheckTimers(k)
    PROVE  \/ Kept(ram[n], ram'[n])
           \/ /\ k = n /\ enumerationDue(n) /\ ~ram'[n].enumeration_active
              /\ cfg'[n].CANID = selectedId(ram[n].enumeration_responses)
<1>1. ram \in [Node -> Ram] /\ cfg \in [Node -> Identity]
  BY DEF IInv, TypeOK
<1> DEFINE active == ram[k].enumeration_active /\ ~enumerationDue(k)
           start == IF enumerationDue(k) THEN 0 ELSE ram[k].enumeration_start
           changing == ram[k].mode_changing /\ ~transitionDue(k)
           r1 == [ram[k] EXCEPT !.enumeration_active = active]
           r2 == [r1 EXCEPT !.enumeration_start = start]
           r == [r2 EXCEPT !.mode_changing = changing]
<1>2. ram' = [ram EXCEPT ![k] = r] /\ cfg' = [cfg EXCEPT ![k] = chosen(k)]
  BY <1>1 DEF CheckTimers
<1>3. /\ r.enumeration_required = ram[k].enumeration_required
      /\ r.enumeration_responses = ram[k].enumeration_responses
      /\ r.enumeration_start = start /\ r.enumeration_active = active
  BY <1>1 DEF Ram
<1>4. ram'[k] = r /\ cfg'[k] = chosen(k) /\ (k # n => ram'[n] = ram[n])
  BY <1>1, <1>2
<1> HIDE DEF r, r1, r2, changing
<1>5. CASE enumerationDue(k)
  <2>1. chosen(k).CANID = selectedId(ram[k].enumeration_responses)
    BY <1>1, <1>5 DEF chosen, Identity
  <2> QED
    BY <1>3, <1>4, <1>5, <2>1 DEF Kept
<1>6. CASE ~enumerationDue(k)
  <2>1. active = ram[k].enumeration_active /\ start = ram[k].enumeration_start
    BY <1>1, <1>6 DEF Ram
  <2> QED
    BY <1>3, <1>4, <2>1 DEF Kept
<1> QED
  BY <1>5, <1>6

\* A change of mode ends no enumeration.
LEMMA TransitionKeeps ==
    ASSUME IInv, NEW k \in Node, NEW n \in Node, initFLiM(k) \/ revertSLiM(k)
    PROVE  Kept(ram[n], ram'[n])
<1>1. ram \in [Node -> Ram]
  BY DEF IInv, TypeOK
<1> DEFINE r == [ram[k] EXCEPT !.mode_changing = TRUE, !.timeout_timer = 0]
           s == [ram[k] EXCEPT !.mode_changing = FALSE]
<1>2. Kept(ram[k], r) /\ Kept(ram[k], s)
  BY <1>1 DEF Ram, Kept
<1>3. ram' = [ram EXCEPT ![k] = r] \/ ram' = [ram EXCEPT ![k] = s]
  BY <1>1 DEF initFLiM, revertSLiM
<1> HIDE DEF r, s
<1> QED
  BY <1>1, <1>2, <1>3 DEF Kept

\* What happens to a node's enumeration.
LEMMA EnumerationSteps ==
    ASSUME IInv, Next, NEW n \in Node
    PROVE  \/ start_enumeration(n)
           \/ Tick
           \/ Reboot(n)
           \/ Kept(ram[n], ram'[n])
           \/ /\ CheckTimers(n) /\ enumerationDue(n) /\ ~ram'[n].enumeration_active
              /\ cfg'[n].CANID = selectedId(ram[n].enumeration_responses)
<1>1. ram \in [Node -> Ram]
  BY DEF IInv, TypeOK
<1>2. ASSUME NEW k \in Node, start_enumeration(k), k # n
      PROVE  Kept(ram[n], ram'[n])
  BY <1>1, <1>2 DEF start_enumeration, Kept
<1>3. ASSUME NEW k \in Node, Reboot(k), k # n
      PROVE  Kept(ram[n], ram'[n])
  BY <1>1, <1>3 DEF Reboot, Kept
<1>4. ASSUME NEW k \in Node, initFLiM(k) \/ revertSLiM(k)
      PROVE  Kept(ram[n], ram'[n])
  BY <1>4, TransitionKeeps
<1>5. ASSUME ram' = ram
      PROVE  Kept(ram[n], ram'[n])
  BY <1>5 DEF Kept
<1>6. ASSUME NEW k \in Node, Process(k)
      PROVE  \/ start_enumeration(n) \/ Kept(ram[n], ram'[n])
             \/ /\ CheckTimers(n) /\ enumerationDue(n) /\ ~ram'[n].enumeration_active
                /\ cfg'[n].CANID = selectedId(ram[n].enumeration_responses)
  BY <1>2, <1>4, <1>5, <1>6, HandleFrameKeeps, CheckTimersKeeps
     DEF Process, StartRequired, SwitchQuiet, ReleaseLong
<1>7. CASE Surroundings
  BY <1>2, <1>3, <1>4, <1>5, <1>7
     DEF Surroundings, Foreign, SwitchHeld, Renegotiate, PressShort, SketchSends
<1> QED
  BY <1>6, <1>7 DEF Next

\* An enumeration that is required is not forgotten, and one under way ends with an id,
\* as long as the power stays on.
LEMMA RequiredKept ==
    ASSUME IInv, Next, "reboot" \notin Acts, NEW n \in Node,
           ram[n].enumeration_required \/ ram[n].enumeration_active
    PROVE  \/ ram'[n].enumeration_required \/ ram'[n].enumeration_active
           \/ cfg'[n].CANID # 0
<1>1. ram \in [Node -> Ram]
  BY DEF IInv, TypeOK
<1>2. CASE start_enumeration(n)
  <2>1. enumerating(ram[n]).enumeration_active
    BY <1>1 DEF enumerating, Ram
  <2> QED
    BY <1>1, <1>2, <2>1 DEF start_enumeration
<1>3. CASE Tick
  BY <1>1, <1>3 DEF Tick, aged, Ram
<1>4. CASE Kept(ram[n], ram'[n])
  BY <1>4 DEF Kept
<1>5. CASE CheckTimers(n) /\ cfg'[n].CANID = selectedId(ram[n].enumeration_responses)
  BY <1>1, <1>5, SelectedIsByte DEF Ram
<1>6. ~Reboot(n)
  BY DEF Reboot, Act
<1> QED
  BY <1>2, <1>3, <1>4, <1>5, <1>6, EnumerationSteps

\* A node that is in FLiM and has no CAN id is about to get one, if the nodes start with
\* identities that keep this and are not switched off in between: SNN requires an
\* enumeration, nothing cancels it, and it never ends with id 0.
THEOREM FLiMHasId ==
    ASSUME "reboot" \notin Acts, \A ids \in Identities, n \in Node : ids[n].FLiM => ids[n].CANID # 0
    PROVE  Spec => []FLiMGetsId
<1>1. Init => FLiMGetsId
  BY DEF Init, FLiMGetsId
<1>2. ASSUME IInv, FLiMGetsId, [Next]_vars
      PROVE  FLiMGetsId'
  <2>1. CASE UNCHANGED vars
    BY <1>2, <2>1 DEF vars, FLiMGetsId
  <2>2. CASE Next
    <3>1. ASSUME NEW n \in Node, cfg'[n].FLiM, cfg'[n].CANID = 0
          PROVE  ram'[n].enumeration_required \/ ram'[n].enumeration_active
      <4>1. CASE cfg'[n] = cfg[n]
        BY <1>2, <2>2, <3>1, <4>1, RequiredKept DEF FLiMGetsId
      <4>2. CASE cfg'[n] # cfg[n]
        BY <1>2, <2>2, <3>1, <4>2, IdentityChanges
      <4> QED
        BY <4>1, <4>2
    <3> QED
      BY <3>1 DEF FLiMGetsId
  <2> QED
    BY <1>2, <2>1, <2>2
<1> QED
  BY <1>1, <1>2, Inductive, PTL DEF Spec

-----------------------------------------------------------------------------
(* The choice of a CAN id.                                                  *)

Contents(q) == {q[i] : i \in DOMAIN q}

\* The frames in a buffer after a broadcast and after one has been taken.
LEMMA ContentsOfSend ==
    ASSUME NEW q \in Buffers, NEW k \in Node, NEW f \in Frames, NEW m \in Node
    PROVE  /\ Contents(q[m]) \subseteq Contents(Send(q, k, f)[m])
           /\ m # k /\ Len(q[m]) < RX_SIZE => f \in Contents(Send(q, k, f)[m])
<1>1. q[m] \in Seq(Frames)
  BY DEF Buffers
<1>2. Contents(q[m]) \subseteq Contents(Append(q[m], f)) /\ f \in Contents(Append(q[m], f))
  <2>1. /\ Append(q[m], f) \in Seq(Frames) /\ Len(Append(q[m], f)) = Len(q[m]) + 1
        /\ \A i \in 1 .. Len(q[m]) : Append(q[m], f)[i] = q[m][i]
        /\ Append(q[m], f)[Len(q[m]) + 1] = f /\ Len(q[m]) \in Nat
    BY <1>1
  <2>2. DOMAIN q[m] = 1 .. Len(q[m]) /\ DOMAIN Append(q[m], f) = 1 .. Len(q[m]) + 1
    BY <1>1, <2>1
  <2> QED
    BY <2>1, <2>2 DEF Contents
<1> QED
  BY <1>2 DEF Send

\* Taking the first frame of a buffer leaves the others there.
LEMMA ContentsOfRest ==
    ASSUME rx \in Buffers, NEW k \in Node, rx[k] # <<>>, NEW m \in Node
    PROVE  /\ m # k => Contents(rest(k)[m]) = Contents(rx[m])
           /\ Contents(rx[m]) \ {Head(rx[k])} \subseteq Contents(rest(k)[m])
<1>1. rx[k] \in Seq(Frames) /\ rx \in [Node -> Seq(Frames)]
  BY DEF Buffers
<1>2. Contents(rx[k]) \ {Head(rx[k])} \subseteq Contents(Tail(rx[k]))
  <2>1. /\ Tail(rx[k]) \in Seq(Frames) /\ Len(Tail(rx[k])) = Len(rx[k]) - 1
        /\ \A i \in 1 .. Len(rx[k]) - 1 : Tail(rx[k])[i] = rx[k][i + 1]
        /\ Head(rx[k]) = rx[k][1] /\ Len(rx[k]) \in Nat
    BY <1>1
  <2>2. DOMAIN rx[k] = 1 .. Len(rx[k]) /\ DOMAIN Tail(rx[k]) = 1 .. Len(rx[k]) - 1
    BY <1>1, <2>1
  <2>3. ASSUME NEW i \in 1 .. Len(rx[k]), i # 1
        PROVE  i - 1 \in 1 .. Len(rx[k]) - 1 /\ Tail(rx[k])[i - 1] = rx[k][i]
    BY <2>1, <2>3
  <2>4. ASSUME NEW f \in Contents(rx[k]), f # Head(rx[k])
        PROVE  f \in Contents(Tail(rx[k]))
    <3>1. PICK i \in 1 .. Len(rx[k]) : f = rx[k][i]
      BY <2>2 DEF Contents
    <3>2. i # 1
      BY <2>1, <2>4, <3>1
    <3> QED
      BY <2>2, <2>3, <3>1, <3>2 DEF Contents
  <2> QED
    BY <2>4
<1> QED
  BY <1>1, <1>2 DEF rest

\* No buffer is full, and no map is so full that an id above 127 is chosen.
NotAtLimits ==
    \A n \in Node : /\ Len(rx[n]) < RX_SIZE
                    /\ \E id \in unusedIds(ram[n].enumeration_responses) : id < 128

\* The id of m is in the map of n; or m has still to answer; or its answer is on its way.
Noted(n, m) ==
    header(cfg[m].CANID) # 0 => bitOf(header(cfg[m].CANID)) \in ram[n].enumeration_responses
WillAnswer(m) == \E f \in Contents(rx[m]) : f.op = "RTR"
Answered(n, m) == \E f \in Contents(rx[n]) : f.op = "EMPTY" /\ f.canid = header(cfg[m].CANID)

\* The answers of the nodes that keep their id are not lost; once time has passed, with
\* every frame handled, they are in the map.
Heard ==
    \A n \in Node : \A m \in steady[n] :
       /\ m # n
       /\ ram[n].enumeration_active =>
            \/ Noted(n, m)
            \/ ram[n].enumeration_start = 0 /\ (WillAnswer(m) \/ Answered(n, m))

\* The broadcast of a start reaches every other node.
LEMMA StartHeard ==
    ASSUME IInv, Heard, NotAtLimits, NEW k \in Node, start_enumeration(k), cfg' = cfg
    PROVE  Heard'
<1>1. /\ ram \in [Node -> Ram] /\ cfg \in [Node -> Identity] /\ steady \in [Node -> SUBSET Node]
      /\ rx \in Buffers
  BY DEF IInv, TypeOK
<1> DEFINE f == From(k, "RTR", 0, 0)
<1>2. f \in Frames /\ f.op = "RTR"
  <2>1. "RTR" \in Ops \ {"SNN"} /\ 0 \in {0} \cup NodeNumbers /\ 0 \in 0 .. 255
    BY DEF Ops, ForeignOps
  <2>2. f \in Frames
    BY <1>1, <2>1, FromFrame
  <2> QED
    BY <2>2 DEF From, Frame
<1>3. rx' = Send(rx, k, f)
  BY DEF start_enumeration
<1> HIDE DEF f
<1>4. \A m \in Node : Contents(rx[m]) \subseteq Contents(rx'[m])
  BY <1>1, <1>2, <1>3, ContentsOfSend
<1>5. \A m \in Node \ {k} : f \in Contents(rx'[m])
  BY <1>1, <1>2, <1>3, ContentsOfSend DEF NotAtLimits
<1>6. /\ ram'[k].enumeration_start = 0
      /\ steady'[k] = Node \ {k}
      /\ \A n \in Node \ {k} : ram'[n] = ram[n] /\ steady'[n] = steady[n]
  BY <1>1 DEF start_enumeration, enumerationStarted, enumerating, Ram
<1>7. ASSUME NEW n \in Node, NEW m \in steady'[n], ram'[n].enumeration_active
      PROVE  /\ m # n
             /\ \/ Noted(n, m)'
                \/ ram'[n].enumeration_start = 0 /\ (WillAnswer(m) \/ Answered(n, m))'
  <2>1. CASE n = k
    <3>1. m \in Node \ {k}
      BY <1>6, <1>7, <2>1
    <3> QED
      BY <1>2, <1>5, <1>6, <2>1, <3>1 DEF WillAnswer
  <2>2. CASE n # k
    <3>1. m \in Node /\ m \in steady[n] /\ ram'[n] = ram[n] /\ m # n
      BY <1>1, <1>6, <1>7, <2>2 DEF Heard
    <3> QED
      BY <1>4, <1>7, <3>1 DEF Heard, Noted, WillAnswer, Answered
  <2> QED
    BY <2>1, <2>2
<1>8. \A n \in Node : \A m \in steady'[n] : m # n
  BY <1>6 DEF Heard
<1> QED
  BY <1>7, <1>8 DEF Heard

\* A step that only adds frames.
LEMMA MoreFramesHeard ==
    ASSUME IInv, Heard,
           \A n \in Node : \/ Kept(ram[n], ram'[n])
                           \/ ~ram'[n].enumeration_active,
           \A m \in Node : Contents(rx[m]) \subseteq Contents(rx'[m]),
           \A n \in Node : steady'[n] \subseteq steady[n],
           \A n \in Node : \A m \in steady'[n] : cfg'[m].CANID = cfg[m].CANID
    PROVE  Heard'
<1>1. steady \in [Node -> SUBSET Node]
  BY DEF IInv, TypeOK
<1>2. ASSUME NEW n \in Node, NEW m \in steady'[n]
      PROVE  /\ m # n
             /\ ram'[n].enumeration_active =>
                  \/ Noted(n, m)'
                  \/ ram'[n].enumeration_start = 0 /\ (WillAnswer(m) \/ Answered(n, m))'
  <2>1. m \in steady[n] /\ m \in Node /\ cfg'[m].CANID = cfg[m].CANID
    BY <1>1, <1>2
  <2>2. CASE Kept(ram[n], ram'[n])
    BY <2>1, <2>2 DEF Heard, Kept, Noted, WillAnswer, Answered
  <2> QED
    BY <2>1, <2>2 DEF Heard
<1> QED
  BY <1>2 DEF Heard

\* A frame is handled.  A remote request is answered, a response noted; no other frame
\* was waited for.
LEMMA HandleFrameHeard ==
    ASSUME IInv, Heard, NotAtLimits, NEW k \in Node, HandleFrame(k)
    PROVE  Heard'
<1>1. /\ ram \in [Node -> Ram] /\ cfg \in [Node -> Identity] /\ steady \in [Node -> SUBSET Node]
      /\ rx \in Buffers
  BY DEF IInv, TypeOK
<1>2. PICK f : \/ AnswerRTR(k, f) \/ RecordResponse(k, f) \/ TakeNodeNumber(k, f) \/ TakeCANID(k, f)
               \/ TakeENUM(k, f) \/ AnswerQuery(k, f) \/ Ignore(k, f)
  BY DEF HandleFrame
<1>3. /\ Takes(k, f) /\ rx[k] # <<>> /\ f = Head(rx[k])
  BY <1>2 DEF AnswerRTR, RecordResponse, TakeNodeNumber, TakeCANID, TakeENUM, AnswerQuery, Ignore,
     Takes
<1>4. /\ f \in Frames /\ rest(k) \in Buffers
      /\ \A m \in Node : Contents(rx[m]) \ {f} \subseteq Contents(rest(k)[m])
      /\ \A m \in Node \ {k} : Contents(rx[m]) = Contents(rest(k)[m])
  BY <1>1, <1>3, RestBuffers, ContentsOfRest
<1>5. /\ \A m \in Node : Contents(rest(k)[m]) \subseteq Contents(rx'[m])
      /\ f.op = "RTR" => \A n \in Node \ {k} :
            \E g \in Contents(rx'[n]) : g.op = "EMPTY" /\ g.canid = header(cfg[k].CANID)
  <2>1. ASSUME NEW op \in Ops \ {"SNN"}, NEW nn \in {0} \cup NodeNumbers, NEW arg \in 0 .. 255
        PROVE  \A m \in Node : Contents(rest(k)[m]) \subseteq Contents(Send(rest(k), k, From(k, op, nn, arg))[m])
    BY <1>1, <1>4, FromFrame, ContentsOfSend
  <2>2. cfg[k].nodeNum \in {0} \cup NodeNumbers /\ (f.op = "SNN" => f.nn \in {0} \cup NodeNumbers)
    BY <1>1, <1>4 DEF Identity, Frames
  <2>3. {"EMPTY", "NNACK", "DATA"} \subseteq Ops \ {"SNN"} /\ {0, 7} \subseteq 0 .. 255
    BY DEF Ops, ForeignOps
  <2>4. \A m \in Node : Contents(rest(k)[m]) \subseteq Contents(rx'[m])
    <3>1. \/ rx' = rest(k)
          \/ \E op \in {"EMPTY", "NNACK", "DATA"}, nn \in {0} \cup NodeNumbers, arg \in {0, 7} :
                rx' = Send(rest(k), k, From(k, op, nn, arg))
      BY <1>2, <2>2 DEF AnswerRTR, RecordResponse, TakeNodeNumber, TakeCANID, TakeENUM, AnswerQuery, Ignore
    <3> QED
      BY <2>1, <2>3, <3>1
  <2>5. ASSUME f.op = "RTR", NEW n \in Node \ {k}
        PROVE  \E g \in Contents(rx'[n]) : g.op = "EMPTY" /\ g.canid = header(cfg[k].CANID)
    <3> DEFINE g == From(k, "EMPTY", 0, 0)
    <3>1. AnswerRTR(k, f)
      BY <1>2, <2>5 DEF RecordResponse, TakeNodeNumber, TakeCANID, TakeENUM, AnswerQuery, asked, Ignore
    <3>2. rx' = Send(rest(k), k, g)
      BY <3>1 DEF AnswerRTR
    <3>3. g \in Frames /\ g.op = "EMPTY" /\ g.canid = header(cfg[k].CANID)
      BY <1>1, <2>3, FromFrame DEF From, Frame
    <3>4. Len(rest(k)[n]) < RX_SIZE
      BY <1>1 DEF NotAtLimits, rest, Buffers
    <3> HIDE DEF g
    <3>5. g \in Contents(rx'[n])
      BY <1>4, <3>2, <3>3, <3>4, ContentsOfSend
    <3> QED
      BY <3>3, <3>5
  <2> QED
    BY <2>4, <2>5
<1>6. \A n \in Node : Kept(ram[n], ram'[n])
  BY HandleFrameKeeps
<1>7. /\ \A n \in Node : steady'[n] \subseteq steady[n]
      /\ \A n \in Node : \A m \in steady'[n] : cfg'[m].CANID = cfg[m].CANID
  <2>1. CASE TakeNodeNumber(k, f)
    <3> DEFINE id == [cfg[k] EXCEPT !.nodeNum = f.nn, !.FLiM = TRUE]
    <3>1. id.CANID = cfg[k].CANID
      BY <1>1 DEF Identity
    <3>2. cfg' = [cfg EXCEPT ![k] = id] /\ steady' = steady
      BY <1>1, <2>1 DEF TakeNodeNumber
    <3> HIDE DEF id
    <3> QED
      BY <1>1, <3>1, <3>2
  <2>2. CASE TakeCANID(k, f)
    <3>1. (cfg' = cfg /\ steady' = steady) \/ (cfg' = [cfg EXCEPT ![k].CANID = f.arg] /\ idChanged(k))
      BY <2>2 DEF TakeCANID
    <3> QED
      BY <1>1, <3>1 DEF idChanged
  <2>3. CASE AnswerRTR(k, f) \/ RecordResponse(k, f) \/ TakeENUM(k, f) \/ AnswerQuery(k, f) \/ Ignore(k, f)
    BY <2>3 DEF AnswerRTR, RecordResponse, TakeENUM, AnswerQuery, Ignore
  <2> QED
    BY <1>2, <2>1, <2>2, <2>3
<1>8. ASSUME NEW n \in Node, f.op = "EMPTY", ram[n].enumeration_active, n = k
      PROVE  ram'[n].enumeration_responses = noteResponse(ram[n].enumeration_responses, f.canid)
  <2>1. RecordResponse(k, f)
    BY <1>2, <1>8 DEF AnswerRTR, TakeNodeNumber, TakeCANID, TakeENUM, AnswerQuery, asked, Ignore
  <2> QED
    BY <1>1, <1>8, <2>1 DEF RecordResponse, Ram
<1>9. ASSUME NEW n \in Node, NEW m \in steady'[n], ram'[n].enumeration_active
      PROVE  \/ Noted(n, m)'
             \/ ram'[n].enumeration_start = 0 /\ (WillAnswer(m) \/ Answered(n, m))'
  <2>1. /\ m \in steady[n] /\ m \in Node /\ m # n /\ ram[n].enumeration_active
        /\ cfg'[m].CANID = cfg[m].CANID /\ ram'[n].enumeration_start = ram[n].enumeration_start
        /\ ram[n].enumeration_responses \subseteq ram'[n].enumeration_responses
    BY <1>1, <1>6, <1>7, <1>9 DEF Heard, Kept
  <2>2. CASE Noted(n, m)
    BY <2>1, <2>2 DEF Noted
  <2>3. CASE ram[n].enumeration_start = 0 /\ WillAnswer(m)
    <3>1. PICK g \in Contents(rx[m]) : g.op = "RTR"
      BY <2>3 DEF WillAnswer
    <3>2. CASE g = f /\ m = k
      <4>1. \E h \in Contents(rx'[n]) : h.op = "EMPTY" /\ h.canid = header(cfg[k].CANID)
        BY <1>5, <2>1, <3>1, <3>2
      <4> QED
        BY <2>1, <2>3, <3>2, <4>1 DEF Answered
    <3>3. CASE ~(g = f /\ m = k)
      <4>1. g \in Contents(rx'[m])
        BY <1>4, <1>5, <2>1, <3>1, <3>3
      <4> QED
        BY <2>1, <2>3, <3>1, <4>1 DEF WillAnswer
    <3> QED
      BY <3>2, <3>3
  <2>4. CASE ram[n].enumeration_start = 0 /\ Answered(n, m)
    <3>1. PICK g \in Contents(rx[n]) : g.op = "EMPTY" /\ g.canid = header(cfg[m].CANID)
      BY <2>4 DEF Answered
    <3>2. CASE g = f /\ n = k
      <4>1. ram'[n].enumeration_responses = noteResponse(ram[n].enumeration_responses, f.canid)
        BY <1>8, <2>1, <3>1, <3>2
      <4>2. f.canid = header(cfg'[m].CANID) /\ f.canid \in Nat
        BY <1>4, <2>1, <3>1, <3>2 DEF Frames, HeaderIds
      <4> QED
        BY <4>1, <4>2 DEF Noted, noteResponse
    <3>3. CASE ~(g = f /\ n = k)
      <4>1. g \in Contents(rx'[n])
        BY <1>4, <1>5, <3>1, <3>3
      <4> QED
        BY <2>1, <2>4, <3>1, <4>1 DEF Answered
    <3> QED
      BY <3>2, <3>3
  <2> QED
    BY <2>1, <2>2, <2>3, <2>4 DEF Heard
<1> QED
  BY <1>7, <1>9 DEF Heard

\* Every step keeps that an answer is recorded, in the buffer, or still asked for.
LEMMA HeardKept ==
    ASSUME PROMPT = TRUE, IInv, Heard, NotAtLimits, [Next]_vars
    PROVE  Heard'
<1>1. /\ ram \in [Node -> Ram] /\ cfg \in [Node -> Identity] /\ steady \in [Node -> SUBSET Node]
      /\ rx \in Buffers
  BY DEF IInv, TypeOK
<1>2. CASE UNCHANGED vars
  BY <1>2 DEF vars, Heard, Noted, WillAnswer, Answered
<1>3. CASE \E k \in Node : StartRequired(k) \/ PressShort(k)
  BY <1>3, StartHeard DEF StartRequired, PressShort
<1>4. CASE \E k \in Node : HandleFrame(k)
  BY <1>4, HandleFrameHeard
<1>5. CASE \E k \in Node : \/ SwitchQuiet(k) \/ SwitchHeld(k) \/ ReleaseLong(k) \/ Renegotiate(k)
                           \/ CheckTimers(k) \/ SketchSends(k)
  <2>1. PICK k \in Node : \/ SwitchQuiet(k) \/ SwitchHeld(k) \/ ReleaseLong(k) \/ Renegotiate(k)
                          \/ CheckTimers(k) \/ SketchSends(k)
    BY <1>5
  <2>2. \A n \in Node : Kept(ram[n], ram'[n]) \/ ~ram'[n].enumeration_active
    <3>1. CASE ram' = ram
      BY <3>1 DEF Kept
    <3>2. CASE CheckTimers(k)
      BY <3>2, CheckTimersKeeps
    <3>3. CASE initFLiM(k) \/ revertSLiM(k)
      BY <3>3, TransitionKeeps
    <3> QED
      BY <2>1, <3>1, <3>2, <3>3 DEF SwitchQuiet, SwitchHeld, ReleaseLong, Renegotiate, SketchSends
  <2>3. \A m \in Node : Contents(rx[m]) \subseteq Contents(rx'[m])
    <3>1. ASSUME NEW op \in Ops \ {"SNN"}, rx' = Send(rx, k, From(k, op, cfg[k].nodeNum, 0))
          PROVE  \A m \in Node : Contents(rx[m]) \subseteq Contents(rx'[m])
      <4>1. cfg[k].nodeNum \in {0} \cup NodeNumbers /\ 0 \in 0 .. 255
        BY <1>1 DEF Identity
      <4> QED
        BY <1>1, <3>1, <4>1, FromFrame, ContentsOfSend
    <3>2. {"RQNN", "NNREL", "DATA"} \subseteq Ops \ {"SNN"}
      BY DEF Ops, ForeignOps
    <3>3. CASE CheckTimers(k)
      <4> DEFINE ack == Frame(header(chosen(k).CANID), "NNACK", cfg[k].nodeNum, 0)
                 q == IF enumerationDue(k) THEN Send(rx, k, ack) ELSE rx
      <4>1. ack \in Frames
        BY <1>1, AckFrame
      <4>2. q \in Buffers /\ \A m \in Node : Contents(rx[m]) \subseteq Contents(q[m])
        BY <1>1, <4>1, SendBuffers, ContentsOfSend
      <4>3. rx' = Send(q, k, ack) \/ rx' = q
        BY <3>3 DEF CheckTimers
      <4> HIDE DEF ack, q
      <4>4. \A m \in Node : Contents(q[m]) \subseteq Contents(Send(q, k, ack)[m])
        BY <4>1, <4>2, ContentsOfSend
      <4> QED
        BY <4>2, <4>3, <4>4
    <3>4. CASE rx' = rx
      BY <3>4
    <3> QED
      BY <2>1, <3>1, <3>2, <3>3, <3>4
         DEF SwitchQuiet, SwitchHeld, ReleaseLong, Renegotiate, SketchSends, initFLiM, revertSLiM
  <2>4. /\ \A n \in Node : steady'[n] \subseteq steady[n]
        /\ \A n \in Node : \A m \in steady'[n] : cfg'[m].CANID = cfg[m].CANID
    <3>1. CASE cfg' = cfg /\ steady' = steady
      BY <3>1
    <3>2. CASE idChanged(k) /\ \A m \in Node \ {k} : cfg'[m] = cfg[m]
      BY <1>1, <3>2 DEF idChanged
    <3>3. CASE CheckTimers(k)
      <4>1. cfg' = [cfg EXCEPT ![k] = chosen(k)]
        BY <3>3 DEF CheckTimers
      <4>2. ~enumerationDue(k) => steady' = steady /\ cfg' = cfg
        BY <1>1, <3>3, <4>1 DEF CheckTimers, chosen
      <4>3. enumerationDue(k) => idChanged(k)
        BY <3>3 DEF CheckTimers
      <4> QED
        BY <1>1, <3>1, <3>2, <4>1, <4>2, <4>3
    <3>4. revertSLiM(k) => idChanged(k) /\ \A m \in Node \ {k} : cfg'[m] = cfg[m]
      BY <1>1 DEF revertSLiM
    <3> QED
      BY <2>1, <3>1, <3>2, <3>3, <3>4
         DEF SwitchQuiet, SwitchHeld, ReleaseLong, Renegotiate, SketchSends, initFLiM
  <2> QED
    BY <2>2, <2>3, <2>4, MoreFramesHeard
<1>6. CASE \E f \in ForeignFrames : Foreign(f)
  <2>1. PICK f \in ForeignFrames : Foreign(f)
    BY <1>6
  <2>2. \A m \in Node : Contents(rx[m]) \subseteq Contents(rx'[m])
    <3>1. f \in Frames
      BY ForeignFrame
    <3>2. ASSUME NEW m \in Node
          PROVE  Contents(rx[m]) \subseteq Contents(Append(rx[m], f))
      <4>1. rx[m] \in Seq(Frames)
        BY <1>1 DEF Buffers
      <4>2. /\ Append(rx[m], f) \in Seq(Frames) /\ Len(Append(rx[m], f)) = Len(rx[m]) + 1
            /\ \A i \in 1 .. Len(rx[m]) : Append(rx[m], f)[i] = rx[m][i] /\ Len(rx[m]) \in Nat
        BY <3>1, <4>1
      <4>3. DOMAIN rx[m] = 1 .. Len(rx[m]) /\ DOMAIN Append(rx[m], f) = 1 .. Len(rx[m]) + 1
        BY <4>1, <4>2
      <4> QED
        BY <4>2, <4>3 DEF Contents
    <3> QED
      BY <2>1, <3>2 DEF Foreign
  <2>3. \A n \in Node : Kept(ram[n], ram'[n])
    BY <2>1 DEF Foreign, Kept
  <2> QED
    BY <2>1, <2>2, <2>3, MoreFramesHeard DEF Foreign
<1>7. CASE \E k \in Node : Reboot(k)
  <2>1. PICK k \in Node : Reboot(k)
    BY <1>7
  <2>2. /\ ~ram'[k].enumeration_active /\ cfg' = cfg
        /\ \A n \in Node \ {k} : ram'[n] = ram[n] /\ rx'[n] = rx[n]
        /\ \A n \in Node : steady'[n] = steady[n] \ {k}
    BY <1>1, <2>1 DEF Reboot, powerOn, idChanged, Buffers
  <2> QED
    BY <1>1, <2>2 DEF Heard, Noted, WillAnswer, Answered
<1>8. CASE Tick
  <2>1. \A n \in Node : Contents(rx[n]) = {}
    BY <1>8 DEF Tick, Quiet, Contents
  <2>2. \A n \in Node : /\ ram'[n].enumeration_active = ram[n].enumeration_active
                        /\ ram'[n].enumeration_responses = ram[n].enumeration_responses
    BY <1>1, <1>8 DEF Tick, aged, Ram
  <2>3. cfg' = cfg /\ steady' = steady
    BY <1>8 DEF Tick
  <2> QED
    BY <1>1, <2>1, <2>2, <2>3 DEF Heard, Noted, WillAnswer, Answered
<1> QED
  BY <1>2, <1>3, <1>4, <1>5, <1>6, <1>7, <1>8 DEF Next, Process, Surroundings

\* The id selected is in no map in which the id of m is noted.
LEMMA SelectedAvoids ==
    ASSUME NEW responses \in SUBSET Bits, \E id \in unusedIds(responses) : id < 128,
           NEW id \in 0 .. 255, header(id) # 0 => bitOf(header(id)) \in responses
    PROVE  selectedId(responses) # id
<1> DEFINE U == unusedIds(responses)
<1>1. U \subseteq Nat
  BY BitOfId DEF unusedIds
<1>2. \E x \in U : \A y \in U : x <= y
  BY <1>1, LeastNat
<1>3. selectedId(responses) \in U /\ \A y \in U : selectedId(responses) <= y
  BY <1>2 DEF selectedId, Min
<1>4. selectedId(responses) < 128 /\ selectedId(responses) \in 1 .. 255
  BY <1>1, <1>3, SelectedIsByte
<1>5. PICK bit \in Bits : bit \notin responses /\ selectedId(responses) = idOf(bit)
  BY <1>3 DEF unusedIds
<1>6. bitOf(selectedId(responses)) \notin responses
  BY <1>5, BitOfId
<1>7. ASSUME selectedId(responses) = id
      PROVE  FALSE
  <2>1. header(id) = id /\ header(id) # 0
    BY <1>4, <1>7 DEF header
  <2> QED
    BY <1>6, <1>7, <2>1
<1> QED
  BY <1>7

\* As long as time passes only when every frame is handled, no frame is lost to a full
\* buffer and no map is full, a node never gives itself the id of another node that kept
\* its id during the enumeration.
THEOREM EnumerationAvoids ==
    ASSUME PROMPT = TRUE
    PROVE  Spec /\ []NotAtLimits => EnumerationAvoidsOthers
<1>1. Init => Heard
  BY DEF Init, Heard
<1>2. IInv /\ Heard /\ NotAtLimits /\ [Next]_vars => Heard'
  BY HeardKept
<1>3. ASSUME IInv, Heard, NotAtLimits, [Next]_vars
      PROVE  [\A n \in Node :
                CheckTimers(n) /\ enumerationDue(n) =>
                   \A m \in steady[n] : cfg'[n].CANID # cfg[m].CANID]_vars
  <2>1. ASSUME NEW n \in Node, CheckTimers(n), enumerationDue(n), NEW m \in steady[n]
        PROVE  cfg'[n].CANID # cfg[m].CANID
    <3>1. /\ ram[n] \in Ram /\ cfg \in [Node -> Identity] /\ m \in Node /\ cfg[m].CANID \in 0 .. 255
      BY <1>3 DEF IInv, TypeOK, Identity
    <3>2. ram[n].enumeration_start # 0 /\ ram[n].enumeration_active
      BY <2>1, <3>1, BusAssumption DEF enumerationDue, Ram
    <3>3. Noted(n, m)
      BY <1>3, <2>1, <3>2 DEF Heard
    <3>4. cfg'[n].CANID = selectedId(ram[n].enumeration_responses)
      <4>1. cfg' = [cfg EXCEPT ![n] = chosen(n)]
        BY <2>1 DEF CheckTimers
      <4> QED
        BY <2>1, <3>1, <4>1 DEF chosen, Identity
    <3>5. /\ ram[n].enumeration_responses \in SUBSET Bits
          /\ \E id \in unusedIds(ram[n].enumeration_responses) : id < 128
      BY <1>3, <3>1 DEF Ram, NotAtLimits
    <3> QED
      BY <3>1, <3>3, <3>4, <3>5, SelectedAvoids DEF Noted
  <2> QED
    BY <2>1
<1> QED
  BY <1>1, <1>2, <1>3, Inductive, PTL DEF Spec, EnumerationAvoidsOthers
=============================================================================
