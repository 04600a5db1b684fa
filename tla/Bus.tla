-------------------------------- MODULE Bus ---------------------------------
(***************************************************************************)
(* Nodes on a CAN bus, each running MLCBbase::process() again and again:    *)
(* the mode of a node (SLiM, FLiM, in transition), its identity, and the    *)
(* self-enumeration by which it takes a CAN id.                             *)
(*                                                                          *)
(* One call of process() is: start a required enumeration; let the switch   *)
(* run; handle at most NUM_MESSAGES received frames; look at the two        *)
(* timers.  pc[n] says where node n is in it.  Frames reach the receive     *)
(* buffers of the other nodes at once, at any point of their process().     *)
(* The CAN driver is external: a broadcast, stamped with the sender's CAN   *)
(* id, which a full receive buffer loses.  Also external are the people and *)
(* programs that act on a node: the configuration tool, the sketch, the     *)
(* push button.  Each of their acts takes one of finitely many stimuli,     *)
(* except for the kinds that never end.                                     *)
(***************************************************************************)
EXTENDS EnumMap, Sequences

CONSTANTS
    Node,
    Identities,     \* initial identities, a set of functions from Node
    NodeNumbers,    \* node numbers a configuration tool gives out
    SettableIds,    \* CAN ids it sets
    ForeignIds,     \* CAN ids of frames from the tool and other equipment
    Acts,           \* the kinds of stimuli that occur
    Endless,        \* those that may occur again and again for ever
    MAX_STIMULI,    \* bound on the number of the others
    NUM_MESSAGES,   \* frames handled by one call of process()
    RX_SIZE,        \* frames a receive buffer holds
    ENUM_TIME,      \* ticks of the enumeration timer, 100 ms
    MODE_TIME,      \* ticks of the transition timer, 30 s
    PROMPT          \* time passes only when every frame has been handled

\* What other equipment sends, and what is done to a node itself.
ForeignOps == {"SNN", "CANID", "ENUM", "QUERY", "RQNP", "QNN", "EXT", "RTR", "EMPTY", "DATA"}
LocalActs == {"button", "event", "reboot"}

Word == 0 .. 65535

\* What EEPROM keeps of a node.
Identity == [FLiM : BOOLEAN, CANID : 0 .. 255, nodeNum : {0} \cup NodeNumbers]

ASSUME BusAssumption ==
    /\ Identities \subseteq [Node -> Identity]
    /\ Acts \subseteq ForeignOps \cup LocalActs /\ Endless \subseteq Acts
    /\ NodeNumbers \subseteq Word \ {0}
    /\ SettableIds \subseteq 0 .. 255 /\ ForeignIds \subseteq HeaderIds
    /\ {NUM_MESSAGES, RX_SIZE, ENUM_TIME, MODE_TIME} \subseteq Nat \ {0}
    /\ MAX_STIMULI \in Nat /\ PROMPT \in BOOLEAN

VARIABLES
    cfg,      \* identity of each node, kept in EEPROM: FLiM, CANID, nodeNum
    ram,      \* the flags, timers and response map of its MLCBbase object
    led,      \* the mode its LEDs were last set to indicate
    sw,       \* its push button, "up" or "held" (for more than 8 s)
    pc,       \* where it is in process()
    mcount,   \* frames handled in this call of process()
    rx,       \* its receive buffer
    stimuli,  \* how many stimuli, other than endless ones, have been used
    steady    \* history: the nodes whose CAN id has not changed since node n
              \* last started to enumerate

vars == <<cfg, ram, led, sw, pc, mcount, rx, stimuli, steady>>

-----------------------------------------------------------------------------
(* Frames.  op is the opcode; EMPTY is a frame without data, RTR a remote   *)
(* request, EXT an extended frame, DATA any frame nobody acts on.           *)

Frame(canid, op, nn, arg) == [canid |-> canid, op |-> op, nn |-> nn, arg |-> arg]

hasData(f) == f.op \notin {"RTR", "EMPTY"}

\* getCANID and makeHeader: a header holds seven bits of the id.
header(id) == id % 128

\* A frame sent by node n, under the CAN id it has just then.
From(n, op, nn, arg) == Frame(header(cfg[n].CANID), op, nn, arg)

\* Receive buffers q after a broadcast by n; a full buffer loses the frame.
Send(q, n, f) ==
    [m \in Node |-> IF m # n /\ Len(q[m]) < RX_SIZE THEN Append(q[m], f) ELSE q[m]]

\* Node n's buffer without the frame it is handling.
rest(n) == [rx EXCEPT ![n] = Tail(@)]

MODE_SLIM == 0
MODE_FLIM == 1
MODE_CHANGING == 2
mode(n) == IF cfg[n].FLiM THEN MODE_FLIM ELSE MODE_SLIM

powerOn ==
    [mode_changing |-> FALSE, timeout_timer |-> 0,
     enumeration_required |-> FALSE, enumeration_active |-> FALSE,
     enumeration_start |-> 0, enumeration_responses |-> {}]

Init ==
    /\ cfg \in Identities
    /\ ram = [n \in Node |-> powerOn]
    /\ led = [n \in Node |-> mode(n)]
    /\ sw = [n \in Node |-> "up"]
    /\ pc = [n \in Node |-> "top"]
    /\ mcount = [n \in Node |-> 0]
    /\ rx = [n \in Node |-> <<>>]
    /\ stimuli = 0
    /\ steady = [n \in Node |-> {}]

\* History: node n has changed its CAN id, or started to enumerate.
idChanged(n) == steady' = [m \in Node |-> steady[m] \ {n}]
enumerationStarted(n) == steady' = [steady EXCEPT ![n] = Node \ {n}]

-----------------------------------------------------------------------------
(* The start of process(): a required enumeration, then the switch.        *)

\* Mutant: the cycle is not marked as active.
enumeratingNotActive(r) ==
    [r EXCEPT !.enumeration_required = FALSE, !.enumeration_start = 0,
              !.enumeration_responses = {}]

\* start_enumeration(): the sender's flags, and the RTR frame it sends.
enumerating(r) ==
    [r EXCEPT !.enumeration_required = FALSE, !.enumeration_active = TRUE,
              !.enumeration_start = 0, !.enumeration_responses = {}]

start_enumeration(n) ==
    /\ ram' = [ram EXCEPT ![n] = enumerating(@)]
    /\ rx' = Send(rx, n, From(n, "RTR", 0, 0))
    /\ enumerationStarted(n)

StartRequired(n) ==
    /\ pc[n] = "top"
    /\ ram[n].enumeration_required
    /\ start_enumeration(n)
    /\ UNCHANGED <<cfg, led, sw, pc, mcount, stimuli>>

\* The switch has its turn, and the loop over the received frames begins.
AtSwitch(n) ==
    /\ pc[n] = "top"
    /\ ~ram[n].enumeration_required
    /\ pc' = [pc EXCEPT ![n] = "msgs"]
    /\ mcount' = [mcount EXCEPT ![n] = 0]

Act(kind) ==
    /\ kind \in Acts
    /\ \/ kind \in Endless /\ UNCHANGED stimuli
       \/ kind \notin Endless /\ stimuli < MAX_STIMULI /\ stimuli' = stimuli + 1

SwitchQuiet(n) ==
    /\ AtSwitch(n)
    /\ led' = IF sw[n] = "held" THEN [led EXCEPT ![n] = MODE_CHANGING] ELSE led
    /\ UNCHANGED <<cfg, ram, sw, rx, stimuli, steady>>

\* Pressed for more than 8 s: the LEDs tell that the button can be released.
SwitchHeld(n) ==
    /\ AtSwitch(n)
    /\ sw[n] = "up"
    /\ Act("button")
    /\ sw' = [sw EXCEPT ![n] = "held"]
    /\ led' = [led EXCEPT ![n] = MODE_CHANGING]
    /\ UNCHANGED <<cfg, ram, rx, steady>>

\* initFLiM(), by a long press in SLiM or by renegotiate().
initFLiM(n) ==
    /\ led' = [led EXCEPT ![n] = MODE_CHANGING]
    /\ ram' = [ram EXCEPT ![n].mode_changing = TRUE, ![n].timeout_timer = 0]
    /\ rx' = Send(rx, n, From(n, "RQNN", cfg[n].nodeNum, 0))
    /\ UNCHANGED <<cfg, steady>>

\* Mutant: the LEDs are not told.
revertSLiMNoLed(n) ==
    /\ rx' = Send(rx, n, From(n, "NNREL", cfg[n].nodeNum, 0))
    /\ ram' = [ram EXCEPT ![n].mode_changing = FALSE]
    /\ cfg' = [cfg EXCEPT ![n] = [FLiM |-> FALSE, CANID |-> 0, nodeNum |-> 0]]
    /\ idChanged(n)
    /\ UNCHANGED led

\* revertSLiM(): NNREL goes out under the old identity, then setSLiM().
revertSLiM(n) ==
    /\ rx' = Send(rx, n, From(n, "NNREL", cfg[n].nodeNum, 0))
    /\ ram' = [ram EXCEPT ![n].mode_changing = FALSE]
    /\ cfg' = [cfg EXCEPT ![n] = [FLiM |-> FALSE, CANID |-> 0, nodeNum |-> 0]]
    /\ led' = [led EXCEPT ![n] = MODE_SLIM]
    /\ idChanged(n)

ReleaseLong(n) ==
    /\ AtSwitch(n)
    /\ sw[n] = "held"
    /\ sw' = [sw EXCEPT ![n] = "up"]
    /\ \/ ~cfg[n].FLiM /\ initFLiM(n)
       \/ cfg[n].FLiM /\ revertSLiM(n)
    /\ UNCHANGED stimuli

\* A press of 1 to 2 s.
Renegotiate(n) ==
    /\ AtSwitch(n)
    /\ sw[n] = "up"
    /\ Act("button")
    /\ initFLiM(n)
    /\ UNCHANGED sw

\* A press of less than 0.5 s; in SLiM it does nothing.
PressShort(n) ==
    /\ AtSwitch(n)
    /\ sw[n] = "up"
    /\ Act("button")
    /\ cfg[n].FLiM
    /\ start_enumeration(n)
    /\ UNCHANGED <<cfg, led, sw>>

-----------------------------------------------------------------------------
(* The loop over received frames.                                          *)

\* Mutants: the frames of one call are counted and not limited; not even counted.
TakesUnbounded(n, f) ==
    /\ pc[n] = "msgs"
    /\ rx[n] # <<>>
    /\ f = Head(rx[n])
    /\ mcount' = [mcount EXCEPT ![n] = @ + 1]
    /\ UNCHANGED <<pc, sw, stimuli>>

TakesUntilEmpty(n, f) ==
    /\ pc[n] = "msgs"
    /\ rx[n] # <<>>
    /\ f = Head(rx[n])
    /\ UNCHANGED <<pc, mcount, sw, stimuli>>

\* Node n takes frame f from its buffer.
Takes(n, f) ==
    /\ pc[n] = "msgs"
    /\ mcount[n] < NUM_MESSAGES
    /\ rx[n] # <<>>
    /\ f = Head(rx[n])
    /\ mcount' = [mcount EXCEPT ![n] = @ + 1]
    /\ UNCHANGED <<pc, sw, stimuli>>

\* A frame with data under the node's own id makes an enumeration required.
required(n, f) ==
    ram[n].enumeration_required \/ (f.canid = cfg[n].CANID /\ hasData(f))

noteConflict(n, f) == ram' = [ram EXCEPT ![n].enumeration_required = required(n, f)]

\* Mutant: a node that enumerates itself does not answer.
AnswerRTRUnlessEnumerating(n, f) ==
    /\ Takes(n, f)
    /\ f.op = "RTR"
    /\ rx' = IF ram[n].enumeration_active THEN rest(n)
             ELSE Send(rest(n), n, From(n, "EMPTY", 0, 0))
    /\ UNCHANGED <<cfg, ram, led, steady>>

AnswerRTR(n, f) ==
    /\ Takes(n, f)
    /\ f.op = "RTR"
    /\ rx' = Send(rest(n), n, From(n, "EMPTY", 0, 0))
    /\ UNCHANGED <<cfg, ram, led, steady>>

RecordResponse(n, f) ==
    /\ Takes(n, f)
    /\ f.op = "EMPTY"
    /\ ram[n].enumeration_active
    /\ ram' = [ram EXCEPT ![n].enumeration_responses = noteResponse(@, f.canid)]
    /\ rx' = rest(n)
    /\ UNCHANGED <<cfg, led, steady>>

\* Mutants: no enumeration after a new number; a number taken at any time.
TakeNodeNumberOnly(n, f) ==
    /\ Takes(n, f)
    /\ f.op = "SNN"
    /\ ram[n].mode_changing
    /\ cfg' = [cfg EXCEPT ![n].nodeNum = f.nn, ![n].FLiM = TRUE]
    /\ ram' = [ram EXCEPT ![n].mode_changing = FALSE]
    /\ led' = [led EXCEPT ![n] = MODE_FLIM]
    /\ rx' = Send(rest(n), n, From(n, "NNACK", f.nn, 0))
    /\ UNCHANGED steady

TakeNodeNumberAnytime(n, f) ==
    /\ Takes(n, f)
    /\ f.op = "SNN"
    /\ cfg' = [cfg EXCEPT ![n].nodeNum = f.nn, ![n].FLiM = TRUE]
    /\ ram' = [ram EXCEPT ![n].mode_changing = FALSE, ![n].enumeration_required = TRUE]
    /\ led' = [led EXCEPT ![n] = MODE_FLIM]
    /\ rx' = Send(rest(n), n, From(n, "NNACK", f.nn, 0))
    /\ UNCHANGED steady

\* OPC_SNN during a transition: a node number, and with it FLiM.
TakeNodeNumber(n, f) ==
    /\ Takes(n, f)
    /\ f.op = "SNN"
    /\ ram[n].mode_changing
    /\ cfg' = [cfg EXCEPT ![n].nodeNum = f.nn, ![n].FLiM = TRUE]
    /\ ram' = [ram EXCEPT ![n].mode_changing = FALSE, ![n].enumeration_required = TRUE]
    /\ led' = [led EXCEPT ![n] = MODE_FLIM]
    /\ rx' = Send(rest(n), n, From(n, "NNACK", f.nn, 0))
    /\ UNCHANGED steady

\* OPC_CANID: an id set by the tool.
TakeCANID(n, f) ==
    /\ Takes(n, f)
    /\ f.op = "CANID"
    /\ f.nn = cfg[n].nodeNum
    /\ noteConflict(n, f)
    /\ \/ /\ f.arg \in 1 .. 99
          /\ cfg' = [cfg EXCEPT ![n].CANID = f.arg]
          /\ rx' = rest(n)
          /\ idChanged(n)
       \/ /\ f.arg \notin 1 .. 99
          /\ rx' = Send(rest(n), n, From(n, "DATA", cfg[n].nodeNum, 7))
          /\ UNCHANGED <<cfg, steady>>
    /\ UNCHANGED led

\* OPC_ENUM: enumerate, unless the node is at it.
TakeENUM(n, f) ==
    /\ Takes(n, f)
    /\ f.op = "ENUM"
    /\ f.nn = cfg[n].nodeNum
    /\ ram' = [ram EXCEPT ![n].enumeration_required =
                   required(n, f) \/ (f.canid # cfg[n].CANID /\ ~ram[n].enumeration_active)]
    /\ rx' = rest(n)
    /\ UNCHANGED <<cfg, led, steady>>

\* The opcodes that are answered with one frame and change nothing else.
\* QUERY stands for those that carry the node number (RQNPN, NVRD, NVSET,
\* RDGN, RQEVN, ...), RQNP for the two that a node in transition answers.
asked(n, f) ==
    \/ f.op = "QUERY" /\ f.nn = cfg[n].nodeNum
    \/ f.op = "RQNP" /\ ram[n].mode_changing
    \/ f.op = "QNN" /\ cfg[n].nodeNum > 0

AnswerQuery(n, f) ==
    /\ Takes(n, f)
    /\ asked(n, f)
    /\ noteConflict(n, f)
    /\ rx' = Send(rest(n), n, From(n, "DATA", cfg[n].nodeNum, 0))
    /\ UNCHANGED <<cfg, led, steady>>

\* Everything else: frames for other nodes, extended frames, late responses,
\* and frames for which the node has no handler.
Ignore(n, f) ==
    /\ Takes(n, f)
    /\ \/ f.op \in {"EXT", "DATA", "RQNN", "NNREL", "NNACK"}
       \/ f.op = "EMPTY" /\ ~ram[n].enumeration_active
       \/ f.op = "SNN" /\ ~ram[n].mode_changing
       \/ f.op \in {"CANID", "ENUM"} /\ f.nn # cfg[n].nodeNum
       \/ f.op \in {"QUERY", "RQNP", "QNN"} /\ ~asked(n, f)
    /\ noteConflict(n, f)
    /\ rx' = rest(n)
    /\ UNCHANGED <<cfg, led, steady>>

HandleFrame(n) ==
    /\ rx[n] # <<>>
    /\ LET f == Head(rx[n])
       IN  \/ AnswerRTR(n, f)
           \/ RecordResponse(n, f)
           \/ TakeNodeNumber(n, f)
           \/ TakeCANID(n, f)
           \/ TakeENUM(n, f)
           \/ AnswerQuery(n, f)
           \/ Ignore(n, f)

-----------------------------------------------------------------------------
(* The end of process(): the two timers.                                   *)

\* Mutants: the cycle waits for a response; the timeout is for FLiM nodes only.
enumerationDueIfAnswered(n) ==
    /\ ram[n].enumeration_active
    /\ ram[n].enumeration_start >= ENUM_TIME
    /\ ram[n].enumeration_responses # {}

transitionDueInFLiM(n) ==
    ram[n].mode_changing /\ cfg[n].FLiM /\ ram[n].timeout_timer >= MODE_TIME

enumerationDue(n) == ram[n].enumeration_active /\ ram[n].enumeration_start >= ENUM_TIME
transitionDue(n) == ram[n].mode_changing /\ ram[n].timeout_timer >= MODE_TIME

\* The identity after check_enumeration(): an id that no response was noted for.
chosen(n) ==
    IF enumerationDue(n)
    THEN [cfg[n] EXCEPT !.CANID = selectedId(ram[n].enumeration_responses)]
    ELSE cfg[n]

\* check_enumeration() and the transition's timeout.  Each sends an NNACK under
\* the identity of that moment, the timeout only if a number is kept.
CheckTimers(n) ==
    /\ pc[n] = "msgs"
    /\ rx[n] = <<>> \/ mcount[n] = NUM_MESSAGES
    /\ pc' = [pc EXCEPT ![n] = "top"]
    /\ mcount' = [mcount EXCEPT ![n] = 0]
    /\ cfg' = [cfg EXCEPT ![n] = chosen(n)]
    /\ ram' = [ram EXCEPT
                 ![n].enumeration_active = @ /\ ~enumerationDue(n),
                 ![n].enumeration_start = IF enumerationDue(n) THEN 0 ELSE @,
                 ![n].mode_changing = @ /\ ~transitionDue(n)]
    /\ led' = IF transitionDue(n) THEN [led EXCEPT ![n] = mode(n)] ELSE led
    /\ LET ack == Frame(header(chosen(n).CANID), "NNACK", cfg[n].nodeNum, 0)
           q == IF enumerationDue(n) THEN Send(rx, n, ack) ELSE rx
       IN  rx' = IF transitionDue(n) /\ cfg[n].FLiM /\ cfg[n].nodeNum > 0
                 THEN Send(q, n, ack) ELSE q
    /\ IF enumerationDue(n) THEN idChanged(n) ELSE UNCHANGED steady
    /\ UNCHANGED <<sw, stimuli>>

-----------------------------------------------------------------------------
(* Time, and the surroundings.                                             *)

Quiet == \A n \in Node : rx[n] = <<>> /\ ~ram[n].enumeration_required

\* One tick of millis(); a timer that is not running, or has run out, stands.
aged(r) ==
    [r EXCEPT
       !.enumeration_start = IF r.enumeration_active /\ @ < ENUM_TIME THEN @ + 1 ELSE @,
       !.timeout_timer = IF r.mode_changing /\ @ < MODE_TIME THEN @ + 1 ELSE @]

Tick ==
    /\ PROMPT => Quiet
    /\ ram' = [n \in Node |-> aged(ram[n])]
    /\ UNCHANGED <<cfg, led, sw, pc, mcount, rx, stimuli, steady>>

\* The configuration tool and other equipment; its frame reaches every node.
Foreign(f) ==
    /\ Act(f.op)
    /\ rx' = [n \in Node |-> IF Len(rx[n]) < RX_SIZE THEN Append(rx[n], f) ELSE rx[n]]
    /\ UNCHANGED <<cfg, ram, led, sw, pc, mcount, steady>>

ForeignFrames ==
    [canid : ForeignIds, op : {"SNN", "QUERY", "ENUM"}, nn : NodeNumbers, arg : {0}]
    \cup [canid : ForeignIds, op : {"CANID"}, nn : NodeNumbers, arg : SettableIds]
    \cup [canid : ForeignIds, op : {"RQNP", "QNN", "EXT", "RTR", "EMPTY", "DATA"},
          nn : {0}, arg : {0}]

\* The sketch sends an accessory event, between two calls of process().
SketchSends(n) ==
    /\ Act("event")
    /\ pc[n] = "top"
    /\ rx' = Send(rx, n, From(n, "DATA", cfg[n].nodeNum, 0))
    /\ UNCHANGED <<cfg, ram, led, sw, pc, mcount, steady>>

\* A power cycle: the identity is read back and the sketch indicates the mode.
Reboot(n) ==
    /\ Act("reboot")
    /\ ram' = [ram EXCEPT ![n] = powerOn]
    /\ led' = [led EXCEPT ![n] = mode(n)]
    /\ sw' = [sw EXCEPT ![n] = "up"]
    /\ pc' = [pc EXCEPT ![n] = "top"]
    /\ mcount' = [mcount EXCEPT ![n] = 0]
    /\ rx' = [rx EXCEPT ![n] = <<>>]
    /\ idChanged(n)
    /\ UNCHANGED cfg

Process(n) ==
    \/ StartRequired(n)
    \/ SwitchQuiet(n)
    \/ ReleaseLong(n)
    \/ HandleFrame(n)
    \/ CheckTimers(n)

Surroundings ==
    \/ \E f \in ForeignFrames : Foreign(f)
    \/ \E n \in Node :
          SwitchHeld(n) \/ Renegotiate(n) \/ PressShort(n) \/ SketchSends(n) \/ Reboot(n)

Next == (\E n \in Node : Process(n)) \/ Tick \/ Surroundings

Spec == Init /\ [][Next]_vars

\* loop() calls process() for ever, and time goes on.
Fairness == (\A n \in Node : WF_vars(Process(n))) /\ WF_vars(Tick)

FairSpec == Spec /\ Fairness

-----------------------------------------------------------------------------
(* Properties.                                                             *)

Ram == [mode_changing : BOOLEAN, timeout_timer : 0 .. MODE_TIME,
        enumeration_required : BOOLEAN, enumeration_active : BOOLEAN,
        enumeration_start : 0 .. ENUM_TIME, enumeration_responses : SUBSET Bits]

TypeOK ==
    /\ cfg \in [Node -> Identity]
    /\ ram \in [Node -> Ram]
    /\ led \in [Node -> {MODE_SLIM, MODE_FLIM, MODE_CHANGING}]
    /\ sw \in [Node -> {"up", "held"}]
    /\ pc \in [Node -> {"top", "msgs"}]
    /\ mcount \in [Node -> 0 .. NUM_MESSAGES]
    /\ \A n \in Node : Len(rx[n]) <= RX_SIZE
    /\ stimuli \in 0 .. MAX_STIMULI
    /\ steady \in [Node -> SUBSET Node]

\* The LEDs never lie about the mode: with the button up they show a transition
\* exactly while one is open, else the mode the node is in.  indicateMode is
\* called from five places that change the mode or the transition flag.
LedShowsMode ==
    \A n \in Node :
        sw[n] = "up" => led[n] = IF ram[n].mode_changing THEN MODE_CHANGING ELSE mode(n)

\* A node that has become a FLiM node is not left without a CAN id: as long as
\* its id is 0, an enumeration is required or under way (SNN, start_enumeration,
\* check_enumeration).  A power cycle in between breaks this, see the README.
FLiMGetsId ==
    \A n \in Node :
        cfg[n].FLiM /\ cfg[n].CANID = 0 =>
            ram[n].enumeration_required \/ ram[n].enumeration_active

\* The node number is only changed by closing an open transition, into FLiM, or
\* by reverting to SLiM, which drops the number and the CAN id with it.
NodeNumberGuarded ==
    [][\A n \in Node :
          cfg'[n].nodeNum # cfg[n].nodeNum =>
             \/ ram[n].mode_changing /\ ~ram'[n].mode_changing /\ cfg'[n].FLiM
             \/ ~cfg'[n].FLiM /\ cfg'[n].CANID = 0 /\ cfg'[n].nodeNum = 0]_vars

\* If the other nodes answer before the timer runs out, check_enumeration does
\* not choose the id of any node that kept its id while n was enumerating.
EnumerationAvoidsOthers ==
    [][\A n \in Node :
          CheckTimers(n) /\ enumerationDue(n) =>
             \A m \in steady[n] : cfg'[n].CANID # cfg[m].CANID]_vars

\* "enumerate the CAN bus to allocate a free CAN ID": the id a node gives itself
\* is free, i.e. no other node has it.
FreeIdAllocated ==
    [][\A n \in Node :
          CheckTimers(n) /\ enumerationDue(n) =>
             \A m \in Node \ {n} : cfg'[n].CANID # cfg[m].CANID]_vars

\* A required enumeration is started, and one under way comes to an end, though
\* conflicting frames can restart it, and frames that come without end can keep
\* the buffer from ever running empty.
EnumerationStarts ==
    \A n \in Node : ram[n].enumeration_required ~> ram[n].enumeration_active
EnumerationEnds ==
    \A n \in Node : ram[n].enumeration_active ~> ~ram[n].enumeration_active

\* A transition does not stay open for ever, whether the tool answers or not, and
\* however many frames there are to be handled.
TransitionEnds ==
    \A n \in Node : ram[n].mode_changing ~> ~ram[n].mode_changing

=============================================================================
