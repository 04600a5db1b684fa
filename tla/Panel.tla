-------------------------------- MODULE Panel --------------------------------
(***************************************************************************)
(* The push button and the two LEDs of a node (MLCBSwitch, MLCBLED), and    *)
(* what process() does with them: it runs the LEDs, runs the switch, tells  *)
(* by the LEDs that a long press can be released, acts on a release, and    *)
(* pulses the green LED for each frame.  Bus has the same node with the     *)
(* button reduced to the presses process() tells apart; here the contact is *)
(* read as it comes, at any moment, bounces included, and the LEDs blink.   *)
(*                                                                         *)
(* Times are kept as ages in ticks and stand at the largest that any test   *)
(* tells apart.                                                             *)
(***************************************************************************)
EXTENDS Integers

CONSTANTS
    VERY_SHORT,    \* a press below this starts an enumeration, 0.5 s in the code
    SHORT_MIN,     \* a press from this on renegotiates, 1 s
    SHORT_MAX,     \* and below this, 2 s
    SW_TR_HOLD,    \* a press above this changes the mode, 8 s
    BLINK_RATE,    \* half a period of a blinking LED, 0.5 s
    MODE_TIME      \* a transition is given up after this time, 30 s

ASSUME PanelAssumption ==
    /\ {VERY_SHORT, SHORT_MIN, SHORT_MAX, SW_TR_HOLD, BLINK_RATE, MODE_TIME} \subseteq Nat \ {0}
    /\ VERY_SHORT <= SHORT_MIN /\ SHORT_MIN < SHORT_MAX /\ SHORT_MAX <= SW_TR_HOLD

VARIABLES
    pressed,        \* the contact is closed
    sw,             \* the MLCBSwitch object
    grn, ylw,       \* the MLCBLED objects
    FLiM,           \* of module_config
    mode_changing,
    timeout_timer,
    pc,             \* "ui": process() begins; "frames": it handles frames and timers
    did,            \* what the release of the button did in the last step
    promised        \* history: the LEDs have told that this press can be released

leds == <<grn, ylw>>
mode == <<FLiM, mode_changing, timeout_timer>>
vars == <<pressed, sw, leds, mode, pc, did, promised>>

least(a, b) == IF a < b THEN a ELSE b

-----------------------------------------------------------------------------
(* MLCBLED.  lit is the level of the pin.                                   *)

dark == [state |-> FALSE, blink |-> FALSE, since |-> 0, lit |-> FALSE]

on(led) == [led EXCEPT !.state = TRUE, !.blink = FALSE]
off(led) == [led EXCEPT !.state = FALSE, !.blink = FALSE]

\* Mutant: the time of the last change is set, too.
blinkRestarted(led) == [led EXCEPT !.blink = TRUE, !.since = 0]

blink(led) == [led EXCEPT !.blink = TRUE]

\* run(): a blinking LED is toggled when it is due; the pin follows the state.
run(led) ==
    LET due == led.blink /\ led.since >= BLINK_RATE
        state == IF due THEN ~led.state ELSE led.state
    IN  [led EXCEPT !.state = state, !.since = IF due THEN 0 ELSE @, !.lit = state]

\* pulse(): on, and run() at once.  The length of a pulse is 0 unless op() sets it,
\* so that the pulse ends in that run(), and with it the LED is off, whatever it was.
pulse(led) == [run([led EXCEPT !.state = TRUE]) EXCEPT !.state = FALSE, !.lit = FALSE]

-----------------------------------------------------------------------------
(* MLCBSwitch.                                                             *)

LONGEST == SW_TR_HOLD + 1

released == [isPressed |-> FALSE, stateChanged |-> FALSE, since |-> 0, lastStateDuration |-> 0]

\* Mutant: the time begins with the release before.
sampledSinceRelease(s) ==
    IF pressed # s.isPressed
    THEN [isPressed |-> pressed, stateChanged |-> TRUE, since |-> 0,
          lastStateDuration |-> s.lastStateDuration]
    ELSE [s EXCEPT !.stateChanged = FALSE]

\* run(): there is no time within which a change is taken for a bounce.
sampled(s) ==
    IF pressed # s.isPressed
    THEN [isPressed |-> pressed, stateChanged |-> TRUE, since |-> 0, lastStateDuration |-> s.since]
    ELSE [s EXCEPT !.stateChanged = FALSE]

-----------------------------------------------------------------------------
(* MLCBbase.                                                               *)

current(flim) == IF flim THEN "FLIM" ELSE "SLIM"

indicatedYellow(m, led) ==
    CASE m = "FLIM" -> on(led) [] m = "SLIM" -> off(led) [] m = "CHANGING" -> blink(led)

\* Mutant: the green LED is left alone in a transition.
indicatedGreenKept(m, led) ==
    CASE m = "FLIM" -> off(led) [] m = "SLIM" -> on(led) [] m = "CHANGING" -> led

indicatedGreen(m, led) == IF m = "SLIM" THEN on(led) ELSE off(led)

\* The LEDs g and y after indicateMode(m).
indicateMode(m, g, y) == grn' = indicatedGreen(m, g) /\ ylw' = indicatedYellow(m, y)

\* The start of process(): both LEDs run, and the switch.
green == run(grn)
yellow == run(ylw)
switch == sampled(sw)

RunUI ==
    /\ pc = "ui"
    /\ pc' = "frames"
    /\ sw' = switch
    /\ UNCHANGED pressed

Holding == switch.isPressed /\ switch.since > SW_TR_HOLD

\* The button is not released.  After a long press the LEDs tell that it can be.
NoRelease ==
    /\ RunUI
    /\ ~switch.stateChanged \/ switch.isPressed
    /\ \/ Holding /\ indicateMode("CHANGING", green, yellow)
       \/ ~Holding /\ grn' = green /\ ylw' = yellow
    /\ promised' = Holding
    /\ did' = "nothing"
    /\ UNCHANGED mode

press_time == switch.lastStateDuration

Release ==
    /\ RunUI
    /\ switch.stateChanged /\ ~switch.isPressed
    /\ promised' = FALSE

\* initFLiM, which is also what renegotiate does.
initFLiM ==
    /\ indicateMode("CHANGING", green, yellow)
    /\ mode_changing' = TRUE
    /\ timeout_timer' = 0
    /\ UNCHANGED FLiM

revertSLiM ==
    /\ FLiM' = FALSE
    /\ mode_changing' = FALSE
    /\ indicateMode("SLIM", green, yellow)
    /\ UNCHANGED timeout_timer

ReleaseLong ==
    /\ Release
    /\ press_time > SW_TR_HOLD
    /\ \/ ~FLiM /\ initFLiM
       \/ FLiM /\ revertSLiM
    /\ did' = "change"

Renegotiate ==
    /\ Release
    /\ press_time \in SHORT_MIN .. SHORT_MAX - 1
    /\ initFLiM
    /\ did' = "renegotiate"

\* A press of another length: an enumeration, see Bus, or nothing.
ReleaseOther ==
    /\ Release
    /\ press_time <= SW_TR_HOLD /\ press_time \notin SHORT_MIN .. SHORT_MAX - 1
    /\ did' = IF press_time < VERY_SHORT /\ FLiM THEN "enumerate" ELSE "nothing"
    /\ grn' = green /\ ylw' = yellow
    /\ UNCHANGED mode

\* The green LED is pulsed, then the frame is handled.  SNN closes a transition.
HandleFrame ==
    /\ pc = "frames"
    /\ \/ UNCHANGED <<mode, ylw>> /\ grn' = pulse(grn)
       \/ /\ mode_changing
          /\ mode_changing' = FALSE
          /\ FLiM' = TRUE
          /\ ylw' = indicatedYellow("FLIM", ylw)
          /\ grn' = indicatedGreen("FLIM", pulse(grn))
          /\ UNCHANGED timeout_timer
    /\ did' = "nothing"
    /\ UNCHANGED <<pressed, sw, pc, promised>>

\* Mutant: the LEDs go on showing the transition.
EndFramesSilent ==
    /\ pc = "frames"
    /\ pc' = "ui"
    /\ mode_changing' = (mode_changing /\ timeout_timer < MODE_TIME)
    /\ did' = "nothing"
    /\ UNCHANGED <<leds, pressed, sw, promised, FLiM, timeout_timer>>

\* The end of process(): the timeout of a transition.
EndFrames ==
    /\ pc = "frames"
    /\ pc' = "ui"
    /\ mode_changing' = (mode_changing /\ timeout_timer < MODE_TIME)
    /\ \/ mode_changing /\ ~mode_changing' /\ indicateMode(current(FLiM), grn, ylw)
       \/ mode_changing = mode_changing' /\ UNCHANGED leds
    /\ did' = "nothing"
    /\ UNCHANGED <<pressed, sw, promised, FLiM, timeout_timer>>

-----------------------------------------------------------------------------
(* The finger, and time.                                                   *)

Contact ==
    /\ pressed' = ~pressed
    /\ did' = "nothing"
    /\ UNCHANGED <<sw, leds, mode, pc, promised>>

Tick ==
    /\ sw' = [sw EXCEPT !.since = least(@ + 1, LONGEST)]
    /\ grn' = [grn EXCEPT !.since = least(@ + 1, BLINK_RATE)]
    /\ ylw' = [ylw EXCEPT !.since = least(@ + 1, BLINK_RATE)]
    /\ timeout_timer' = IF mode_changing THEN least(timeout_timer + 1, MODE_TIME) ELSE timeout_timer
    /\ did' = "nothing"
    /\ UNCHANGED <<pressed, FLiM, mode_changing, pc, promised>>

\* The sketch's setup indicates the mode that was stored.
Init ==
    /\ FLiM \in BOOLEAN
    /\ grn = indicatedGreen(current(FLiM), dark) /\ ylw = indicatedYellow(current(FLiM), dark)
    /\ mode_changing = FALSE
    /\ timeout_timer = 0
    /\ pressed \in BOOLEAN
    /\ sw = released
    /\ pc = "ui"
    /\ did = "nothing"
    /\ promised = FALSE

Process == NoRelease \/ ReleaseLong \/ Renegotiate \/ ReleaseOther \/ EndFrames

Next == Process \/ HandleFrame \/ Contact \/ Tick

Spec == Init /\ [][Next]_vars

\* loop() calls process() for ever, which handles finitely many frames, and time
\* goes on.
FairSpec == Spec /\ WF_vars(Process) /\ WF_vars(Tick)

-----------------------------------------------------------------------------
(* Properties.                                                             *)

LED == [state : BOOLEAN, blink : BOOLEAN, since : 0 .. BLINK_RATE, lit : BOOLEAN]

\* Types; and the green LED is never left blinking or lit outside SLiM.
TypeOK ==
    /\ {grn, ylw} \subseteq LED
    /\ sw \in [isPressed : BOOLEAN, stateChanged : BOOLEAN, since : 0 .. LONGEST,
               lastStateDuration : 0 .. LONGEST]
    /\ {FLiM, mode_changing, promised, pressed} \subseteq BOOLEAN
    /\ timeout_timer \in 0 .. MODE_TIME
    /\ ~grn.blink /\ (grn.state => ~FLiM /\ ~mode_changing)

\* However the button is pressed, bounces and is held while transitions are opened,
\* closed and time out: with no long press under way the yellow LED blinks exactly in
\* a transition, and is on in FLiM and off in SLiM (indicateMode, and on() and off()
\* which end the blinking).
YellowShowsMode ==
    ~promised =>
        /\ ylw.blink <=> mode_changing
        /\ ~mode_changing => (ylw.state <=> FLiM)

\* Once the LEDs have told that the button can be released, its release changes the
\* mode, whatever happened in the meantime: the test of the running press and that of
\* the finished one measure the same time.
ReleaseKeepsPromise ==
    [][promised /\ ~promised' => did' = "change"]_vars

\* In a transition, and while a long press is held, the yellow LED goes on and off,
\* though blink() is called anew in every process().
YellowBlinks ==
    /\ ylw.blink /\ ylw.lit ~> ~ylw.blink \/ ~ylw.lit
    /\ ylw.blink /\ ~ylw.lit ~> ~ylw.blink \/ ylw.lit

=============================================================================
