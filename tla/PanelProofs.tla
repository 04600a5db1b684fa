----------------------------- MODULE PanelProofs -----------------------------
(***************************************************************************)
(* Proofs about Panel, for all the times of the code and however the        *)
(* contact bounces: what the LEDs show, and what they promise.              *)
(***************************************************************************)
EXTENDS Panel, TLAPS

-----------------------------------------------------------------------------
(* The LEDs and the switch.                                                 *)

\* The operations of MLCBLED give LEDs; those that show a mode give, whatever the
\* LED did before, the one that shows it.
LEMMA LEDOperations ==
    ASSUME NEW led \in LED
    PROVE  /\ run(led) \in LED /\ run(led).blink = led.blink
           /\ ~led.blink => run(led).state = led.state
           /\ pulse(led) \in LED /\ pulse(led).blink = led.blink /\ ~pulse(led).state
           /\ on(led) \in LED /\ on(led).state /\ ~on(led).blink
           /\ off(led) \in LED /\ ~off(led).state /\ ~off(led).blink
           /\ blink(led) \in LED /\ blink(led).blink
<1>1. BLINK_RATE \in Nat \ {0} /\ 0 \in 0 .. BLINK_RATE
  BY PanelAssumption
<1>2. ASSUME NEW l \in LED
      PROVE  /\ run(l) \in LED /\ run(l).blink = l.blink
             /\ ~l.blink => run(l).state = l.state
  <2> DEFINE due == l.blink /\ l.since >= BLINK_RATE
             state == IF due THEN ~l.state ELSE l.state
             since == IF due THEN 0 ELSE l.since
  <2>1. state \in BOOLEAN /\ since \in 0 .. BLINK_RATE /\ l.blink \in BOOLEAN
    BY <1>1 DEF LED
  <2>2. ~l.blink => state = l.state
    BY DEF LED
  <2>3. run(l) = [l EXCEPT !.state = state, !.since = since, !.lit = state]
    BY DEF run
  <2> HIDE DEF state, since
  <2>4. run(l) = [state |-> state, blink |-> l.blink, since |-> since, lit |-> state]
    BY <2>3 DEF LED
  <2> QED
    BY <2>1, <2>2, <2>4 DEF LED
<1>3. /\ on(led) \in LED /\ on(led).state /\ ~on(led).blink
      /\ off(led) \in LED /\ ~off(led).state /\ ~off(led).blink
      /\ blink(led) \in LED /\ blink(led).blink
  BY DEF LED, on, off, blink
<1>4. pulse(led) \in LED /\ pulse(led).blink = led.blink /\ ~pulse(led).state
  <2> DEFINE l == [led EXCEPT !.state = TRUE]
  <2>1. l \in LED /\ l.blink = led.blink
    BY DEF LED
  <2>2. run(l) \in LED /\ run(l).blink = led.blink
    BY <1>2, <2>1
  <2> QED
    BY <2>2 DEF pulse, LED
<1> QED
  BY <1>2, <1>3, <1>4

\* What indicateMode makes of the two LEDs.
LEMMA IndicatedMode ==
    ASSUME NEW g \in LED, NEW y \in LED, NEW m \in {"FLIM", "SLIM", "CHANGING"}
    PROVE  /\ indicatedGreen(m, g) \in LED /\ ~indicatedGreen(m, g).blink
           /\ indicatedGreen(m, g).state <=> m = "SLIM"
           /\ indicatedYellow(m, y) \in LED
           /\ indicatedYellow(m, y).blink <=> m = "CHANGING"
           /\ m # "CHANGING" => (indicatedYellow(m, y).state <=> m = "FLIM")
BY LEDOperations DEF indicatedGreen, indicatedYellow

Switch == [isPressed : BOOLEAN, stateChanged : BOOLEAN, since : 0 .. LONGEST,
           lastStateDuration : 0 .. LONGEST]

\* A reading of the switch: it says what the contact says, and a press that ends
\* has the length it had.
LEMMA SwitchReading ==
    ASSUME sw \in Switch, pressed \in BOOLEAN
    PROVE  /\ switch \in Switch
           /\ switch.isPressed = pressed
           /\ switch.stateChanged <=> pressed # sw.isPressed
           /\ switch.stateChanged => switch.lastStateDuration = sw.since
           /\ ~switch.stateChanged => switch.since = sw.since
<1>1. 0 \in 0 .. LONGEST
  BY PanelAssumption DEF LONGEST
<1>2. CASE pressed # sw.isPressed
  BY <1>1, <1>2 DEF switch, sampled, Switch
<1>3. CASE pressed = sw.isPressed
  BY <1>3 DEF switch, sampled, Switch
<1> QED
  BY <1>2, <1>3

-----------------------------------------------------------------------------
(* The inductive invariant.                                                 *)

\* What the LEDs have promised is still true of the button: it is held, and has been
\* for long enough.
PromiseHeld == promised => sw.isPressed /\ sw.since > SW_TR_HOLD

\* The yellow LED can be told from the mode only while nothing is promised, and the
\* promise ends only with what the invariant says of the button: the three belong
\* together.
IInv == TypeOK /\ PromiseHeld /\ YellowShowsMode

\* A node that starts shows the mode that was stored.
LEMMA InitIInv == Init => IInv
<1> SUFFICES ASSUME Init PROVE IInv
  OBVIOUS
<1>1. dark \in LED
  BY PanelAssumption DEF dark, LED
<1>2. current(FLiM) \in {"FLIM", "SLIM"} /\ (current(FLiM) = "FLIM" <=> FLiM) /\ FLiM \in BOOLEAN
  BY DEF Init, current
<1>3. /\ {grn, ylw} \subseteq LED /\ ~grn.blink /\ (grn.state => ~FLiM)
      /\ ~ylw.blink /\ (ylw.state <=> FLiM)
  BY <1>1, <1>2, IndicatedMode DEF Init
<1>4. sw \in Switch /\ timeout_timer \in 0 .. MODE_TIME
  BY PanelAssumption DEF Init, released, Switch, LONGEST
<1> QED
  BY <1>3, <1>4 DEF Init, IInv, TypeOK, Switch, PromiseHeld, YellowShowsMode

\* The start of process(), before the button is looked at.
LEMMA RunUIKeeps ==
    ASSUME IInv, RunUI
    PROVE  /\ green \in LED /\ yellow \in LED
           /\ ~green.blink /\ (green.state => ~FLiM /\ ~mode_changing)
           /\ ~promised => /\ yellow.blink <=> mode_changing
                           /\ ~mode_changing => (yellow.state <=> FLiM)
           /\ sw' \in Switch /\ sw' = switch /\ pressed' \in BOOLEAN
           /\ promised => Holding \/ (switch.stateChanged /\ ~switch.isPressed)
           /\ switch.stateChanged /\ ~switch.isPressed =>
                /\ press_time \in 0 .. LONGEST
                /\ promised => press_time > SW_TR_HOLD
<1>1. /\ grn \in LED /\ ylw \in LED /\ sw \in Switch /\ pressed \in BOOLEAN
      /\ ~grn.blink /\ (grn.state => ~FLiM /\ ~mode_changing)
  BY DEF IInv, TypeOK, Switch
<1>2. /\ green \in LED /\ yellow \in LED /\ ~green.blink /\ (green.state => grn.state)
      /\ yellow.blink = ylw.blink /\ (~ylw.blink => yellow.state = ylw.state)
  BY <1>1, LEDOperations DEF green, yellow
<1>3. ~promised => /\ yellow.blink <=> mode_changing
                   /\ ~mode_changing => (yellow.state <=> FLiM)
  BY <1>2 DEF IInv, YellowShowsMode
<1>4. /\ switch \in Switch /\ switch.isPressed = pressed
      /\ switch.stateChanged <=> pressed # sw.isPressed
      /\ switch.stateChanged => switch.lastStateDuration = sw.since
      /\ ~switch.stateChanged => switch.since = sw.since
  BY <1>1, SwitchReading
<1>5. promised => Holding \/ (switch.stateChanged /\ ~switch.isPressed)
  <2>1. CASE pressed = sw.isPressed
    BY <1>1, <1>4, <2>1 DEF IInv, PromiseHeld, Holding
  <2>2. CASE pressed # sw.isPressed
    BY <1>1, <1>4, <2>2 DEF IInv, PromiseHeld, Switch
  <2> QED
    BY <2>1, <2>2
<1>6. switch.stateChanged /\ ~switch.isPressed =>
        /\ press_time \in 0 .. LONGEST
        /\ promised => press_time > SW_TR_HOLD
  BY <1>1, <1>4 DEF IInv, PromiseHeld, press_time, Switch
<1> QED
  BY <1>1, <1>2, <1>3, <1>4, <1>5, <1>6 DEF RunUI

\* A transition is opened, or ended by a long press.
LEMMA InitFLiMShown ==
    ASSUME green \in LED, yellow \in LED, initFLiM, FLiM \in BOOLEAN
    PROVE  /\ {grn', ylw'} \subseteq LED /\ ~grn'.blink /\ ~grn'.state /\ ylw'.blink
           /\ mode_changing' /\ FLiM' \in BOOLEAN /\ mode_changing' \in BOOLEAN
           /\ timeout_timer' \in 0 .. MODE_TIME
BY IndicatedMode, PanelAssumption DEF initFLiM, indicateMode

\* revertSLiM leaves both LEDs as SLiM shows them, and no transition.
LEMMA RevertSLiMShown ==
    ASSUME green \in LED, yellow \in LED, revertSLiM, timeout_timer \in 0 .. MODE_TIME
    PROVE  /\ {grn', ylw'} \subseteq LED /\ ~grn'.blink /\ ~ylw'.blink /\ ~ylw'.state
           /\ ~mode_changing' /\ ~FLiM' /\ FLiM' \in BOOLEAN /\ mode_changing' \in BOOLEAN
           /\ timeout_timer' \in 0 .. MODE_TIME
BY IndicatedMode DEF revertSLiM, indicateMode

\* Every step keeps the invariant.
LEMMA NextIInv ==
    ASSUME IInv, [Next]_vars
    PROVE  IInv'
<1> USE DEF IInv
<1>1. /\ grn \in LED /\ ylw \in LED /\ sw \in Switch /\ timeout_timer \in 0 .. MODE_TIME
      /\ FLiM \in BOOLEAN /\ mode_changing \in BOOLEAN /\ promised \in BOOLEAN /\ pressed \in BOOLEAN
      /\ ~grn.blink /\ (grn.state => ~FLiM /\ ~mode_changing)
  BY DEF TypeOK, Switch
<1>2. CASE NoRelease
  <2>1. RunUI /\ (promised => Holding) /\ Holding \in BOOLEAN
    BY <1>2, RunUIKeeps DEF NoRelease, Holding
  <2>2. CASE Holding
    <3>1. {grn', ylw'} \subseteq LED /\ ~grn'.blink /\ ~grn'.state
      BY <1>2, <2>1, <2>2, RunUIKeeps, IndicatedMode DEF NoRelease, indicateMode
    <3> QED
      BY <1>1, <1>2, <2>1, <2>2, <3>1, RunUIKeeps
         DEF NoRelease, Holding, TypeOK, Switch, PromiseHeld, YellowShowsMode, mode
  <2>3. CASE ~Holding
    BY <1>1, <1>2, <2>1, <2>3, RunUIKeeps
       DEF NoRelease, TypeOK, Switch, PromiseHeld, YellowShowsMode, mode
  <2> QED
    BY <2>2, <2>3
<1>3. CASE initFLiM /\ Release
  <2>1. RunUI
    BY <1>3 DEF Release
  <2> QED
    BY <1>1, <1>3, <2>1, RunUIKeeps, InitFLiMShown
       DEF Release, TypeOK, Switch, PromiseHeld, YellowShowsMode
<1>4. CASE revertSLiM /\ Release
  <2>1. RunUI
    BY <1>4 DEF Release
  <2> QED
    BY <1>1, <1>4, <2>1, RunUIKeeps, RevertSLiMShown
       DEF Release, TypeOK, Switch, PromiseHeld, YellowShowsMode
<1>5. CASE ReleaseLong \/ Renegotiate
  BY <1>3, <1>4, <1>5 DEF ReleaseLong, Renegotiate
<1>6. CASE ReleaseOther
  <2>1. RunUI /\ switch.stateChanged /\ ~switch.isPressed
    BY <1>6 DEF ReleaseOther, Release
  <2>2. press_time \in 0 .. LONGEST /\ (promised => press_time > SW_TR_HOLD)
    BY <2>1, RunUIKeeps
  <2>3. ~promised
    BY <1>6, <2>2, PanelAssumption DEF ReleaseOther, LONGEST
  <2> QED
    BY <1>1, <1>6, <2>1, <2>3, RunUIKeeps
       DEF ReleaseOther, Release, TypeOK, Switch, PromiseHeld, YellowShowsMode, mode
<1>7. CASE HandleFrame
  <2>1. UNCHANGED <<pressed, sw, promised>>
    BY <1>7 DEF HandleFrame
  <2>2. CASE UNCHANGED <<mode, ylw>> /\ grn' = pulse(grn)
    BY <1>1, <2>1, <2>2, LEDOperations
       DEF TypeOK, Switch, PromiseHeld, YellowShowsMode, mode
  <2>3. CASE /\ mode_changing' = FALSE /\ FLiM' = TRUE /\ UNCHANGED timeout_timer
             /\ ylw' = indicatedYellow("FLIM", ylw) /\ grn' = indicatedGreen("FLIM", pulse(grn))
    <3>1. {grn', ylw'} \subseteq LED /\ ~grn'.blink /\ ~grn'.state /\ ~ylw'.blink /\ ylw'.state
      BY <1>1, <2>3, LEDOperations, IndicatedMode
    <3> QED
      BY <1>1, <2>1, <2>3, <3>1 DEF TypeOK, Switch, PromiseHeld, YellowShowsMode
  <2> QED
    BY <1>7, <2>2, <2>3 DEF HandleFrame
<1>8. CASE EndFrames
  <2>1. UNCHANGED <<pressed, sw, promised, FLiM, timeout_timer>> /\ mode_changing' \in BOOLEAN
    BY <1>8 DEF EndFrames
  <2>2. CASE mode_changing = mode_changing' /\ UNCHANGED leds
    BY <1>1, <2>1, <2>2 DEF TypeOK, Switch, PromiseHeld, YellowShowsMode, leds
  <2>3. CASE ~mode_changing' /\ indicateMode(current(FLiM), grn, ylw)
    <3>1. current(FLiM) \in {"FLIM", "SLIM"} /\ (current(FLiM) = "FLIM" <=> FLiM)
      BY DEF current
    <3>2. /\ {grn', ylw'} \subseteq LED /\ ~grn'.blink /\ (grn'.state => ~FLiM)
          /\ ~ylw'.blink /\ (ylw'.state <=> FLiM)
      BY <1>1, <2>3, <3>1, IndicatedMode DEF indicateMode
    <3> QED
      BY <1>1, <2>1, <2>3, <3>2 DEF TypeOK, Switch, PromiseHeld, YellowShowsMode
  <2> QED
    BY <1>8, <2>2, <2>3 DEF EndFrames
<1>9. CASE Contact
  BY <1>1, <1>9 DEF Contact, TypeOK, Switch, PromiseHeld, YellowShowsMode, leds, mode
<1>10. CASE Tick
  <2>1. LONGEST \in Nat /\ BLINK_RATE \in Nat /\ MODE_TIME \in Nat /\ LONGEST = SW_TR_HOLD + 1
    BY PanelAssumption DEF LONGEST
  <2>2. ASSUME NEW led \in LED
        PROVE  [led EXCEPT !.since = least(@ + 1, BLINK_RATE)] \in LED
    BY <2>1 DEF LED, least
  <2>3. /\ grn' \in LED /\ ylw' \in LED /\ grn'.blink = grn.blink /\ grn'.state = grn.state
        /\ ylw'.blink = ylw.blink /\ ylw'.state = ylw.state
    BY <1>1, <1>10, <2>2 DEF Tick, LED
  <2>4. sw' \in Switch /\ sw'.isPressed = sw.isPressed /\ (sw.since > SW_TR_HOLD => sw'.since > SW_TR_HOLD)
    BY <1>1, <1>10, <2>1, PanelAssumption DEF Tick, Switch, least
  <2>5. timeout_timer' \in 0 .. MODE_TIME
    BY <1>1, <1>10, <2>1 DEF Tick, least
  <2>6. UNCHANGED <<pressed, FLiM, mode_changing, promised>>
    BY <1>10 DEF Tick
  <2> QED
    BY <1>1, <2>3, <2>4, <2>5, <2>6
       DEF TypeOK, Switch, PromiseHeld, YellowShowsMode
<1>11. CASE UNCHANGED vars
  BY <1>1, <1>11 DEF vars, leds, mode, TypeOK, Switch, PromiseHeld, YellowShowsMode
<1> QED
  BY <1>2, <1>5, <1>6, <1>7, <1>8, <1>9, <1>10, <1>11 DEF Next, Process

-----------------------------------------------------------------------------
(* The theorems.                                                            *)

\* What the others rest on.
THEOREM Inductive == Spec => []IInv
<1>1. Init => IInv
  BY InitIInv
<1>2. IInv /\ [Next]_vars => IInv'
  BY NextIInv
<1> QED
  BY <1>1, <1>2, PTL DEF Spec

\* The types; and the green LED is never left blinking, nor lit outside SLiM.
THEOREM TypeCorrect == Spec => []TypeOK
<1>1. IInv => TypeOK
  BY DEF IInv
<1> QED
  BY <1>1, Inductive, PTL

\* With no long press under way the yellow LED blinks exactly in a transition, and is
\* on in FLiM and off in SLiM, for all times and however the contact bounces.
THEOREM YellowShows == Spec => []YellowShowsMode
<1>1. IInv => YellowShowsMode
  BY DEF IInv
<1> QED
  BY <1>1, Inductive, PTL

\* Only the release of a long press takes back what the LEDs have promised, and it
\* changes the mode.
THEOREM PromiseKept == Spec => ReleaseKeepsPromise
<1>1. IInv /\ [Next]_vars => [promised /\ ~promised' => did' = "change"]_vars
  <2> SUFFICES ASSUME IInv, Next, promised, ~promised' PROVE did' = "change"
    OBVIOUS
  <2>1. CASE NoRelease
    BY <2>1, RunUIKeeps DEF NoRelease
  <2>2. CASE ReleaseLong
    BY <2>2 DEF ReleaseLong
  <2>3. CASE Renegotiate \/ ReleaseOther
    <3>1. press_time \in 0 .. LONGEST /\ press_time > SW_TR_HOLD
      BY <2>3, RunUIKeeps DEF Renegotiate, ReleaseOther, Release
    <3> QED
      BY <2>3, <3>1, PanelAssumption DEF Renegotiate, ReleaseOther, LONGEST
  <2>4. CASE HandleFrame \/ EndFrames \/ Contact \/ Tick
    BY <2>4 DEF HandleFrame, EndFrames, Contact, Tick
  <2> QED
    BY <2>1, <2>2, <2>3, <2>4 DEF Next, Process
<1> QED
  BY <1>1, Inductive, PTL DEF Spec, ReleaseKeepsPromise

=============================================================================
