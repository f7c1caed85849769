------------------------------ MODULE GlProofs ------------------------------
(* Theorems about Gl, for any number of devices, screens and buffers.       *)
EXTENDS Gl, FiniteSetTheorems, WellFoundedInduction, TLAPS

USE DevsAssumption, BosAssumption

----------------------------------------------------------------------------
(* The objects of EGL and GBM.                                              *)

\* The part of TypeOK these objects are, and what else is of use.
ObjTypes ==
    /\ phase \in {"setup", "check", "ready", "ending"} /\ at \in 1..NumDevs + 1
    /\ current \in 0..NumDevs /\ torn \in 0..Len(TearDown) + 1
    /\ tried \in [Devs -> BOOLEAN]
    /\ eg \in [Devs -> SUBSET Kinds] /\ libs \in [Devs -> SUBSET Kinds]
    /\ phase \in {"setup", "check"} => at \in Devs
    /\ phase # "ending" => torn = 0

\* What has been made of a device: all of the device or nothing more than a
\* failure leaves; while the application draws, all that is set exists.
Made ==
    /\ phase \in {"setup", "check", "ready"} => libs = eg
    /\ \A d \in Devs : libs[d] \subseteq eg[d]
    /\ \A d \in Devs : phase \in {"check", "ready"} \/ (phase = "setup" /\ d < at)
                           => {"gbm_dev", "display"} \subseteq eg[d]
    /\ current # 0 => phase \in {"ready", "ending"}
    /\ phase = "ready" /\ current # 0 => "gbm_sur" \in libs[current]

\* The layers of one device.
Stacked(S) ==
    /\ S # {} => "gbm_dev" \in S
    /\ "context" \in S => "display" \in S
    /\ "egl_sur" \in S => {"display", "gbm_sur"} \subseteq S

\* What the destruction of the device at has taken down already, and that it
\* has taken down those before.
TornDown ==
    phase = "ending" =>
        /\ \A d \in Devs : d < at => eg[d] = {} /\ current # d
        /\ at \in Devs => /\ \A i \in DOMAIN TearDown : i < torn => TearDown[i] \notin eg[at]
                          /\ torn > 1 => current # at

ObjInv == ObjTypes /\ Made /\ (\A d \in Devs : Stacked(libs[d])) /\ TornDown

LEMMA TearDownSteps ==
    /\ Len(TearDown) = 5 /\ DOMAIN TearDown = 1..5
    /\ TearDown[1] = "context" /\ TearDown[2] = "egl_sur" /\ TearDown[3] = "gbm_sur"
    /\ TearDown[4] = "display" /\ TearDown[5] = "gbm_dev"
  BY DEF TearDown

LEMMA ObjInit == Init => ObjInv
  BY TearDownSteps, SMTT(30) DEF Init, ObjInv, ObjTypes, Made, Stacked, TornDown, Devs, Kinds

\* What a step of the constructor, or of loading, adds to the fields of a device
\* and to the objects it has.
Adds(d, fields, made) ==
    /\ \A e \in Devs \ {d} : eg'[e] = eg[e] /\ libs'[e] = libs[e]
    /\ eg'[d] = eg[d] \cup fields /\ libs'[d] = libs[d] \cup made

LEMMA MakeAdds ==
    ASSUME ObjInv, NEW d \in Devs, NEW fields \in SUBSET Kinds, NEW made \in SUBSET Kinds,
           Make(d, fields, made)
    PROVE  /\ Adds(d, fields, made)
           /\ eg' \in [Devs -> SUBSET Kinds] /\ libs' \in [Devs -> SUBSET Kinds]
  BY DEF ObjInv, ObjTypes, Make, Adds

\* So does a step that adds nothing.
LEMMA NoneAdds ==
    ASSUME ObjInv, NEW d \in Devs, UNCHANGED <<eg, libs>>
    PROVE  /\ Adds(d, {}, {})
           /\ eg' \in [Devs -> SUBSET Kinds] /\ libs' \in [Devs -> SUBSET Kinds]
  BY DEF ObjInv, ObjTypes, Adds

\* What the first failures leave is stacked.
LEMMA AddsStacked ==
    ASSUME ObjInv, NEW d \in Devs, NEW fields, NEW made, Adds(d, fields, made),
           made \subseteq fields, Stacked(libs[d] \cup made)
    PROVE  /\ \A e \in Devs : Stacked(libs'[e])
           /\ \A e \in Devs : libs'[e] \subseteq eg'[e] /\ eg[e] \subseteq eg'[e]
                              /\ libs[e] \subseteq libs'[e]
           /\ libs = eg /\ made = fields => \A e \in Devs : libs'[e] = eg'[e]
  BY DEF ObjInv, Made, Adds

\* An exception ends the constructor, or the use of the devices.
LEMMA ObjThrow ==
    ASSUME ObjInv, NEW d \in Devs, NEW fields, NEW made, Adds(d, fields, made),
           made \subseteq fields, Stacked(libs[d] \cup made),
           eg' \in [Devs -> SUBSET Kinds], libs' \in [Devs -> SUBSET Kinds],
           phase # "ending", Throw, tried' \in [Devs -> BOOLEAN], UNCHANGED <<current, torn>>
    PROVE  ObjInv'
  <1>1. phase' = "ending" /\ at' = 1 /\ torn' = 0 /\ at' \in Devs /\ ~ \E e \in Devs : e < at'
    BY DEF Throw, ObjInv, ObjTypes, Devs
  <1>2. /\ \A e \in Devs : Stacked(libs'[e])
        /\ \A e \in Devs : libs'[e] \subseteq eg'[e]
    BY AddsStacked
  <1>3. ObjTypes'
    BY <1>1, TearDownSteps DEF ObjInv, ObjTypes, Devs
  <1>4. Made'
    BY <1>1, <1>2 DEF Made
  <1>5. TornDown'
    BY <1>1, TearDownSteps DEF TornDown
  <1> QED
    BY <1>2, <1>3, <1>4, <1>5 DEF ObjInv

LEMMA ObjSetUp ==
    ASSUME ObjInv, SetUp \/ SetUpFails \/ Check
    PROVE  ObjInv'
  <1>1. at \in Devs /\ torn = 0 /\ libs = eg /\ phase \in {"setup", "check"} /\ current = 0
    BY DEF SetUp, SetUpFails, Check, ObjInv, ObjTypes, Made
  <1>2. Stacked(libs[at])
    BY <1>1 DEF ObjInv
  <1>3. tried \in [Devs -> BOOLEAN] /\ eg \in [Devs -> SUBSET Kinds]
    BY DEF ObjInv, ObjTypes
  <1>4. CASE SetUp
    <2> DEFINE both == {"gbm_dev", "display"}
    <2>1. phase = "setup" /\ Make(at, both, both) /\ UNCHANGED <<current, tried, torn>>
      BY <1>4 DEF SetUp
    <2>2. \/ at < NumDevs /\ at' = at + 1 /\ phase' = phase
          \/ at = NumDevs /\ at' = 1 /\ phase' = "check"
      BY <1>1, <1>4 DEF SetUp, Devs
    <2>3. both \in SUBSET Kinds
      BY DEF Kinds
    <2>4. Adds(at, both, both) /\ eg' \in [Devs -> SUBSET Kinds] /\ libs' \in [Devs -> SUBSET Kinds]
      BY <1>1, <2>1, <2>3, MakeAdds
    <2>5. Stacked(libs[at] \cup both)
      BY <1>2 DEF Stacked
    <2>6. /\ \A e \in Devs : Stacked(libs'[e])
          /\ \A e \in Devs : libs'[e] = eg'[e] /\ eg[e] \subseteq eg'[e]
      BY <1>1, <2>4, <2>5, AddsStacked
    <2>7. libs' = eg'
      BY <2>4, <2>6
    <2>8. both \subseteq eg'[at]
      BY <2>4 DEF Adds
    <2> HIDE DEF both
    <2>9. \A d \in Devs : d < at => both \subseteq eg'[d]
      BY <2>1, <2>6 DEF ObjInv, Made, both
    <2>10. \A d \in Devs : phase' = "check" \/ d < at' => both \subseteq eg'[d]
      BY <1>1, <2>1, <2>2, <2>8, <2>9 DEF Devs
    <2>11. ObjTypes'
      BY <1>1, <1>3, <2>1, <2>2, <2>4, TearDownSteps DEF ObjTypes, Devs
    <2>12. Made'
      BY <1>1, <2>1, <2>2, <2>7, <2>10 DEF Made, both
    <2>13. TornDown'
      BY <2>1, <2>2 DEF TornDown
    <2> QED
      BY <2>6, <2>11, <2>12, <2>13 DEF ObjInv
  <1>5. CASE SetUpFails
    <2>1. /\ phase # "ending" /\ Throw /\ tried' \in [Devs -> BOOLEAN]
          /\ UNCHANGED <<current, torn>>
      BY <1>3, <1>5 DEF SetUpFails
    <2>2. CASE UNCHANGED <<eg, libs>>
      <3>1. Stacked(libs[at] \cup {})
        BY <1>2 DEF Stacked
      <3> QED
        BY <1>1, <2>1, <2>2, <3>1, NoneAdds, ObjThrow
    <2>3. ASSUME NEW fields \in {{"gbm_dev"}, {"gbm_dev", "display"}},
                 Make(at, fields, {"gbm_dev"})
          PROVE  ObjInv'
      <3>1. fields \in SUBSET Kinds /\ {"gbm_dev"} \in SUBSET Kinds /\ {"gbm_dev"} \subseteq fields
        BY DEF Kinds
      <3>2. Stacked(libs[at] \cup {"gbm_dev"})
        BY <1>2 DEF Stacked
      <3>3. /\ Adds(at, fields, {"gbm_dev"})
            /\ eg' \in [Devs -> SUBSET Kinds] /\ libs' \in [Devs -> SUBSET Kinds]
        BY <1>1, <2>3, <3>1, MakeAdds
      <3> QED
        BY <1>1, <2>1, <3>1, <3>2, <3>3, ObjThrow
    <2> QED
      BY <1>5, <2>2, <2>3 DEF SetUpFails
  <1>6. CASE Check
    <2>1. phase = "check" /\ UNCHANGED <<current, eg, libs, tried, torn>>
      BY <1>6 DEF Check, objVars
    <2>2. CASE Throw
      <3>1. Stacked(libs[at] \cup {})
        BY <1>2 DEF Stacked
      <3> QED
        BY <1>1, <1>3, <2>1, <2>2, <3>1, NoneAdds, ObjThrow
    <2>3. CASE ~Throw
      <3>1. \/ at < NumDevs /\ at' = at + 1 /\ phase' = phase
            \/ at' = 1 /\ phase' = "ready"
        BY <1>6, <2>3 DEF Check
      <3>2. ObjTypes'
        BY <1>1, <1>3, <2>1, <3>1, TearDownSteps DEF ObjTypes, Devs
      <3>3. Made'
        BY <1>1, <2>1, <3>1 DEF ObjInv, Made
      <3>4. TornDown'
        BY <2>1, <3>1 DEF TornDown
      <3> QED
        BY <2>1, <3>2, <3>3, <3>4 DEF ObjInv
    <2> QED
      BY <2>2, <2>3
  <1> QED
    BY <1>4, <1>5, <1>6

LEMMA ObjLoad ==
    ASSUME ObjInv, NEW d \in Devs, load_gdev_gl(d) \/ LoadFails(d) \/ make_current(d)
    PROVE  ObjInv'
  <1>1. /\ phase = "ready" /\ torn = 0 /\ libs = eg /\ Stacked(libs[d])
        /\ {"gbm_dev", "display"} \subseteq libs[d]
    BY DEF load_gdev_gl, LoadFails, make_current, Loadable, ObjInv, ObjTypes, Made
  <1>2. /\ tried \in [Devs -> BOOLEAN] /\ eg \in [Devs -> SUBSET Kinds] /\ current \in 0..NumDevs
        /\ at \in 1..NumDevs + 1
    BY DEF ObjInv, ObjTypes
  <1>3. CASE load_gdev_gl(d)
    <2> DEFINE made == {"gbm_sur", "context", "egl_sur"}
    <2>1. /\ Make(d, made, made) /\ tried' \in [Devs -> BOOLEAN]
          /\ UNCHANGED <<phase, at, current, torn>>
      BY <1>2, <1>3 DEF load_gdev_gl
    <2>2. made \in SUBSET Kinds
      BY DEF Kinds
    <2>3. Adds(d, made, made) /\ eg' \in [Devs -> SUBSET Kinds] /\ libs' \in [Devs -> SUBSET Kinds]
      BY <2>1, <2>2, MakeAdds
    <2>4. Stacked(libs[d] \cup made)
      BY <1>1 DEF Stacked
    <2> HIDE DEF made
    <2>5. /\ \A e \in Devs : Stacked(libs'[e])
          /\ \A e \in Devs : libs'[e] = eg'[e] /\ eg[e] \subseteq eg'[e] /\ libs[e] \subseteq libs'[e]
      BY <1>1, <2>3, <2>4, AddsStacked
    <2>6. libs' = eg'
      BY <2>3, <2>5
    <2>7. ObjTypes'
      BY <1>1, <1>2, <2>1, <2>3, TearDownSteps DEF ObjTypes
    <2>8. Made'
      <3>1. current # 0 => "gbm_sur" \in libs[current] /\ current \in Devs
        BY <1>1, <1>2 DEF ObjInv, Made, Devs
      <3> QED
        BY <1>1, <2>1, <2>5, <2>6, <3>1 DEF ObjInv, Made
    <2>9. TornDown'
      BY <1>1, <2>1 DEF TornDown
    <2> QED
      BY <2>5, <2>7, <2>8, <2>9 DEF ObjInv
  <1>4. CASE LoadFails(d)
    <2>1. /\ phase # "ending" /\ Throw /\ tried' \in [Devs -> BOOLEAN]
          /\ UNCHANGED <<current, torn>>
      BY <1>1, <1>2, <1>4 DEF LoadFails
    <2>2. CASE UNCHANGED <<eg, libs>>
      <3>1. Stacked(libs[d] \cup {})
        BY <1>1 DEF Stacked
      <3> QED
        BY <1>1, <2>1, <2>2, <3>1, NoneAdds, ObjThrow
    <2>3. ASSUME NEW made \in {{"gbm_sur"}, {"gbm_sur", "context"},
                               {"gbm_sur", "context", "egl_sur"}},
                 Make(d, made, made)
          PROVE  ObjInv'
      <3>1. made \in SUBSET Kinds
        BY DEF Kinds
      <3>2. Stacked(libs[d] \cup made)
        BY <1>1 DEF Stacked
      <3>3. Adds(d, made, made) /\ eg' \in [Devs -> SUBSET Kinds] /\ libs' \in [Devs -> SUBSET Kinds]
        BY <2>3, <3>1, MakeAdds
      <3> QED
        BY <2>1, <3>1, <3>2, <3>3, ObjThrow
    <2> QED
      BY <1>4, <2>2, <2>3 DEF LoadFails
  <1>5. CASE make_current(d)
    <2>1. current' = d /\ "egl_sur" \in libs[d] /\ UNCHANGED <<phase, at, eg, libs, tried, torn>>
      BY <1>1, <1>5 DEF make_current, objVars
    <2>2. "gbm_sur" \in libs[d] /\ d \in 0..NumDevs
      BY <1>1, <2>1 DEF Stacked, Devs
    <2>3. ObjTypes'
      BY <2>1, <2>2 DEF ObjInv, ObjTypes
    <2>4. Made'
      BY <1>1, <2>1, <2>2 DEF ObjInv, Made
    <2>5. TornDown'
      BY <1>1, <2>1 DEF TornDown
    <2> QED
      BY <2>1, <2>3, <2>4, <2>5 DEF ObjInv
  <1> QED
    BY <1>3, <1>4, <1>5

LEMMA ObjTearNext ==
    ASSUME ObjInv, TearNext
    PROVE  ObjInv'
  <1> DEFINE kind == TearDown[torn]
             gone == IF kind = "display" THEN {"display", "context", "egl_sur"} ELSE {kind}
  <1>1. /\ phase = "ending" /\ at \in Devs /\ torn \in 1..5 /\ torn' = torn + 1
        /\ UNCHANGED <<phase, at, tried>>
        /\ current' = IF current = at THEN 0 ELSE current
    BY TearDownSteps DEF TearNext, Ending, ObjInv, ObjTypes, Devs
  <1>2. /\ eg' = [eg EXCEPT ![at] = @ \ {kind}]
        /\ libs' = libs \/ libs' = [libs EXCEPT ![at] = @ \ gone]
        /\ kind \in eg[at] => libs' = [libs EXCEPT ![at] = @ \ gone]
        /\ kind \notin eg[at] => libs' = libs
    BY <1>1 DEF TearNext, Has, ObjInv, ObjTypes
  <1>3. /\ eg \in [Devs -> SUBSET Kinds] /\ libs \in [Devs -> SUBSET Kinds]
        /\ libs[at] \subseteq eg[at] /\ Stacked(libs[at])
        /\ \A i \in 1..5 : i < torn => TearDown[i] \notin eg[at]
    BY <1>1, TearDownSteps DEF ObjInv, ObjTypes, Made, TornDown
  <1>4. /\ eg' \in [Devs -> SUBSET Kinds] /\ libs' \in [Devs -> SUBSET Kinds]
        /\ eg'[at] = eg[at] \ {kind}
        /\ \A d \in Devs \ {at} : eg'[d] = eg[d] /\ libs'[d] = libs[d]
    BY <1>1, <1>2, <1>3
  <1>5. libs'[at] \subseteq eg'[at]
    BY <1>1, <1>2, <1>3, <1>4
  <1>6. \A i \in 1..5 : i < torn + 1 => TearDown[i] \notin eg'[at]
    BY <1>1, <1>3, <1>4
  <1>7. Stacked(libs'[at])
    <2>1. kind \notin eg[at] => libs'[at] = libs[at]
      BY <1>1, <1>2, <1>3
    <2>2. libs'[at] \subseteq libs[at] /\ (kind \in eg[at] => libs'[at] = libs[at] \ gone)
      BY <1>1, <1>2, <1>3
    <2> HIDE DEF kind, gone
    <2>3. \A k \in {TearDown[i] : i \in {j \in 1..5 : j < torn + 1}} : k \notin libs'[at]
      BY <1>5, <1>6
    <2>4. CASE torn \in {1, 2}
      BY <1>1, <1>3, <2>1, <2>2, <2>4, TearDownSteps, SMTT(30) DEF Stacked, kind, gone
    <2>5. CASE torn = 3
      <3>1. "egl_sur" \notin libs'[at]
        BY <2>3, <2>5, TearDownSteps
      <3> QED
        BY <1>1, <1>3, <2>1, <2>2, <2>5, <3>1, TearDownSteps, SMTT(30) DEF Stacked, kind, gone
    <2>6. CASE torn = 4
      <3>1. "egl_sur" \notin libs'[at] /\ "context" \notin libs'[at]
        BY <2>3, <2>6, TearDownSteps
      <3> QED
        BY <1>1, <1>3, <2>1, <2>2, <2>6, <3>1, TearDownSteps, SMTT(30) DEF Stacked, kind, gone
    <2>7. CASE torn = 5
      <3>1. libs'[at] = {}
        BY <1>1, <1>4, <2>3, <2>7, TearDownSteps DEF Kinds
      <3> QED
        BY <3>1 DEF Stacked
    <2> QED
      BY <1>1, <2>4, <2>5, <2>6, <2>7
  <1>8. ObjTypes'
    BY <1>1, <1>4, TearDownSteps DEF ObjInv, ObjTypes
  <1>9. Made'
    BY <1>1, <1>4, <1>5 DEF ObjInv, Made
  <1>10. TornDown'
    <2>1. \A d \in Devs : d < at => eg'[d] = {} /\ current' # d
      BY <1>1, <1>4 DEF ObjInv, ObjTypes, TornDown, Devs
    <2>2. current' # at
      BY <1>1 DEF Devs
    <2> QED
      BY <1>1, <1>6, <2>1, <2>2, TearDownSteps DEF TornDown
  <1> QED
    BY <1>1, <1>4, <1>7, <1>8, <1>9, <1>10 DEF ObjInv

\* Drawing makes no objects, nor does ~Gdev.
LEMMA ObjDraw ==
    ASSUME ObjInv, UNCHANGED <<phase, at, current, objVars>>
    PROVE  ObjInv'
  BY DEF ObjInv, ObjTypes, Made, TornDown, objVars

LEMMA ObjEnd ==
    ASSUME ObjInv, End \/ RestoreCrtcs \/ ClearBuf \/ TearNext \/ Destroyed
    PROVE  ObjInv'
  <1>1. CASE End
    <2>1. /\ phase # "ending" /\ Throw /\ UNCHANGED <<eg, libs, tried, current, torn>>
          /\ tried \in [Devs -> BOOLEAN] /\ 1 \in Devs
      BY <1>1 DEF End, objVars, ObjInv, ObjTypes, Devs
    <2>2. Stacked(libs[1] \cup {})
      BY <2>1 DEF ObjInv, Stacked
    <2> QED
      BY <2>1, <2>2, NoneAdds, ObjThrow
  <1>2. CASE RestoreCrtcs
    <2>1. /\ phase = "ending" /\ torn = 0 /\ torn' = 1
          /\ UNCHANGED <<phase, at, current, eg, libs, tried>>
      BY <1>2 DEF RestoreCrtcs, Ending
    <2>2. ObjTypes'
      BY <2>1, TearDownSteps DEF ObjInv, ObjTypes
    <2>3. TornDown'
      BY <2>1, TearDownSteps DEF ObjInv, TornDown
    <2> QED
      BY <2>1, <2>2, <2>3 DEF ObjInv, Made
  <1>3. CASE Destroyed
    <2>1. /\ phase = "ending" /\ at \in Devs /\ torn > 5 /\ at' = at + 1 /\ torn' = 0
          /\ UNCHANGED <<phase, current, eg, libs, tried>>
      BY <1>3, TearDownSteps DEF Destroyed, Ending, ObjInv, ObjTypes, Devs
    <2>2. ObjTypes'
      BY <2>1, TearDownSteps DEF ObjInv, ObjTypes, Devs
    <2>3. eg[at] = {} /\ current # at
      <3>1. torn \in Nat /\ \A i \in 1..5 : TearDown[i] \notin eg[at]
        BY <2>1, TearDownSteps DEF ObjInv, ObjTypes, TornDown
      <3>2. eg[at] \in SUBSET Kinds
        BY <2>1 DEF ObjInv, ObjTypes
      <3>3. eg[at] = {}
        BY <3>1, <3>2, TearDownSteps DEF Kinds
      <3> QED
        BY <2>1, <3>1, <3>3 DEF ObjInv, TornDown
    <2>4. TornDown'
      <3>1. \A d \in Devs : d < at' => d < at \/ d = at
        BY <2>1 DEF Devs
      <3> QED
        BY <2>1, <2>3, <3>1, TearDownSteps DEF ObjInv, TornDown
    <2> QED
      BY <2>1, <2>2, <2>4 DEF ObjInv, Made, Devs
  <1>4. CASE ClearBuf
    BY <1>4, ObjDraw DEF ClearBuf, suspend
  <1> QED
    BY <1>1, <1>2, <1>3, <1>4, ObjTearNext

\* What the application does with the Gbufs of a device.
Draws(d) == \E c \in Cons(d) :
    \/ release_buf(d, c) \/ drm_add_fb(d, c) \/ set_crtc(d, c)
    \/ \E k \in 1..2 : Suspend(d, c, k)

\* What is made, and in which order it goes, is as ObjInv says.
LEMMA ObjectsKept == ObjInv /\ [Next]_vars => ObjInv'
  <1> SUFFICES ASSUME ObjInv, [Next]_vars PROVE ObjInv'
    OBVIOUS
  <1>1. CASE UNCHANGED vars
    BY <1>1, ObjDraw DEF vars
  <1>2. ASSUME NEW d \in Devs, Draws(d) PROVE ObjInv'
    <2>1. UNCHANGED <<phase, at, current, objVars>>
      BY <1>2 DEF Draws, Suspend, suspend, release_buf, drm_add_fb, set_crtc
    <2> QED
      BY <2>1, ObjDraw
  <1>3. CASE Next
    BY <1>2, <1>3, ObjSetUp, ObjLoad, ObjEnd DEF Next, Draws
  <1> QED
    BY <1>1, <1>3

----------------------------------------------------------------------------
(* Buffers.  A slot is a connector and the number of one of its buffers.    *)

Slots(d) == Cons(d) \X (1..2)
At(d, s) == buf[d][s[1]][s[2]]
Bufs(d) == [bo : 0..NumBos, id : {0} \cup Ids(d)]

\* Types.
DrawTypes(d) ==
    /\ buf[d] \in [Cons(d) -> [1..2 -> Bufs(d)]]
    /\ front[d] \in [Cons(d) -> 0..2]
    /\ fb[d] \in [Ids(d) -> 0..NumBos]
    /\ shows[d] \in [Cons(d) -> {0} \cup Ids(d)]

\* The application has the buffer objects of its Gbufs, each in one of them,
\* and every frame buffer has a Gbuf.
Held(d) ==
    /\ locked[d] \in SUBSET (1..NumBos)
    /\ \A x \in 1..NumBos : x \in locked[d] <=> \E s \in Slots(d) : At(d, s).bo = x
    /\ \A s, t \in Slots(d) : At(d, s).bo = At(d, t).bo /\ At(d, s).bo # 0 => s = t
    /\ \A i \in Ids(d) : fb[d][i] # 0 =>
           \E s \in Slots(d) : At(d, s).bo = fb[d][i] /\ At(d, s).id = i

\* Until a call fails or an old drm_id is suspended, a Gbuf that has a buffer
\* object has its frame buffer, and a front Gbuf is shown, or blank.
Live(d) ==
    /\ \A s \in Slots(d) : At(d, s).bo # 0 => At(d, s).id # 0 /\ fb[d][At(d, s).id] = At(d, s).bo
    /\ \A s \in Slots(d) : front[d][s[1]] = s[2] =>
           (At(d, s).bo = 0 => At(d, s).id = 0) /\ shows[d][s[1]] = At(d, s).id

DevInv(d) == DrawTypes(d) /\ Held(d) /\ (~Broken(d) => Live(d))

DrawInv ==
    /\ failed \in BOOLEAN /\ strayed \in [Devs -> BOOLEAN]
    /\ DOMAIN buf = Devs /\ DOMAIN front = Devs /\ DOMAIN locked = Devs
    /\ DOMAIN fb = Devs /\ DOMAIN shows = Devs
    /\ \A d \in Devs : DevInv(d)

\* Any set of numbers that is not empty has a lowest one.
LEMMA LowestIn ==
    ASSUME NEW S \in SUBSET Nat, S # {}
    PROVE  Lowest(S) \in S
  <1> DEFINE R == OpToRel(<, Nat)
  <1>1. IsWellFoundedOn(R, Nat)
    BY NatLessThanWellFounded
  <1>2. \A x, y \in Nat : y < x => <<y, x>> \in R
    BY Zenon DEF OpToRel
  <1> HIDE DEF R
  <1>3. PICK x \in S : \A y \in S : ~ (<<y, x>> \in R)
    BY <1>1, WFMin, Zenon
  <1>4. \A y \in S : ~ (y < x)
    BY <1>2, <1>3, Zenon
  <1>5. \A y \in S : x <= y
    BY <1>4
  <1> QED
    BY <1>5 DEF Lowest

LEMMA Numbers ==
    ASSUME NEW d \in Devs
    PROVE  Screens[d] \in Nat /\ NumDevs \in Nat /\ NumBos \in Nat /\ 0 \notin Ids(d)
  BY DEF Ids

\* There are as many ids as there are slots.
LEMMA SlotsCounted ==
    ASSUME NEW d \in Devs
    PROVE  /\ IsFiniteSet(Slots(d)) /\ IsFiniteSet(Ids(d))
           /\ Cardinality(Slots(d)) = Cardinality(Ids(d))
  <1>1. IsFiniteSet(Cons(d)) /\ Cardinality(Cons(d)) = Screens[d]
    BY Numbers, FS_Interval DEF Cons
  <1>2. IsFiniteSet(1..2) /\ Cardinality(1..2) = 2
    <2>1. IsFiniteSet(1..2) /\ Cardinality(1..2) = IF 1 > 2 THEN 0 ELSE 2 - 1 + 1
      BY 1 \in Int, 2 \in Int, FS_Interval, Zenon
    <2> QED
      BY <2>1
  <1>3. IsFiniteSet(Ids(d)) /\ Cardinality(Ids(d)) = 2 * Screens[d]
    <2> DEFINE n == 2 * Screens[d]
    <2>1. n \in Int /\ ~(1 > n /\ n # 0)
      BY Numbers
    <2> HIDE DEF n
    <2>2. IsFiniteSet(1..n) /\ Cardinality(1..n) = IF 1 > n THEN 0 ELSE n - 1 + 1
      BY <2>1, 1 \in Int, FS_Interval, Zenon
    <2>3. IsFiniteSet(1..n) /\ Cardinality(1..n) = n
      BY <2>1, <2>2
    <2> QED
      BY <2>3 DEF Ids, n
  <1>4. IsFiniteSet(Slots(d)) /\ Cardinality(Slots(d)) = Cardinality(Cons(d)) * Cardinality(1..2)
    BY <1>1, <1>2, FS_Product DEF Slots
  <1> QED
    BY <1>1, <1>2, <1>3, <1>4, Numbers

\* As long as a Gbuf has no buffer object, there is an id for its next one:
\* every id in use is that of another Gbuf.
LEMMA IdLeft ==
    ASSUME NEW d \in Devs, DrawTypes(d), Held(d), NEW s \in Slots(d), At(d, s).bo = 0
    PROVE  Lowest(FreeIds(d)) \in FreeIds(d)
  <1>1. FreeIds(d) # {}
    <2> SUFFICES ASSUME \A i \in Ids(d) : fb[d][i] # 0 PROVE FALSE
      BY DEF FreeIds
    <2> DEFINE owner == [i \in Ids(d) |->
                   CHOOSE t \in Slots(d) : At(d, t).bo = fb[d][i] /\ At(d, t).id = i]
    <2>1. \A i \in Ids(d) : /\ owner[i] \in Slots(d)
                            /\ At(d, owner[i]).bo # 0 /\ At(d, owner[i]).id = i
      BY DEF Held
    <2>2. owner \in [Ids(d) -> Slots(d) \ {s}]
      BY <2>1
    <2> HIDE DEF owner
    <2>3. /\ IsFiniteSet(Slots(d) \ {s})
          /\ Cardinality(Slots(d) \ {s}) = Cardinality(Slots(d)) - 1
      BY SlotsCounted, FS_RemoveElement
    <2>4. Cardinality(Slots(d) \ {s}) < Cardinality(Ids(d))
      BY <2>3, SlotsCounted, FS_CardinalityType
    <2>5. \E i, j \in Ids(d) : i # j /\ owner[i] = owner[j]
      BY <2>2, <2>3, <2>4, SlotsCounted, FS_PigeonHole
    <2> QED
      BY <2>1, <2>5
  <1>2. FreeIds(d) \in SUBSET Nat
    BY Numbers DEF FreeIds, Ids
  <1> QED
    BY <1>1, <1>2, LowestIn

\* A step that changes a device leaves the others as they are.
LEMMA OthersKept ==
    ASSUME DrawInv, NEW e \in Devs, Broken(e) => Broken(e)',
           UNCHANGED <<buf[e], front[e], locked[e], fb[e], shows[e]>>
    PROVE  DevInv(e)'
  <1>1. DevInv(e) /\ \A s : At(e, s)' = At(e, s)
    BY DEF DrawInv, At
  <1>2. DrawTypes(e)'
    BY <1>1 DEF DevInv, DrawTypes
  <1>3. Held(e)'
    BY <1>1 DEF DevInv, Held
  <1>4. ~Broken(e)' => Live(e)'
    BY <1>1 DEF DevInv, Live
  <1> QED
    BY <1>2, <1>3, <1>4 DEF DevInv

\* The back buffer of a connector is a slot that is not the front one.
LEMMA BackSlot ==
    ASSUME NEW d \in Devs, DrawInv, NEW c \in Cons(d)
    PROVE  /\ Back(d, c) \in 1..2 /\ Back(d, c) # front[d][c]
           /\ <<c, Back(d, c)>> \in Slots(d)
           /\ \A s \in Slots(d) : At(d, s) \in Bufs(d) /\ s = <<s[1], s[2]>>
                                  /\ s[1] \in Cons(d) /\ s[2] \in 1..2
  BY DEF Back, DrawInv, DevInv, DrawTypes, Slots, At

\* A step that writes x to a Gbuf.
Writes(d, c, k, x) == buf' = [buf EXCEPT ![d][c][k] = x]

\* Writing a Gbuf writes one slot.
LEMMA BufWritten ==
    ASSUME NEW d \in Devs, DrawInv, NEW c \in Cons(d), NEW k \in 1..2, NEW x \in Bufs(d),
           Writes(d, c, k, x)
    PROVE  /\ buf'[d] \in [Cons(d) -> [1..2 -> Bufs(d)]]
           /\ \A s \in Slots(d) : At(d, s)' = IF s = <<c, k>> THEN x ELSE At(d, s)
  <1>1. buf[d] \in [Cons(d) -> [1..2 -> Bufs(d)]] /\ DOMAIN buf = Devs
    BY DEF DrawInv, DevInv, DrawTypes
  <1>2. buf'[d] = [buf[d] EXCEPT ![c][k] = x]
    BY <1>1 DEF Writes
  <1>3. /\ buf'[d] \in [Cons(d) -> [1..2 -> Bufs(d)]]
        /\ \A e \in Cons(d), a \in 1..2 : buf'[d][e][a] = IF e = c /\ a = k THEN x ELSE buf[d][e][a]
    <2> DEFINE f == buf[d]
               g == buf'[d]
               B == Bufs(d)
    <2>1. f \in [Cons(d) -> [1..2 -> B]] /\ g = [f EXCEPT ![c][k] = x] /\ x \in B
      BY <1>1, <1>2
    <2> HIDE DEF f, g, B
    <2>2. /\ g \in [Cons(d) -> [1..2 -> B]]
          /\ \A e \in Cons(d), a \in 1..2 : g[e][a] = IF e = c /\ a = k THEN x ELSE f[e][a]
      BY <2>1
    <2> QED
      BY <2>2 DEF f, g, B
  <1>4. \A s \in Slots(d) : s = <<c, k>> <=> s[1] = c /\ s[2] = k
    BY BackSlot
  <1> QED
    BY <1>3, <1>4, BackSlot DEF At

\* What release_buf and Gbuf::suspend both do: the Gbuf gives its buffer object
\* back, x is what is left in it, and the frame buffer drm_id is removed.
Drops(d, c, k, x) ==
    LET b == buf[d][c][k]
    IN  /\ x \in Bufs(d) /\ x.bo = 0
        /\ Writes(d, c, k, x) /\ front' = front /\ failed' = failed
        /\ locked'[d] = locked[d] \ {b.bo}
        /\ fb'[d] = RmFB(d, fb[d], b.id)
        /\ shows'[d] = Shown(shows[d], fb'[d])

LEMMA DropKeeps ==
    ASSUME NEW d \in Devs, DrawInv, NEW c \in Cons(d), NEW k \in 1..2, NEW x, Drops(d, c, k, x),
           NEW b, b = buf[d][c][k]
    PROVE  /\ DrawTypes(d)' /\ Held(d)'
           /\ Live(d) /\ ~Stray(d, b) /\ (front[d][c] = k => x.id = 0) => Live(d)'
  <1> DEFINE s0 == <<c, k>>
  <1>1. s0 \in Slots(d) /\ b \in Bufs(d) /\ b = At(d, s0) /\ x \in Bufs(d) /\ x.bo = 0
    <2>1. s0 \in Slots(d) /\ b = At(d, s0)
      BY DEF Slots, At
    <2>2. b \in Bufs(d)
      BY <2>1, BackSlot
    <2> QED
      BY <2>1, <2>2 DEF Drops
  <1>2. /\ Writes(d, c, k, x)
        /\ front' = front
        /\ locked'[d] = locked[d] \ {b.bo}
        /\ fb'[d] = RmFB(d, fb[d], b.id)
        /\ shows'[d] = Shown(shows[d], fb'[d])
    BY DEF Drops
  <1>3. DrawTypes(d) /\ Held(d)
    BY DEF DrawInv, DevInv
  <1>4. /\ buf'[d] \in [Cons(d) -> [1..2 -> Bufs(d)]]
        /\ \A s \in Slots(d) : At(d, s)' = IF s = s0 THEN x ELSE At(d, s)
    BY <1>1, <1>2, BufWritten
  <1>5. /\ fb'[d] \in [Ids(d) -> 0..NumBos]
        /\ \A i \in Ids(d) : fb'[d][i] = IF i = b.id THEN 0 ELSE fb[d][i]
    BY <1>2, <1>3, Numbers DEF RmFB, DrawTypes
  <1>6. /\ shows'[d] \in [Cons(d) -> {0} \cup Ids(d)]
        /\ \A e \in Cons(d) : shows'[d][e] =
               IF shows[d][e] # 0 /\ fb'[d][shows[d][e]] # 0 THEN shows[d][e] ELSE 0
    BY <1>2, <1>3 DEF Shown, DrawTypes
  <1> HIDE DEF s0
  <1>7. DrawTypes(d)'
    BY <1>2, <1>3, <1>4, <1>5, <1>6 DEF DrawTypes, Bufs, Ids, Cons
  <1>8. \A s \in Slots(d) : At(d, s) \in Bufs(d) /\ At(d, s).bo \in 0..NumBos
    BY BackSlot DEF Bufs
  <1>9. Held(d)'
    <2>1. /\ locked'[d] \in SUBSET (1..NumBos)
          /\ \A y \in 1..NumBos : y \in locked'[d] <=> \E s \in Slots(d) : At(d, s)'.bo = y
      <3>1. \A s, t \in Slots(d) : At(d, s).bo = At(d, t).bo /\ At(d, s).bo # 0 => s = t
        BY <1>3 DEF Held
      <3>2. ASSUME NEW y \in 1..NumBos, y \in locked'[d] PROVE \E s \in Slots(d) : At(d, s)'.bo = y
        <4>1. PICK s \in Slots(d) : At(d, s).bo = y
          BY <1>2, <1>3, <3>2 DEF Held
        <4> QED
          BY <1>1, <1>2, <1>4, <3>2, <4>1
      <3>3. ASSUME NEW y \in 1..NumBos, NEW s \in Slots(d), At(d, s)'.bo = y PROVE y \in locked'[d]
        <4>1. s # s0 /\ At(d, s).bo = y /\ y # 0
          BY <1>1, <1>4, <3>3, Numbers
        <4>2. y \in locked[d] /\ y # b.bo
          BY <1>1, <1>3, <3>1, <4>1 DEF Held
        <4> QED
          BY <1>2, <4>2
      <3> QED
        BY <1>2, <1>3, <3>2, <3>3 DEF Held
    <2>2. \A s, t \in Slots(d) : At(d, s)'.bo = At(d, t)'.bo /\ At(d, s)'.bo # 0 => s = t
      BY <1>1, <1>3, <1>4 DEF Held
    <2>3. \A i \in Ids(d) : fb'[d][i] # 0 =>
             \E s \in Slots(d) : At(d, s)'.bo = fb'[d][i] /\ At(d, s)'.id = i
      BY <1>1, <1>3, <1>4, <1>5 DEF Held
    <2> QED
      BY <2>1, <2>2, <2>3 DEF Held, Slots, Cons, Ids
  <1>10. ASSUME Live(d), ~Stray(d, b), front[d][c] = k => x.id = 0 PROVE Live(d)'
    <2>1. b.bo # 0 => b.id # 0 /\ fb[d][b.id] = b.bo
      BY <1>1, <1>10 DEF Live
    <2>2. ASSUME NEW s \in Slots(d), At(d, s).bo # 0, s # s0 PROVE At(d, s).id # b.id
      <3>1. At(d, s).id # 0 /\ fb[d][At(d, s).id] = At(d, s).bo
        BY <1>10, <2>2 DEF Live
      <3>2. At(d, s).bo # b.bo
        BY <1>1, <1>3, <2>2 DEF Held
      <3> QED
        BY <1>10, <2>1, <2>2, <3>1, <3>2 DEF Stray
    <2>3. \A s \in Slots(d) : At(d, s)'.bo # 0 =>
              At(d, s)'.id # 0 /\ fb'[d][At(d, s)'.id] = At(d, s)'.bo
      BY <1>1, <1>4, <1>5, <1>8, <1>10, <2>2 DEF Live, Bufs
    <2>4. ASSUME NEW s \in Slots(d), front'[d][s[1]] = s[2]
          PROVE  (At(d, s)'.bo = 0 => At(d, s)'.id = 0) /\ shows'[d][s[1]] = At(d, s)'.id
      <3>1. /\ At(d, s).bo = 0 => At(d, s).id = 0
            /\ shows[d][s[1]] = At(d, s).id /\ s[1] \in Cons(d)
        BY <1>2, <1>10, <2>4, BackSlot DEF Live
      <3>2. CASE s = s0
        <4>1. At(d, s)' = x /\ x.id = 0 /\ At(d, s) = b
          BY <1>1, <1>2, <1>4, <1>10, <2>4, <3>2 DEF s0
        <4>2. b.id # 0 => b.id \in Ids(d) /\ fb'[d][b.id] = 0
          BY <1>1, <1>5 DEF Bufs
        <4> QED
          BY <1>6, <3>1, <4>1, <4>2
      <3>3. CASE s # s0
        <4>1. At(d, s)' = At(d, s)
          BY <1>4, <3>3
        <4>2. At(d, s).id # 0 => fb'[d][At(d, s).id] # 0
          BY <2>3, <3>1, <4>1
        <4> QED
          BY <1>6, <3>1, <4>1, <4>2
      <3> QED
        BY <3>2, <3>3
    <2> QED
      BY <2>3, <2>4 DEF Live, Slots, Cons
  <1> QED
    BY <1>7, <1>9, <1>10

LEMMA ReleaseDrops ==
    ASSUME NEW d \in Devs, DrawInv, NEW c \in Cons(d), release_buf(d, c)
    PROVE  /\ Drops(d, c, Back(d, c), Released(buf[d][c][Back(d, c)]))
           /\ buf[d][c][Back(d, c)].bo # 0 /\ Back(d, c) \in 1..2 /\ Back(d, c) # front[d][c]
           /\ strayed' = strayed
  <1> DEFINE b == buf[d][c][Back(d, c)]
  <1>1. /\ b \in Bufs(d) /\ b.bo # 0
        /\ Back(d, c) \in 1..2 /\ Back(d, c) # front[d][c]
    <2>1. At(d, <<c, Back(d, c)>>) = b
      BY DEF At
    <2> QED
      BY <2>1, BackSlot DEF release_buf
  <1>2. Released(b) \in Bufs(d) /\ Released(b).bo = 0
    BY <1>1, Numbers DEF Bufs, Released
  <1> QED
    BY <1>1, <1>2 DEF Drops, Writes, release_buf, DrawInv

LEMMA ReleaseKeeps ==
    ASSUME NEW d \in Devs, DrawInv, NEW c \in Cons(d), release_buf(d, c)
    PROVE  DevInv(d)' /\ failed' = failed /\ strayed' = strayed
  <1> DEFINE b == buf[d][c][Back(d, c)]
  <1>1. /\ Drops(d, c, Back(d, c), Released(b)) /\ Back(d, c) \in 1..2 /\ Back(d, c) # front[d][c]
        /\ strayed' = strayed /\ failed' = failed /\ b.bo # 0
    BY ReleaseDrops DEF Drops
  <1> HIDE DEF b
  <1>2. DrawTypes(d)' /\ Held(d)' /\ (Live(d) /\ ~Stray(d, b) => Live(d)')
    BY <1>1, DropKeeps DEF b
  <1> QED
    BY <1>1, <1>2 DEF DevInv, DrawInv, Broken, Stray

LEMMA SuspendDrops ==
    ASSUME NEW d \in Devs, DrawInv, NEW c \in Cons(d), NEW k \in 1..2, suspend(d, c, k),
           NEW b, b = buf[d][c][k]
    PROVE  /\ Drops(d, c, k, Blank) /\ Blank.id = 0
           /\ strayed' = [strayed EXCEPT ![d] = @ \/ Stray(d, b)]
  <1>1. Blank \in Bufs(d) /\ Blank.bo = 0 /\ Blank.id = 0
    BY Numbers DEF Blank, Bufs
  <1> QED
    BY <1>1 DEF Drops, Writes, suspend, Removed, DrawInv

LEMMA SuspendKeeps ==
    ASSUME NEW d \in Devs, DrawInv, NEW c \in Cons(d), NEW k \in 1..2, suspend(d, c, k)
    PROVE  /\ DevInv(d)' /\ failed' = failed /\ strayed' \in [Devs -> BOOLEAN]
           /\ \A e \in Devs : /\ strayed[e] => strayed'[e]
                              /\ e # d => strayed'[e] = strayed[e]
  <1> DEFINE b == buf[d][c][k]
  <1>1. /\ Drops(d, c, k, Blank) /\ Blank.id = 0
        /\ strayed' = [strayed EXCEPT ![d] = @ \/ Stray(d, b)] /\ failed' = failed
    BY SuspendDrops DEF Drops
  <1> HIDE DEF b
  <1>2. DrawTypes(d)' /\ Held(d)' /\ (Live(d) /\ ~Stray(d, b) => Live(d)')
    BY <1>1, DropKeeps DEF b
  <1>3. strayed \in [Devs -> BOOLEAN] /\ Stray(d, b) \in BOOLEAN
    BY DEF DrawInv, Stray
  <1>4. /\ strayed' \in [Devs -> BOOLEAN] /\ strayed'[d] = (strayed[d] \/ Stray(d, b))
        /\ \A e \in Devs : e # d => strayed'[e] = strayed[e]
    BY <1>1, <1>3, Zenon
  <1>5. ~Broken(d)' => Live(d)'
    BY <1>1, <1>2, <1>4 DEF DevInv, DrawInv, Broken
  <1> QED
    BY <1>1, <1>2, <1>4, <1>5 DEF DevInv

LEMMA AddKeeps ==
    ASSUME NEW d \in Devs, DrawInv, NEW c \in Cons(d), drm_add_fb(d, c)
    PROVE  DevInv(d)' /\ failed' \in BOOLEAN /\ (failed => failed') /\ strayed' = strayed
  <1> DEFINE s0 == <<c, Back(d, c)>>
             b == At(d, s0)
             bo == Lowest(FreeBos(d))
             id == Lowest(FreeIds(d))
  <1>1. /\ b = buf[d][c][Back(d, c)] /\ s0 \in Slots(d) /\ b = At(d, s0)
        /\ b \in Bufs(d) /\ b.bo = 0
    BY BackSlot DEF At, drm_add_fb
  <1>2. DrawTypes(d) /\ Held(d) /\ (~Broken(d) => Live(d)) /\ failed \in BOOLEAN
    BY DEF DrawInv, DevInv
  <1>3. bo \in Bos /\ bo \notin locked[d] /\ bo # 0 /\ bo \in 1..NumBos
    <2>1. FreeBos(d) # {} /\ FreeBos(d) \in SUBSET Nat
      BY Numbers DEF drm_add_fb, FreeBos, Bos
    <2> QED
      BY <2>1, LowestIn DEF FreeBos, Bos
  <1>4. id \in Ids(d) /\ fb[d][id] = 0 /\ id # 0
    BY <1>1, <1>2, IdLeft, Numbers DEF FreeIds
  <1>5. /\ locked'[d] = locked[d] \cup {bo} /\ front' = front /\ shows' = shows
        /\ \/ /\ buf' = [buf EXCEPT ![d][c][Back(d, c)] = [bo |-> bo, id |-> id]]
              /\ fb' = [fb EXCEPT ![d][id] = bo] /\ failed' = failed
           \/ /\ buf' = [buf EXCEPT ![d][c][Back(d, c)].bo = bo]
              /\ failed' = TRUE /\ fb' = fb
    BY Zenon DEF drm_add_fb, DrawInv
  <1> DEFINE x == buf'[d][c][Back(d, c)]
  <1> HIDE DEF bo, id
  <1>6. /\ x \in Bufs(d) /\ x.bo = bo
        /\ buf' = [buf EXCEPT ![d][c][Back(d, c)] = x]
        /\ \/ fb' = [fb EXCEPT ![d][id] = bo] /\ failed' = failed /\ x.id = id
           \/ failed' /\ failed' \in BOOLEAN /\ fb' = fb
    <2>1. /\ buf[d] \in [Cons(d) -> [1..2 -> Bufs(d)]] /\ DOMAIN buf = Devs
          /\ Back(d, c) \in 1..2
      BY <1>2, BackSlot DEF DrawInv, DrawTypes
    <2>2. CASE /\ buf' = [buf EXCEPT ![d][c][Back(d, c)] = [bo |-> bo, id |-> id]]
               /\ fb' = [fb EXCEPT ![d][id] = bo] /\ failed' = failed
      <3>1. x = [bo |-> bo, id |-> id]
        BY <2>1, <2>2
      <3>2. x \in Bufs(d) /\ x.bo = bo /\ x.id = id
        BY <1>3, <1>4, <3>1 DEF Bufs
      <3>3. buf' = [buf EXCEPT ![d][c][Back(d, c)] = x]
        BY <2>2, <3>1, Zenon
      <3> QED
        BY <2>2, <3>2, <3>3
    <2>3. CASE /\ buf' = [buf EXCEPT ![d][c][Back(d, c)].bo = bo]
               /\ failed' = TRUE /\ fb' = fb
      <3>1. x = [b EXCEPT !.bo = bo]
        BY <1>1, <2>1, <2>3
      <3>2. x \in Bufs(d) /\ x.bo = bo
        BY <1>1, <1>3, <3>1 DEF Bufs
      <3>3. buf' = [buf EXCEPT ![d][c][Back(d, c)] = x]
        BY <1>1, <2>1, <2>3, <3>1
      <3> QED
        BY <2>3, <3>2, <3>3
    <2> QED
      BY <1>5, <2>2, <2>3
  <1> HIDE DEF x
  <1>7. /\ buf'[d] \in [Cons(d) -> [1..2 -> Bufs(d)]]
        /\ \A s \in Slots(d) : At(d, s)' = IF s = s0 THEN x ELSE At(d, s)
    <2>1. x \in Bufs(d) /\ Writes(d, c, Back(d, c), x) /\ Back(d, c) \in 1..2
      BY <1>6, BackSlot DEF Writes
    <2> QED
      BY <2>1, BufWritten
  <1>8. /\ fb'[d] \in [Ids(d) -> 0..NumBos]
        /\ \A i \in Ids(d) : i # id => fb'[d][i] = fb[d][i]
        /\ \/ fb' = fb /\ failed'
           \/ fb'[d][id] = bo /\ x.id = id /\ failed' = failed
    <2>1. DOMAIN fb = Devs /\ fb[d] \in [Ids(d) -> 0..NumBos]
      BY <1>2 DEF DrawTypes, DrawInv
    <2>2. CASE fb' = [fb EXCEPT ![d][id] = bo] /\ failed' = failed /\ x.id = id
      <3>1. fb'[d] = [fb[d] EXCEPT ![id] = bo]
        BY <2>1, <2>2
      <3> QED
        BY <1>3, <1>4, <2>1, <2>2, <3>1
    <2>3. CASE failed' /\ failed' \in BOOLEAN /\ fb' = fb
      BY <2>1, <2>3
    <2> QED
      BY <1>6, <2>2, <2>3, Zenon
  <1>9. DrawTypes(d)'
    BY <1>2, <1>5, <1>7, <1>8 DEF DrawTypes, Bufs, Ids, Cons
  <1> HIDE DEF s0, b
  <1>10. \A s \in Slots(d) : At(d, s) \in Bufs(d) /\ At(d, s).bo \in 0..NumBos
                             /\ At(d, s).bo # bo
    <2>1. \A s \in Slots(d) : At(d, s) \in Bufs(d) /\ At(d, s).bo \in 0..NumBos
      BY BackSlot DEF Bufs
    <2> QED
      BY <1>2, <1>3, <2>1 DEF Held
  <1>11. Held(d)'
    <2>1. /\ locked'[d] \in SUBSET (1..NumBos)
          /\ \A y \in 1..NumBos : y \in locked'[d] <=> \E s \in Slots(d) : At(d, s)'.bo = y
      BY <1>1, <1>2, <1>3, <1>5, <1>6, <1>7, <1>10 DEF Held
    <2>2. \A s, t \in Slots(d) : At(d, s)'.bo = At(d, t)'.bo /\ At(d, s)'.bo # 0 => s = t
      BY <1>2, <1>6, <1>7, <1>10 DEF Held
    <2>3. \A i \in Ids(d) : fb'[d][i] # 0 =>
             \E s \in Slots(d) : At(d, s)'.bo = fb'[d][i] /\ At(d, s)'.id = i
      <3> SUFFICES ASSUME NEW i \in Ids(d), fb'[d][i] # 0
                   PROVE  \E s \in Slots(d) : At(d, s)'.bo = fb'[d][i] /\ At(d, s)'.id = i
        OBVIOUS
      <3>1. CASE i = id /\ fb' # fb
        BY <1>1, <1>6, <1>7, <1>8, <3>1
      <3>2. CASE ~(i = id /\ fb' # fb)
        <4>1. fb'[d][i] = fb[d][i]
          BY <1>8, <3>2
        <4>2. PICK s \in Slots(d) : At(d, s).bo = fb[d][i] /\ At(d, s).id = i
          BY <1>2, <4>1 DEF Held
        <4>3. s # s0
          BY <1>1, <4>1, <4>2
        <4> QED
          BY <1>7, <4>1, <4>2, <4>3
      <3> QED
        BY <3>1, <3>2
    <2> QED
      BY <2>1, <2>2, <2>3 DEF Held, Slots, Cons, Ids
  <1>12. ASSUME ~Broken(d)' PROVE Live(d)'
    <2>1. strayed' = strayed
      BY DEF drm_add_fb
    <2>2. Live(d) /\ fb'[d][id] = bo /\ x.id = id
      BY <1>2, <1>8, <1>12, <2>1 DEF Broken
    <2>3. \A s \in Slots(d) : At(d, s)'.bo # 0 =>
              At(d, s)'.id # 0 /\ fb'[d][At(d, s)'.id] = At(d, s)'.bo
      BY <1>2, <1>4, <1>6, <1>7, <1>8, <1>10, <2>2 DEF Live, Bufs
    <2>4. ASSUME NEW s \in Slots(d), front'[d][s[1]] = s[2]
          PROVE  (At(d, s)'.bo = 0 => At(d, s)'.id = 0) /\ shows'[d][s[1]] = At(d, s)'.id
      <3>1. s # s0
        BY <1>5, <2>4, BackSlot DEF s0
      <3> QED
        BY <1>5, <1>7, <2>2, <2>4, <3>1 DEF Live
    <2> QED
      BY <2>3, <2>4 DEF Live, Slots, Cons
  <1> QED
    <2>1. failed' \in BOOLEAN /\ (failed => failed') /\ strayed' = strayed
      BY <1>2, <1>6 DEF drm_add_fb
    <2> QED
      BY <1>9, <1>11, <1>12, <2>1 DEF DevInv

LEMMA SetKeeps ==
    ASSUME NEW d \in Devs, DrawInv, NEW c \in Cons(d), set_crtc(d, c)
    PROVE  DevInv(d)' /\ failed' \in BOOLEAN /\ (failed => failed') /\ strayed' = strayed
  <1> DEFINE s0 == <<c, Back(d, c)>>
             b == At(d, s0)
  <1>1. /\ b = buf[d][c][Back(d, c)] /\ s0 \in Slots(d) /\ b = At(d, s0)
        /\ b \in Bufs(d) /\ b.bo # 0 /\ Back(d, c) \in 1..2
    BY BackSlot DEF At, set_crtc
  <1>2. DrawTypes(d) /\ Held(d) /\ (~Broken(d) => Live(d)) /\ failed \in BOOLEAN
    BY DEF DrawInv, DevInv
  <1>3. /\ buf' = buf /\ locked' = locked /\ fb' = fb /\ strayed' = strayed
        /\ front'[d] = [front[d] EXCEPT ![c] = Back(d, c)]
        /\ \/ shows'[d] = [shows[d] EXCEPT ![c] = b.id] /\ failed' = failed
           \/ failed' = TRUE /\ shows' = shows
    BY <1>1 DEF set_crtc, DrawInv
  <1>4. DrawTypes(d)'
    <2>1. b.id \in {0} \cup Ids(d)
      BY <1>1 DEF Bufs
    <2> HIDE DEF b
    <2>2. shows'[d] \in [Cons(d) -> {0} \cup Ids(d)]
      BY <1>2, <1>3, <2>1 DEF DrawTypes
    <2>3. front'[d] \in [Cons(d) -> 0..2]
      BY <1>1, <1>2, <1>3 DEF DrawTypes
    <2> QED
      BY <1>2, <1>3, <2>2, <2>3 DEF DrawTypes, Bufs, Ids, Cons
  <1>5. Held(d)'
    BY <1>2, <1>3 DEF Held, At, Slots, Cons, Ids
  <1>6. ASSUME ~Broken(d)' PROVE Live(d)'
    <2>1. Live(d) /\ shows'[d] = [shows[d] EXCEPT ![c] = b.id]
      BY <1>2, <1>3, <1>6 DEF Broken
    <2>2. \A s \in Slots(d) : At(d, s)' = At(d, s) /\ s[1] \in Cons(d) /\ s = <<s[1], s[2]>>
      BY <1>3, BackSlot DEF At
    <2>3. ASSUME NEW s \in Slots(d), front'[d][s[1]] = s[2]
          PROVE  (At(d, s)'.bo = 0 => At(d, s)'.id = 0) /\ shows'[d][s[1]] = At(d, s)'.id
      <3>1. CASE s[1] = c
        <4>1. s = s0
          BY <1>2, <1>3, <2>2, <2>3, <3>1 DEF DrawTypes
        <4> QED
          BY <1>1, <1>2, <2>1, <2>2, <4>1, <3>1 DEF DrawTypes
      <3>2. CASE s[1] # c
        BY <1>2, <1>3, <2>1, <2>2, <2>3, <3>2 DEF DrawTypes, Live
      <3> QED
        BY <3>1, <3>2
    <2>4. \A s \in Slots(d) : At(d, s)'.bo # 0 =>
              At(d, s)'.id # 0 /\ fb'[d][At(d, s)'.id] = At(d, s)'.bo
      BY <1>3, <2>1, <2>2 DEF Live
    <2> QED
      BY <2>3, <2>4 DEF Live, Slots, Cons
  <1> QED
    BY <1>2, <1>3, <1>4, <1>5, <1>6 DEF DevInv

\* A device without frame buffers and buffer objects: that of blank Gbufs.
Clean(d) == locked[d] = {} /\ \A i \in Ids(d) : fb[d][i] = 0

LEMMA EmptiedClean ==
    ASSUME NEW d \in Devs, DrawInv, Emptied(d)
    PROVE  Clean(d)
  <1>1. Held(d) /\ \A s \in Slots(d) : At(d, s) = Blank
    BY DEF DrawInv, DevInv, Emptied, At, Slots
  <1>2. \A s \in Slots(d) : At(d, s).bo = 0
    BY <1>1 DEF Blank
  <1>3. \A y \in 1..NumBos : y # 0
    BY Numbers
  <1>4. locked[d] = {}
    BY <1>1, <1>2, <1>3 DEF Held
  <1>5. \A i \in Ids(d) : fb[d][i] = 0
    BY <1>1, <1>2 DEF Held
  <1> QED
    BY <1>4, <1>5 DEF Clean

\* ~Gdev takes the picture from screens; where that fails, nothing is lost.
LEMMA RestoreKeeps ==
    ASSUME NEW d \in Devs, DrawInv, RestoreCrtcs, d = at
    PROVE  /\ DevInv(d)' /\ failed' \in BOOLEAN /\ (failed => failed')
           /\ UNCHANGED <<buf, locked, fb, strayed>>
           /\ DOMAIN front' = Devs /\ DOMAIN shows' = Devs
           /\ \A e \in Devs \ {d} : front'[e] = front[e] /\ shows'[e] = shows[e]
  <1>1. PICK kept \in SUBSET Cons(d) :
            /\ front' = [front EXCEPT ![d] = [c \in Cons(d) |-> IF c \in kept THEN @[c] ELSE 0]]
            /\ shows' = [shows EXCEPT ![d] = [c \in Cons(d) |-> IF c \in kept THEN @[c] ELSE 0]]
            /\ \/ kept = {} /\ failed' = failed
               \/ failed' = TRUE
    BY Zenon DEF RestoreCrtcs
  <1>2. UNCHANGED <<buf, locked, fb, strayed>>
    BY DEF RestoreCrtcs
  <1>3. /\ DrawTypes(d) /\ Held(d) /\ (~Broken(d) => Live(d)) /\ failed \in BOOLEAN
        /\ DOMAIN front = Devs /\ DOMAIN shows = Devs
    BY DEF DrawInv, DevInv
  <1>4. /\ DOMAIN front' = Devs /\ DOMAIN shows' = Devs
        /\ \A e \in Devs \ {d} : front'[e] = front[e] /\ shows'[e] = shows[e]
    BY <1>1, <1>3
  <1>5. /\ front'[d] = [c \in Cons(d) |-> IF c \in kept THEN front[d][c] ELSE 0]
        /\ shows'[d] = [c \in Cons(d) |-> IF c \in kept THEN shows[d][c] ELSE 0]
    BY <1>1, <1>3, Zenon
  <1>6. DrawTypes(d)'
    <2>1. front'[d] \in [Cons(d) -> 0..2] /\ shows'[d] \in [Cons(d) -> {0} \cup Ids(d)]
      BY <1>3, <1>5 DEF DrawTypes
    <2> QED
      BY <1>2, <1>3, <2>1 DEF DrawTypes, Bufs, Ids, Cons
  <1>7. Held(d)'
    BY <1>2, <1>3 DEF Held, At, Slots, Cons, Ids
  <1>8. ASSUME ~Broken(d)' PROVE Live(d)'
    <2>1. Live(d) /\ kept = {}
      BY <1>1, <1>2, <1>3, <1>8 DEF Broken
    <2>2. \A s \in Slots(d) : front'[d][s[1]] # s[2]
      BY <1>5, <2>1 DEF Slots
    <2>3. \A s \in Slots(d) : At(d, s)' = At(d, s)
      BY <1>2 DEF At
    <2> QED
      BY <1>2, <2>1, <2>2, <2>3 DEF Live, Slots, Cons
  <1> QED
    BY <1>1, <1>2, <1>3, <1>4, <1>6, <1>7, <1>8 DEF DevInv

LEMMA DrawInit == Init => DrawInv
  <1> SUFFICES ASSUME Init PROVE DrawInv
    OBVIOUS
  <1>1. ASSUME NEW d \in Devs PROVE DevInv(d)
    <2>1. /\ buf[d] = [c \in Cons(d) |-> <<Blank, Blank>>]
          /\ front[d] = [c \in Cons(d) |-> 0] /\ locked[d] = {}
          /\ fb[d] = [i \in Ids(d) |-> 0] /\ shows[d] = [c \in Cons(d) |-> 0]
      BY DEF Init
    <2>2. Blank \in Bufs(d) /\ Blank.bo = 0
      BY Numbers DEF Blank, Bufs
    <2>3. <<Blank, Blank>> \in [1..2 -> Bufs(d)]
      BY <2>2
    <2>4. \A s \in Slots(d) : At(d, s) = Blank /\ s[1] \in Cons(d) /\ s[2] \in 1..2
      BY <2>1 DEF At, Slots
    <2>5. DrawTypes(d)
      BY <2>1, <2>3, Numbers DEF DrawTypes
    <2>6. \A x \in 1..NumBos : x # Blank.bo
      BY <2>2, Numbers
    <2>7. Held(d)
      BY <2>1, <2>2, <2>4, <2>6 DEF Held
    <2>8. Live(d)
      BY <2>1, <2>2, <2>4 DEF Live
    <2> QED
      BY <2>5, <2>7, <2>8 DEF DevInv
  <1> QED
    BY <1>1 DEF DrawInv, Init

\* Of the device's variables, one step changes those of the device d only.
Alone(d) ==
    /\ DOMAIN buf' = Devs /\ DOMAIN front' = Devs /\ DOMAIN locked' = Devs
    /\ DOMAIN fb' = Devs /\ DOMAIN shows' = Devs
    /\ \A e \in Devs \ {d} : UNCHANGED <<buf[e], front[e], locked[e], fb[e], shows[e]>>

\* What changes Gbufs of a device, or the screens.
Changes(d) ==
    \/ Draws(d)
    \/ \E c \in Cons(d), k \in 1..2 : suspend(d, c, k)
    \/ RestoreCrtcs /\ d = at

LEMMA DrawsAlone ==
    ASSUME NEW d \in Devs, DrawInv, Changes(d)
    PROVE  Alone(d)
  <1> USE DEF DrawInv, Alone
  <1>1. ASSUME NEW c \in Cons(d), NEW k \in 1..2, suspend(d, c, k) PROVE Alone(d)
    BY <1>1 DEF suspend
  <1>2. ASSUME NEW c \in Cons(d), release_buf(d, c) PROVE Alone(d)
    BY <1>2 DEF release_buf
  <1>3. ASSUME NEW c \in Cons(d), drm_add_fb(d, c) PROVE Alone(d)
    BY <1>3 DEF drm_add_fb
  <1>4. ASSUME NEW c \in Cons(d), set_crtc(d, c) PROVE Alone(d)
    BY <1>4 DEF set_crtc
  <1>5. ASSUME RestoreCrtcs, d = at PROVE Alone(d)
    BY <1>5, RestoreKeeps
  <1> QED
    BY <1>1, <1>2, <1>3, <1>4, <1>5 DEF Changes, Draws, Suspend

\* What one such step does to the devices.
LEMMA DrawsOne ==
    ASSUME NEW d \in Devs, DrawInv, Changes(d)
    PROVE  /\ DrawInv' /\ \A e \in Devs \ {d} : locked'[e] = locked[e] /\ fb'[e] = fb[e]
           /\ failed' \in BOOLEAN /\ (failed => failed')
           /\ \A e \in Devs \ {d} : strayed'[e] = strayed[e]
  <1> DEFINE Kept == /\ DevInv(d)' /\ failed' \in BOOLEAN /\ (failed => failed')
                     /\ strayed' \in [Devs -> BOOLEAN]
                     /\ \A e \in Devs \ {d} : strayed'[e] = strayed[e]
  <1>1. failed \in BOOLEAN /\ strayed \in [Devs -> BOOLEAN]
    BY DEF DrawInv
  <1>2. ASSUME NEW c \in Cons(d), NEW k \in 1..2, suspend(d, c, k) PROVE Kept
    BY <1>1, <1>2, SuspendKeeps
  <1>3. ASSUME NEW c \in Cons(d), release_buf(d, c) PROVE Kept
    BY <1>1, <1>3, ReleaseKeeps
  <1>4. ASSUME NEW c \in Cons(d), drm_add_fb(d, c) PROVE Kept
    BY <1>1, <1>4, AddKeeps
  <1>5. ASSUME NEW c \in Cons(d), set_crtc(d, c) PROVE Kept
    BY <1>1, <1>5, SetKeeps
  <1>6. ASSUME RestoreCrtcs, d = at PROVE Kept
    BY <1>1, <1>6, RestoreKeeps
  <1> HIDE DEF Kept
  <1>7. Kept
    BY <1>2, <1>3, <1>4, <1>5, <1>6 DEF Changes, Draws, Suspend
  <1>8. Alone(d)
    BY DrawsAlone
  <1>9. ASSUME NEW e \in Devs \ {d} PROVE DevInv(e)'
    <2>1. Broken(e) => Broken(e)'
      BY <1>7 DEF Kept, Broken
    <2> QED
      BY <1>8, <2>1, OthersKept DEF Alone
  <1> QED
    BY <1>7, <1>8, <1>9 DEF DrawInv, Alone, Kept

----------------------------------------------------------------------------
(* Objects and buffers together.                                            *)

\* A surface whose buffers the application has is there; what has begun to be
\* destroyed has no buffers.
Cleared ==
    /\ \A d \in Devs : locked[d] # {} => "gbm_sur" \in libs[d]
    /\ phase = "ending" => \A d \in Devs : d < at \/ (d = at /\ torn > 1) => Clean(d)

IInv == ObjInv /\ DrawInv /\ Cleared

\* Steps that draw nothing leave the buffers alone.
LEMMA DrawUnchanged == DrawInv /\ UNCHANGED drawVars => DrawInv'
  <1> SUFFICES ASSUME DrawInv, UNCHANGED drawVars PROVE DrawInv'
    OBVIOUS
  <1>1. UNCHANGED <<buf, front, locked, fb, shows, failed, strayed>>
    BY DEF drawVars
  <1>2. ASSUME NEW d \in Devs PROVE DevInv(d)'
    BY <1>1, OthersKept DEF Broken
  <1> QED
    BY <1>1, <1>2 DEF DrawInv

LEMMA ClearedBySetUp ==
    ASSUME ObjInv, Cleared, UNCHANGED drawVars,
           \/ SetUp \/ SetUpFails \/ Check \/ End
           \/ \E d \in Devs : load_gdev_gl(d) \/ LoadFails(d) \/ make_current(d)
    PROVE  Cleared'
  <1>1. \A d \in Devs : libs[d] \subseteq libs'[d]
    <2>1. libs' = libs \/ \E d \in Devs : \E S : libs' = [libs EXCEPT ![d] = @ \cup S]
      BY DEF SetUp, SetUpFails, Check, End, load_gdev_gl, LoadFails, make_current,
             Make, objVars, ObjInv, ObjTypes
    <2> QED
      BY <2>1 DEF ObjInv, ObjTypes
  <1>2. phase' = "ending" => at' = 1 /\ torn' = 0
    BY DEF SetUp, SetUpFails, Check, End, load_gdev_gl, LoadFails, make_current,
           Throw, objVars, ObjInv, ObjTypes, Loadable
  <1> QED
    BY <1>1, <1>2 DEF Cleared, drawVars, Devs

\* What changes a device's Gbufs does not lock buffers of another device, and
\* of its own only where there is a surface.
LEMMA ClearedByEnd ==
    ASSUME ObjInv, DrawInv, Cleared, RestoreCrtcs \/ ClearBuf \/ TearNext \/ Destroyed
    PROVE  Cleared'
  <1>1. at \in Devs /\ phase = "ending" /\ phase' = phase /\ torn \in Nat
    BY TearDownSteps DEF RestoreCrtcs, ClearBuf, suspend, TearNext, Destroyed, Ending, ObjInv, ObjTypes, Devs
  <1>2. CASE RestoreCrtcs
    <2>1. UNCHANGED <<libs, at, locked, fb>> /\ torn' = 1
      BY <1>2 DEF RestoreCrtcs
    <2> QED
      BY <1>1, <2>1 DEF Cleared, Clean, Devs
  <1>3. CASE ClearBuf
    <2>1. UNCHANGED <<at, objVars>> /\ torn = 1
      BY <1>3 DEF ClearBuf, suspend
    <2>2. PICK c \in Cons(at), k \in 1..2 : suspend(at, c, k)
      BY <1>3 DEF ClearBuf
    <2>3. locked'[at] \subseteq locked[at]
          /\ \A e \in Devs \ {at} : locked'[e] = locked[e] /\ fb'[e] = fb[e]
      BY <1>1, <2>2 DEF suspend, DrawInv
    <2> QED
      BY <1>1, <2>1, <2>3 DEF Cleared, Clean, Devs, objVars
  <1>4. CASE TearNext
    <2>1. torn > 0 /\ torn' > 0 /\ at' = at /\ locked' = locked /\ fb' = fb
      BY <1>1, <1>4, TearDownSteps DEF TearNext, drawVars
    <2>2. /\ Clean(at) /\ \A e \in Devs \ {at} : libs'[e] = libs[e]
      BY <1>1, <1>4, <2>1, EmptiedClean DEF Cleared, TearNext, ObjInv, ObjTypes
    <2> QED
      BY <1>1, <2>1, <2>2 DEF Cleared, Clean, Devs
  <1>5. CASE Destroyed
    <2>1. torn > 1 /\ at' = at + 1 /\ torn' = 0 /\ libs' = libs
          /\ locked' = locked /\ fb' = fb
      BY <1>1, <1>5, TearDownSteps DEF Destroyed, drawVars
    <2>2. \A d \in Devs : d < at' => d < at \/ d = at
      BY <1>1, <2>1 DEF Devs
    <2> QED
      BY <1>1, <2>1, <2>2 DEF Cleared, Clean
  <1> QED
    BY <1>2, <1>3, <1>4, <1>5

\* Buffers are locked on a device that has its surface.
LEMMA ClearedByDraw ==
    ASSUME ObjInv, DrawInv, Cleared, NEW d \in Devs, Draws(d)
    PROVE  DrawInv' /\ Cleared'
  <1>1. phase = "ready" /\ UNCHANGED <<phase, at, current, objVars>>
    BY DEF Draws, Drawing, Suspend, suspend, release_buf, drm_add_fb, set_crtc
  <1>2. DrawInv' /\ \A e \in Devs \ {d} : locked'[e] = locked[e] /\ fb'[e] = fb[e]
    BY DrawsOne DEF Changes
  <1>3. "gbm_sur" \in libs[d] \/ locked'[d] \subseteq locked[d]
    <2>1. Drawing(d) \/ \E c \in Cons(d), k \in 1..2 : suspend(d, c, k)
      BY DEF Draws, Suspend, release_buf, drm_add_fb, set_crtc
    <2>2. CASE Drawing(d)
      BY <2>2 DEF Drawing, ObjInv, Made, Devs
    <2>3. ASSUME NEW c \in Cons(d), NEW k \in 1..2, suspend(d, c, k)
          PROVE  locked'[d] \subseteq locked[d]
      BY <2>3 DEF suspend, DrawInv
    <2> QED
      BY <2>1, <2>2, <2>3
  <1> QED
    BY <1>1, <1>2, <1>3 DEF Cleared, objVars

LEMMA Inductive == IInv /\ [Next]_vars => IInv'
  <1> SUFFICES ASSUME IInv, [Next]_vars PROVE DrawInv' /\ Cleared'
    BY ObjectsKept DEF IInv
  <1> USE DEF IInv
  <1>1. CASE UNCHANGED vars
    BY <1>1, DrawUnchanged DEF vars, objVars, drawVars, Cleared, Clean
  <1>2. CASE \/ SetUp \/ SetUpFails \/ Check \/ End
             \/ \E d \in Devs : load_gdev_gl(d) \/ LoadFails(d) \/ make_current(d)
    <2>1. UNCHANGED drawVars
      BY <1>2 DEF SetUp, SetUpFails, Check, End, load_gdev_gl, LoadFails, make_current
    <2> QED
      BY <1>2, <2>1, DrawUnchanged, ClearedBySetUp
  <1>3. CASE RestoreCrtcs \/ ClearBuf
    <2>1. at \in Devs
      BY <1>3 DEF RestoreCrtcs, ClearBuf, Ending, ObjInv, ObjTypes, Devs
    <2>2. Changes(at)
      BY <1>3 DEF ClearBuf, Changes
    <2> QED
      BY <1>3, <2>1, <2>2, DrawsOne, ClearedByEnd
  <1>4. CASE TearNext \/ Destroyed
    <2>1. UNCHANGED drawVars
      BY <1>4 DEF TearNext, Destroyed
    <2> QED
      BY <1>4, <2>1, DrawUnchanged, ClearedByEnd
  <1>5. CASE \E d \in Devs : Draws(d)
    BY <1>5, ClearedByDraw
  <1> QED
    BY <1>1, <1>2, <1>3, <1>4, <1>5 DEF Next, Draws

LEMMA Initial == Init => IInv
  BY ObjInit, DrawInit DEF IInv, Cleared, Init

LEMMA Invariant == Spec => []IInv
  BY Initial, Inductive, PTL DEF Spec

\* Every variable keeps its type, and the application has just the buffer
\* objects its Gbufs hold (Gl_mgr, Gbuf).
THEOREM TypeCorrect == Spec => []TypeOK
  <1>1. IInv => TypeOK
    <2> SUFFICES ASSUME IInv PROVE TypeOK
      OBVIOUS
    <2>1. ASSUME NEW d \in Devs
          PROVE  locked[d] = {buf[d][c][b].bo : c \in Cons(d), b \in 1..2} \ {0}
      <3>1. DrawTypes(d) /\ Held(d)
        BY DEF IInv, DrawInv, DevInv
      <3>2. \A s \in Slots(d) : At(d, s).bo \in {buf[d][c][b].bo : c \in Cons(d), b \in 1..2}
        BY DEF Slots, At
      <3>3. \A c \in Cons(d), b \in 1..2 : /\ <<c, b>> \in Slots(d)
                                           /\ At(d, <<c, b>>) = buf[d][c][b]
                                           /\ buf[d][c][b].bo \in 0..NumBos
        BY <3>1 DEF Slots, At, DrawTypes, Bufs
      <3>4. \A x \in locked[d] : x \in {buf[d][c][b].bo : c \in Cons(d), b \in 1..2} \ {0}
        BY <3>1, <3>2 DEF Held
      <3>5. \A c \in Cons(d), b \in 1..2 : buf[d][c][b].bo # 0 => buf[d][c][b].bo \in locked[d]
        <4> SUFFICES ASSUME NEW c \in Cons(d), NEW b \in 1..2, buf[d][c][b].bo # 0
                     PROVE  buf[d][c][b].bo \in locked[d]
          OBVIOUS
        <4>1. /\ <<c, b>> \in Slots(d) /\ At(d, <<c, b>>).bo = buf[d][c][b].bo
              /\ buf[d][c][b].bo \in 0..NumBos
          BY <3>3
        <4>2. buf[d][c][b].bo \in 1..NumBos
          BY <4>1, Numbers
        <4> QED
          BY <3>1, <4>1, <4>2 DEF Held
      <3> QED
        BY <3>4, <3>5
    <2> QED
      BY <2>1 DEF IInv, ObjInv, ObjTypes, DrawInv, DevInv, DrawTypes, Bufs, TypeOK
  <1> QED
    BY <1>1, Invariant, PTL

\* No call of the destruction meets a freed object, wherever the constructors
\* threw (~Egl_gbm_dev, ~Gdev).
THEOREM LayersKept == Spec => []Layered
  <1>1. IInv => Layered
    BY DEF IInv, ObjInv, Stacked, Cleared, Layered
  <1> QED
    BY <1>1, Invariant, PTL

\* A destroyed device leaves nothing behind in EGL, GBM or DRM (~Gdev).
THEOREM AllFreed == Spec => []Freed
  <1>1. IInv => Freed
    <2> SUFFICES ASSUME IInv, NEW d \in Devs, phase = "ending", d < at
                 PROVE  libs[d] = {} /\ Clean(d) /\ current # d
      BY DEF Freed, Clean
    <2>1. eg[d] = {} /\ libs[d] \subseteq eg[d] /\ current # d
      BY DEF IInv, ObjInv, Made, TornDown
    <2> QED
      BY <2>1 DEF IInv, Cleared
  <1> QED
    BY <1>1, Invariant, PTL

\* Every frame buffer has a Gbuf that will remove it (drm_add_fb, release_buf).
THEOREM FbsKept == Spec => []FbsOwned
  <1>1. IInv => FbsOwned
    <2> SUFFICES ASSUME IInv, NEW d \in Devs, NEW i \in Ids(d), fb[d][i] # 0
                 PROVE  \E c \in Cons(d), b \in 1..2 : buf[d][c][b] = [bo |-> fb[d][i], id |-> i]
      BY DEF FbsOwned
    <2>1. PICK s \in Slots(d) : At(d, s).bo = fb[d][i] /\ At(d, s).id = i
      BY DEF IInv, DrawInv, DevInv, Held
    <2>2. At(d, s) \in Bufs(d) /\ At(d, s) = buf[d][s[1]][s[2]] /\ s[1] \in Cons(d) /\ s[2] \in 1..2
      BY BackSlot DEF IInv, DrawInv, DevInv, DrawTypes, Slots, At
    <2>3. At(d, s) = [bo |-> fb[d][i], id |-> i]
      BY <2>1, <2>2 DEF Bufs
    <2> QED
      BY <2>2, <2>3
  <1> QED
    BY <1>1, Invariant, PTL

\* What a connector shows stays until it draws again, its own front Gbuf is
\* suspended or its device goes, whatever is drawn, released or suspended on other
\* connectors; except after a failed call, and after the suspend of a Gbuf whose
\* drm_id release_buf left and another Gbuf has got (release_buf, Gbuf::suspend).
THEOREM FramesStay == Spec => []FramesKept
  <1>1. IInv => FramesKept
    <2> SUFFICES ASSUME IInv, NEW d \in Devs, ~failed, ~strayed[d], NEW c \in Cons(d),
                        front[d][c] # 0, NEW b, b = buf[d][c][front[d][c]], b # Blank
                 PROVE  /\ shows[d][c] = b.id /\ b.bo \in locked[d]
                        /\ b.id # 0 /\ fb[d][b.id] = b.bo
      BY DEF FramesKept
    <2> DEFINE s == <<c, front[d][c]>>
    <2>1. DrawTypes(d) /\ Held(d) /\ Live(d)
      BY DEF IInv, DrawInv, DevInv, Broken
    <2>2. s \in Slots(d) /\ At(d, s) = b /\ s[1] = c /\ s[2] = front[d][c]
      BY <2>1 DEF DrawTypes, Slots, At
    <2>3. b.bo \in 0..NumBos /\ b \in Bufs(d)
      BY <2>1, <2>2 DEF DrawTypes, Bufs, Slots
    <2> HIDE DEF s
    <2>4. b.bo # 0
      <3>1. b.bo = 0 => b.id = 0
        BY <2>1, <2>2 DEF Live
      <3> QED
        BY <2>3, <3>1 DEF Bufs, Blank
    <2>5. shows[d][c] = b.id /\ b.id # 0 /\ fb[d][b.id] = b.bo
      BY <2>1, <2>2, <2>4 DEF Live
    <2> QED
      BY <2>1, <2>2, <2>3, <2>4, <2>5, Numbers DEF Held
  <1> QED
    BY <1>1, Invariant, PTL

---------------------------------------------------------------------------
(* The pool of buffers that FramePool promises.                             *)

\* A crtc shows a frame buffer that is there, and until something goes wrong
\* nothing without a front buffer.
Dim(d) ==
    /\ \A c \in Cons(d) : shows[d][c] # 0 => fb[d][shows[d][c]] # 0
    /\ ~Broken(d) => \A c \in Cons(d) : front[d][c] = 0 => shows[d][c] = 0

DimInv == \A d \in Devs : Dim(d)

\* What the screens of a device show, by the frame buffers.
LEMMA ScreenOf ==
    ASSUME NEW d \in Devs, DrawInv, Dim(d), NEW c \in Cons(d)
    PROVE  /\ OnScreen(d)[c] # 0 <=> shows[d][c] # 0
           /\ shows[d][c] # 0 => OnScreen(d)[c] = fb[d][shows[d][c]] /\ shows[d][c] \in Ids(d)
  BY DEF OnScreen, Dim, DrawInv, DevInv, DrawTypes

\* A Gbuf that is written adds its buffer object to those its connector holds,
\* in place of the one it had.
LEMMA HeldWritten ==
    ASSUME NEW d \in Devs, DrawInv, NEW c \in Cons(d), NEW k \in 1..2, NEW x \in Bufs(d),
           Writes(d, c, k, x)
    PROVE  HeldBy(d)' = [HeldBy(d) EXCEPT
               ![c] = (@ \ {buf[d][c][k].bo}) \cup ({x.bo} \ {0})]
  <1> DEFINE old == buf[d][c][k].bo
  <1>1. k \in 1..2 /\ buf[d] \in [Cons(d) -> [1..2 -> Bufs(d)]]
    BY BackSlot DEF DrawInv, DevInv, DrawTypes
  <1>2. \A e \in Cons(d), a \in 1..2 :
            buf'[d][e][a] = IF e = c /\ a = k THEN x ELSE buf[d][e][a]
    <2>1. \A e \in Cons(d), a \in 1..2 :
              /\ <<e, a>> \in Slots(d) /\ At(d, <<e, a>>) = buf[d][e][a]
              /\ At(d, <<e, a>>)' = buf'[d][e][a]
      BY DEF Slots, At
    <2>2. \A s \in Slots(d) : At(d, s)' = IF s = <<c, k>> THEN x ELSE At(d, s)
      BY BufWritten
    <2>3. ASSUME NEW e \in Cons(d), NEW a \in 1..2
          PROVE  buf'[d][e][a] = IF e = c /\ a = k THEN x ELSE buf[d][e][a]
      <3>1. <<e, a>> = <<c, k>> <=> e = c /\ a = k
        OBVIOUS
      <3>2. At(d, <<e, a>>)' = IF <<e, a>> = <<c, k>> THEN x ELSE At(d, <<e, a>>)
        BY <2>1, <2>2
      <3>3. At(d, <<e, a>>)' = buf'[d][e][a] /\ At(d, <<e, a>>) = buf[d][e][a]
        BY <2>1
      <3> QED
        BY <3>1, <3>2, <3>3, Zenon
    <2> QED
      BY <2>3
  <1>3. \A a \in 1..2 : a # k /\ buf[d][c][a].bo # 0 => buf[d][c][a].bo # old
    <2>1. \A a \in 1..2 : <<c, a>> \in Slots(d) /\ At(d, <<c, a>>) = buf[d][c][a]
      BY DEF Slots, At
    <2>2. \A s, t \in Slots(d) : At(d, s).bo = At(d, t).bo /\ At(d, s).bo # 0 => s = t
      BY DEF DrawInv, DevInv, Held
    <2> QED
      BY <1>1, <2>1, <2>2
  <1> HIDE DEF old
  <1>4. \A e \in Cons(d) \ {c} :
            {buf'[d][e][b].bo : b \in 1..2} \ {0} = {buf[d][e][b].bo : b \in 1..2} \ {0}
    BY <1>2
  <1>5. {buf'[d][c][b].bo : b \in 1..2} \ {0}
            = (({buf[d][c][b].bo : b \in 1..2} \ {0}) \ {old}) \cup ({x.bo} \ {0})
    <2>1. \A y : y \in {buf'[d][c][b].bo : b \in 1..2} \ {0}
              => y \in (({buf[d][c][b].bo : b \in 1..2} \ {0}) \ {old}) \cup ({x.bo} \ {0})
      BY <1>1, <1>2, <1>3
    <2>2. \A y \in {x.bo} \ {0} : y \in {buf'[d][c][b].bo : b \in 1..2} \ {0}
      BY <1>1, <1>2
    <2>3. \A y \in ({buf[d][c][b].bo : b \in 1..2} \ {0}) \ {old} :
              y \in {buf'[d][c][b].bo : b \in 1..2} \ {0}
      BY <1>1, <1>2 DEF old
    <2> QED
      BY <2>1, <2>2, <2>3
  <1> DEFINE h == HeldBy(d)
             y == (h[c] \ {old}) \cup ({x.bo} \ {0})
  <1>6. /\ h = [e \in Cons(d) |-> {buf[d][e][b].bo : b \in 1..2} \ {0}]
        /\ HeldBy(d)' = [e \in Cons(d) |-> {buf'[d][e][b].bo : b \in 1..2} \ {0}]
    BY DEF HeldBy, Cons
  <1> HIDE DEF h
  <1>7. {buf'[d][c][b].bo : b \in 1..2} \ {0} = y
    BY <1>5, <1>6
  <1> HIDE DEF y
  <1>8. \A e \in Cons(d) : HeldBy(d)'[e] = IF e = c THEN y ELSE h[e]
    BY <1>4, <1>6, <1>7
  <1>9. HeldBy(d)' = [e \in Cons(d) |-> HeldBy(d)'[e]] /\ h = [e \in Cons(d) |-> h[e]]
    BY <1>6
  <1>10. HeldBy(d)' = [h EXCEPT ![c] = y]
    BY <1>8, <1>9
  <1> QED
    BY <1>10 DEF y, h, old

\* What a call that fails, or none, makes of the device.
LEMMA BrokenKept ==
    ASSUME NEW d \in Devs, strayed' = strayed, failed' = failed \/ failed' = TRUE
    PROVE  Broken(d)' = Broken(d) \/ Broken(d)' = TRUE
  <1>1. CASE failed' = failed
    BY <1>1 DEF Broken
  <1>2. CASE failed' = TRUE
    BY <1>2 DEF Broken
  <1> QED
    BY <1>1, <1>2

\* Devices that a step does not draw on, or draws in vain on.
LEMMA PoolIdle ==
    ASSUME NEW d \in Devs, HeldBy(d)' = HeldBy(d), OnScreen(d)' = OnScreen(d),
           Broken(d)' = Broken(d) \/ Broken(d)' = TRUE, Over(d)' = Over(d)
    PROVE  PoolStep(d)
  BY DEF PoolStep, Pool!Next, Pool!CallFails

LEMMA PoolOther ==
    ASSUME NEW d \in Devs, UNCHANGED <<buf[d], fb[d], shows[d]>>,
           Broken(d)' = Broken(d) \/ Broken(d)' = TRUE, Over(d)' = Over(d)
    PROVE  PoolStep(d)
  <1>1. HeldBy(d)' = HeldBy(d) /\ OnScreen(d)' = OnScreen(d)
    BY DEF HeldBy, OnScreen, Cons
  <1> QED
    BY <1>1, PoolIdle

\* What giving a buffer back does to the device's frame buffers and screens.
LEMMA DropEffect ==
    ASSUME NEW d \in Devs, DrawInv, NEW c \in Cons(d), NEW k \in 1..2, NEW x, Drops(d, c, k, x),
           NEW b, b = buf[d][c][k]
    PROVE  /\ b \in Bufs(d) /\ front' = front /\ failed' = failed
           /\ \A i \in Ids(d) : fb'[d][i] = IF i = b.id THEN 0 ELSE fb[d][i]
           /\ \A e \in Cons(d) : shows'[d][e] =
                  IF shows[d][e] # 0 /\ fb'[d][shows[d][e]] # 0 THEN shows[d][e] ELSE 0
           /\ HeldBy(d)' = [HeldBy(d) EXCEPT ![c] = @ \ {b.bo}]
  <1>1. DrawTypes(d)
    BY DEF DrawInv, DevInv
  <1>2. b \in Bufs(d)
    BY <1>1 DEF DrawTypes
  <1>3. /\ Writes(d, c, k, x) /\ x \in Bufs(d) /\ x.bo = 0
        /\ front' = front /\ failed' = failed
        /\ fb'[d] = RmFB(d, fb[d], b.id)
        /\ shows'[d] = Shown(shows[d], fb'[d])
    BY DEF Drops
  <1>4. HeldBy(d)' = [HeldBy(d) EXCEPT ![c] = (@ \ {b.bo}) \cup ({x.bo} \ {0})]
    BY <1>3, HeldWritten
  <1>5. HeldBy(d)' = [HeldBy(d) EXCEPT ![c] = @ \ {b.bo}]
    <2>1. (HeldBy(d)[c] \ {b.bo}) \cup ({x.bo} \ {0}) = HeldBy(d)[c] \ {b.bo}
      BY <1>3
    <2> QED
      BY <1>4, <2>1, Zenon
  <1>6. \A i \in Ids(d) : fb'[d][i] = IF i = b.id THEN 0 ELSE fb[d][i]
    BY <1>3 DEF RmFB
  <1>7. \A e \in Cons(d) : shows'[d][e] =
            IF shows[d][e] # 0 /\ fb'[d][shows[d][e]] # 0 THEN shows[d][e] ELSE 0
    BY <1>1, <1>3 DEF Shown, DrawTypes
  <1> QED
    BY <1>2, <1>3, <1>5, <1>6, <1>7

\* A frame buffer that a screen shows is that of a Gbuf which holds its buffer
\* object, and of no other.
LEMMA FbHeld ==
    ASSUME NEW d \in Devs, DrawInv, NEW i \in Ids(d), fb[d][i] # 0
    PROVE  /\ \E e \in Cons(d) : fb[d][i] \in HeldBy(d)[e]
           /\ \A s \in Slots(d) : At(d, s).bo = fb[d][i] => At(d, s).id = i
  <1>1. Held(d)
    BY DEF DrawInv, DevInv
  <1>2. PICK s \in Slots(d) : At(d, s).bo = fb[d][i] /\ At(d, s).id = i
    BY <1>1 DEF Held
  <1>3. s[1] \in Cons(d) /\ s[2] \in 1..2 /\ At(d, s) = buf[d][s[1]][s[2]]
    <2>1. PICK e \in Cons(d) : TRUE
      BY DEF Slots
    <2>2. s[1] \in Cons(d) /\ s[2] \in 1..2
      BY <2>1, BackSlot
    <2> QED
      BY <2>2 DEF At
  <1>4. fb[d][i] \in HeldBy(d)[s[1]]
    BY <1>2, <1>3 DEF HeldBy
  <1>5. \A t \in Slots(d) : At(d, t).bo = fb[d][i] => t = s
    BY <1>1, <1>2 DEF Held
  <1> QED
    BY <1>2, <1>3, <1>4, <1>5

\* Giving a buffer back darkens the screens that show the frame buffer drm_id.
\* Those are the connector's own, if any, as long as nothing has gone wrong.
LEMMA PoolDrop ==
    ASSUME NEW d \in Devs, DrawInv, Dim(d), NEW c \in Cons(d), NEW k \in 1..2, NEW x,
           Drops(d, c, k, x), NEW b, b = buf[d][c][k],
           Broken(d)' = (Broken(d) \/ Stray(d, b)), Over(d)' = Over(d)
    PROVE  Dim(d)' /\ PoolStep(d)
  <1> DEFINE s0 == <<c, k>>
  <1>1. /\ b \in Bufs(d) /\ front' = front
        /\ \A i \in Ids(d) : fb'[d][i] = IF i = b.id THEN 0 ELSE fb[d][i]
        /\ \A e \in Cons(d) : shows'[d][e] =
               IF shows[d][e] # 0 /\ fb'[d][shows[d][e]] # 0 THEN shows[d][e] ELSE 0
        /\ HeldBy(d)' = [HeldBy(d) EXCEPT ![c] = @ \ {b.bo}]
    BY DropEffect
  <1>2. s0 \in Slots(d) /\ At(d, s0) = b /\ (b.bo # 0 => b.bo \in HeldBy(d)[c])
    BY DEF HeldBy, At, Slots
  <1>3. DrawTypes(d) /\ Held(d) /\ (~Broken(d) => Live(d))
    BY DEF DrawInv, DevInv
  <1>4. Dim(d)'
    <2>1. \A e \in Cons(d) : shows'[d][e] # 0 => fb'[d][shows'[d][e]] # 0
      BY <1>1
    <2>2. \A e \in Cons(d) : shows[d][e] = 0 => shows'[d][e] = 0
      BY <1>1
    <2>3. ~Broken(d)' => \A e \in Cons(d) : front'[d][e] = 0 => shows'[d][e] = 0
      BY <1>1, <2>2 DEF Dim
    <2> QED
      BY <2>1, <2>3 DEF Dim, Cons
  <1> DEFINE dark == {e \in Cons(d) : shows[d][e] # 0 /\ shows[d][e] = b.id}
  <1>5. OnScreen(d)' = [e \in Cons(d) |-> IF e \in dark THEN 0 ELSE OnScreen(d)[e]]
    <2>1. ASSUME NEW e \in Cons(d)
          PROVE  (IF shows'[d][e] = 0 THEN 0 ELSE fb'[d][shows'[d][e]])
                     = IF e \in dark THEN 0 ELSE OnScreen(d)[e]
      <3>1. CASE shows[d][e] = 0
        BY <1>1, <3>1, ScreenOf
      <3>2. CASE shows[d][e] # 0
        <4>1. shows[d][e] \in Ids(d) /\ OnScreen(d)[e] = fb[d][shows[d][e]] /\ fb[d][shows[d][e]] # 0
          BY <3>2, ScreenOf DEF Dim
        <4> QED
          BY <1>1, <3>2, <4>1
      <3> QED
        BY <3>1, <3>2
    <2> HIDE DEF dark
    <2>2. OnScreen(d)' = [e \in Cons(d) |-> IF shows'[d][e] = 0 THEN 0 ELSE fb'[d][shows'[d][e]]]
      BY DEF OnScreen, Cons
    <2> QED
      BY <2>1, <2>2
  <1>6. b.bo # 0 => \A e \in Cons(d) : OnScreen(d)[e] = b.bo => e \in dark
    <2> SUFFICES ASSUME b.bo # 0, NEW e \in Cons(d), OnScreen(d)[e] = b.bo
                 PROVE  shows[d][e] # 0 /\ shows[d][e] = b.id
      OBVIOUS
    <2>1. shows[d][e] \in Ids(d) /\ fb[d][shows[d][e]] = b.bo /\ shows[d][e] # 0
      BY <1>1, ScreenOf
    <2> QED
      BY <1>1, <1>2, <2>1, FbHeld
  <1>7. dark \in SUBSET Cons(d) /\ \A e \in dark : b.id # 0 /\ b.id \in Ids(d) /\ fb[d][b.id] # 0
    BY <1>1 DEF Dim, Bufs
  <1>8. ASSUME ~Broken(d), b.bo # 0 PROVE dark = {e \in {c} : OnScreen(d)[e] = b.bo}
    <2>1. ASSUME NEW e \in dark PROVE e = c /\ OnScreen(d)[e] = b.bo
      <3> DEFINE s == <<e, front[d][e]>>
      <3>1. e \in Cons(d) /\ shows[d][e] # 0 /\ shows[d][e] = b.id
        BY <2>1
      <3>2. s \in Slots(d) /\ s[1] = e /\ s[2] = front[d][e]
        BY <1>3, <1>8, <3>1 DEF Dim, DrawTypes, Slots
      <3>3. fb[d][b.id] = b.bo
        BY <1>2, <1>3, <1>8 DEF Live
      <3>4. At(d, s).bo # 0 /\ At(d, s).id = b.id
        BY <1>3, <1>8, <3>1, <3>2 DEF Live
      <3>5. At(d, s).bo = b.bo
        BY <1>3, <1>8, <3>2, <3>3, <3>4 DEF Live
      <3>6. s = s0
        BY <1>2, <1>3, <1>8, <3>2, <3>5 DEF Held
      <3> QED
        BY <3>1, <3>2, <3>3, <3>6, ScreenOf
    <2>2. \A e \in {c} : OnScreen(d)[e] = b.bo => e \in dark
      BY <1>6, <1>8
    <2> HIDE DEF dark
    <2> QED
      BY <2>1, <2>2
  <1>9. CASE b.bo # 0
    <2>1. Broken(d)' = Broken(d) /\ b.bo \in HeldBy(d)[c]
      BY <1>2, <1>9 DEF Stray, Broken
    <2> HIDE DEF dark
    <2>2. CASE Broken(d)
      <3>1. Pool(d)!ReleaseBroken(c)
        BY <1>1, <1>5, <1>6, <1>7, <1>9, <2>1, <2>2, Zenon DEF Pool!ReleaseBroken, Pool!Darken
      <3> QED
        BY <1>4, <3>1 DEF PoolStep, Pool!Next
    <2>3. CASE ~Broken(d)
      <3>1. dark = {e \in {c} : OnScreen(d)[e] = b.bo}
        BY <1>8, <1>9, <2>3
      <3>2. Pool(d)!Release(c)
        BY <1>1, <1>5, <2>1, <3>1, Zenon DEF Pool!Release, Pool!Darken
      <3> QED
        BY <1>4, <3>2 DEF PoolStep, Pool!Next
    <2> QED
      BY <2>2, <2>3
  <1>10. CASE b.bo = 0
    <2>1. HeldBy(d)' = HeldBy(d)
      <3>1. HeldBy(d)[c] \ {b.bo} = HeldBy(d)[c]
        BY <1>10 DEF HeldBy
      <3>2. HeldBy(d) = [HeldBy(d) EXCEPT ![c] = HeldBy(d)[c]]
        BY DEF HeldBy
      <3> QED
        BY <1>1, <3>1, <3>2, Zenon
    <2>2. CASE Stray(d, b)
      <3>1. Broken(d)' = TRUE
        BY <2>2 DEF Broken
      <3> HIDE DEF dark
      <3>2. Pool(d)!ReleaseAgain
        BY <1>5, <1>7, <2>1, <3>1, Zenon DEF Pool!ReleaseAgain, Pool!Darken
      <3> QED
        BY <1>4, <3>2 DEF PoolStep, Pool!Next
    <2>3. CASE ~Stray(d, b)
      <3>1. dark = {}
        BY <1>7, <1>10, <2>3 DEF Stray
      <3> HIDE DEF dark
      <3>2. OnScreen(d)' = OnScreen(d)
        BY <1>5, <3>1 DEF OnScreen
      <3>3. Broken(d)' = Broken(d)
        BY <2>3 DEF Broken
      <3> QED
        BY <1>4, <2>1, <3>2, <3>3, PoolIdle
    <2> QED
      BY <2>2, <2>3
  <1> QED
    BY <1>9, <1>10

LEMMA PoolRelease ==
    ASSUME NEW d \in Devs, DrawInv, Dim(d), NEW c \in Cons(d), release_buf(d, c), Over(d)' = Over(d)
    PROVE  Dim(d)' /\ PoolStep(d)
  <1> DEFINE b == buf[d][c][Back(d, c)]
  <1>1. /\ Drops(d, c, Back(d, c), Released(b)) /\ b.bo # 0 /\ Back(d, c) \in 1..2
        /\ strayed' = strayed /\ failed' = failed
    BY ReleaseDrops DEF Drops
  <1> HIDE DEF b
  <1>2. Broken(d)' = (Broken(d) \/ Stray(d, b))
    BY <1>1 DEF Broken, Stray
  <1> QED
    BY <1>1, <1>2, PoolDrop DEF b

LEMMA PoolSuspend ==
    ASSUME NEW d \in Devs, DrawInv, Dim(d), NEW c \in Cons(d), NEW k \in 1..2, suspend(d, c, k),
           Over(d)' = Over(d)
    PROVE  Dim(d)' /\ PoolStep(d)
  <1> DEFINE b == buf[d][c][k]
  <1>1. /\ Drops(d, c, k, Blank) /\ failed' = failed
        /\ strayed' = [strayed EXCEPT ![d] = @ \/ Stray(d, b)]
    BY SuspendDrops DEF Drops
  <1> HIDE DEF b
  <1>2. strayed'[d] = (strayed[d] \/ Stray(d, b))
    BY <1>1 DEF DrawInv
  <1>3. Broken(d)' = (Broken(d) \/ Stray(d, b))
    BY <1>1, <1>2 DEF Broken
  <1> QED
    BY <1>1, <1>3, PoolDrop DEF b

LEMMA PoolLock ==
    ASSUME NEW d \in Devs, DrawInv, Dim(d), NEW c \in Cons(d), drm_add_fb(d, c),
           ~Over(d), Over(d)' = Over(d)
    PROVE  Dim(d)' /\ PoolStep(d)
  <1> DEFINE b == buf[d][c][Back(d, c)]
             bo == Lowest(FreeBos(d))
             id == Lowest(FreeIds(d))
             x == buf'[d][c][Back(d, c)]
  <1>1. DrawTypes(d) /\ Held(d) /\ failed \in BOOLEAN /\ DOMAIN buf = Devs /\ DOMAIN fb = Devs
    BY DEF DrawInv, DevInv
  <1>2. Back(d, c) \in 1..2 /\ <<c, Back(d, c)>> \in Slots(d) /\ At(d, <<c, Back(d, c)>>) = b
    BY BackSlot DEF At
  <1>3. b \in Bufs(d) /\ b.bo = 0
    BY <1>2, BackSlot DEF drm_add_fb
  <1>4. bo \in Bos /\ bo \notin locked[d] /\ bo # 0 /\ bo \in 1..NumBos
    <2>1. FreeBos(d) # {} /\ FreeBos(d) \in SUBSET Nat
      BY Numbers DEF drm_add_fb, FreeBos, Bos
    <2> QED
      BY <2>1, LowestIn DEF FreeBos, Bos
  <1>5. id \in Ids(d) /\ fb[d][id] = 0
    BY <1>1, <1>2, <1>3, IdLeft DEF FreeIds
  <1>6. /\ front' = front /\ shows' = shows /\ strayed' = strayed
        /\ \/ /\ buf' = [buf EXCEPT ![d][c][Back(d, c)] = [bo |-> bo, id |-> id]]
              /\ fb' = [fb EXCEPT ![d][id] = bo] /\ failed' = failed
           \/ /\ buf' = [buf EXCEPT ![d][c][Back(d, c)].bo = bo]
              /\ failed' = TRUE /\ fb' = fb
    BY Zenon DEF drm_add_fb
  <1> HIDE DEF bo, id
  <1>7. /\ x \in Bufs(d) /\ x.bo = bo
        /\ buf' = [buf EXCEPT ![d][c][Back(d, c)] = x]
    <2>1. buf[d] \in [Cons(d) -> [1..2 -> Bufs(d)]]
      BY <1>1 DEF DrawTypes
    <2>2. CASE buf' = [buf EXCEPT ![d][c][Back(d, c)] = [bo |-> bo, id |-> id]]
      <3>1. x = [bo |-> bo, id |-> id]
        BY <1>1, <1>2, <2>1, <2>2
      <3>2. x \in Bufs(d) /\ x.bo = bo
        BY <1>4, <1>5, <3>1 DEF Bufs
      <3> QED
        BY <2>2, <3>1, <3>2, Zenon
    <2>3. CASE buf' = [buf EXCEPT ![d][c][Back(d, c)].bo = bo]
      <3>1. x = [b EXCEPT !.bo = bo]
        BY <1>1, <1>2, <2>1, <2>3
      <3>2. x \in Bufs(d) /\ x.bo = bo
        BY <1>3, <1>4, <3>1 DEF Bufs
      <3>3. buf' = [buf EXCEPT ![d][c][Back(d, c)] = x]
        BY <1>1, <2>1, <2>3, <3>1
      <3> QED
        BY <3>2, <3>3
    <2> QED
      BY <1>6, <2>2, <2>3
  <1> HIDE DEF x, b
  <1>8. HeldBy(d)' = [HeldBy(d) EXCEPT ![c] = @ \cup {bo}]
    <2>1. HeldBy(d)' = [HeldBy(d) EXCEPT ![c] = (@ \ {b.bo}) \cup ({x.bo} \ {0})]
      <3>1. x \in Bufs(d) /\ Writes(d, c, Back(d, c), x) /\ Back(d, c) \in 1..2
        BY <1>2, <1>7 DEF Writes
      <3> QED
        BY <3>1, HeldWritten DEF b
    <2>2. 0 \notin HeldBy(d)[c]
      BY DEF HeldBy
    <2>3. b.bo = 0 /\ x.bo = bo /\ bo # 0
      BY <1>3, <1>4, <1>7
    <2>4. (HeldBy(d)[c] \ {b.bo}) \cup ({x.bo} \ {0}) = HeldBy(d)[c] \cup {bo}
      BY <2>2, <2>3
    <2> QED
      BY <2>1, <2>4, Zenon
  <1>9. \A y, z \in HeldBy(d)[c] : y = z
    BY <1>2, <1>3 DEF HeldBy, b
  <1>10. bo \in Bos \ UNION {HeldBy(d)[e] : e \in Cons(d)}
    <2> SUFFICES ASSUME NEW e \in Cons(d), bo \in HeldBy(d)[e] PROVE FALSE
      BY <1>4
    <2>1. PICK a \in 1..2 : buf[d][e][a].bo = bo
      BY DEF HeldBy
    <2>2. <<e, a>> \in Slots(d) /\ At(d, <<e, a>>).bo = bo
      BY <2>1 DEF Slots, At
    <2> QED
      BY <1>1, <1>4, <2>2 DEF Held
  <1>11. \A i \in Ids(d) : fb[d][i] # 0 => fb'[d][i] = fb[d][i]
    <2>1. CASE fb' = fb
      BY <2>1
    <2>2. CASE fb' = [fb EXCEPT ![d][id] = bo]
      <3>1. fb'[d] = [fb[d] EXCEPT ![id] = bo] /\ fb[d] \in [Ids(d) -> 0..NumBos]
        BY <1>1, <2>2 DEF DrawTypes
      <3> QED
        BY <1>5, <3>1
    <2> QED
      BY <1>6, <2>1, <2>2
  <1>12. \A e \in Cons(d) : shows[d][e] # 0 =>
             fb'[d][shows[d][e]] = fb[d][shows[d][e]] /\ fb[d][shows[d][e]] # 0
    BY <1>1, <1>11 DEF Dim, DrawTypes
  <1>13. Dim(d)'
    <2>1. ~Broken(d)' => ~Broken(d)
      BY <1>6 DEF Broken
    <2> QED
      BY <1>6, <1>12, <2>1 DEF Dim, Cons
  <1>14. OnScreen(d)' = OnScreen(d)
    <2>1. \A e \in Cons(d) : (IF shows'[d][e] = 0 THEN 0 ELSE fb'[d][shows'[d][e]])
                                 = IF shows[d][e] = 0 THEN 0 ELSE fb[d][shows[d][e]]
      BY <1>6, <1>12
    <2> QED
      BY <2>1 DEF OnScreen, Cons
  <1>15. Pool(d)!Lock(c)
    <2>1. Broken(d)' \in {Broken(d), TRUE}
      <3>1. failed' = failed \/ failed' = TRUE
        BY <1>6
      <3>2. strayed' = strayed
        BY <1>6
      <3> QED
        BY <3>1, <3>2, BrokenKept
    <2> QED
      BY <1>8, <1>9, <1>10, <1>14, <2>1, Zenon DEF Pool!Lock, Pool!Taken
  <1> QED
    BY <1>13, <1>15 DEF PoolStep, Pool!Next

LEMMA PoolFlip ==
    ASSUME NEW d \in Devs, DrawInv, Dim(d), NEW c \in Cons(d), set_crtc(d, c),
           ~Over(d), Over(d)' = Over(d)
    PROVE  Dim(d)' /\ PoolStep(d)
  <1> DEFINE b == buf[d][c][Back(d, c)]
             s0 == <<c, Back(d, c)>>
  <1>1. /\ DrawTypes(d) /\ (~Broken(d) => Live(d)) /\ failed \in BOOLEAN
        /\ DOMAIN shows = Devs /\ DOMAIN front = Devs
    BY DEF DrawInv, DevInv
  <1>2. Back(d, c) \in 1..2 /\ s0 \in Slots(d) /\ At(d, s0) = b
    BY BackSlot DEF At
  <1>3. b \in Bufs(d) /\ b.bo # 0
    BY <1>2, BackSlot DEF set_crtc
  <1>4. /\ buf' = buf /\ fb' = fb /\ strayed' = strayed
        /\ front'[d] = [front[d] EXCEPT ![c] = Back(d, c)]
        /\ \/ /\ b.id # 0 /\ fb[d][b.id] # 0 /\ failed' = failed
              /\ shows'[d] = [shows[d] EXCEPT ![c] = b.id]
           \/ failed' = TRUE /\ shows' = shows
    BY <1>1 DEF set_crtc
  <1>5. HeldBy(d)' = HeldBy(d)
    BY <1>4 DEF HeldBy, Cons
  <1>6. b.bo \in HeldBy(d)[c]
    BY <1>2, <1>3 DEF HeldBy
  <1> HIDE DEF b
  <1>7. CASE failed' = TRUE /\ shows' = shows
    <2>1. OnScreen(d)' = OnScreen(d)
      BY <1>4, <1>7 DEF OnScreen, Cons
    <2>2. Broken(d)' = TRUE
      BY <1>7 DEF Broken
    <2>3. Dim(d)'
      BY <1>4, <1>7, <2>2 DEF Dim, Cons
    <2> QED
      BY <1>5, <2>1, <2>2, <2>3, PoolIdle
  <1>8. CASE /\ b.id # 0 /\ fb[d][b.id] # 0 /\ failed' = failed
             /\ shows'[d] = [shows[d] EXCEPT ![c] = b.id]
    <2>1. b.id \in Ids(d) /\ Broken(d)' = Broken(d)
      BY <1>3, <1>4, <1>8 DEF Bufs, Broken
    <2>2. \A e \in Cons(d) : shows'[d][e] = IF e = c THEN b.id ELSE shows[d][e]
      BY <1>1, <1>8 DEF DrawTypes
    <2>3. Dim(d)'
      <3>1. \A e \in Cons(d) : shows'[d][e] # 0 => fb'[d][shows'[d][e]] # 0
        BY <1>4, <1>8, <2>2 DEF Dim
      <3>2. \A e \in Cons(d) : front'[d][e] = 0 => front[d][e] = 0 /\ e # c
        BY <1>1, <1>2, <1>4 DEF DrawTypes
      <3> QED
        BY <2>1, <2>2, <3>1, <3>2 DEF Dim, Cons
    <2>4. OnScreen(d)' = [OnScreen(d) EXCEPT ![c] = fb[d][b.id]]
      <3>1. \A e \in Cons(d) : (IF shows'[d][e] = 0 THEN 0 ELSE fb'[d][shows'[d][e]])
                = IF e = c THEN fb[d][b.id]
                  ELSE IF shows[d][e] = 0 THEN 0 ELSE fb[d][shows[d][e]]
        BY <1>4, <1>8, <2>2
      <3> QED
        BY <3>1 DEF OnScreen, Cons
    <2>5. fb[d][b.id] \in IF Broken(d) THEN Pool(d)!Taken ELSE HeldBy(d)[c]
      <3>1. CASE Broken(d)
        BY <1>8, <2>1, <3>1, FbHeld DEF Pool!Taken
      <3>2. CASE ~Broken(d)
        BY <1>1, <1>2, <1>3, <1>6, <3>2 DEF Live
      <3> QED
        BY <3>1, <3>2
    <2>6. Pool(d)!Flip(c)
      BY <1>5, <2>1, <2>4, <2>5, Zenon DEF Pool!Flip
    <2> QED
      BY <2>3, <2>6 DEF PoolStep, Pool!Next
  <1> QED
    BY <1>4, <1>7, <1>8

LEMMA PoolRestore ==
    ASSUME NEW d \in Devs, DrawInv, Dim(d), RestoreCrtcs, d = at
    PROVE  Dim(d)' /\ PoolStep(d)
  <1>1. PICK kept \in SUBSET Cons(d) :
            /\ front' = [front EXCEPT ![d] = [c \in Cons(d) |-> IF c \in kept THEN @[c] ELSE 0]]
            /\ shows' = [shows EXCEPT ![d] = [c \in Cons(d) |-> IF c \in kept THEN @[c] ELSE 0]]
            /\ \/ kept = {} /\ failed' = failed
               \/ failed' = TRUE
    BY Zenon DEF RestoreCrtcs
  <1>2. /\ UNCHANGED <<buf, fb, strayed, phase, at>>
        /\ phase = "ending" /\ torn = 0 /\ torn' = 1
    BY DEF RestoreCrtcs, Ending
  <1>3. DrawTypes(d) /\ DOMAIN front = Devs /\ DOMAIN shows = Devs
    BY DEF DrawInv, DevInv
  <1>4. /\ front'[d] = [c \in Cons(d) |-> IF c \in kept THEN front[d][c] ELSE 0]
        /\ shows'[d] = [c \in Cons(d) |-> IF c \in kept THEN shows[d][c] ELSE 0]
    BY <1>1, <1>3, Zenon
  <1>5. Broken(d)' \in {Broken(d), TRUE} /\ (kept # {} => Broken(d)')
    <2>1. strayed' = strayed /\ (failed' = failed \/ failed' = TRUE) /\ (kept # {} => failed')
      BY <1>1, <1>2
    <2>2. Broken(d)' = Broken(d) \/ Broken(d)' = TRUE
      BY <2>1, BrokenKept
    <2> QED
      BY <2>1, <2>2 DEF Broken
  <1>6. ~Over(d) /\ Over(d)' = TRUE
    BY <1>2 DEF Over, Devs
  <1>7. Dim(d)'
    <2>1. \A c \in Cons(d) : shows'[d][c] # 0 => shows'[d][c] = shows[d][c]
      BY <1>4
    <2>2. ~Broken(d)' => \A c \in Cons(d) : shows'[d][c] = 0
      BY <1>4, <1>5
    <2> QED
      BY <1>2, <2>1, <2>2 DEF Dim, Cons
  <1>8. HeldBy(d)' = HeldBy(d)
    BY <1>2 DEF HeldBy, Cons
  <1> DEFINE dark == Cons(d) \ kept
  <1>9. OnScreen(d)' = [c \in Cons(d) |-> IF c \in dark THEN 0 ELSE OnScreen(d)[c]]
    BY <1>2, <1>4 DEF OnScreen, Cons
  <1>10. dark \in SUBSET Cons(d)
    OBVIOUS
  <1> HIDE DEF dark
  <1>11. Pool(d)!Restore
    BY <1>5, <1>6, <1>8, <1>9, <1>10, Zenon DEF Pool!Restore, Pool!Darken
  <1> QED
    BY <1>7, <1>11 DEF PoolStep, Pool!Next

\* When drawing is over.
LEMMA OverKept ==
    ASSUME ObjInv, NEW d \in Devs,
           \/ UNCHANGED <<phase, at, torn>>
           \/ phase # "ending" /\ (phase' # "ending" \/ (Throw /\ torn' = torn))
           \/ TearNext \/ Destroyed
           \/ RestoreCrtcs /\ d # at
    PROVE  Over(d)' = Over(d)
  <1>1. torn \in Nat /\ at \in Nat /\ (phase # "ending" => torn = 0)
    BY TearDownSteps DEF ObjInv, ObjTypes
  <1>2. CASE UNCHANGED <<phase, at, torn>>
    BY <1>2 DEF Over
  <1>3. CASE phase # "ending" /\ (phase' # "ending" \/ (Throw /\ torn' = torn))
    BY <1>1, <1>3 DEF Over, Throw, Devs
  <1>4. CASE TearNext
    BY <1>1, <1>4, TearDownSteps DEF Over, TearNext
  <1>5. CASE Destroyed
    BY <1>1, <1>5, TearDownSteps DEF Over, Destroyed, Devs
  <1>6. CASE RestoreCrtcs /\ d # at
    BY <1>6 DEF Over, RestoreCrtcs
  <1> QED
    BY <1>2, <1>3, <1>4, <1>5, <1>6

\* A step that draws on one device keeps the promise on all.
LEMMA PoolDrawn ==
    ASSUME ObjInv, DrawInv, DimInv, NEW d \in Devs, Changes(d), NEW e \in Devs
    PROVE  Dim(e)' /\ PoolStep(e)
  <1> DEFINE Kept == Dim(e)' /\ PoolStep(e)
  <1>1. ~(RestoreCrtcs /\ d = at) => Over(e)' = Over(e)
    <2>1. ~(RestoreCrtcs /\ d = at) => UNCHANGED <<phase, at, torn>>
      BY DEF Changes, Draws, Suspend, suspend, release_buf, drm_add_fb, set_crtc, objVars
    <2> QED
      BY <2>1, OverKept
  <1>2. Draws(d) /\ Drawing(d) => ~Over(e)
    BY DEF Drawing, Over
  <1>3. CASE e = d
    <2>1. Dim(d)
      BY DEF DimInv
    <2>2. CASE RestoreCrtcs /\ d = at
      BY <1>3, <2>1, <2>2, PoolRestore
    <2>3. CASE ~(RestoreCrtcs /\ d = at)
      <3>1. Over(d)' = Over(d)
        BY <1>1, <1>3, <2>3
      <3>2. ASSUME NEW c \in Cons(d), NEW k \in 1..2, suspend(d, c, k) PROVE Kept
        BY <1>3, <2>1, <3>1, <3>2, PoolSuspend
      <3>3. ASSUME NEW c \in Cons(d), release_buf(d, c) PROVE Kept
        BY <1>3, <2>1, <3>1, <3>3, PoolRelease
      <3>4. ASSUME NEW c \in Cons(d), drm_add_fb(d, c) PROVE Kept
        <4>1. ~Over(d)
          BY <3>4 DEF drm_add_fb, Drawing, Over
        <4> QED
          BY <1>3, <2>1, <3>1, <3>4, <4>1, PoolLock
      <3>5. ASSUME NEW c \in Cons(d), set_crtc(d, c) PROVE Kept
        <4>1. ~Over(d)
          BY <3>5 DEF set_crtc, Drawing, Over
        <4> QED
          BY <1>3, <2>1, <3>1, <3>5, <4>1, PoolFlip
      <3> QED
        BY <2>3, <3>2, <3>3, <3>4, <3>5 DEF Changes, Draws, Suspend
    <2> QED
      BY <2>2, <2>3
  <1>4. CASE e # d
    <2>1. UNCHANGED <<buf[e], front[e], fb[e], shows[e]>>
      BY <1>4, DrawsAlone DEF Alone
    <2>2. /\ Broken(e)' = Broken(e) \/ Broken(e)' = TRUE
          /\ Broken(e) => Broken(e)'
      <3>1. /\ failed' \in BOOLEAN /\ (failed => failed') /\ strayed'[e] = strayed[e]
            /\ failed \in BOOLEAN
        BY <1>4, DrawsOne DEF DrawInv
      <3> QED
        BY <3>1 DEF Broken
    <2>3. Over(e)' = Over(e)
      BY <1>1, <1>4, OverKept
    <2>4. Dim(e)'
      BY <2>1, <2>2 DEF Dim, DimInv, Cons
    <2> QED
      BY <2>1, <2>2, <2>3, <2>4, PoolOther
  <1> QED
    BY <1>3, <1>4

LEMMA PoolKept == IInv /\ DimInv /\ [Next]_vars => DimInv' /\ [\A d \in Devs : PoolStep(d)]_vars
  <1> SUFFICES ASSUME IInv, DimInv, [Next]_vars, NEW e \in Devs
               PROVE  Dim(e)' /\ PoolStep(e)
    BY DEF DimInv
  <1>1. DrawInv /\ ObjInv
    BY DEF IInv
  <1>2. ASSUME UNCHANGED drawVars, Over(e)' = Over(e) PROVE Dim(e)' /\ PoolStep(e)
    <2>1. Broken(e)' = Broken(e)
      BY <1>2 DEF drawVars, Broken
    <2>2. Dim(e)'
      BY <1>2, <2>1 DEF drawVars, Dim, DimInv, Cons
    <2> QED
      BY <1>2, <2>1, <2>2, PoolOther DEF drawVars
  <1>3. CASE UNCHANGED vars
    BY <1>1, <1>2, <1>3, OverKept DEF vars, objVars
  <1>4. CASE \/ SetUp \/ SetUpFails \/ Check \/ End
             \/ \E d \in Devs : load_gdev_gl(d) \/ LoadFails(d) \/ make_current(d)
    <2>1. UNCHANGED drawVars
      BY <1>4 DEF SetUp, SetUpFails, Check, End, load_gdev_gl, LoadFails, make_current
    <2>2. phase # "ending" /\ (phase' # "ending" \/ (Throw /\ torn' = torn))
      BY <1>4 DEF SetUp, SetUpFails, Check, End, load_gdev_gl, LoadFails, make_current, Loadable, objVars
    <2> QED
      BY <1>1, <1>2, <2>1, <2>2, OverKept
  <1>5. CASE RestoreCrtcs \/ ClearBuf
    <2>1. at \in Devs /\ Changes(at)
      BY <1>1, <1>5 DEF RestoreCrtcs, ClearBuf, Changes, Ending, ObjInv, ObjTypes, Devs
    <2> QED
      BY <1>1, <2>1, PoolDrawn
  <1>6. CASE TearNext \/ Destroyed
    <2>1. UNCHANGED drawVars
      BY <1>6 DEF TearNext, Destroyed
    <2> QED
      BY <1>1, <1>2, <1>6, <2>1, OverKept
  <1>7. CASE \E d \in Devs : Draws(d)
    BY <1>1, <1>7, PoolDrawn DEF Changes
  <1> QED
    BY <1>3, <1>4, <1>5, <1>6, <1>7 DEF Next, Draws

\* On every device, with any number of screens and buffers, the steps of an
\* application that draws or suspends Gbufs, also those that fail, and of the end
\* of the device are steps of FramePool (release_buf, drm_add_fb, set_crtc,
\* Gbuf::suspend, ~Gdev).
THEOREM PoolImplemented == Spec => ImplementsPool
  <1>1. Init => DimInv
    BY DEF Init, DimInv, Dim, Broken
  <1>2. Init => \A d \in Devs : Pool(d)!Init
    <2> SUFFICES ASSUME Init, NEW d \in Devs PROVE Pool(d)!Init
      OBVIOUS
    <2>1. HeldBy(d) = [c \in Cons(d) |-> {}]
      <3>1. ASSUME NEW c \in Cons(d) PROVE {buf[d][c][b].bo : b \in 1..2} \ {0} = {}
        BY DEF Init, Blank
      <3> QED
        BY <3>1 DEF HeldBy
    <2>2. OnScreen(d) = [c \in Cons(d) |-> 0] /\ Broken(d) = FALSE /\ Over(d) = FALSE
      BY DEF Init, OnScreen, Broken, Over
    <2> QED
      BY <2>1, <2>2 DEF Pool!Init
  <1> QED
    BY <1>1, <1>2, PoolKept, Invariant, PTL DEF Spec, ImplementsPool
==============================================================================
