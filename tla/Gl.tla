--------------------------------- MODULE Gl ---------------------------------
(***************************************************************************)
(* What an application draws with: the EGL and GBM objects Gl_mgr makes    *)
(* for every graphics device (src/teave/gl), the two buffers of every      *)
(* connector (Gbuf, Gcon), and how ~Gdev takes them down (src/teave/gdev). *)
(*                                                                         *)
(* Gl_mgr's constructor makes the objects of the devices in turn and may   *)
(* throw anywhere.  The application loads devices, makes one current, and  *)
(* draws: it releases the back buffer of a connector, locks the surface's  *)
(* next buffer object, adds a frame buffer for it and sets the crtc to it. *)
(* It may suspend a Gbuf at any time, as ~Gdev does with all of them.  DRM *)
(* gives frame buffers the lowest free id.  The application is taken to    *)
(* load a device once, and to be done when load_gdev_gl throws.            *)
(***************************************************************************)
EXTENDS Naturals, Sequences

CONSTANTS NumDevs,   \* graphics devices, in the order of Gdev_mgr's devs
          Screens,   \* Screens[d]: how many connectors device d has
          NumBos     \* buffer objects of a GBM surface

Devs == 1..NumDevs
ASSUME DevsAssumption == NumDevs \in Nat \ {0} /\ Screens \in [Devs -> Nat]
ASSUME BosAssumption == NumBos \in Nat \ {0}

VARIABLES
    phase,   \* "setup", "check" (constructor), "ready", "ending"
    at,      \* the device the constructor or the destruction is at
    eg,      \* eg[d]: the fields of Egl_gbm_dev that are set
    libs,    \* libs[d]: the objects EGL and GBM have for the device
    tried,   \* tried[d]: load_gdev_gl was called
    current, \* the device whose context is current, 0 for none
    torn,    \* how far ~Egl_gbm_dev of the device at is
    buf,     \* buf[d][c][b]: bo and drm_id of a Gbuf, 0 for none
    front,   \* front[d][c]: the connector's front buffer, 0 before it has one and
             \* once ~Gdev has restored the crtc
    locked,  \* locked[d]: buffer objects of the surface the application has
    fb,      \* fb[d][id]: the buffer object of the frame buffer, 0 for no such id
    shows,   \* shows[d][c]: the frame buffer on the connector's crtc, 0 for none
    failed,  \* drmModeAddFB or drmModeSetCrtc failed; bound: one does on its own
    strayed  \* strayed[d]: a Gbuf of the device was suspended that had no buffer
             \* object, and whose old drm_id is a frame buffer of another Gbuf

objVars == <<eg, libs, tried, torn>>
drawVars == <<buf, front, locked, fb, shows, failed, strayed>>
vars == <<phase, at, current, objVars, drawVars>>

Kinds == {"gbm_dev", "display", "context", "egl_sur", "gbm_sur"}
Bos == 1..NumBos
Cons(d) == 1..Screens[d]
Ids(d) == 1..2 * Screens[d]
Blank == [bo |-> 0, id |-> 0]

Init ==
    /\ phase = "setup" /\ at = 1 /\ current = 0 /\ torn = 0
    /\ eg = [d \in Devs |-> {}] /\ libs = [d \in Devs |-> {}]
    /\ tried = [d \in Devs |-> FALSE]
    /\ buf = [d \in Devs |-> [c \in Cons(d) |-> <<Blank, Blank>>]]
    /\ front = [d \in Devs |-> [c \in Cons(d) |-> 0]]
    /\ locked = [d \in Devs |-> {}]
    /\ fb = [d \in Devs |-> [i \in Ids(d) |-> 0]]
    /\ shows = [d \in Devs |-> [c \in Cons(d) |-> 0]]
    /\ failed = FALSE /\ strayed = [d \in Devs |-> FALSE]

----------------------------------------------------------------------------
(* Gl_mgr::Gl_mgr                                                           *)

\* A device gets these fields, of which EGL and GBM have the objects made.
Make(d, fields, made) ==
    /\ eg' = [eg EXCEPT ![d] = @ \cup fields]
    /\ libs' = [libs EXCEPT ![d] = @ \cup made]

\* An exception leaves the constructor: of the Gl_mgr nothing is left, the
\* application destroys the devices.
Throw == phase' = "ending" /\ at' = 1

\* init_gbm and init_egl.
SetUp ==
    /\ phase = "setup"
    /\ Make(at, {"gbm_dev", "display"}, {"gbm_dev", "display"})
    /\ IF at < NumDevs THEN at' = at + 1 /\ UNCHANGED phase
                       ELSE at' = 1 /\ phase' = "check"
    /\ UNCHANGED <<current, tried, torn, drawVars>>

\* gbm_create_device or eglGetPlatformDisplay returns nothing, or the display is
\* terminated because it cannot be used, with egl_dis left as it is.
SetUpFails ==
    /\ phase = "setup" /\ Throw
    /\ \/ UNCHANGED <<eg, libs>>
       \/ Make(at, {"gbm_dev"}, {"gbm_dev"})
       \/ Make(at, {"gbm_dev", "display"}, {"gbm_dev"})
    /\ UNCHANGED <<current, tried, torn, drawVars>>

\* check_egl_extensions for every device; an extension may be missing. What it
\* asks is the display of the first device each time, which is not modelled.
Check ==
    /\ phase = "check"
    /\ \/ Throw
       \/ IF at < NumDevs THEN at' = at + 1 /\ UNCHANGED phase
                          ELSE at' = 1 /\ phase' = "ready"
    /\ UNCHANGED <<current, objVars, drawVars>>

----------------------------------------------------------------------------
(* Loading and drawing.                                                     *)

Loadable(d) == phase = "ready" /\ ~tried[d]

load_gdev_gl(d) ==
    /\ Loadable(d) /\ tried' = [tried EXCEPT ![d] = TRUE]
    /\ LET made == {"gbm_sur", "context", "egl_sur"} IN Make(d, made, made)
    /\ UNCHANGED <<phase, at, current, torn, drawVars>>

\* The GBM surface, the context, or the EGL surface is not made, or glEnable of
\* the debug output fails after them; what was made before stays.
LoadFails(d) ==
    /\ Loadable(d) /\ Throw /\ tried' = [tried EXCEPT ![d] = TRUE]
    /\ \/ UNCHANGED <<eg, libs>>
       \/ Make(d, {"gbm_sur"}, {"gbm_sur"})
       \/ Make(d, {"gbm_sur", "context"}, {"gbm_sur", "context"})
       \/ LET made == {"gbm_sur", "context", "egl_sur"} IN Make(d, made, made)
    /\ UNCHANGED <<current, torn, drawVars>>

\* eglMakeCurrent, which needs all of the device's objects.
make_current(d) ==
    /\ phase = "ready" /\ {"display", "egl_sur", "context"} \subseteq eg[d]
    /\ current' = d
    /\ UNCHANGED <<phase, at, objVars, drawVars>>

\* Mutant: the front buffer once both have been drawn.
MutBack(d, c) == IF front[d][c] = 2 THEN 2 ELSE 1

Back(d, c) == IF front[d][c] = 1 THEN 2 ELSE 1

Drawing(d) == phase = "ready" /\ current = d

\* drmModeRmFB: crtcs that show the frame buffer are turned off.
RmFB(d, fbs, id) == [i \in Ids(d) |-> IF i = id THEN 0 ELSE fbs[i]]
Shown(sh, fbs) == [c \in DOMAIN sh |->
    IF sh[c] # 0 /\ fbs[sh[c]] # 0 THEN sh[c] ELSE 0]

\* Mutant: the buffer keeps its bo.
MutReleased(b) == b

\* release_buf leaves drm_id.
Released(b) == [b EXCEPT !.bo = 0]

release_buf(d, c) ==
    LET b == buf[d][c][Back(d, c)]
        fbs == RmFB(d, fb[d], b.id)
    IN  /\ Drawing(d) /\ b.bo # 0
        /\ locked' = [locked EXCEPT ![d] = @ \ {b.bo}]
        /\ buf' = [buf EXCEPT ![d][c][Back(d, c)] = Released(b)]
        /\ fb' = [fb EXCEPT ![d] = fbs]
        /\ shows' = [shows EXCEPT ![d] = Shown(@, fbs)]
        /\ UNCHANGED <<phase, at, current, objVars, front, failed, strayed>>

Lowest(S) == CHOOSE x \in S : \A y \in S : x <= y
FreeBos(d) == Bos \ locked[d]
FreeIds(d) == {i \in Ids(d) : fb[d][i] = 0}

\* The application swaps buffers and locks the new front one, then drm_add_fb.
drm_add_fb(d, c) ==
    LET bo == Lowest(FreeBos(d))
        id == Lowest(FreeIds(d))
    IN  /\ Drawing(d) /\ buf[d][c][Back(d, c)].bo = 0 /\ FreeBos(d) # {}
        /\ locked' = [locked EXCEPT ![d] = @ \cup {bo}]
        /\ \/ /\ buf' = [buf EXCEPT ![d][c][Back(d, c)] = [bo |-> bo, id |-> id]]
              /\ fb' = [fb EXCEPT ![d][id] = bo] /\ UNCHANGED failed
           \* drmModeAddFB fails: the exception is made and not thrown
           \/ /\ ~failed
              /\ buf' = [buf EXCEPT ![d][c][Back(d, c)].bo = bo]
              /\ failed' = TRUE /\ UNCHANGED fb
        /\ UNCHANGED <<phase, at, current, objVars, front, shows, strayed>>

\* set_crtc to the back buffer, which becomes the front one, also when
\* drmModeSetCrtc fails: nothing is thrown.
set_crtc(d, c) ==
    LET b == buf[d][c][Back(d, c)]
    IN  /\ Drawing(d) /\ b.bo # 0
        /\ front' = [front EXCEPT ![d][c] = Back(d, c)]
        /\ LET added == b.id # 0 /\ fb[d][b.id] # 0
           IN  \/ /\ added
                  /\ shows' = [shows EXCEPT ![d][c] = b.id] /\ UNCHANGED failed
               \/ (added => ~failed) /\ failed' = TRUE /\ UNCHANGED shows
        /\ UNCHANGED <<phase, at, current, objVars, buf, locked, fb, strayed>>

\* Mutant: the id is reset before the frame buffer is removed.
MutRemoved(b) == 0

\* Gbuf::suspend removes the frame buffer drm_id, then resets drm_id.
Removed(b) == b.id

\* Another Gbuf has the frame buffer which has the Gbuf's old id.
Stray(d, b) == b.bo = 0 /\ b.id # 0 /\ fb[d][b.id] # 0

suspend(d, c, k) ==
    LET b == buf[d][c][k]
        fbs == RmFB(d, fb[d], Removed(b))
    IN  /\ buf' = [buf EXCEPT ![d][c][k] = Blank]
        /\ locked' = [locked EXCEPT ![d] = @ \ {b.bo}]
        /\ fb' = [fb EXCEPT ![d] = fbs]
        /\ shows' = [shows EXCEPT ![d] = Shown(@, fbs)]
        /\ strayed' = [strayed EXCEPT ![d] = @ \/ Stray(d, b)]
        /\ UNCHANGED <<phase, at, current, objVars, front, failed>>

Suspend(d, c, k) == phase = "ready" /\ suspend(d, c, k)

----------------------------------------------------------------------------
(* The end of the devices: ~Gdev, then ~Egl_gbm_dev in the order of TearDown. *)

\* The application is done, or check_gl_extensions or check_state threw.
End == phase = "ready" /\ Throw /\ UNCHANGED <<current, objVars, drawVars>>

Ending == phase = "ending" /\ at <= NumDevs

\* ~Gdev sets the crtcs to what they showed before the application came; where
\* drmModeSetCrtc fails, it goes on.
RestoreCrtcs ==
    /\ Ending /\ torn = 0 /\ torn' = 1
    /\ \E kept \in SUBSET Cons(at) :
        LET Kept(f) == [c \in Cons(at) |-> IF c \in kept THEN f[c] ELSE 0]
        IN  /\ front' = [front EXCEPT ![at] = Kept(@)]
            /\ shows' = [shows EXCEPT ![at] = Kept(@)]
            /\ \/ kept = {} /\ UNCHANGED failed
               \/ kept # {} /\ ~failed /\ failed' = TRUE
    /\ UNCHANGED <<phase, at, current, eg, libs, tried, buf, locked, fb, strayed>>

\* It then destroys the connectors and, in any order, their Gbufs.
ClearBuf ==
    /\ Ending /\ torn = 1
    /\ \E c \in Cons(at), k \in 1..2 : buf[at][c][k] # Blank /\ suspend(at, c, k)

Emptied(d) == \A c \in Cons(d), k \in 1..2 : buf[d][c][k] = Blank

\* Mutants: the GBM surface goes before the EGL surface made of it; the display
\* is left to gbm_device_destroy.
MutTearDown == <<"context", "gbm_sur", "egl_sur", "display", "gbm_dev">>
MutHas(d, kind) == kind \in eg[d] /\ kind # "display"

TearDown == <<"context", "egl_sur", "gbm_sur", "display", "gbm_dev">>

Has(d, kind) == kind \in eg[d]

\* eglTerminate takes the display's contexts and surfaces with it. The first step
\* of ~Egl_gbm_dev also makes no context current.
TearNext ==
    /\ Ending /\ torn \in DOMAIN TearDown /\ torn' = torn + 1
    /\ torn = 1 => Emptied(at)
    /\ LET kind == TearDown[torn]
           gone == IF kind = "display" THEN {"display", "context", "egl_sur"} ELSE {kind}
       IN  IF Has(at, kind)
           THEN /\ eg' = [eg EXCEPT ![at] = @ \ {kind}]
                /\ libs' = [libs EXCEPT ![at] = @ \ gone]
           ELSE UNCHANGED <<eg, libs>>
    /\ current' = IF current = at THEN 0 ELSE current
    /\ UNCHANGED <<phase, at, tried, drawVars>>

\* The next device of the vector.
Destroyed ==
    /\ Ending /\ torn > Len(TearDown) /\ at' = at + 1 /\ torn' = 0
    /\ UNCHANGED <<phase, current, eg, libs, tried, drawVars>>

Next ==
    \/ SetUp \/ SetUpFails \/ Check \/ End \/ RestoreCrtcs \/ ClearBuf \/ TearNext \/ Destroyed
    \/ \E d \in Devs :
        \/ load_gdev_gl(d) \/ LoadFails(d) \/ make_current(d)
        \/ \E c \in Cons(d) :
            \/ release_buf(d, c) \/ drm_add_fb(d, c) \/ set_crtc(d, c)
            \/ \E k \in 1..2 : Suspend(d, c, k)

Spec == Init /\ [][Next]_vars

----------------------------------------------------------------------------
\* The type of every variable; a device's surface has given out just the buffer
\* objects that Gbufs hold.
TypeOK ==
    /\ phase \in {"setup", "check", "ready", "ending"} /\ at \in 1..NumDevs + 1
    /\ current \in 0..NumDevs /\ torn \in 0..Len(TearDown) + 1
    /\ tried \in [Devs -> BOOLEAN]
    /\ eg \in [Devs -> SUBSET Kinds] /\ libs \in [Devs -> SUBSET Kinds]
    /\ failed \in BOOLEAN /\ strayed \in [Devs -> BOOLEAN]
    /\ \A d \in Devs :
        /\ buf[d] \in [Cons(d) -> [1..2 -> [bo : 0..NumBos, id : {0} \cup Ids(d)]]]
        /\ locked[d] = {buf[d][c][b].bo : c \in Cons(d), b \in 1..2} \ {0}
        /\ front[d] \in [Cons(d) -> 0..2]
        /\ fb[d] \in [Ids(d) -> 0..NumBos]
        /\ shows[d] \in [Cons(d) -> {0} \cup Ids(d)]

\* Nothing outlives what it is made of, wherever the constructors threw and at
\* every step of the destruction: no call of ~Egl_gbm_dev meets a freed object,
\* and buffer objects are given back before their surface goes.
Layered == \A d \in Devs :
    /\ libs[d] # {} => "gbm_dev" \in libs[d]
    /\ "context" \in libs[d] => "display" \in libs[d]
    /\ "egl_sur" \in libs[d] => {"display", "gbm_sur"} \subseteq libs[d]
    /\ locked[d] # {} => "gbm_sur" \in libs[d]

\* A destroyed device leaves nothing behind in EGL, in GBM or in DRM, and is not
\* current, however little of it was set up.
Freed == \A d \in Devs : phase = "ending" /\ d < at =>
    /\ libs[d] = {} /\ locked[d] = {} /\ current # d
    /\ \A i \in Ids(d) : fb[d][i] = 0

\* Frame buffers do not pile up: each has a Gbuf that will remove it, and there
\* is an id for every buffer; also when calls fail.
FbsOwned == \A d \in Devs : \A i \in Ids(d) : fb[d][i] # 0 =>
    \E c \in Cons(d), b \in 1..2 : buf[d][c][b] = [bo |-> fb[d][i], id |-> i]

\* What a connector shows stays on its screen, and the GPU does not draw into it,
\* until it draws again, its front Gbuf is suspended or its device goes: releases,
\* suspends and ids used again on one connector do not reach what another one
\* shows, as long as no call fails and no Gbuf is suspended with a drm_id that
\* release_buf left and another Gbuf has got.
FramesKept == \A d \in Devs : ~failed /\ ~strayed[d] =>
    \A c \in Cons(d) : front[d][c] # 0 =>
        LET b == buf[d][c][front[d][c]]
        IN  \/ b = Blank
            \/ /\ shows[d][c] = b.id /\ b.bo \in locked[d]
               /\ b.id # 0 /\ fb[d][b.id] = b.bo

----------------------------------------------------------------------------
\* The buffer objects of a connector's Gbufs, and the one on its screen.
HeldBy(d) == [c \in Cons(d) |-> {buf[d][c][b].bo : b \in 1..2} \ {0}]
OnScreen(d) == [c \in Cons(d) |-> IF shows[d][c] = 0 THEN 0 ELSE fb[d][shows[d][c]]]

Broken(d) == failed \/ strayed[d]
Over(d) == phase = "ending" /\ (d < at \/ (d = at /\ torn > 0))

Pool(d) == INSTANCE FramePool WITH
    Connectors <- Cons(d), Dark <- 0, held <- HeldBy(d), shown <- OnScreen(d),
    broken <- Broken(d), over <- Over(d)

PoolStep(d) == UNCHANGED <<HeldBy(d), OnScreen(d), Broken(d), Over(d)>> \/ Pool(d)!Next

\* On every device the application's drawing keeps the promise of FramePool: one
\* connector's buffers do not disturb another's screen until a call fails or an
\* old drm_id is suspended, and never does a screen show what the GPU may draw
\* into (release_buf, set_crtc, Gbuf::suspend).
ImplementsPool == (\A d \in Devs : Pool(d)!Init) /\ [][\A d \in Devs : PoolStep(d)]_vars
============================================================================
