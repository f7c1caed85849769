------------------------------ MODULE GdevMgr ------------------------------
(***************************************************************************)
(* The graphics devices of an application: class Gdev_mgr and its helpers  *)
(* (src/teave/gdev), the registrations it makes with the application's     *)
(* Epoll_mgr (src/teave/epoll), and what its connectors do to the crtcs.   *)
(*                                                                         *)
(* An application constructs a Gdev_mgr, which asks Teave-sv for every     *)
(* card, picks a crtc for every connected screen and registers the card    *)
(* for page flip events; it draws, waits for vertical blanks and destroys  *)
(* the manager, which puts back what the crtcs showed before.  It may do   *)
(* so again with the same Epoll_mgr, and construction may fail anywhere.   *)
(*                                                                         *)
(* The thread of the application runs all of it, one step of the           *)
(* constructor's loop over the cards being one action.  A descriptor       *)
(* number is the lowest one free; an open file is named by the manager     *)
(* that asked for it, and Teave-sv has it open for longer than the         *)
(* application: the kernel polls a file until both have closed it.  The     *)
(* application is taken to keep DRM master while its manager lives.        *)
(***************************************************************************)
EXTENDS Integers, Sequences, FiniteSets, SequencesExt

CONSTANTS
    Cards,      \* paths of graphics devices
    CrtcIds,    \* numbers of crtcs; each device has numbers of its own
    Hardware,   \* what a card may have: [crtcs, cons], see HardwareAssumption
    MaxMgrs,    \* bound: managers an application constructs
    None

\* A connector is connected ("on") or not, is driven by the crtc cur (0: by
\* none), and has encoders, each of which can be driven by a set of crtcs.
ASSUME HardwareAssumption == \A h \in Hardware :
    /\ h.crtcs \in Seq(CrtcIds)
    /\ h.cons \in Seq([on : BOOLEAN, cur : Nat, encs : Seq(SUBSET CrtcIds)])
    /\ \A i \in DOMAIN h.cons : h.cons[i].cur \in ToSet(h.crtcs) \cup {0}
    /\ \A i, j \in DOMAIN h.cons :
        h.cons[i].cur = h.cons[j].cur => i = j \/ h.cons[i].cur = 0
ASSUME NumbersAssumption == CrtcIds \subseteq Nat \ {0} /\ MaxMgrs \in Nat
ASSUME CardsAssumption == IsFiniteSet(Cards) /\ None \notin [mgr : Nat, card : Cards]

VARIABLES
    hw,      \* the hardware of each card
    lit,     \* lit[k][x]: the connector crtc x of card k drives, and what it shows
    phase,   \* "none" (no manager), "loading", "ready" or "crashed"
    mgr,     \* how many managers were constructed
    todo,    \* cards the constructor has not come to
    con_id,  \* load_devs' counter of connectors
    dev,     \* dev[k]: the Gcons of card k's Gdev, <<>> if k is not in devs
    fd,      \* fd[k]: the descriptor of that Gdev, 0 if there is none
    regs,    \* ep_regs: the file each descriptor number was registered for
    poll,    \* files in the kernel's epoll set
    asked,   \* vertical blanks waited for: [file, id]
    failed   \* history: a constructor threw

appVars == <<phase, mgr, todo, con_id, dev, fd, failed>>
pollVars == <<regs, poll, asked>>
vars == <<hw, lit, appVars, pollVars>>

Fds == 1..Cardinality(Cards)
Files == [mgr : 1..MaxMgrs, card : Cards]
File(k) == [mgr |-> mgr, card |-> k]
Loaded == {k \in Cards : dev[k] # <<>>}
Off == [con |-> 0, shows |-> "nothing"]

\* What the console, or whoever was there before, shows.
Before(h) == [x \in CrtcIds |->
    IF \E i \in DOMAIN h.cons : h.cons[i].cur = x
    THEN [con |-> CHOOSE i \in DOMAIN h.cons : h.cons[i].cur = x, shows |-> "before"]
    ELSE Off]

Init ==
    /\ hw \in [Cards -> Hardware]
    /\ lit = [k \in Cards |-> Before(hw[k])]
    /\ phase = "none" /\ mgr = 0 /\ todo = {} /\ con_id = 0 /\ failed = FALSE
    /\ dev = [k \in Cards |-> <<>>] /\ fd = [k \in Cards |-> 0]
    /\ regs = [f \in Fds |-> None] /\ poll = {} /\ asked = {}

----------------------------------------------------------------------------
(* Choosing crtcs: load_dev_cons.                                           *)

\* is_crtc_in_use goes by the number alone, whatever device has it, and not
\* through the device being set up, which is not in devs yet.
InUse == UNION {{gcon.crtc : gcon \in ToSet(dev[k])} : k \in Cards}

\* get_crtc: the one that drives the connector, else the first one free of its
\* first encoder that has any; 0 for failure.
get_crtc(k, i) ==
    LET con == hw[k].cons[i]
        crtcs == hw[k].crtcs
        free == {p \in (DOMAIN con.encs) \X (DOMAIN crtcs) :
                    crtcs[p[2]] \in con.encs[p[1]] \ InUse}
    IN  IF con.cur \notin InUse \cup {0} THEN con.cur
        ELSE IF free = {} THEN 0
        ELSE LET first == CHOOSE p \in free : \A q \in free :
                              p[1] < q[1] \/ (p[1] = q[1] /\ p[2] <= q[2])
             IN  crtcs[first[2]]

\* Mutants: every device counts its connectors from 0; or from one too few; the
\* state of the crtc is not saved.
MutFirstId == 0
MutIdBefore == con_id - 1
MutSaved(k, x) == Off

\* The connectors of k that get a Gcon, and these in the device's order.
Usable(k) == {i \in DOMAIN hw[k].cons : hw[k].cons[i].on /\ get_crtc(k, i) # 0}
Screens(k) ==
    LET cons == Usable(k)
    IN  [j \in 1..Cardinality(cons) |->
            CHOOSE i \in cons : Cardinality({c \in cons : c < i}) = j - 1]

\* setup_dev counts on in load_devs' variable.
FirstId == con_id

Saved(k, x) == lit[k][x]

Gcons(k) == [j \in DOMAIN Screens(k) |->
    LET i == Screens(k)[j]
        x == get_crtc(k, i)
    IN  [con |-> i, crtc |-> x, id |-> FirstId + j - 1, saved |-> Saved(k, x)]]

----------------------------------------------------------------------------
(* What crtcs show.                                                         *)

\* drmModeSetCrtc: the crtc x drives the one connector con, others lose it.
Drive(l, x, con, shows) == [y \in CrtcIds |->
    IF y = x THEN [con |-> con, shows |-> shows]
    ELSE IF l[y].con = con THEN Off ELSE l[y]]

\* restore_saved_crtc; there is nothing to set if the crtc was off.
restore_saved_crtc(l, gcon) ==
    IF gcon.saved = Off THEN l ELSE Drive(l, gcon.crtc, gcon.con, gcon.saved.shows)

\* ~Gdev: what the crtcs show when it has come to each number of connectors.
Restoring(l, gcons) ==
    LET after[n \in 0..Len(gcons)] ==
            IF n = 0 THEN l ELSE restore_saved_crtc(after[n - 1], gcons[n])
    IN  after

\* Then ~Gbuf removes the frame buffers of the application, and a crtc that
\* shows one goes dark.
Left(k, gcons) ==
    LET l == Restoring(lit[k], gcons)[Len(gcons)]
    IN  [x \in CrtcIds |-> IF l[x].shows = "app" THEN Off ELSE l[x]]

----------------------------------------------------------------------------
(* The manager's registrations: Epoll_mgr::register_ and deregister.        *)

LowestFd == CHOOSE f \in Fds : /\ f \notin {fd[k] : k \in Cards}
                               /\ \A g \in 1..f - 1 : g \in {fd[k] : k \in Cards}

\* A descriptor number that is in ep_regs already is not registered again.
Register(f, file) ==
    /\ regs' = IF regs[f] = None THEN [regs EXCEPT ![f] = file] ELSE regs
    /\ poll' = IF regs[f] = None THEN poll \cup {file} ELSE poll

\* Mutant: ~Gdev_mgr leaves the registrations to the devices' destructors.
MutUnregistered(r) == r

MutUnpolled(p) == p

\* deregister of every device in devs: out of the epoll set, out of ep_regs.
Unpolled(p) == p \ {File(k) : k \in Loaded}

Unregistered(r) == [f \in Fds |-> IF f \in {fd[k] : k \in Loaded} THEN None ELSE r[f]]

----------------------------------------------------------------------------
(* The manager's life.                                                      *)

Construct ==
    /\ phase = "none" /\ mgr < MaxMgrs
    /\ phase' = "loading" /\ mgr' = mgr + 1 /\ todo' = Cards /\ con_id' = 0
    /\ UNCHANGED <<hw, lit, dev, fd, failed, pollVars>>

Loading(k) == phase = "loading" /\ k \in todo

\* Teave-sv has no descriptor for us: the device is left out.
RefusedDev(k) ==
    /\ Loading(k) /\ todo' = todo \ {k}
    /\ UNCHANGED <<hw, lit, phase, mgr, con_id, dev, fd, failed, pollVars>>

AddDev(k) ==
    /\ Loading(k) /\ Screens(k) # <<>>
    /\ todo' = todo \ {k}
    /\ dev' = [dev EXCEPT ![k] = Gcons(k)] /\ con_id' = con_id + Len(Screens(k))
    /\ fd' = [fd EXCEPT ![k] = LowestFd] /\ Register(LowestFd, File(k))
    /\ UNCHANGED <<hw, lit, phase, mgr, asked, failed>>

\* setup_dev takes the front of an empty vector: the application crashes.
NoScreens(k) ==
    /\ Loading(k) /\ Screens(k) = <<>>
    /\ phase' = "crashed" /\ todo' = {}
    /\ dev' = [c \in Cards |-> <<>>] /\ fd' = [c \in Cards |-> 0]
    /\ regs' = [f \in Fds |-> None] /\ poll' = {} /\ asked' = {}
    /\ UNCHANGED <<hw, lit, mgr, con_id, failed>>

\* The constructor throws for the card k: the device being set up and those in
\* devs are destroyed, but ~Gdev_mgr, which would deregister them, never runs.
Throw(k, gcons) ==
    /\ failed' = TRUE
    /\ phase' = "none" /\ todo' = {}
    /\ lit' = [c \in Cards |-> Left(c, IF c = k THEN gcons ELSE dev[c])]
    /\ dev' = [c \in Cards |-> <<>>] /\ fd' = [c \in Cards |-> 0]
    /\ UNCHANGED <<hw, mgr, con_id, asked>>

\* The request or drmModeGetResources fails, or epoll_ctl does.
ThrowEarly(k) ==
    /\ Loading(k)
    /\ \/ Throw(k, <<>>)
       \/ Screens(k) # <<>> /\ regs[LowestFd] = None /\ Throw(k, Gcons(k))
    /\ UNCHANGED <<regs, poll>>

\* drmSetClientCap fails, the device being registered.
ThrowLate(k) ==
    /\ Loading(k) /\ Screens(k) # <<>> /\ Throw(k, Gcons(k))
    /\ Register(LowestFd, File(k))

Constructed ==
    /\ phase = "loading" /\ todo = {} /\ phase' = "ready"
    /\ UNCHANGED <<hw, lit, mgr, todo, con_id, dev, fd, failed, pollVars>>

\* Gl_mgr::set_crtc with a frame buffer of the application.
SetCrtc(k, gcon) ==
    /\ phase = "ready"
    /\ lit' = [lit EXCEPT ![k] = Drive(@, gcon.crtc, gcon.con, "app")]
    /\ UNCHANGED <<hw, appVars, pollVars>>

schedule_vblank(k, gcon) ==
    /\ phase = "ready"
    /\ asked' = asked \cup {[file |-> File(k), id |-> gcon.id]}
    /\ UNCHANGED <<hw, lit, appVars, regs, poll>>

\* The blank happened, the file is readable, te_vblank_handler is called.
process_event(a) ==
    /\ a.file \in poll /\ asked' = asked \ {a}
    /\ UNCHANGED <<hw, lit, appVars, regs, poll>>

Destroy ==
    /\ phase = "ready" /\ phase' = "none"
    /\ regs' = Unregistered(regs) /\ poll' = Unpolled(poll)
    /\ lit' = [k \in Cards |-> Left(k, dev[k])]
    /\ dev' = [k \in Cards |-> <<>>] /\ fd' = [k \in Cards |-> 0]
    /\ UNCHANGED <<hw, mgr, todo, con_id, asked, failed>>

\* Teave-sv closes a file the application has closed: nobody polls it.
LastClose(file) ==
    /\ file \in poll /\ ~(file.mgr = mgr /\ file.card \in Loaded)
    /\ poll' = poll \ {file}
    /\ UNCHANGED <<hw, lit, appVars, regs, asked>>

Next ==
    \/ Construct \/ Constructed \/ Destroy
    \/ \E k \in Cards :
        \/ RefusedDev(k) \/ AddDev(k) \/ NoScreens(k) \/ ThrowEarly(k) \/ ThrowLate(k)
        \/ \E gcon \in ToSet(dev[k]) : SetCrtc(k, gcon) \/ schedule_vblank(k, gcon)
    \/ \E a \in asked : process_event(a)
    \/ \E file \in poll : LastClose(file)

Spec == Init /\ [][Next]_vars

----------------------------------------------------------------------------
\* The type of every variable.
TypeOK ==
    /\ hw \in [Cards -> Hardware]
    /\ lit \in [Cards -> [CrtcIds -> [con : Nat, shows : {"nothing", "before", "app"}]]]
    /\ phase \in {"none", "loading", "ready", "crashed"}
    /\ mgr \in 0..MaxMgrs /\ todo \subseteq Cards /\ con_id \in Nat /\ failed \in BOOLEAN
    /\ \A k \in Cards : dev[k] \in Seq([con : Nat, crtc : CrtcIds, id : Nat,
           saved : [con : Nat, shows : {"nothing", "before", "app"}]])
    /\ fd \in [Cards -> 0..Cardinality(Cards)]
    /\ regs \in [Fds -> Files \cup {None}] /\ poll \subseteq Files
    /\ asked \subseteq [file : Files, id : Nat]

\* While no constructor has thrown, ep_regs holds exactly the devices of the
\* manager that lives, each under its own descriptor, and the kernel polls
\* just their files: also for a second manager that gets the same descriptor
\* numbers.
RegsAccounted == ~failed =>
    /\ \A f \in Fds : regs[f] = None <=> f \notin {fd[k] : k \in Loaded}
    /\ \A k \in Loaded : regs[fd[k]] = File(k)
    /\ poll = {File(k) : k \in Loaded}

\* A vertical blank's event carries a pointer to its Gcon (schedule_vblank) and
\* comes to the callback of a manager: when the kernel can still deliver one,
\* that manager and that Gcon are there, also when constructors have thrown.
EventsReachLive == \A a \in asked : a.file \in poll =>
    /\ phase = "ready" /\ a.file.mgr = mgr
    /\ \E gcon \in ToSet(dev[a.file.card]) : gcon.id = a.id

\* gdev_mgr.cpp:56-58: connectors are numbered from 0 on, through all devices,
\* also when a device in between is left out or a connector gets no crtc.
IdsContiguous ==
    LET gcons == {p \in Cards \X (1..con_id) : p[2] \in DOMAIN dev[p[1]]}
    IN  /\ {dev[p[1]][p[2]].id : p \in gcons} = 0..Cardinality(gcons) - 1
        /\ \A k \in Cards : Len(dev[k]) <= con_id

\* Every connected screen is lit, and devices do not share crtc numbers.
Orderly ==
    /\ \A k \in Cards : \A i \in DOMAIN hw[k].cons : hw[k].cons[i].on => hw[k].cons[i].cur # 0
    /\ \A k, c \in Cards : k # c => ToSet(hw[k].crtcs) \cap ToSet(hw[c].crtcs) = {}

\* The manager leaves the screens as it found them, whatever the application
\* drew, and also when its constructor throws half way (~Gdev).
Restored == (phase = "none" /\ Orderly) => lit = [k \in Cards |-> Before(hw[k])]

----------------------------------------------------------------------------
(* What a comment of the repository says and the code does not do.          *)

\* gdev_mgr.cpp:56-58, "if there are 2 gdevs and each have 3 connected screens,
\* then the con_ids are from 0 to 5": every connected screen of a device in devs
\* has its number, when the device has a crtc for each (all are lit already).
ScreensNumbered == \A k \in Loaded :
    (\A i \in DOMAIN hw[k].cons : hw[k].cons[i].on => hw[k].cons[i].cur # 0)
        => {dev[k][j].con : j \in DOMAIN dev[k]}
               = {i \in DOMAIN hw[k].cons : hw[k].cons[i].on}
============================================================================
