-------------------------------- MODULE Tty --------------------------------
(***************************************************************************)
(* The virtual terminal of an application: class Tty (src/teave/tty).      *)
(*                                                                         *)
(* Its constructor asks Teave-sv for /dev/tty0, saves the modes of that    *)
(* terminal, switches to it and turns text, keyboard and free switching    *)
(* off; its destructor puts the saved modes back.  In dev mode a second    *)
(* application may do so while the first still has its Tty.  Every ioctl   *)
(* is a step; users and programs switch terminals at any point, and an     *)
(* application may crash at any point.                                     *)
(***************************************************************************)
CONSTANTS Apps, Vts, None

ASSUME NoneAssumption == None \notin Apps \cup Vts

VARIABLES
    vt,      \* the kernel's modes of each terminal
    fg,      \* the terminal shown
    want,    \* the terminal a switch is pending to, None if none is
    mutes,   \* whether this kernel knows KDSKBMUTE
    pc,      \* pc[a]: what the Tty of a has done last
    file,    \* file[a]: the terminal fd is open on
    vt_num,  \* vt_num[a]: the "virtual terminal we run in"
    org,     \* org[a]: the modes saved
    under,   \* history: under[a]: the Ttys that were open on a's terminal when a
             \* began to save, and still are
    over,    \* history: over[a]: the applications that have had a newer Tty on a's
             \* terminal since, and have closed it
    spoilt   \* history: what happened to Ttys of this terminal: "no", "crash"
             \* (one crashed) or "entangled" (they overlapped, but not nested)

kernelVars == <<fg, want, mutes>>
vars == <<vt, kernelVars, pc, file, vt_num, org, under, over, spoilt>>

\* A terminal as the console has it, and the modes a Tty has saved at first.
Text == [mode |-> "auto", owner |-> None, kb |-> "xlate", muted |-> FALSE, kd |-> "text"]
NoOrg == [kb |-> "xlate", kd |-> "text", mode |-> "auto"]

Init ==
    /\ vt = [v \in Vts |-> Text] /\ fg \in Vts /\ want = None /\ mutes \in BOOLEAN
    /\ pc = [a \in Apps |-> "none"]
    /\ file = [a \in Apps |-> None] /\ vt_num = [a \in Apps |-> None]
    /\ org = [a \in Apps |-> NoOrg]
    /\ under = [a \in Apps |-> {}] /\ over = [a \in Apps |-> {}]
    /\ spoilt = [v \in Vts |-> "no"]

\* The Ttys of a terminal that have begun to save and are not closed.
Open == {a \in Apps : pc[a] \in {"savedKb", "savedKd", "saved", "asked", "shown",
                                "vtSet", "kbSet", "up", "vtBack", "kbBack"}}
On(v) == {a \in Open : file[a] = v}
\* a began to save after every other Tty of its terminal.
Newest(a) == \A b \in On(file[a]) : a \notin under[b]

\* Mutant: its descriptor stays open.
MutForget(a) ==
    /\ UNCHANGED file /\ vt_num' = [vt_num EXCEPT ![a] = None]
    /\ org' = [org EXCEPT ![a] = NoOrg]
    /\ under' = [b \in Apps |-> IF b = a THEN {} ELSE under[b] \ {a}]

\* The object is gone, and what it kept.
Forget(a) ==
    /\ file' = [file EXCEPT ![a] = None] /\ vt_num' = [vt_num EXCEPT ![a] = None]
    /\ org' = [org EXCEPT ![a] = NoOrg]
    /\ under' = [b \in Apps |-> IF b = a THEN {} ELSE under[b] \ {a}]

Step(a, from, to) == pc[a] = from /\ pc' = [pc EXCEPT ![a] = to]

----------------------------------------------------------------------------
(* Setting modes: vt_fncs.cpp.                                              *)

\* VT_SETMODE makes the caller the process that is asked to release, if any is.
set_vt_mode(a, mode) ==
    vt' = [vt EXCEPT ![file[a]].mode = mode,
                     ![file[a]].owner = IF mode = "process" THEN a ELSE None]

\* Mutants: what the destructor sets was not unmuted, was not saved.
MutKb(a, mute, mode) ==
    vt' = IF mutes THEN [vt EXCEPT ![file[a]].muted = TRUE]
          ELSE [vt EXCEPT ![file[a]].kb = mode]
MutOrgKd(a) == "text"

\* The keyboard's mode is set only by a kernel that cannot mute it.
set_kd_kb_mode(a, mute, mode) ==
    vt' = IF mutes THEN [vt EXCEPT ![file[a]].muted = mute]
          ELSE [vt EXCEPT ![file[a]].kb = mode]

set_kd_mode(a, kd) == vt' = [vt EXCEPT ![file[a]].kd = kd]

----------------------------------------------------------------------------
(* Tty::Tty                                                                 *)

\* Teave-sv opens /dev/tty0, which is the terminal shown.
ReqVtFd(a) ==
    /\ Step(a, "none", "opened")
    /\ file' = [file EXCEPT ![a] = fg]
    /\ UNCHANGED <<vt, kernelVars, vt_num, org, under, over, spoilt>>

get_cur_act_vt(a) ==
    /\ Step(a, "opened", "located")
    /\ vt_num' = [vt_num EXCEPT ![a] = fg]
    /\ UNCHANGED <<vt, kernelVars, file, org, under, over, spoilt>>

\* load_org_vt_settings, call by call. Another Tty of the terminal that is half
\* way through setting modes entangles the two.
get_kd_kb_mode(a) ==
    /\ Step(a, "located", "savedKb")
    /\ org' = [org EXCEPT ![a].kb = vt[file[a]].kb]
    /\ under' = [under EXCEPT ![a] = On(file[a])]
    /\ spoilt' = IF \A b \in On(file[a]) : pc[b] = "up" THEN spoilt
                 ELSE [spoilt EXCEPT ![file[a]] = "entangled"]
    /\ UNCHANGED <<vt, kernelVars, file, vt_num, over>>

get_kd_mode(a) ==
    /\ Step(a, "savedKb", "savedKd")
    /\ org' = [org EXCEPT ![a].kd = vt[file[a]].kd]
    /\ UNCHANGED <<vt, kernelVars, file, vt_num, under, over, spoilt>>

get_vt_mode(a) ==
    /\ Step(a, "savedKd", "saved")
    /\ org' = [org EXCEPT ![a].mode = vt[file[a]].mode]
    /\ UNCHANGED <<vt, kernelVars, file, vt_num, under, over, spoilt>>

\* VT_ACTIVATE; nothing is pending when the terminal is shown already.
make_active(a) ==
    /\ Step(a, "saved", "asked")
    /\ want' = IF vt_num[a] = fg THEN want ELSE vt_num[a]
    /\ UNCHANGED <<vt, fg, mutes, file, vt_num, org, under, over, spoilt>>

\* VT_WAITACTIVE returns.
WaitActive(a) ==
    /\ Step(a, "asked", "shown") /\ fg = vt_num[a]
    /\ UNCHANGED <<vt, kernelVars, file, vt_num, org, under, over, spoilt>>

SetVt(a) ==
    /\ Step(a, "shown", "vtSet") /\ set_vt_mode(a, "process")
    /\ UNCHANGED <<kernelVars, file, vt_num, org, under, over, spoilt>>

SetKb(a) ==
    /\ Step(a, "vtSet", "kbSet") /\ set_kd_kb_mode(a, TRUE, "off")
    /\ UNCHANGED <<kernelVars, file, vt_num, org, under, over, spoilt>>

SetKd(a) ==
    /\ Step(a, "kbSet", "up") /\ set_kd_mode(a, "graphics")
    /\ UNCHANGED <<kernelVars, file, vt_num, org, under, over, spoilt>>

\* Mutant: the constructor also throws when the keyboard cannot be set.
MutThrows(a) ==
    /\ pc[a] \in {"none", "opened", "located", "savedKb", "savedKd", "saved", "asked", "vtSet"}
    /\ pc' = [pc EXCEPT ![a] = "none"] /\ Forget(a) /\ over' = [over EXCEPT ![a] = {}]
    /\ UNCHANGED <<vt, kernelVars, spoilt>>

\* A call fails and the constructor throws; no mode has been set.
Throws(a) ==
    /\ pc[a] \in {"none", "opened", "located", "savedKb", "savedKd", "saved", "asked"}
    /\ pc' = [pc EXCEPT ![a] = "none"] /\ Forget(a) /\ over' = [over EXCEPT ![a] = {}]
    /\ UNCHANGED <<vt, kernelVars, spoilt>>

----------------------------------------------------------------------------
(* Tty::~Tty                                                                *)

OrgMode(a) == org[a].mode
OrgKd(a) == org[a].kd

\* A Tty that ends before a newer one of its terminal entangles the two.
BackVt(a) ==
    /\ Step(a, "up", "vtBack") /\ set_vt_mode(a, OrgMode(a))
    /\ spoilt' = IF Newest(a) THEN spoilt
                 ELSE [spoilt EXCEPT ![file[a]] = "entangled"]
    /\ UNCHANGED <<kernelVars, file, vt_num, org, under, over>>

BackKb(a) ==
    /\ Step(a, "vtBack", "kbBack") /\ set_kd_kb_mode(a, FALSE, org[a].kb)
    /\ UNCHANGED <<kernelVars, file, vt_num, org, under, over, spoilt>>

BackKd(a) ==
    /\ Step(a, "kbBack", "none") /\ set_kd_mode(a, OrgKd(a)) /\ Forget(a)
    /\ over' = [b \in Apps |-> IF b = a THEN {} ELSE
                               IF b \in under[a] THEN over[b] \cup {a} ELSE over[b]]
    /\ UNCHANGED <<kernelVars, spoilt>>

----------------------------------------------------------------------------
(* The surroundings.                                                        *)

\* The process ends, by a crash if it has a Tty: nothing is put back.
Crash(a) ==
    /\ pc[a] # "dead" /\ pc' = [pc EXCEPT ![a] = "dead"]
    /\ Forget(a) /\ over' = [over EXCEPT ![a] = {}]
    /\ spoilt' = [v \in Vts |-> IF a \in On(v) /\ spoilt[v] = "no" THEN "crash" ELSE spoilt[v]]
    /\ UNCHANGED <<vt, kernelVars>>

\* A user or a program asks for another terminal.
Ask(v) ==
    /\ v # fg /\ want' = v
    /\ UNCHANGED <<vt, fg, mutes, pc, file, vt_num, org, under, over, spoilt>>

OwnerGone == vt[fg].mode = "process" /\ pc[vt[fg].owner] = "dead"

\* The kernel switches, or the process it asked releases the terminal.
Switch ==
    /\ want # None /\ ~OwnerGone /\ fg' = want /\ want' = None
    /\ UNCHANGED <<vt, mutes, pc, file, vt_num, org, under, over, spoilt>>

\* The process to be asked is gone: the kernel resets the terminal (reset_vc), also
\* under a Tty that is up. Once it has, and none is, the terminal is the console's.
Reset ==
    /\ want # None /\ OwnerGone /\ fg' = want /\ want' = None
    /\ vt' = [vt EXCEPT ![fg] = [Text EXCEPT !.muted = vt[fg].muted]]
    /\ spoilt' = [spoilt EXCEPT ![fg] = IF On(fg) = {} /\ ~vt[fg].muted THEN "no" ELSE @]
    /\ UNCHANGED <<mutes, pc, file, vt_num, org, under, over>>

Construct(a) ==
    \/ ReqVtFd(a) \/ get_cur_act_vt(a)
    \/ get_kd_kb_mode(a) \/ get_kd_mode(a) \/ get_vt_mode(a)
    \/ make_active(a) \/ WaitActive(a) \/ SetVt(a) \/ SetKb(a) \/ SetKd(a)
    \/ Throws(a)

Destruct(a) == BackVt(a) \/ BackKb(a) \/ BackKd(a)

Next ==
    \/ \E a \in Apps : Construct(a) \/ Destruct(a) \/ Crash(a)
    \/ \E v \in Vts : Ask(v)
    \/ Switch \/ Reset

Spec == Init /\ [][Next]_vars

----------------------------------------------------------------------------
\* The type of every variable.
TypeOK ==
    /\ vt \in [Vts -> [mode : {"auto", "process"}, owner : Apps \cup {None},
                       kb : {"xlate", "off"}, muted : BOOLEAN, kd : {"text", "graphics"}]]
    /\ \A v \in Vts : vt[v].mode = "process" => vt[v].owner \in Apps
    /\ fg \in Vts /\ want \in Vts \cup {None} /\ mutes \in BOOLEAN
    /\ pc \in [Apps -> {"none", "opened", "located", "savedKb", "savedKd", "saved",
                        "asked", "shown", "vtSet", "kbSet", "up", "vtBack", "kbBack", "dead"}]
    /\ file \in [Apps -> Vts \cup {None}] /\ vt_num \in [Apps -> Vts \cup {None}]
    /\ org \in [Apps -> [kb : {"xlate", "off"}, kd : {"text", "graphics"},
                         mode : {"auto", "process"}]]
    /\ \A a \in Apps : file[a] = None <=> pc[a] \in {"none", "dead"}
    /\ under \in [Apps -> SUBSET Open]
    /\ \A a \in Apps : under[a] \subseteq On(file[a]) \ {a}
    /\ over \in [Apps -> SUBSET Apps]
    /\ \A a \in Apps : a \notin Open => over[a] = {}
    /\ spoilt \in [Vts -> {"no", "crash", "entangled"}]

\* tty.h:32-34: a terminal whose text, keyboard or switching is off has a Tty
\* that will put it back; whatever the order of switches and failures, also
\* with Ttys of two applications on one terminal if the newer one ends first,
\* and also after a crash, once the kernel has reset the terminal.
Unlocked == \A v \in Vts :
    spoilt[v] = "no" /\ On(v) = {} =>
        vt[v].mode = "auto" /\ vt[v].kb = "xlate" /\ ~vt[v].muted /\ vt[v].kd = "text"

\* Whether the console hears the keys of a terminal.
Keys(v) == IF vt[v].muted \/ vt[v].kb = "off" THEN "off" ELSE "console"

\* Every application that has closed a Tty over this one still runs.
Whole(a) == \A b \in over[a] : pc[b] # "dead"

\* While the newest Tty of a terminal is up, the console does not draw over it and
\* nobody switches away without asking it. Once a newer Tty has come and gone, its
\* process may be the one that is asked, which holds until that exits, and the keys
\* are the console's again if the kernel can mute them (tty.cpp:46-47).
Drawn == \A a \in Open :
    pc[a] = "up" /\ Newest(a) /\ spoilt[file[a]] = "no" =>
        LET t == vt[file[a]] IN
        /\ Whole(a) => /\ t.kd = "graphics" /\ t.mode = "process"
                       /\ t.owner \in over[a] \cup {a}
        /\ over[a] = {} => t.owner = a
        /\ over[a] = {} \/ (Whole(a) /\ ~mutes) => Keys(file[a]) = "off"

----------------------------------------------------------------------------
\* Whose the screen of a terminal is.
Look(v) ==
    IF vt[v].mode = "process" /\ vt[v].kd = "graphics" THEN "drawn"
    ELSE IF vt[v].mode = "auto" /\ vt[v].kd = "text" THEN "console" ELSE "moving"

Beneath(v) == [a \in On(v) |-> under[a]]
Left(v) == [a \in On(v) |-> over[a]]
Asked(v) == vt[v].owner
Spoilt(v) == spoilt[v] # "no"
Gone == {a \in Apps : pc[a] = "dead"}

Stack(v) == INSTANCE TtyStack WITH
    Users <- Apps, Nobody <- None, beneath <- Beneath(v), look <- Look(v), asked <- Asked(v),
    keys <- Keys(v), left <- Left(v), gone <- Gone, spoilt <- Spoilt(v)

StackStep(v) ==
    [Stack(v)!Next]_<<Beneath(v), Look(v), Asked(v), Keys(v), Left(v), Gone, Spoilt(v)>>

\* The Ttys of every terminal keep the promise of TtyStack: a newer one, also one
\* whose constructor throws wherever it does, gives the terminal back as that says,
\* and no other Tty changes it meanwhile (Tty::Tty, Tty::~Tty).
ImplementsStack == (\A v \in Vts : Stack(v)!Init) /\ [][\A v \in Vts : StackStep(v)]_vars
============================================================================
