------------------------------ MODULE TtyProofs ------------------------------
(***************************************************************************)
(* Proofs about Tty, for any number of applications and terminals: its     *)
(* types, that a terminal gets back the modes it had, and that Ttys stack. *)
(*                                                                         *)
(* What a terminal is set to follows from its newest Tty alone, as long as *)
(* nothing has spoilt it: every Tty under the newest is up, so that what   *)
(* the newest has saved are the modes of a Tty that is up, or those of the *)
(* console if there is none under it.  A Tty that is up has its modes for  *)
(* as long as nobody exits who has closed a Tty over it, since he may be   *)
(* the one who is asked before a switch: what is known of a terminal is    *)
(* known on that condition, which only ever comes to fail.                 *)
(***************************************************************************)
EXTENDS Tty, TLAPS

OpenPcs == {"savedKb", "savedKd", "saved", "asked", "shown",
            "vtSet", "kbSet", "up", "vtBack", "kbBack"}

----------------------------------------------------------------------------
(* Types.                                                                   *)

Modes == [mode : {"auto", "process"}, owner : Apps \cup {None},
          kb : {"xlate", "off"}, muted : BOOLEAN, kd : {"text", "graphics"}]
Saves == [kb : {"xlate", "off"}, kd : {"text", "graphics"}, mode : {"auto", "process"}]
Pcs == OpenPcs \cup {"none", "opened", "located", "dead"}

\* The parts of TypeOK: terminals, the objects' variables, who is under whom, and
\* who has been over whom.
VtTypes ==
    /\ vt \in [Vts -> Modes]
    /\ \A v \in Vts : vt[v].mode = "process" => vt[v].owner \in Apps
    /\ fg \in Vts /\ want \in Vts \cup {None} /\ mutes \in BOOLEAN
    /\ spoilt \in [Vts -> {"no", "crash", "entangled"}]
TtyTypes ==
    /\ pc \in [Apps -> Pcs]
    /\ file \in [Apps -> Vts \cup {None}] /\ vt_num \in [Apps -> Vts \cup {None}]
    /\ org \in [Apps -> Saves]
    /\ \A a \in Apps : file[a] = None <=> pc[a] \in {"none", "dead"}
UnderTypes ==
    /\ under \in [Apps -> SUBSET Open]
    /\ \A a \in Apps : under[a] \subseteq On(file[a]) \ {a}
OverTypes ==
    /\ over \in [Apps -> SUBSET Apps]
    /\ \A a \in Apps : a \notin Open => over[a] = {}

LEMMA TypesParts == TypeOK <=> VtTypes /\ TtyTypes /\ UnderTypes /\ OverTypes
  BY DEF TypeOK, VtTypes, TtyTypes, UnderTypes, OverTypes, Modes, Saves, Pcs, OpenPcs

LEMMA TypesParts_ == TypeOK' <=> VtTypes' /\ TtyTypes' /\ UnderTypes' /\ OverTypes'
  BY TypesParts, PTL

LEMMA InitTypes == Init => TypeOK
  BY NoneAssumption DEF Init, TypeOK, Text, NoOrg, Open, On

\* A terminal is set by a Tty that has it open.
LEMMA SetTypes ==
    ASSUME VtTypes, TtyTypes, NEW a \in Apps, file[a] \in Vts,
           UNCHANGED kernelVars, spoilt' \in [Vts -> {"no", "crash", "entangled"}],
           \/ \E m \in {"auto", "process"} : set_vt_mode(a, m)
           \/ \E b \in BOOLEAN, m \in {"xlate", "off"} : set_kd_kb_mode(a, b, m)
           \/ \E m \in {"text", "graphics"} : set_kd_mode(a, m)
    PROVE  VtTypes'
  <1>1. CASE \E m \in {"auto", "process"} : set_vt_mode(a, m)
    <2> PICK m \in {"auto", "process"} : set_vt_mode(a, m)
      BY <1>1
    <2> DEFINE t == [vt[file[a]] EXCEPT !.mode = m, !.owner = IF m = "process" THEN a ELSE None]
    <2>1. vt' = [vt EXCEPT ![file[a]] = t]
      BY DEF set_vt_mode, VtTypes
    <2>2. vt[file[a]] \in Modes
      BY DEF VtTypes
    <2>3. CASE m = "process"
      <3>1. t = [vt[file[a]] EXCEPT !.mode = "process", !.owner = a]
        BY <2>3
      <3>2. t \in Modes /\ t.owner = a
        BY <3>1, <2>2 DEF Modes
      <3> HIDE DEF t
      <3> QED
        BY <2>1, <3>2 DEF VtTypes, kernelVars
    <2>4. CASE m = "auto"
      <3>1. t = [vt[file[a]] EXCEPT !.mode = "auto", !.owner = None]
        BY <2>4
      <3>2. t \in Modes /\ t.mode = "auto"
        BY <3>1, <2>2 DEF Modes
      <3> HIDE DEF t
      <3> QED
        BY <2>1, <3>2 DEF VtTypes, kernelVars
    <2> QED
      BY <2>3, <2>4
  <1>2. CASE \E b \in BOOLEAN, m \in {"xlate", "off"} : set_kd_kb_mode(a, b, m)
    <2> PICK b \in BOOLEAN, m \in {"xlate", "off"} : set_kd_kb_mode(a, b, m)
      BY <1>2
    <2> DEFINE t == IF mutes THEN [vt[file[a]] EXCEPT !.muted = b]
                    ELSE [vt[file[a]] EXCEPT !.kb = m]
    <2>1. vt' = [vt EXCEPT ![file[a]] = t]
      BY DEF set_kd_kb_mode, VtTypes
    <2>2. t \in Modes /\ (t.mode = "process" => t.owner \in Apps)
      BY DEF VtTypes, Modes
    <2> HIDE DEF t
    <2> QED
      BY <2>1, <2>2 DEF VtTypes, kernelVars
  <1>3. CASE \E m \in {"text", "graphics"} : set_kd_mode(a, m)
    <2> PICK m \in {"text", "graphics"} : set_kd_mode(a, m)
      BY <1>3
    <2> DEFINE t == [vt[file[a]] EXCEPT !.kd = m]
    <2>1. vt' = [vt EXCEPT ![file[a]] = t]
      BY DEF set_kd_mode, VtTypes
    <2>2. t \in Modes /\ (t.mode = "process" => t.owner \in Apps)
      BY DEF VtTypes, Modes
    <2> HIDE DEF t
    <2> QED
      BY <2>1, <2>2 DEF VtTypes, kernelVars
  <1> QED
    BY <1>1, <1>2, <1>3

\* What Forget does to who is under whom.
LEMMA ForgetTypes ==
    ASSUME TtyTypes, UnderTypes, NEW a \in Apps, NEW p \in {"none", "dead"},
           pc' = [pc EXCEPT ![a] = p], Forget(a)
    PROVE  /\ TtyTypes' /\ UnderTypes'
           /\ Open' = Open \ {a} /\ \A v \in Vts : On(v)' = On(v) \ {a}
  <1>1. TtyTypes'
    BY NoneAssumption DEF TtyTypes, Forget, NoOrg, Saves, Pcs
  <1>2. Open' = Open \ {a}
    BY DEF TtyTypes, Open, Pcs
  <1>3. \A v \in Vts : On(v)' = On(v) \ {a}
    BY NoneAssumption, <1>2 DEF TtyTypes, On, Forget, Open
  <1>4. ASSUME NEW b \in Apps, b # a
        PROVE  under'[b] \subseteq On(file[b])' \ {b}
    <2>1. under'[b] = under[b] \ {a} /\ file'[b] = file[b]
      BY <1>4 DEF Forget, TtyTypes
    <2>2. \A c \in under[b] : c \in Open /\ file[c] = file[b] /\ c # b
      BY DEF UnderTypes, On
    <2>3. \A c \in Apps \ {a} : file'[c] = file[c]
      BY DEF Forget, TtyTypes
    <2> QED
      BY <1>2, <2>1, <2>2, <2>3 DEF On, Open
  <1>5. under'[a] = {} /\ under' \in [Apps -> SUBSET Open']
    BY <1>2 DEF Forget, UnderTypes
  <1> QED
    BY <1>1, <1>2, <1>3, <1>4, <1>5 DEF UnderTypes

\* What a step within the constructor or the destructor does.
LEMMA MoveTypes ==
    ASSUME TtyTypes, UnderTypes, NEW a \in Apps, NEW p \in OpenPcs, a \in Open,
           pc' = [pc EXCEPT ![a] = p], UNCHANGED <<file, under>>
    PROVE  /\ UnderTypes' /\ pc' \in [Apps -> Pcs]
           /\ Open' = Open /\ \A v \in Vts : On(v)' = On(v)
           /\ \A b \in Apps : file'[b] = None <=> pc'[b] \in {"none", "dead"}
           /\ file[a] \in Vts
  <1>1. Open' = Open
    BY DEF TtyTypes, Open, OpenPcs
  <1>2. \A v : On(v)' = On(v)
    BY <1>1 DEF On
  <1>3. pc[a] \in OpenPcs
    BY DEF Open, OpenPcs
  <1> QED
    BY <1>1, <1>2, <1>3 DEF TtyTypes, UnderTypes, Pcs, OpenPcs

\* A Tty that is constructed or destructed keeps the types.
LEMMA StepTypes ==
    ASSUME TypeOK, NEW a \in Apps, Construct(a) \/ Destruct(a) \/ Crash(a)
    PROVE  TypeOK'
  <1> SUFFICES VtTypes' /\ TtyTypes' /\ UnderTypes' /\ OverTypes'
    BY TypesParts_
  <1> USE TypesParts DEF Step
  <1>a. a \in Open <=> pc[a] \in OpenPcs
    BY DEF Open, OpenPcs
  <1>1. CASE ReqVtFd(a) \/ get_cur_act_vt(a)
    <2>1. Open' = Open /\ a \notin Open
      BY <1>1, <1>a DEF ReqVtFd, get_cur_act_vt, Open, TtyTypes, OpenPcs
    <2>2. \A b \in Open : file'[b] = file[b]
      BY <1>1, <2>1 DEF ReqVtFd, get_cur_act_vt, Open, TtyTypes
    <2>3. \A v : On(v)' = On(v)
      BY <2>1, <2>2 DEF On
    <2>4. TtyTypes'
      BY <1>1, NoneAssumption DEF ReqVtFd, get_cur_act_vt, TtyTypes, VtTypes, Pcs, OpenPcs
    <2>5. under' = under /\ \A b \in Apps : under[b] # {} => file'[b] = file[b]
      <3>1. ReqVtFd(a) => On(file[a]) = {}
        BY NoneAssumption DEF ReqVtFd, TtyTypes, On, Open
      <3>2. under[a] \subseteq On(file[a])
        BY DEF UnderTypes
      <3> QED
        BY <1>1, <3>1, <3>2 DEF ReqVtFd, get_cur_act_vt, TtyTypes
    <2>6. UnderTypes'
      BY <2>1, <2>3, <2>5 DEF UnderTypes
    <2>7. OverTypes'
      BY <1>1, <2>1 DEF ReqVtFd, get_cur_act_vt, OverTypes
    <2> QED
      BY <1>1, <2>4, <2>6, <2>7 DEF ReqVtFd, get_cur_act_vt, VtTypes, kernelVars
  <1>2. CASE get_kd_kb_mode(a)
    <2>1. Open' = Open \cup {a} /\ a \notin Open
      BY <1>2, <1>a DEF get_kd_kb_mode, Open, TtyTypes, OpenPcs
    <2>2. file[a] \in Vts
      BY <1>2 DEF get_kd_kb_mode, TtyTypes
    <2>3. \A v : On(v) \subseteq On(v)'
      BY <2>1, <1>2 DEF On, get_kd_kb_mode
    <2>4. under' = [under EXCEPT ![a] = On(file[a])] /\ On(file[a]) \subseteq Open \ {a}
      BY <1>2, <2>1 DEF get_kd_kb_mode, On
    <2>5. UnderTypes'
      BY <1>2, <2>1, <2>3, <2>4 DEF UnderTypes, get_kd_kb_mode
    <2>6. VtTypes'
      BY <1>2, <2>2 DEF VtTypes, get_kd_kb_mode, kernelVars
    <2>7. TtyTypes'
      <3>1. vt[file[a]].kb \in {"xlate", "off"}
        BY <2>2 DEF VtTypes, Modes
      <3>2. [org[a] EXCEPT !.kb = vt[file[a]].kb] \in Saves
        BY <3>1 DEF TtyTypes, Saves
      <3> QED
        BY <1>2, <3>2 DEF TtyTypes, get_kd_kb_mode, Pcs, OpenPcs
    <2>8. OverTypes'
      BY <1>2, <2>1 DEF get_kd_kb_mode, OverTypes
    <2> QED
      BY <2>5, <2>6, <2>7, <2>8
  <1>3. CASE get_kd_mode(a) \/ get_vt_mode(a)
    <2>1. PICK p \in OpenPcs : pc' = [pc EXCEPT ![a] = p] /\ a \in Open
      BY <1>3, <1>a DEF get_kd_mode, get_vt_mode, OpenPcs
    <2>2. UNCHANGED <<file, under>>
      BY <1>3 DEF get_kd_mode, get_vt_mode
    <2>3. file[a] \in Vts
      BY <2>1, <2>2, MoveTypes
    <2>4. [org[a] EXCEPT !.kd = vt[file[a]].kd] \in Saves /\ [org[a] EXCEPT !.mode = vt[file[a]].mode] \in Saves
      BY <2>3 DEF TtyTypes, VtTypes, Saves, Modes
    <2>5. org' \in [Apps -> Saves] /\ vt_num' = vt_num
      BY <1>3, <2>4 DEF get_kd_mode, get_vt_mode, TtyTypes
    <2>6. VtTypes'
      BY <1>3 DEF get_kd_mode, get_vt_mode, VtTypes, kernelVars
    <2>7. over' = over
      BY <1>3 DEF get_kd_mode, get_vt_mode
    <2> QED
      BY <2>1, <2>2, <2>5, <2>6, <2>7, MoveTypes DEF TtyTypes, OverTypes
  <1>4. CASE make_active(a) \/ WaitActive(a)
    <2>1. PICK p \in OpenPcs : pc' = [pc EXCEPT ![a] = p] /\ a \in Open
      BY <1>4, <1>a DEF make_active, WaitActive, OpenPcs
    <2>2. UNCHANGED <<file, under, over, org, vt_num>>
      BY <1>4 DEF make_active, WaitActive
    <2>3. VtTypes'
      BY <1>4 DEF make_active, WaitActive, VtTypes, TtyTypes, kernelVars
    <2> QED
      BY <2>1, <2>2, <2>3, MoveTypes DEF TtyTypes, OverTypes
  <1>5. CASE SetVt(a) \/ SetKb(a) \/ SetKd(a) \/ BackVt(a) \/ BackKb(a)
    <2>1. PICK p \in OpenPcs : pc' = [pc EXCEPT ![a] = p] /\ a \in Open
      BY <1>5, <1>a DEF SetVt, SetKb, SetKd, BackVt, BackKb, OpenPcs
    <2>2. UNCHANGED <<file, under, over, org, vt_num, kernelVars>>
      BY <1>5 DEF SetVt, SetKb, SetKd, BackVt, BackKb
    <2>3. file[a] \in Vts
      BY <2>1, <2>2, MoveTypes
    <2>4. spoilt' \in [Vts -> {"no", "crash", "entangled"}]
      BY <1>5, <2>3 DEF SetVt, SetKb, SetKd, BackVt, BackKb, VtTypes
    <2>5. org[a].mode \in {"auto", "process"} /\ org[a].kb \in {"xlate", "off"}
      BY DEF TtyTypes, Saves
    <2>6. VtTypes'
      BY <1>5, <2>2, <2>3, <2>4, <2>5, SetTypes
         DEF SetVt, SetKb, SetKd, BackVt, BackKb, OrgMode
    <2> QED
      BY <2>1, <2>2, <2>6, MoveTypes DEF TtyTypes, OverTypes
  <1>6. CASE Throws(a) \/ Crash(a)
    <2>1. VtTypes'
      BY <1>6 DEF Throws, Crash, VtTypes, kernelVars
    <2>2. PICK p \in {"none", "dead"} : pc' = [pc EXCEPT ![a] = p]
      BY <1>6 DEF Throws, Crash
    <2>3. TtyTypes' /\ UnderTypes' /\ Open' = Open \ {a}
      BY <1>6, <2>2, ForgetTypes DEF Throws, Crash
    <2>4. OverTypes'
      BY <1>6, <2>3 DEF Throws, Crash, OverTypes
    <2> QED
      BY <2>1, <2>3, <2>4
  <1>7. CASE BackKd(a)
    <2>1. file[a] \in Vts /\ org[a].kd \in {"text", "graphics"}
      BY <1>7 DEF BackKd, TtyTypes, Saves
    <2>2. VtTypes'
      BY <1>7, <2>1, SetTypes DEF BackKd, OrgKd, VtTypes, kernelVars
    <2>3. TtyTypes' /\ UnderTypes' /\ Open' = Open \ {a}
      BY <1>7, ForgetTypes DEF BackKd
    <2>4. OverTypes'
      BY <1>7, <2>3 DEF BackKd, OverTypes, UnderTypes
    <2> QED
      BY <2>2, <2>3, <2>4
  <1> QED
    BY <1>1, <1>2, <1>3, <1>4, <1>5, <1>6, <1>7 DEF Construct, Destruct

\* So does every other step.
LEMMA KernelTypes ==
    ASSUME TypeOK, (\E v \in Vts : Ask(v)) \/ Switch \/ Reset \/ UNCHANGED vars
    PROVE  TypeOK'
  <1> SUFFICES VtTypes' /\ TtyTypes' /\ UnderTypes' /\ OverTypes'
    BY TypesParts_
  <1> USE TypesParts
  <1>1. UNCHANGED <<pc, file, vt_num, org, under, over>>
    BY DEF Ask, Switch, Reset, vars
  <1>2. TtyTypes' /\ UnderTypes' /\ OverTypes'
    BY <1>1 DEF TtyTypes, UnderTypes, OverTypes, On, Open
  <1>3. CASE Reset
    <2>1. [Text EXCEPT !.muted = vt[fg].muted] \in Modes /\ Text.mode = "auto"
      BY DEF Text, Modes, VtTypes
    <2>2. [Text EXCEPT !.muted = vt[fg].muted].mode = "auto"
      BY DEF Text
    <2> QED
      BY <1>2, <1>3, <2>1, <2>2 DEF Reset, VtTypes
  <1> QED
    BY <1>2, <1>3 DEF VtTypes, Ask, Switch, vars, kernelVars

LEMMA NextTypes == TypeOK /\ [Next]_vars => TypeOK'
  BY StepTypes, KernelTypes DEF Next

\* Every variable keeps its type: what a Tty has saved and set is a mode, its
\* descriptor is open just as long as the object is there, and the Ttys under
\* it are open on its terminal.
THEOREM TypeCorrect == Spec => []TypeOK
  BY InitTypes, NextTypes, PTL DEF Spec
----------------------------------------------------------------------------
(* A terminal gets its modes back.                                          *)

\* The Tty that a newer one is just above; what the newer one finds is known when
\* no application that has closed a Tty over that one has exited.
Below(a) == {b \in under[a] : \A c \in under[a] : b \notin under[c]}
Sure(a) == under[a] = {} \/ \E b \in Below(a) : Whole(b)

\* What a Tty finds set, with others under it or without.
BaseMode(a) == IF under[a] = {} THEN "auto" ELSE "process"
BaseKd(a) == IF under[a] = {} THEN "text" ELSE "graphics"
UpKb == IF mutes THEN "xlate" ELSE "off"
BaseKb(a) == IF under[a] = {} THEN "xlate" ELSE UpKb

\* A terminal as the console has it, and as a Tty that is up has it or gets it back.
Console(t) == t.mode = "auto" /\ t.owner = None /\ t.kb = "xlate" /\ ~t.muted /\ t.kd = "text"
Kept(b, t) ==
    /\ Whole(b) => /\ t.mode = "process" /\ t.owner \in over[b] \cup {b}
                   /\ t.kd = "graphics" /\ t.kb = UpKb
    /\ over[b] = {} => t.owner = b /\ t.muted = mutes

\* What a Tty has saved by now.
SavedInv(a) == Sure(a) =>
    /\ org[a].kb = BaseKb(a)
    /\ pc[a] # "savedKb" => org[a].kd = BaseKd(a)
    /\ pc[a] \notin {"savedKb", "savedKd"} => org[a].mode = BaseMode(a)

\* Before a Tty has set a mode, and once it has set the last.
Unset == {"savedKb", "savedKd", "saved", "asked", "shown"}
Finished == {"up", "vtBack", "kbBack"}

\* What the terminal of a is set to if a is the newest.
SetInv(a, t) ==
    /\ pc[a] \in Unset => /\ under[a] = {} => Console(t)
                          /\ \A b \in Below(a) : Kept(b, t)
    /\ pc[a] \in {"vtSet", "kbSet"} => /\ t.mode = "process" /\ t.owner = a
                                       /\ Sure(a) => t.kd = BaseKd(a)
    /\ pc[a] = "kbSet" => t.kb = UpKb /\ t.muted = mutes
    /\ pc[a] = "up" => Kept(a, t)
    /\ pc[a] \in {"vtBack", "kbBack"} => /\ t.owner \in {a, None}
                                         /\ Sure(a) => t.mode = BaseMode(a)
                                         /\ Whole(a) => t.kd = "graphics"
    /\ pc[a] = "kbBack" => ~t.muted /\ (Sure(a) => t.kb = BaseKb(a))

\* Ttys of a terminal are ordered by when they began to save.
Ordered == \A a, b \in Open : file[a] = file[b] /\ a # b => (a \in under[b] <=> b \notin under[a])

\* While a terminal is not spoilt, the one Tty that is doing something is the
\* newest, the others are up, and no Tty has been over one that is not up yet.
Coupled(v) ==
    /\ (vt[v].muted => mutes) /\ (mutes => vt[v].kb = "xlate")
    /\ vt[v].mode = "auto" => vt[v].owner = None
Tidy(v) ==
    /\ \A a \in On(v) : pc[a] # "up" => Newest(a)
    /\ \A a \in On(v) : Newest(a) => SetInv(a, vt[v])
    /\ \A a \in On(v) : SavedInv(a)
    /\ \A a \in On(v) : over[a] # {} => pc[a] \in Finished
    /\ On(v) = {} => Console(vt[v])
TermInv(v) == Coupled(v) /\ (spoilt[v] = "no" => Tidy(v))

Inv == TypeOK /\ Ordered /\ \A v \in Vts : TermInv(v)

\* No two Ttys of a terminal are the newest.
LEMMA OneNewest ==
    ASSUME Ordered, NEW v, NEW a \in On(v), NEW b \in On(v), Newest(a), Newest(b)
    PROVE  a = b
  BY DEF Ordered, Newest, On

\* The others of the newest are up, and not above it.
LEMMA NewestSet ==
    ASSUME Ordered, NEW v, Tidy(v), NEW a \in On(v), Newest(a)
    PROVE  \A b \in On(v) \ {a} : pc[b] = "up" /\ a \notin under[b] /\ ~Newest(b)
  <1>1. \A b \in On(v) \ {a} : ~Newest(b)
    BY OneNewest
  <1>2. \A b \in On(v) \ {a} : a \notin under[b]
    BY DEF Newest, On
  <1> QED
    BY <1>1, <1>2 DEF Tidy

\* What a Tty that has set nothing finds.
LEMMA Found ==
    ASSUME NEW a, NEW t, pc[a] \in Unset, SetInv(a, t), Sure(a)
    PROVE  t.mode = BaseMode(a) /\ t.kd = BaseKd(a) /\ t.kb = BaseKb(a)
  <1>1. CASE under[a] = {}
    BY <1>1 DEF SetInv, Console, BaseMode, BaseKd, BaseKb
  <1>2. CASE under[a] # {}
    <2>1. PICK b \in Below(a) : Whole(b)
      BY <1>2 DEF Sure
    <2>2. Kept(b, t)
      BY <2>1 DEF SetInv
    <2> QED
      BY <1>2, <2>1, <2>2 DEF Kept, BaseMode, BaseKd, BaseKb
  <1> QED
    BY <1>1, <1>2

\* Who has exited stays so.
Exited == \A b \in Apps : pc[b] = "dead" => pc'[b] = "dead"

LEMMA WholeBefore ==
    ASSUME OverTypes, Exited, NEW a \in Apps, over[a] \subseteq over'[a]
    PROVE  Whole(a)' => Whole(a)
  BY DEF OverTypes, Exited, Whole

LEMMA KeptAfter ==
    ASSUME OverTypes, Exited, NEW b \in Apps, NEW t, Kept(b, t),
           over'[b] = over[b], mutes' = mutes
    PROVE  Kept(b, t)'
  BY WholeBefore DEF Kept, UpKb

\* What a Tty knows of its terminal it knows also when others have exited.
LEMMA Weaker ==
    ASSUME UnderTypes, OverTypes, Exited, mutes' = mutes, NEW a \in Apps, NEW t,
           pc'[a] = pc[a], org'[a] = org[a], over'[a] = over[a],
           under'[a] = under[a],
           \A b \in under[a] : under'[b] = under[b] /\ over'[b] = over[b]
    PROVE  /\ Sure(a)' => Sure(a)
           /\ SavedInv(a) => SavedInv(a)'
           /\ SetInv(a, t) => SetInv(a, t)'
  <1>1. Below(a)' = Below(a) /\ Below(a) \subseteq Apps
    BY DEF Below, UnderTypes, Open
  <1>2. \A b \in Below(a) : over'[b] = over[b]
    BY DEF Below
  <1>3. \A b \in Below(a) : (Whole(b)' => Whole(b)) /\ (Kept(b, t) => Kept(b, t)')
    BY <1>1, <1>2, WholeBefore, KeptAfter
  <1>4. Sure(a)' => Sure(a)
    BY <1>1, <1>3 DEF Sure
  <1>5. (Whole(a)' => Whole(a)) /\ (Kept(a, t) => Kept(a, t)')
    BY WholeBefore, KeptAfter
  <1>6. SavedInv(a) => SavedInv(a)'
    BY <1>4 DEF SavedInv, BaseMode, BaseKd, BaseKb, UpKb
  <1>7. SetInv(a, t) => SetInv(a, t)'
    <2> SUFFICES ASSUME SetInv(a, t) PROVE SetInv(a, t)'
      OBVIOUS
    <2>1. pc[a] \in Unset => /\ under[a] = {} => Console(t)
                             /\ \A b \in Below(a)' : Kept(b, t)'
      BY <1>1, <1>3 DEF SetInv
    <2>2. pc[a] = "up" => Kept(a, t)'
      BY <1>5 DEF SetInv
    <2>3. pc[a] \in {"vtSet", "kbSet"} => /\ t.mode = "process" /\ t.owner = a
                                          /\ Sure(a)' => t.kd = BaseKd(a)
      BY <1>4 DEF SetInv
    <2>4. pc[a] \in {"vtBack", "kbBack"} => /\ t.owner \in {a, None}
                                            /\ Sure(a)' => t.mode = BaseMode(a)
                                            /\ Whole(a)' => t.kd = "graphics"
      BY <1>4, <1>5 DEF SetInv
    <2>5. pc[a] = "kbBack" => ~t.muted /\ (Sure(a)' => t.kb = BaseKb(a))
      BY <1>4 DEF SetInv
    <2>6. pc[a] = "kbSet" => t.kb = UpKb /\ t.muted = mutes
      BY DEF SetInv
    <2>7. BaseKd(a)' = BaseKd(a) /\ BaseMode(a)' = BaseMode(a) /\ BaseKb(a)' = BaseKb(a) /\ UpKb' = UpKb
      BY DEF BaseKd, BaseMode, BaseKb, UpKb
    <2>8. Console(t)' <=> Console(t)
      BY DEF Console
    <2> QED
      BY <2>1, <2>2, <2>3, <2>4, <2>5, <2>6, <2>7, <2>8 DEF SetInv
  <1> QED
    BY <1>4, <1>6, <1>7

\* A terminal that a step leaves alone.
LEMMA Untouched ==
    ASSUME UnderTypes, OverTypes, Exited,
           NEW v, TermInv(v), vt'[v] = vt[v], mutes' = mutes,
           spoilt'[v] = "no" => spoilt[v] = "no", On(v)' = On(v),
           \A a \in On(v) : /\ pc'[a] = pc[a] /\ org'[a] = org[a] /\ over'[a] = over[a]
                            /\ under'[a] = under[a] /\ file'[a] = file[a]
    PROVE  TermInv(v)'
  <1>1. ASSUME NEW a \in On(v)
        PROVE  /\ Newest(a)' <=> Newest(a)
               /\ SavedInv(a) => SavedInv(a)'
               /\ SetInv(a, vt[v]) => SetInv(a, vt[v])'
    <2>1. Newest(a)' <=> Newest(a)
      BY DEF Newest, On
    <2>2. a \in Apps /\ \A b \in under[a] : b \in On(v)
      BY DEF UnderTypes, On, Open
    <2>3. \A b \in under[a] : under'[b] = under[b] /\ over'[b] = over[b]
      BY <2>2
    <2> DEFINE t == vt[v]
    <2>4. (SavedInv(a) => SavedInv(a)') /\ \A u : SetInv(a, u) => SetInv(a, u)'
      BY <2>2, <2>3, Weaker
    <2> QED
      BY <2>1, <2>4
  <1>2. Coupled(v)' <=> Coupled(v)
    BY DEF Coupled
  <1>3. Console(vt[v])' <=> Console(vt[v])
    BY DEF Console
  <1>4. ASSUME Tidy(v) PROVE Tidy(v)'
    <2>1. \A a \in On(v)' : pc'[a] # "up" => Newest(a)'
      BY <1>1, <1>4 DEF Tidy
    <2>2. \A a \in On(v)' : Newest(a)' => SetInv(a, vt[v])'
      BY <1>1, <1>4 DEF Tidy
    <2>3. \A a \in On(v)' : SavedInv(a)' /\ (over'[a] # {} => pc'[a] \in Finished)
      BY <1>1, <1>4 DEF Tidy
    <2> QED
      BY <1>3, <1>4, <2>1, <2>2, <2>3 DEF Tidy
  <1> QED
    BY <1>2, <1>4 DEF TermInv

\* A Tty goes on with its constructor or destructor.
LEMMA Moved ==
    ASSUME Inv, NEW a \in Apps, NEW p \in OpenPcs, a \in Open,
           pc' = [pc EXCEPT ![a] = p], UNCHANGED <<file, under, over, mutes>>,
           \A v \in Vts : v # file[a] => vt'[v] = vt[v] /\ spoilt'[v] = spoilt[v],
           \A b \in Apps : b # a => org'[b] = org[b],
           Coupled(file[a])',
           spoilt'[file[a]] = "no" =>
               /\ spoilt[file[a]] = "no" /\ Newest(a)
               /\ SavedInv(a)' /\ SetInv(a, vt[file[a]])'
               /\ over[a] = {} \/ p \in Finished
    PROVE  Ordered' /\ \A v \in Vts : TermInv(v)'
  <1>1. TtyTypes /\ UnderTypes /\ OverTypes
    BY TypesParts DEF Inv
  <1>2. Open' = Open /\ (\A v \in Vts : On(v)' = On(v)) /\ file[a] \in Vts
    BY <1>1, MoveTypes
  <1>3. Ordered'
    BY <1>2 DEF Inv, Ordered
  <1>4. \A b \in Apps \ {a} : pc'[b] = pc[b]
    BY <1>1 DEF TtyTypes
  <1>5. Exited
    BY <1>4 DEF Exited, Open
  <1>6. ASSUME NEW v \in Vts, v # file[a] PROVE TermInv(v)'
    <2>1. a \notin On(v) /\ On(v) \subseteq Apps
      BY <1>6 DEF On, Open
    <2> QED
      BY <1>1, <1>2, <1>4, <1>5, <1>6, <2>1, Untouched DEF Inv
  <1>7. ASSUME NEW v \in Vts, v = file[a], spoilt'[v] = "no" PROVE Tidy(v)'
    <2>1. Tidy(v) /\ a \in On(v) /\ Ordered
      BY <1>2, <1>7 DEF Inv, TermInv, On
    <2>2. \A b \in On(v) \ {a} : pc[b] = "up" /\ ~Newest(b) /\ b \in Apps
      BY <1>7, <2>1, NewestSet DEF On, Open
    <2>3. \A b \in On(v) : Newest(b)' <=> Newest(b)
      BY <1>2, <1>7 DEF Newest, On
    <2>4. \A b \in On(v) \ {a} : SavedInv(b)'
      BY <1>1, <1>4, <1>5, <2>1, <2>2, Weaker DEF Tidy
    <2>5. \A b \in On(v) \ {a} : pc'[b] = "up"
      BY <1>4, <2>2
    <2>6. \A b \in On(v)' : Newest(b)' => b = a
      BY <1>2, <2>2, <2>3
    <2>7. \A b \in On(v)' : over'[b] # {} => pc'[b] \in Finished
      BY <1>1, <1>2, <1>7, <2>5 DEF Finished, TtyTypes
    <2> QED
      BY <1>2, <1>7, <2>1, <2>3, <2>4, <2>5, <2>6, <2>7 DEF Tidy
  <1>8. TermInv(file[a])'
    BY <1>2, <1>7 DEF TermInv
  <1> QED
    BY <1>3, <1>6, <1>8

\* A Tty is gone, and has given its terminal back.
LEMMA Ended ==
    ASSUME Inv, NEW a \in Apps, NEW p \in {"none", "dead"}, pc[a] # "dead",
           pc' = [pc EXCEPT ![a] = p], Forget(a), mutes' = mutes,
           \A b \in Apps \ {a} : 
               over'[b] = over[b] \/ (a \in Open /\ b \in under[a] /\ over[b] \subseteq over'[b]),
           \A v \in Vts : v # file[a] \/ a \notin Open => vt'[v] = vt[v],
           \A v \in Vts : spoilt'[v] = "no" => spoilt[v] = "no",
           \A v \in Vts : v = file[a] /\ a \in Open =>
               /\ Coupled(v)'
               /\ spoilt'[v] = "no" =>
                   /\ Newest(a)
                   /\ under[a] = {} => Console(vt[v])'
                   /\ \A b \in Below(a) : Kept(b, vt[v])'
    PROVE  Ordered' /\ \A v \in Vts : TermInv(v)'
  <1>1. TtyTypes /\ UnderTypes /\ OverTypes
    BY TypesParts DEF Inv
  <1>2. Open' = Open \ {a} /\ \A v \in Vts : On(v)' = On(v) \ {a}
    BY <1>1, ForgetTypes
  <1>3. \A b \in Apps \ {a} : /\ pc'[b] = pc[b] /\ file'[b] = file[b] /\ org'[b] = org[b]
                               /\ under'[b] = under[b] \ {a}
    BY <1>1 DEF TtyTypes, Forget
  <1>4. Ordered'
    BY <1>2, <1>3 DEF Inv, Ordered, Open
  <1>5. Exited
    BY <1>3 DEF Exited
  <1>6. ASSUME NEW v \in Vts, v # file[a] \/ a \notin Open PROVE TermInv(v)'
    <2>1. a \notin On(v) /\ On(v) \subseteq Apps
      BY <1>6 DEF On, Open
    <2>2. \A b \in On(v) : under[b] \subseteq On(v)
      BY <1>1 DEF UnderTypes, On, Open
    <2>3. \A b \in On(v) : b \in Apps \ {a} /\ under'[b] = under[b]
      <3> TAKE b \in On(v)
      <3>1. b \in Apps \ {a} /\ a \notin under[b]
        BY <2>1, <2>2
      <3>2. under'[b] = under[b] \ {a}
        BY <1>3, <3>1
      <3> QED
        BY <3>1, <3>2
    <2>4. \A b \in On(v) : over'[b] = over[b]
      <3> TAKE b \in On(v)
      <3>1. a \in Open => b \notin under[a]
        BY <1>1, <1>6 DEF UnderTypes, On, Open
      <3> QED
        BY <2>3, <3>1
    <2>5. On(v)' = On(v)
      BY <1>2, <2>1
    <2>6. TermInv(v) /\ vt'[v] = vt[v]
      BY <1>6 DEF Inv
    <2> QED
      BY <1>1, <1>3, <1>5, <2>3, <2>4, <2>5, <2>6, Untouched
  <1>7. ASSUME NEW v \in Vts, v = file[a], a \in Open, spoilt'[v] = "no" PROVE Tidy(v)'
    <2>1. Tidy(v) /\ a \in On(v) /\ Ordered /\ Newest(a)
      BY <1>7 DEF Inv, TermInv, On
    <2>2. \A b \in On(v) \ {a} : pc[b] = "up" /\ a \notin under[b]
      BY <2>1, NewestSet
    <2>3. \A b \in On(v) \ {a} : b \in Apps \ {a} /\ pc'[b] = "up" /\ under'[b] = under[b]
      <3> TAKE b \in On(v) \ {a}
      <3>1. b \in Apps \ {a} /\ a \notin under[b]
        BY <2>2 DEF On, Open
      <3>2. pc[b] = "up" /\ under[b] \ {a} = under[b]
        BY <2>2, <3>1
      <3> QED
        BY <1>3, <3>1, <3>2
    <2>4. \A b \in On(v) \ {a} : under[b] \subseteq On(v) \ {a}
      BY <1>1, <2>2 DEF UnderTypes, On, Open
    <2>5. \A b \in On(v) \ {a} : (Whole(b)' => Whole(b)) /\ (Sure(b)' => Sure(b))
      <3>1. \A b \in On(v) \ {a} : Whole(b)' => Whole(b)
        <4> TAKE b \in On(v) \ {a}
        <4>1. b \in Apps /\ over[b] \subseteq over'[b]
          BY <2>3
        <4> QED
          BY <1>1, <1>5, <4>1, WholeBefore
      <3>2. \A b \in On(v) \ {a} : Below(b)' = Below(b) /\ Below(b) \subseteq On(v) \ {a}
        BY <2>3, <2>4 DEF Below
      <3> QED
        BY <2>3, <3>1, <3>2 DEF Sure
    <2>6. \A b \in On(v) \ {a} : SavedInv(b)'
      <3> TAKE b \in On(v) \ {a}
      <3>1. SavedInv(b) /\ org'[b] = org[b] /\ pc'[b] = pc[b] /\ under'[b] = under[b]
        BY <1>3, <2>1, <2>3 DEF Tidy
      <3>2. Sure(b)' => Sure(b)
        BY <2>5
      <3> QED
        BY <3>1, <3>2 DEF SavedInv, BaseMode, BaseKd, BaseKb, UpKb
    <2>7. \A b \in On(v)' : Newest(b)' => SetInv(b, vt[v])'
      <3> SUFFICES ASSUME NEW b \in On(v) \ {a}, Newest(b)' PROVE SetInv(b, vt[v])'
        BY <1>2
      <3>1. b \in under[a]
        BY <2>1, <2>2, <2>3 DEF Ordered, On
      <3>2. under[a] \subseteq On(v) \ {a}
        BY <1>1, <1>7 DEF UnderTypes
      <3>3. file'[b] = v /\ \A c \in On(v) \ {a} : b \notin under'[c]
        BY <1>2, <1>3, <1>7, <2>3 DEF Newest, On
      <3>4. b \in Below(a)
        BY <2>3, <3>1, <3>2, <3>3 DEF Below
      <3>5. Kept(b, vt[v])' /\ pc'[b] = "up"
        BY <1>7, <2>3, <3>4
      <3> QED
        BY <3>5 DEF SetInv, Unset
    <2>8. On(v)' = {} => Console(vt[v])'
      <3>1. On(v)' = {} => under[a] = {}
        BY <1>1, <1>2, <1>7 DEF UnderTypes
      <3> QED
        BY <1>7, <3>1
    <2> QED
      BY <1>2, <1>7, <2>3, <2>6, <2>7, <2>8 DEF Tidy, Finished
  <1>8. ASSUME NEW v \in Vts, v = file[a], a \in Open PROVE TermInv(v)'
    BY <1>7, <1>8 DEF TermInv
  <1> QED
    BY <1>4, <1>6, <1>8

\* A Tty begins to save.
LEMMA Begun ==
    ASSUME Inv, NEW a \in Apps, get_kd_kb_mode(a)
    PROVE  Ordered' /\ \A v \in Vts : TermInv(v)'
  <1>1. TtyTypes /\ UnderTypes /\ OverTypes
    BY TypesParts DEF Inv
  <1>2. /\ a \notin Open /\ file[a] \in Vts /\ Open' = Open \cup {a}
        /\ UNCHANGED <<vt, mutes, file, over>> /\ pc'[a] = "savedKb"
    BY <1>1 DEF get_kd_kb_mode, Step, kernelVars, TtyTypes, Open, Pcs, OpenPcs
  <1>3. /\ \A b \in Apps \ {a} : pc'[b] = pc[b] /\ org'[b] = org[b] /\ under'[b] = under[b]
        /\ under'[a] = On(file[a]) /\ org'[a].kb = vt[file[a]].kb
    BY <1>1 DEF get_kd_kb_mode, Step, TtyTypes, UnderTypes, Saves
  <1>4. \A v \in Vts : On(v)' = IF v = file[a] THEN On(v) \cup {a} ELSE On(v)
    BY <1>2 DEF On
  <1>5. \A b \in Open : a \notin under[b]
    BY <1>1, <1>2 DEF UnderTypes, On, Open
  <1>6. Ordered'
    <2> SUFFICES ASSUME NEW b \in Open', NEW c \in Open', file[b] = file[c], b # c
                 PROVE  b \in under'[c] <=> c \notin under'[b]
      BY <1>2 DEF Ordered
    <2>1. CASE b = a
      <3>1. c \in On(file[a]) /\ under'[c] = under[c] /\ a \notin under[c]
        BY <1>2, <1>3, <1>5, <2>1 DEF On, Open
      <3> QED
        BY <1>3, <2>1, <3>1
    <2>2. CASE c = a
      <3>1. b \in On(file[a]) /\ under'[b] = under[b] /\ a \notin under[b]
        BY <1>2, <1>3, <1>5, <2>2 DEF On, Open
      <3> QED
        BY <1>3, <2>2, <3>1
    <2>3. CASE b # a /\ c # a
      BY <1>2, <1>3, <2>3 DEF Inv, Ordered, Open
    <2> QED
      BY <2>1, <2>2, <2>3
  <1>7. Exited
    BY <1>3, get_kd_kb_mode(a) DEF Exited, get_kd_kb_mode, Step
  <1>8. ASSUME NEW v \in Vts, v # file[a] PROVE TermInv(v)'
    <2>1. On(v)' = On(v) /\ \A b \in On(v) : b \in Apps \ {a}
      BY <1>2, <1>4, <1>8 DEF On, Open
    <2>2. spoilt'[v] = spoilt[v]
      BY <1>8 DEF get_kd_kb_mode
    <2> QED
      BY <1>1, <1>2, <1>3, <1>7, <1>8, <2>1, <2>2, Untouched DEF Inv
  <1>9. ASSUME NEW v \in Vts, v = file[a] PROVE TermInv(v)'
    <2>1. Coupled(v)'
      BY <1>2 DEF Inv, TermInv, Coupled
    <2> SUFFICES ASSUME spoilt'[v] = "no" PROVE Tidy(v)'
      BY <2>1 DEF TermInv
    <2>2. spoilt[v] = "no" /\ \A b \in On(v) : pc[b] = "up"
      BY <1>9 DEF get_kd_kb_mode, Inv, TypeOK
    <2>3. Tidy(v)
      BY <2>2 DEF Inv, TermInv
    <2>4. \A b \in On(v) : b \in Apps \ {a} /\ b \in Open /\ under[b] \subseteq Apps \ {a}
      BY <1>1, <1>2, <1>5 DEF On, Open, UnderTypes
    <2>5. \A b \in On(v) : SavedInv(b)'
      <3> TAKE b \in On(v)
      <3>1. b \in Apps \ {a} /\ SavedInv(b) /\ \A c \in under[b] : c \in Apps \ {a}
        BY <2>3, <2>4 DEF Tidy
      <3>2. \A c \in under[b] : under'[c] = under[c] /\ over'[c] = over[c]
        BY <1>2, <1>3, <3>1
      <3> QED
        BY <1>1, <1>2, <1>3, <1>7, <3>1, <3>2, Weaker
    <2>6. \A b \in Below(a)' : b \in On(v) /\ Kept(b, vt[v])'
      <3> TAKE b \in Below(a)'
      <3>1. b \in On(v) /\ \A c \in On(v) : b \notin under[c]
        BY <1>3, <1>9, <2>4 DEF Below
      <3>2. Newest(b) /\ pc[b] = "up"
        BY <2>2, <3>1 DEF Newest, On
      <3>3. Kept(b, vt[v])
        BY <2>3, <3>1, <3>2 DEF Tidy, SetInv
      <3> QED
        BY <1>1, <1>2, <1>7, <2>4, <3>1, <3>3, KeptAfter
    <2>7. under'[a] = {} => Console(vt[v])'
      BY <1>2, <1>3, <1>9, <2>3 DEF Tidy, Console
    <2>8. SetInv(a, vt[v])'
      BY <1>2, <2>6, <2>7 DEF SetInv, Unset
    <2>9. SavedInv(a)'
      <3>1. Sure(a)' => vt'[v].kb = BaseKb(a)'
        <4>1. pc'[a] \in Unset
          BY <1>2 DEF Unset
        <4>2. CASE under'[a] = {}
          BY <2>7, <4>2 DEF Console, BaseKb
        <4>3. CASE under'[a] # {}
          BY <2>6, <4>3 DEF Sure, Kept, BaseKb, UpKb
        <4> QED
          BY <4>2, <4>3
      <3> QED
        BY <1>2, <1>3, <1>9, <3>1 DEF SavedInv
    <2>10. Newest(a)' /\ \A b \in On(v) : ~Newest(b)'
      <3>1. a \in On(v)' /\ \A b \in On(v) : b \in under'[a]
        BY <1>3, <1>4, <1>9
      <3>2. \A b \in On(v)' : a \notin under'[b]
        BY <1>2, <1>3, <1>4, <1>5, <1>9, <2>4
      <3> QED
        BY <1>2, <1>9, <3>1, <3>2 DEF Newest, On
    <2>11. \A b \in On(v) : pc'[b] = "up"
      BY <1>3, <2>2, <2>4
    <2>12. over'[a] = {}
      BY <1>1, <1>2 DEF OverTypes
    <2>13. On(v)' = On(v) \cup {a}
      BY <1>4, <1>9
    <2> QED
      BY <2>5, <2>8, <2>9, <2>10, <2>11, <2>12, <2>13 DEF Tidy, Finished
  <1> QED
    BY <1>6, <1>8, <1>9

\* What the setting of modes does to the terminal it is for, and to the others.
LEMMA KbVals ==
    ASSUME VtTypes, NEW a \in Apps, file[a] \in Vts, NEW b \in BOOLEAN, NEW m,
           set_kd_kb_mode(a, b, m)
    PROVE  /\ \A v \in Vts : v # file[a] => vt'[v] = vt[v]
           /\ vt'[file[a]].mode = vt[file[a]].mode /\ vt'[file[a]].kd = vt[file[a]].kd
           /\ vt'[file[a]].owner = vt[file[a]].owner
           /\ vt'[file[a]].kb = IF mutes THEN vt[file[a]].kb ELSE m
           /\ vt'[file[a]].muted = IF mutes THEN b ELSE vt[file[a]].muted
  <1> DEFINE t == vt[file[a]]
             u == vt'[file[a]]
  <1>1. t \in Modes
    BY DEF VtTypes
  <1>2. CASE mutes
    <2>1. u = [t EXCEPT !.muted = b]
      BY <1>2 DEF VtTypes, set_kd_kb_mode
    <2> QED
      BY <1>1, <1>2, <2>1 DEF VtTypes, Modes, set_kd_kb_mode
  <1>3. CASE ~mutes
    <2>1. u = [t EXCEPT !.kb = m]
      BY <1>3 DEF VtTypes, set_kd_kb_mode
    <2> QED
      BY <1>1, <1>3, <2>1 DEF VtTypes, Modes, set_kd_kb_mode
  <1> QED
    BY <1>2, <1>3

LEMMA SetVals ==
    ASSUME VtTypes, NEW a \in Apps, file[a] \in Vts, NEW m,
           NEW t, t = vt[file[a]], NEW u, u = vt'[file[a]]
    PROVE  /\ set_vt_mode(a, m) => /\ u.mode = m /\ u.kb = t.kb /\ u.kd = t.kd
                                   /\ u.muted = t.muted
                                   /\ u.owner = IF m = "process" THEN a ELSE None
           /\ set_kd_mode(a, m) => /\ u.kd = m /\ u.kb = t.kb /\ u.mode = t.mode
                                   /\ u.muted = t.muted /\ u.owner = t.owner
           /\ set_vt_mode(a, m) \/ set_kd_mode(a, m)
                  => \A v \in Vts : v # file[a] => vt'[v] = vt[v]
  <1>1. t \in Modes
    BY DEF VtTypes
  <1>2. ASSUME set_vt_mode(a, m)
        PROVE  /\ u.mode = m /\ u.kb = t.kb /\ u.kd = t.kd /\ u.muted = t.muted
               /\ u.owner = IF m = "process" THEN a ELSE None
    <2> DEFINE o == IF m = "process" THEN a ELSE None
    <2>1. u = [t EXCEPT !.mode = m, !.owner = o]
      BY <1>2 DEF VtTypes, set_vt_mode
    <2> HIDE DEF o
    <2>2. u.mode = m /\ u.kb = t.kb /\ u.kd = t.kd /\ u.muted = t.muted /\ u.owner = o
      BY <1>1, <2>1 DEF Modes
    <2> QED
      BY <2>2 DEF o
  <1>3. ASSUME set_kd_mode(a, m)
        PROVE  /\ u.kd = m /\ u.kb = t.kb /\ u.mode = t.mode
               /\ u.muted = t.muted /\ u.owner = t.owner
    <2>1. u = [t EXCEPT !.kd = m]
      BY <1>3 DEF VtTypes, set_kd_mode
    <2> QED
      BY <1>1, <2>1 DEF Modes
  <1>4. set_vt_mode(a, m) \/ set_kd_mode(a, m)
            => \A v \in Vts : v # file[a] => vt'[v] = vt[v]
    BY DEF VtTypes, set_vt_mode, set_kd_mode
  <1> QED
    BY <1>2, <1>3, <1>4

\* What is known of a Tty that does its next step.
LEMMA Acting ==
    ASSUME Inv, NEW a \in Open
    PROVE  /\ VtTypes /\ file[a] \in Vts /\ Coupled(file[a]) /\ a \in Apps
           /\ spoilt[file[a]] = "no" => /\ SavedInv(a)
                                        /\ over[a] # {} => pc[a] \in Finished
           /\ spoilt[file[a]] = "no" /\ (pc[a] # "up" \/ Newest(a)) =>
                  Newest(a) /\ SetInv(a, vt[file[a]])
  <1>1. VtTypes /\ TtyTypes /\ a \in Apps
    BY TypesParts DEF Inv, Open
  <1>2. file[a] \in Vts
    BY <1>1 DEF TtyTypes, Open
  <1>3. TermInv(file[a]) /\ a \in On(file[a])
    BY <1>2 DEF Inv, On
  <1> QED
    BY <1>1, <1>2, <1>3 DEF TermInv, Tidy

\* A Tty whose step leaves the terminals alone.
LEMMA SavesKept ==
    ASSUME Inv, NEW a \in Apps,
           get_kd_mode(a) \/ get_vt_mode(a) \/ make_active(a) \/ WaitActive(a)
    PROVE  Ordered' /\ \A v \in Vts : TermInv(v)'
  <1>1. a \in Open /\ pc[a] # "up"
    BY DEF get_kd_mode, get_vt_mode, make_active, WaitActive, Step, Open
  <1>2. /\ TtyTypes /\ UnderTypes /\ OverTypes
        /\ UNCHANGED <<vt, mutes, file, under, over, spoilt>>
    BY TypesParts DEF Inv, get_kd_mode, get_vt_mode, make_active, WaitActive, kernelVars
  <1>3. PICK p \in {"savedKd", "saved", "asked", "shown"} : pc' = [pc EXCEPT ![a] = p]
    BY DEF get_kd_mode, get_vt_mode, make_active, WaitActive, Step
  <1>4. pc'[a] = p /\ p \in OpenPcs /\ p \in Unset /\ pc[a] \in Unset
    BY <1>2, <1>3 DEF TtyTypes, OpenPcs, Unset, get_kd_mode, get_vt_mode, make_active, WaitActive, Step
  <1>5. \A b \in Apps : b # a => org'[b] = org[b] /\ pc'[b] = pc[b]
    BY <1>2, <1>3 DEF TtyTypes, get_kd_mode, get_vt_mode, make_active, WaitActive
  <1>6. Coupled(file[a])'
    BY <1>1, <1>2, Acting DEF Coupled
  <1>7. ASSUME spoilt[file[a]] = "no"
        PROVE  Newest(a) /\ SavedInv(a)' /\ SetInv(a, vt[file[a]])' /\ over[a] = {}
    <2>1. Newest(a) /\ SavedInv(a) /\ SetInv(a, vt[file[a]])
      BY <1>1, <1>7, Acting
    <2>2. over[a] = {}
      BY <1>1, <1>4, <1>7, Acting DEF Unset, Finished
    <2>3. Exited
      BY <1>4, <1>5 DEF Exited, Unset
    <2>4. Below(a)' = Below(a) /\ \A b \in Below(a) : b \in Apps
      BY <1>2 DEF Below, UnderTypes, Open
    <2>5. \A b \in Below(a) : Kept(b, vt[file[a]]) => Kept(b, vt[file[a]])'
      <3> TAKE b \in Below(a)
      <3> DEFINE t == vt[file[a]]
      <3>1. b \in Apps /\ \A u : Kept(b, u) => Kept(b, u)'
        BY <1>2, <2>3, <2>4, KeptAfter
      <3> QED
        BY <1>2, <3>1
    <2>6. SetInv(a, vt[file[a]])'
      <3>1. /\ under[a] = {} => Console(vt[file[a]])
            /\ \A b \in Below(a) : Kept(b, vt[file[a]])
        BY <1>4, <2>1 DEF SetInv
      <3>2. /\ under'[a] = {} => Console(vt[file[a]])'
            /\ \A b \in Below(a)' : Kept(b, vt[file[a]])'
        BY <1>2, <2>4, <2>5, <3>1 DEF Console
      <3> QED
        BY <1>4, <3>2 DEF SetInv, Unset
    <2>7. Sure(a)' => Sure(a)
      <3>1. \A b \in Below(a) : Whole(b)' => Whole(b)
        BY <1>2, <2>3, <2>4, WholeBefore
      <3> QED
        BY <1>2, <2>4, <3>1 DEF Sure
    <2>8. Sure(a) => vt[file[a]].kd = BaseKd(a) /\ vt[file[a]].mode = BaseMode(a)
      BY <1>4, <2>1, Found
    <2>9. BaseKd(a)' = BaseKd(a) /\ BaseMode(a)' = BaseMode(a) /\ BaseKb(a)' = BaseKb(a)
      BY <1>2 DEF BaseMode, BaseKd, BaseKb, UpKb
    <2>10. SavedInv(a)'
      <3>1. CASE get_kd_mode(a)
        BY <1>2, <1>3, <2>1, <2>7, <2>8, <2>9, <3>1 DEF SavedInv, get_kd_mode, TtyTypes, Saves, Step
      <3>2. CASE get_vt_mode(a)
        BY <1>2, <1>3, <2>1, <2>7, <2>8, <2>9, <3>2 DEF SavedInv, get_vt_mode, TtyTypes, Saves, Step
      <3>3. CASE make_active(a) \/ WaitActive(a)
        BY <1>2, <1>3, <2>1, <2>7, <2>9, <3>3 DEF SavedInv, make_active, WaitActive, TtyTypes, Step
      <3> QED
        BY <3>1, <3>2, <3>3
    <2> QED
      BY <2>1, <2>2, <2>6, <2>10
  <1> QED
    BY <1>1, <1>2, <1>3, <1>4, <1>5, <1>6, <1>7, Moved

\* A Tty that sets a mode of its terminal.
LEMMA ModesSet ==
    ASSUME Inv, NEW a \in Apps,
           SetVt(a) \/ SetKb(a) \/ SetKd(a) \/ BackVt(a) \/ BackKb(a)
    PROVE  Ordered' /\ \A v \in Vts : TermInv(v)'
  <1> USE DEF Step
  <1>1. a \in Open
    BY DEF SetVt, SetKb, SetKd, BackVt, BackKb, Open
  <1>2. /\ TtyTypes /\ VtTypes /\ UnderTypes /\ OverTypes /\ file[a] \in Vts
        /\ UNCHANGED <<mutes, file, under, over, org>>
    BY <1>1, Acting, TypesParts DEF Inv, SetVt, SetKb, SetKd, BackVt, BackKb, kernelVars
  <1>3. PICK p \in OpenPcs : pc' = [pc EXCEPT ![a] = p]
    BY DEF SetVt, SetKb, SetKd, BackVt, BackKb, OpenPcs
  <1>4. pc'[a] = p
    BY <1>2, <1>3 DEF TtyTypes
  <1>5. \A v \in Vts : v # file[a] => vt'[v] = vt[v] /\ spoilt'[v] = spoilt[v]
    <2>1. \A v \in Vts : v # file[a] => spoilt'[v] = spoilt[v]
      BY <1>2 DEF SetVt, SetKb, SetKd, BackVt, BackKb, VtTypes
    <2>2. CASE SetVt(a) \/ SetKd(a) \/ BackVt(a)
      BY <1>2, <2>1, <2>2, SetVals DEF SetVt, SetKd, BackVt
    <2>3. CASE SetKb(a)
      BY <1>2, <2>1, <2>3, KbVals, TRUE \in BOOLEAN, Zenon DEF SetKb
    <2>4. CASE BackKb(a)
      BY <1>2, <2>1, <2>4, KbVals, FALSE \in BOOLEAN, Zenon DEF BackKb
    <2> QED
      BY <2>2, <2>3, <2>4
  <1>6. /\ spoilt'[file[a]] = "no" => spoilt[file[a]] = "no" /\ (pc[a] # "up" \/ Newest(a))
        /\ Coupled(file[a])
    BY <1>1, <1>2, Acting DEF SetVt, SetKb, SetKd, BackVt, BackKb, VtTypes
  <1>7. Exited
    BY <1>2, <1>3, <1>4 DEF Exited, TtyTypes, OpenPcs, SetVt, SetKb, SetKd, BackVt, BackKb
  <1>8. (Sure(a)' => Sure(a)) /\ (Whole(a)' => Whole(a))
    <2>1. Below(a)' = Below(a) /\ \A b \in Below(a) : b \in Apps
      BY <1>2 DEF Below, UnderTypes, Open
    <2>2. \A b \in Apps : Whole(b)' => Whole(b)
      BY <1>2, <1>7, WholeBefore
    <2> QED
      BY <1>2, <2>1, <2>2 DEF Sure
  <1>9. /\ BaseKd(a)' = BaseKd(a) /\ BaseMode(a)' = BaseMode(a)
        /\ BaseKb(a)' = BaseKb(a) /\ UpKb' = UpKb
    BY <1>2 DEF BaseMode, BaseKd, BaseKb, UpKb
  <1>10. ASSUME spoilt'[file[a]] = "no"
         PROVE  /\ Newest(a) /\ SavedInv(a) /\ SetInv(a, vt[file[a]]) /\ SavedInv(a)'
                /\ over[a] # {} => pc[a] \in Finished
    <2>1. /\ Newest(a) /\ SavedInv(a) /\ SetInv(a, vt[file[a]])
          /\ over[a] # {} => pc[a] \in Finished
      BY <1>1, <1>6, <1>10, Acting
    <2>2. pc[a] \notin {"savedKb", "savedKd"}
      BY DEF SetVt, SetKb, SetKd, BackVt, BackKb
    <2> QED
      BY <1>2, <1>8, <1>9, <2>1, <2>2 DEF SavedInv
  <1>11. /\ Coupled(file[a])'
         /\ spoilt'[file[a]] = "no" => SetInv(a, vt[file[a]])' /\ (over[a] = {} \/ p \in Finished)
    <2> DEFINE t == vt[file[a]]
               u == vt'[file[a]]
    <2>1. CASE SetVt(a)
      <3>1. pc[a] = "shown" /\ p = "vtSet" /\ set_vt_mode(a, "process")
        BY <1>4, <2>1, <1>2 DEF SetVt, TtyTypes
      <3>2. u.mode = "process" /\ u.owner = a /\ u.kb = t.kb /\ u.kd = t.kd /\ u.muted = t.muted
        BY <1>2, <3>1, SetVals
      <3>3. Coupled(file[a])'
        BY <1>2, <1>6, <3>2 DEF Coupled
      <3>4. ASSUME spoilt'[file[a]] = "no" PROVE SetInv(a, vt[file[a]])' /\ over[a] = {}
        <4>1. Sure(a) => t.kd = BaseKd(a)
          BY <1>10, <3>1, <3>4, Found DEF Unset
        <4>2. over[a] = {}
          BY <1>10, <3>1, <3>4 DEF Finished
        <4> QED
          BY <1>2, <1>4, <1>8, <1>9, <3>1, <3>2, <4>1, <4>2 DEF SetInv, Unset
      <3> QED
        BY <3>3, <3>4
    <2>2. CASE SetKb(a)
      <3>1. pc[a] = "vtSet" /\ p = "kbSet" /\ set_kd_kb_mode(a, TRUE, "off")
        BY <1>4, <2>2, <1>2 DEF SetKb, TtyTypes
      <3>2. /\ u.mode = t.mode /\ u.kd = t.kd /\ u.owner = t.owner
            /\ u.kb = IF mutes THEN t.kb ELSE "off"
            /\ u.muted = IF mutes THEN TRUE ELSE t.muted
        BY <1>2, <3>1, KbVals, TRUE \in BOOLEAN, Zenon
      <3>3. mutes \in BOOLEAN /\ t.muted \in BOOLEAN
        BY <1>2 DEF VtTypes, Modes
      <3>4. Coupled(file[a])'
        BY <1>2, <1>6, <3>2 DEF Coupled
      <3>5. u.kb = UpKb /\ u.muted = mutes
        BY <1>6, <3>2, <3>3 DEF Coupled, UpKb
      <3>6. ASSUME spoilt'[file[a]] = "no" PROVE SetInv(a, vt[file[a]])' /\ over[a] = {}
        <4>1. t.mode = "process" /\ t.owner = a /\ (Sure(a) => t.kd = BaseKd(a))
          BY <1>10, <3>1, <3>6 DEF SetInv
        <4>2. over[a] = {}
          BY <1>10, <3>1, <3>6 DEF Finished
        <4> QED
          BY <1>2, <1>4, <1>8, <1>9, <3>1, <3>2, <3>5, <4>1, <4>2 DEF SetInv, Unset
      <3> QED
        BY <3>4, <3>6
    <2>3. CASE SetKd(a)
      <3>1. pc[a] = "kbSet" /\ p = "up" /\ set_kd_mode(a, "graphics")
        BY <1>4, <2>3, <1>2 DEF SetKd, TtyTypes
      <3>2. u.mode = t.mode /\ u.owner = t.owner /\ u.kb = t.kb /\ u.kd = "graphics" /\ u.muted = t.muted
        BY <1>2, <3>1, SetVals
      <3>3. Coupled(file[a])'
        BY <1>2, <1>6, <3>2 DEF Coupled
      <3>4. ASSUME spoilt'[file[a]] = "no" PROVE SetInv(a, vt[file[a]])' /\ p \in Finished
        <4>1. t.mode = "process" /\ t.owner = a /\ t.kb = UpKb /\ t.muted = mutes
          BY <1>10, <3>1, <3>4 DEF SetInv
        <4>2. Kept(a, vt[file[a]])'
          BY <1>2, <1>9, <3>2, <4>1 DEF Kept
        <4> QED
          BY <1>4, <3>1, <4>2 DEF SetInv, Unset, Finished
      <3> QED
        BY <3>3, <3>4
    <2>4. CASE BackVt(a)
      <3>1. pc[a] = "up" /\ p = "vtBack" /\ set_vt_mode(a, org[a].mode)
        BY <1>4, <2>4, <1>2 DEF BackVt, OrgMode, TtyTypes
      <3>2. /\ u.mode = org[a].mode /\ u.kb = t.kb /\ u.kd = t.kd /\ u.muted = t.muted
            /\ u.owner = IF org[a].mode = "process" THEN a ELSE None
        BY <1>2, <3>1, SetVals
      <3>3. Coupled(file[a])'
        BY <1>2, <1>6, <3>2 DEF Coupled
      <3>4. ASSUME spoilt'[file[a]] = "no" PROVE SetInv(a, vt[file[a]])' /\ p \in Finished
        <4>1. Kept(a, t) /\ SavedInv(a)
          BY <1>10, <3>1, <3>4 DEF SetInv
        <4>2. Whole(a) => t.kd = "graphics"
          BY <4>1 DEF Kept
        <4>3. Sure(a) => org[a].mode = BaseMode(a)
          BY <3>1, <4>1 DEF SavedInv
        <4> QED
          BY <1>2, <1>4, <1>8, <1>9, <3>1, <3>2, <4>2, <4>3 DEF SetInv, Unset, Finished
      <3> QED
        BY <3>3, <3>4
    <2>5. CASE BackKb(a)
      <3>1. pc[a] = "vtBack" /\ p = "kbBack" /\ set_kd_kb_mode(a, FALSE, org[a].kb)
        BY <1>4, <2>5, <1>2 DEF BackKb, TtyTypes
      <3>2. /\ u.mode = t.mode /\ u.kd = t.kd /\ u.owner = t.owner
            /\ u.kb = IF mutes THEN t.kb ELSE org[a].kb
            /\ u.muted = IF mutes THEN FALSE ELSE t.muted
        BY <1>2, <3>1, KbVals, FALSE \in BOOLEAN, Zenon
      <3>3. mutes \in BOOLEAN /\ t.muted \in BOOLEAN
        BY <1>2 DEF VtTypes, Modes
      <3>4. Coupled(file[a])' /\ ~u.muted
        BY <1>2, <1>6, <3>2, <3>3 DEF Coupled
      <3>5. ASSUME spoilt'[file[a]] = "no" PROVE SetInv(a, vt[file[a]])' /\ p \in Finished
        <4>1. /\ t.owner \in {a, None} /\ (Sure(a) => t.mode = BaseMode(a))
              /\ Whole(a) => t.kd = "graphics"
          BY <1>10, <3>1, <3>5 DEF SetInv
        <4>2. Sure(a) => u.kb = BaseKb(a)
          <5>1. Sure(a) => org[a].kb = BaseKb(a)
            BY <1>10, <3>5 DEF SavedInv
          <5>2. mutes => t.kb = "xlate" /\ BaseKb(a) = "xlate"
            BY <1>6 DEF Coupled, BaseKb, UpKb
          <5> QED
            BY <3>2, <5>1, <5>2
        <4> QED
          BY <1>2, <1>4, <1>8, <1>9, <3>1, <3>2, <3>4, <4>1, <4>2 DEF SetInv, Unset, Finished
      <3> QED
        BY <3>4, <3>5
    <2> QED
      BY <2>1, <2>2, <2>3, <2>4, <2>5
  <1> QED
    BY <1>1, <1>2, <1>3, <1>5, <1>6, <1>10, <1>11, Moved

\* A Tty whose constructor throws, or whose destructor has put the last mode
\* back, leaves its terminal as the one beneath it can rely on.
LEMMA PutBack ==
    ASSUME Inv, NEW a \in Open, Throws(a) \/ BackKd(a), NEW v, v = file[a]
    PROVE  /\ \A w \in Vts : w # v => vt'[w] = vt[w]
           /\ spoilt' = spoilt /\ Coupled(v)'
           /\ spoilt[v] = "no" =>
               /\ Newest(a)
               /\ under[a] = {} => Console(vt[v])'
               /\ \A b \in Below(a) : Kept(b, vt[v])'
  <1>1. /\ VtTypes /\ TtyTypes /\ UnderTypes /\ OverTypes /\ a \in Apps /\ mutes' = mutes
        /\ Forget(a) /\ v \in Vts
    BY TypesParts, Acting DEF Inv, Throws, BackKd, kernelVars, Open
  <1>2. PICK p \in {"none", "dead"} : pc' = [pc EXCEPT ![a] = p]
    BY DEF Throws, BackKd, Step
  <1>3. Exited
    BY <1>1, <1>2 DEF Exited, TtyTypes, Open
  <1>4. \A b \in Below(a) : b \in Apps \ {a} /\ b \in under[a]
    BY <1>1 DEF Below, UnderTypes, Open
  <1>5. CASE Throws(a)
    <2>1. vt' = vt /\ spoilt' = spoilt /\ over' = [over EXCEPT ![a] = {}]
      BY <1>5 DEF Throws
    <2>2. pc[a] \in Unset /\ pc[a] # "up"
      BY <1>5 DEF Throws, Unset, Open
    <2>3. Coupled(v)'
      BY <1>1, <2>1, Acting DEF Coupled
    <2>4. ASSUME spoilt[v] = "no"
          PROVE  /\ Newest(a)
                 /\ under[a] = {} => Console(vt[v])'
                 /\ \A b \in Below(a) : Kept(b, vt[v])'
      <3>1. Newest(a) /\ SetInv(a, vt[v])
        BY <2>2, <2>4, Acting
      <3>2. under[a] = {} => Console(vt[v])'
        BY <2>1, <2>2, <3>1 DEF SetInv, Console
      <3>3. \A b \in Below(a) : Kept(b, vt[v])
        BY <2>2, <3>1 DEF SetInv
      <3>4. ASSUME NEW b \in Below(a) PROVE Kept(b, vt[v])'
        <4>1. over'[b] = over[b] /\ b \in Apps
          BY <1>1, <1>4, <2>1 DEF OverTypes
        <4> DEFINE t == vt[v]
        <4>2. \A u : Kept(b, u) => Kept(b, u)'
          BY <1>1, <1>3, <4>1, KeptAfter
        <4> QED
          BY <2>1, <3>3, <4>2
      <3> QED
        BY <3>1, <3>2, <3>4
    <2> QED
      BY <2>1, <2>3, <2>4
  <1>6. CASE BackKd(a)
    <2>1. pc[a] = "kbBack" /\ spoilt' = spoilt /\ set_kd_mode(a, org[a].kd)
      BY <1>6 DEF BackKd, Step, OrgKd
    <2>2. \A w \in Vts : w # v => vt'[w] = vt[w]
      BY <1>1, <2>1, Acting, SetVals
    <2>3. /\ vt'[v].kd = org[a].kd /\ vt'[v].kb = vt[v].kb /\ vt'[v].mode = vt[v].mode
          /\ vt'[v].muted = vt[v].muted /\ vt'[v].owner = vt[v].owner
      BY <1>1, <2>1, SetVals
    <2>4. Coupled(v)'
      BY <1>1, <2>3, Acting DEF Coupled
    <2>5. ASSUME spoilt[v] = "no"
          PROVE  /\ Newest(a)
                 /\ under[a] = {} => Console(vt[v])'
                 /\ \A b \in Below(a) : Kept(b, vt[v])'
      <3>1. Newest(a) /\ SetInv(a, vt[v]) /\ SavedInv(a)
        BY <2>1, <2>5, Acting
      <3>2. vt[v].owner \in {a, None} /\ ~vt[v].muted
        BY <2>1, <3>1 DEF SetInv
      <3>3. Sure(a) => /\ vt'[v].mode = BaseMode(a) /\ vt'[v].kd = BaseKd(a)
                       /\ vt'[v].kb = BaseKb(a)
        BY <2>1, <2>3, <3>1 DEF SetInv, SavedInv
      <3>4. ASSUME under[a] = {} PROVE Console(vt[v])'
        <4>1. Sure(a)
          BY <3>4 DEF Sure
        <4>2. vt[v].mode = "auto" => vt[v].owner = None
          BY Acting DEF Coupled
        <4> QED
          BY <2>3, <3>2, <3>3, <3>4, <4>1, <4>2 DEF Console, BaseMode, BaseKd, BaseKb
      <3>5. ASSUME NEW b \in Below(a) PROVE Kept(b, vt[v])'
        <4>1. over'[b] = over[b] \cup {a} /\ b \in Apps /\ under[a] # {}
          BY <1>4, <1>6 DEF BackKd
        <4>2. Whole(b)' => Whole(b)
          BY <1>1, <1>3, <4>1, WholeBefore
        <4>3. Whole(b) => Sure(a)
          BY DEF Sure
        <4>4. vt[v].mode = "process" => vt[v].owner = a
          BY <1>1, <3>2, NoneAssumption DEF VtTypes
        <4> QED
          BY <1>1, <2>3, <3>3, <4>1, <4>2, <4>3, <4>4 DEF Kept, BaseMode, BaseKd, BaseKb, UpKb
      <3> QED
        BY <3>1, <3>4, <3>5
    <2> QED
      BY <2>1, <2>2, <2>4, <2>5
  <1> QED
    BY <1>5, <1>6

\* A Tty is gone, also when its application crashes.
LEMMA TtyGone ==
    ASSUME Inv, NEW a \in Apps, Throws(a) \/ BackKd(a) \/ Crash(a)
    PROVE  Ordered' /\ \A v \in Vts : TermInv(v)'
  <1>1. VtTypes /\ TtyTypes /\ OverTypes /\ Forget(a) /\ mutes' = mutes /\ pc[a] # "dead"
    BY TypesParts DEF Inv, Throws, BackKd, Crash, Step, kernelVars
  <1>2. PICK p \in {"none", "dead"} : pc' = [pc EXCEPT ![a] = p]
    BY DEF Throws, BackKd, Crash, Step
  <1>3. \A b \in Apps \ {a} :
            over'[b] = over[b] \/ (a \in Open /\ b \in under[a] /\ over[b] \subseteq over'[b])
    <2>1. CASE Throws(a) \/ Crash(a)
      BY <1>1, <2>1 DEF Throws, Crash, OverTypes
    <2>2. CASE BackKd(a)
      BY <2>2 DEF BackKd, Step, Open
    <2> QED
      BY <2>1, <2>2
  <1>4. CASE a \in Open /\ ~Crash(a)
    <2>1. file[a] \in Vts
      BY <1>1, <1>4 DEF TtyTypes, Open
    <2>2. ASSUME NEW v \in Vts, v = file[a]
          PROVE  /\ \A w \in Vts : w # v => vt'[w] = vt[w]
                 /\ spoilt' = spoilt /\ Coupled(v)'
                 /\ spoilt[v] = "no" =>
                     /\ Newest(a)
                     /\ under[a] = {} => Console(vt[v])'
                     /\ \A b \in Below(a) : Kept(b, vt[v])'
      BY <1>4, <2>2, PutBack
    <2>3. (\A v \in Vts : v # file[a] => vt'[v] = vt[v]) /\ spoilt' = spoilt
      BY <2>1, <2>2
    <2> QED
      BY <1>1, <1>2, <1>3, <1>4, <2>2, <2>3, Ended
  <1>5. CASE a \notin Open /\ ~Crash(a)
    <2>1. Throws(a)
      BY <1>5 DEF BackKd, Step, Open
    <2>2. vt' = vt /\ spoilt' = spoilt
      BY <2>1 DEF Throws
    <2> QED
      BY <1>1, <1>2, <1>3, <1>5, <2>2, Ended
  <1>6. CASE Crash(a)
    <2>1. /\ vt' = vt /\ \A v \in Vts : spoilt'[v] = "no" => spoilt[v] = "no" /\ a \notin On(v)
      BY <1>1, <1>6 DEF Crash, VtTypes
    <2>2. ASSUME NEW v \in Vts, v = file[a], a \in Open
          PROVE  Coupled(v)' /\ spoilt'[v] # "no"
      BY <1>1, <2>1, <2>2, Acting DEF Coupled, On
    <2> QED
      BY <1>1, <1>2, <1>3, <2>1, <2>2, Ended
  <1> QED
    BY <1>4, <1>5, <1>6

\* A step that leaves every Tty that has begun to save as it is.
LEMMA OthersStep ==
    ASSUME Inv, Exited, UNCHANGED <<mutes, under, over, org>>, Open' = Open,
           \A a \in Open : pc'[a] = pc[a] /\ file'[a] = file[a],
           NEW v \in Vts, vt'[v] = vt[v], spoilt'[v] = spoilt[v]
    PROVE  TermInv(v)'
  <1>1. On(v)' = On(v) /\ On(v) \subseteq Open
    BY DEF On
  <1>2. UnderTypes /\ OverTypes /\ TermInv(v)
    BY TypesParts DEF Inv
  <1> QED
    BY <1>1, <1>2, Untouched

\* The kernel takes a terminal from its Ttys only when somebody has closed one over
\* the newest, and exited.
LEMMA Taken ==
    ASSUME Inv, Reset, NEW v, v = fg, spoilt[v] = "no"
    PROVE  /\ On(v) # {} /\ vt[v].owner \in Gone
           /\ \A a \in On(v) : Newest(a) =>
                  \/ pc[a] = "up" /\ ~Whole(a) /\ over[a] # {}
                  \/ /\ pc[a] \in Unset /\ under[a] # {}
                     /\ \A b \in Below(a) : ~Whole(b) /\ over[b] # {}
  <1>1. VtTypes /\ UnderTypes /\ OverTypes /\ v \in Vts /\ Tidy(v)
    BY TypesParts DEF Inv, TermInv, VtTypes
  <1>2. vt[v].mode = "process" /\ vt[v].owner \in Apps /\ pc[vt[v].owner] = "dead"
    BY <1>1 DEF Reset, OwnerGone, VtTypes
  <1>3. On(v) # {}
    BY <1>1, <1>2 DEF Tidy, Console
  <1>4. ASSUME NEW b \in Open, Kept(b, vt[v]) PROVE ~Whole(b) /\ over[b] # {}
    <2>1. pc[b] # "dead" /\ vt[v].owner # b
      BY <1>2 DEF Open
    <2>2. Whole(b) => vt[v].owner \in over[b]
      BY <1>4, <2>1 DEF Kept
    <2> QED
      BY <1>2, <1>4, <2>1, <2>2 DEF Kept, Whole
  <1>5. ASSUME NEW a \in On(v), Newest(a)
        PROVE  \/ pc[a] = "up" /\ ~Whole(a) /\ over[a] # {}
               \/ /\ pc[a] \in Unset /\ under[a] # {}
                  /\ \A b \in Below(a) : ~Whole(b) /\ over[b] # {}
    <2>1. SetInv(a, vt[v]) /\ a \in Open
      BY <1>1, <1>5 DEF Tidy, On
    <2>2. pc[a] # "dead" /\ vt[v].owner \notin {a, None}
      BY <1>2, <2>1, NoneAssumption DEF Open
    <2>3. pc[a] \notin {"vtSet", "kbSet", "vtBack", "kbBack"}
      BY <2>1, <2>2 DEF SetInv
    <2>4. pc[a] = "up" \/ pc[a] \in Unset
      BY <2>1, <2>3 DEF Open, Unset
    <2>5. CASE pc[a] = "up"
      BY <1>4, <2>1, <2>5 DEF SetInv
    <2>6. CASE pc[a] \in Unset
      <3>1. under[a] # {}
        BY <1>2, <2>1, <2>6 DEF SetInv, Console
      <3>2. \A b \in Below(a) : b \in Open /\ Kept(b, vt[v])
        BY <1>1, <2>1, <2>6 DEF SetInv, Below, UnderTypes, On, Open
      <3> QED
        BY <1>4, <2>6, <3>1, <3>2
    <2> QED
      BY <2>4, <2>5, <2>6
  <1> QED
    BY <1>2, <1>3, <1>5 DEF Gone

\* What the terminal shown is set to then.
LEMMA ResetVals ==
    ASSUME VtTypes, Reset
    PROVE  /\ vt'[fg].mode = "auto" /\ vt'[fg].owner = None /\ vt'[fg].kb = "xlate"
           /\ vt'[fg].kd = "text" /\ vt'[fg].muted = vt[fg].muted
           /\ spoilt'[fg] = "no" => spoilt[fg] = "no" \/ (On(fg) = {} /\ ~vt[fg].muted)
           /\ \A v \in Vts : v # fg => vt'[v] = vt[v] /\ spoilt'[v] = spoilt[v]
  <1>1. vt'[fg] = [Text EXCEPT !.muted = vt[fg].muted]
    BY DEF Reset, VtTypes
  <1>2. /\ spoilt'[fg] = "no" => spoilt[fg] = "no" \/ (On(fg) = {} /\ ~vt[fg].muted)
        /\ \A v \in Vts : v # fg => vt'[v] = vt[v] /\ spoilt'[v] = spoilt[v]
    BY DEF Reset, VtTypes
  <1> QED
    BY <1>1, <1>2 DEF Text

LEMMA ResetInv ==
    ASSUME Inv, Reset, NEW v \in Vts
    PROVE  TermInv(v)'
  <1>1. UNCHANGED <<mutes, pc, file, org, under, over>>
    BY DEF Reset
  <1>2. Open' = Open /\ (\A w : On(w)' = On(w)) /\ Exited
    BY <1>1 DEF Open, On, Exited
  <1>3. TermInv(v) /\ VtTypes /\ UnderTypes
    BY TypesParts DEF Inv
  <1>4. CASE v # fg
    BY <1>1, <1>2, <1>3, <1>4, ResetVals, OthersStep
  <1>5. CASE v = fg
    <2>1. Coupled(v)'
      BY <1>1, <1>3, <1>5, ResetVals DEF TermInv, Coupled
    <2>2. CASE spoilt[v] = "no"
      <3>1. Tidy(v)
        BY <1>3, <2>2 DEF TermInv
      <3>2. \A a \in On(v) : (Newest(a)' <=> Newest(a)) /\ (SavedInv(a)' <=> SavedInv(a))
        BY <1>1, <1>2 DEF Newest, SavedInv, Sure, Below, Whole, BaseMode, BaseKd, BaseKb, UpKb
      <3>3. ASSUME NEW a \in On(v), Newest(a) PROVE SetInv(a, vt[v])'
        <4>1. CASE pc[a] = "up" /\ ~Whole(a) /\ over[a] # {}
          <5>1. Kept(a, vt[v])'
            BY <1>1, <4>1 DEF Kept, Whole
          <5> QED
            BY <1>1, <4>1, <5>1 DEF SetInv, Unset
        <4>2. CASE /\ pc[a] \in Unset /\ under[a] # {}
                   /\ \A b \in Below(a) : ~Whole(b) /\ over[b] # {}
          <5>1. \A b \in Below(a)' : ~Whole(b)' /\ over'[b] # {}
            BY <1>1, <4>2 DEF Whole, Below
          <5>2. \A b \in Below(a)' : Kept(b, vt[v])'
            BY <5>1 DEF Kept
          <5> QED
            BY <1>1, <4>2, <5>2 DEF SetInv, Unset
        <4> QED
          BY <1>5, <2>2, <3>3, <4>1, <4>2, Taken
      <3>4. On(v)' # {}
        BY <1>2, <1>5, <2>2, Taken
      <3>5. Tidy(v)'
        BY <1>1, <1>2, <3>1, <3>2, <3>3, <3>4 DEF Tidy
      <3> QED
        BY <2>1, <3>5 DEF TermInv
    <2>3. CASE spoilt[v] # "no" /\ spoilt'[v] = "no"
      <3>1. On(v)' = {} /\ Console(vt[v])'
        BY <1>2, <1>3, <1>5, <2>3, ResetVals DEF Console
      <3> QED
        BY <2>1, <3>1 DEF TermInv, Tidy
    <2> QED
      BY <2>1, <2>2, <2>3 DEF TermInv
  <1> QED
    BY <1>4, <1>5

LEMMA InvInit == Init => Inv
  BY InitTypes, NoneAssumption
     DEF Init, Inv, Ordered, TermInv, Coupled, Tidy, Console, Text, Open, On

LEMMA InvNext == Inv /\ [Next]_vars => Inv'
  <1> SUFFICES ASSUME Inv, [Next]_vars PROVE Ordered' /\ \A v \in Vts : TermInv(v)'
    BY NextTypes DEF Inv
  <1>1. VtTypes /\ TtyTypes
    BY TypesParts DEF Inv
  <1>2. ASSUME NEW a \in Apps, ReqVtFd(a) \/ get_cur_act_vt(a)
        PROVE  Ordered' /\ \A v \in Vts : TermInv(v)'
    <2>1. Open' = Open /\ a \notin Open
      BY <1>1, <1>2 DEF ReqVtFd, get_cur_act_vt, Step, Open, TtyTypes
    <2>2. \A b \in Open : pc'[b] = pc[b] /\ file'[b] = file[b]
      BY <1>1, <1>2, <2>1 DEF ReqVtFd, get_cur_act_vt, Step, Open, TtyTypes
    <2>3. UNCHANGED <<vt, mutes, under, over, org, spoilt>>
      BY <1>2 DEF ReqVtFd, get_cur_act_vt, kernelVars
    <2>4. Ordered'
      BY <2>1, <2>2, <2>3 DEF Inv, Ordered
    <2>5. Exited
      BY <1>1, <1>2 DEF Exited, ReqVtFd, get_cur_act_vt, Step, TtyTypes
    <2> QED
      BY <2>1, <2>2, <2>3, <2>4, <2>5, OthersStep
  <1>3. CASE (\E v \in Vts : Ask(v)) \/ Switch \/ Reset \/ UNCHANGED vars
    <2>1. UNCHANGED <<mutes, pc, file, org, under, over>>
      BY <1>3 DEF Ask, Switch, Reset, vars, kernelVars
    <2>2. Open' = Open /\ Exited
      BY <2>1 DEF Open, Exited
    <2>3. Ordered'
      BY <2>1, <2>2 DEF Inv, Ordered
    <2>4. ASSUME NEW v \in Vts, ~Reset PROVE TermInv(v)'
      <3>1. vt'[v] = vt[v] /\ spoilt'[v] = spoilt[v]
        BY <1>3, <2>4 DEF Ask, Switch, vars
      <3> QED
        BY <2>1, <2>2, <3>1, OthersStep
    <2> QED
      BY <2>3, <2>4, ResetInv
  <1> QED
    BY <1>2, <1>3, Begun, SavesKept, ModesSet, TtyGone DEF Next, Construct, Destruct

\* A terminal of which no Tty is left has its text, its keyboard and its free
\* switching back.
THEOREM TerminalsUnlocked == Spec => []Unlocked
  <1>1. Inv => Unlocked
    <2> SUFFICES ASSUME Inv, NEW v \in Vts, spoilt[v] = "no", On(v) = {}
                 PROVE  vt[v].mode = "auto" /\ vt[v].kb = "xlate" /\ ~vt[v].muted /\ vt[v].kd = "text"
      BY DEF Unlocked
    <2> QED
      BY DEF Inv, TermInv, Tidy, Console
  <1> QED
    BY <1>1, InvInit, InvNext, PTL DEF Spec

\* The newest Tty of a terminal, once it is up, has its screen to itself, and a
\* process that runs is asked before a switch, until one that has closed a Tty over
\* it exits. If none has had a Tty over it, its own process is asked, and no key is
\* the console's.
THEOREM ScreenKept == Spec => []Drawn
  <1>1. Inv => Drawn
    <2> SUFFICES ASSUME Inv, NEW a \in Open, pc[a] = "up", Newest(a), spoilt[file[a]] = "no",
                        NEW t, t = vt[file[a]]
                 PROVE  /\ Whole(a) => /\ t.kd = "graphics" /\ t.mode = "process"
                                       /\ t.owner \in over[a] \cup {a}
                        /\ over[a] = {} => t.owner = a
                        /\ over[a] = {} \/ (Whole(a) /\ ~mutes) => Keys(file[a]) = "off"
      BY DEF Drawn
    <2>1. Kept(a, t) /\ VtTypes
      BY Acting DEF SetInv
    <2>2. over[a] = {} => Whole(a)
      BY DEF Whole
    <2>3. over[a] = {} \/ (Whole(a) /\ ~mutes) => t.muted \/ t.kb = "off"
      BY <2>1, <2>2 DEF Kept, UpKb, VtTypes
    <2> QED
      BY <2>1, <2>3 DEF Kept, Keys
  <1> QED
    BY <1>1, InvInit, InvNext, PTL DEF Spec

----------------------------------------------------------------------------
(* The promise of TtyStack.                                                 *)

\* A step that leaves a terminal, who is on it, and who has exited alone.
LEMMA StackIdle ==
    ASSUME NEW v \in Vts, vt'[v] = vt[v], spoilt'[v] = spoilt[v], On(v)' = On(v),
           \A a \in On(v) : under'[a] = under[a] /\ over'[a] = over[a], Gone' = Gone
    PROVE  StackStep(v)
  <1>1. Look(v)' = Look(v) /\ Asked(v)' = Asked(v) /\ Keys(v)' = Keys(v) /\ Spoilt(v)' = Spoilt(v)
    BY DEF Look, Asked, Keys, Spoilt
  <1>2. Beneath(v)' = Beneath(v) /\ Left(v)' = Left(v)
    BY DEF Beneath, Left
  <1> QED
    BY <1>1, <1>2 DEF StackStep

\* A terminal that is spoilt, if it was already or somebody is on it.
LEMMA StackSpoilt ==
    ASSUME NEW v \in Vts, spoilt'[v] # "no", spoilt[v] # "no" \/ On(v) # {}
    PROVE  StackStep(v)
  <1>1. Spoilt(v)' = TRUE /\ (Spoilt(v) \/ DOMAIN Beneath(v) # {})
    BY DEF Spoilt, Beneath
  <1> QED
    BY <1>1 DEF StackStep, Stack!Next, Stack!Spoil, Stack!There

\* The newest is on top, and what TtyStack says of it is what is said here.
LEMMA StackVals ==
    ASSUME UnderTypes, OverTypes, NEW v \in Vts, NEW a \in On(v)
    PROVE  /\ Stack(v)!There = On(v) /\ Beneath(v)[a] = under[a] /\ Left(v)[a] = over[a]
           /\ Newest(a) <=> Stack(v)!Top(a)
           /\ Whole(a) <=> Stack(v)!Whole(a)
           /\ \A w : Stack(v)!JustBeneath(w, a) <=> w \in Below(a)
           /\ Stack(v)!Safe(a) => Whole(a) /\ Sure(a) /\ under[a] # {}
  <1>1. Stack(v)!There = On(v) /\ \A b \in On(v) : Beneath(v)[b] = under[b] /\ Left(v)[b] = over[b]
    BY DEF Stack!There, Beneath, Left
  <1>2. Newest(a) <=> Stack(v)!Top(a)
    BY <1>1 DEF Stack!Top, Newest, On
  <1>3. \A b \in On(v) : Whole(b) <=> Stack(v)!Whole(b)
    <2> TAKE b \in On(v)
    <2>1. over[b] \subseteq Apps
      BY DEF OverTypes, On, Open
    <2> QED
      BY <1>1, <2>1 DEF Stack!Whole, Whole, Gone
  <1>4. \A w : Stack(v)!JustBeneath(w, a) <=> w \in Below(a)
    <2>1. under[a] \subseteq On(v)
      BY DEF UnderTypes, On, Open
    <2> QED
      BY <1>1, <2>1 DEF Stack!JustBeneath, Below
  <1>5. Stack(v)!Safe(a) => Whole(a) /\ Sure(a) /\ under[a] # {}
    BY <1>1, <1>3, <1>4 DEF Stack!Safe, Sure, Below
  <1> QED
    BY <1>1, <1>2, <1>3, <1>4, <1>5

\* What the screen and the keys of a terminal are.
LEMMA LookVals ==
    ASSUME NEW v \in Vts, NEW t, t = vt[v]
    PROVE  /\ t.mode = "process" /\ t.kd = "graphics" => Look(v) = "drawn"
           /\ t.mode = "process" \/ t.kd = "graphics" => Look(v) \in {"drawn", "moving"}
           /\ t.mode = "auto" /\ t.kd = "text" => Look(v) = "console"
           /\ Keys(v) \in {"off", "console"}
           /\ t.kb = "xlate" /\ ~t.muted => Keys(v) = "console"
           /\ t.kb = "off" \/ t.muted => Keys(v) = "off"
  BY DEF Look, Keys

LEMMA LookVals_ ==
    ASSUME NEW v \in Vts, NEW t, t = vt'[v]
    PROVE  /\ t.mode = "process" /\ t.kd = "graphics" => Look(v)' = "drawn"
           /\ t.mode = "process" \/ t.kd = "graphics" => Look(v)' \in {"drawn", "moving"}
           /\ t.mode = "auto" /\ t.kd = "text" => Look(v)' = "console"
           /\ Keys(v)' \in {"off", "console"}
           /\ t.kb = "xlate" /\ ~t.muted => Keys(v)' = "console"
           /\ t.kb = "off" \/ t.muted => Keys(v)' = "off"
  BY DEF Look, Keys

LEMMA StackSaves ==
    ASSUME Inv, NEW a \in Apps, get_kd_kb_mode(a), NEW v \in Vts
    PROVE  StackStep(v)
  <1>1. TtyTypes /\ UnderTypes /\ OverTypes
    BY TypesParts DEF Inv
  <1>2. /\ a \notin Open /\ Open' = Open \cup {a} /\ UNCHANGED <<vt, file, over>>
        /\ \A b \in Apps \ {a} : under'[b] = under[b]
        /\ under'[a] = On(file[a]) /\ over[a] = {}
    BY <1>1 DEF get_kd_kb_mode, Step, kernelVars, TtyTypes, UnderTypes, OverTypes, Open, Pcs, OpenPcs
  <1>3. On(v)' = IF v = file[a] THEN On(v) \cup {a} ELSE On(v)
    BY <1>2 DEF On
  <1>4. \A b \in On(v) : b \in Apps \ {a}
    BY <1>2 DEF On, Open
  <1>5. Gone' = Gone
    BY <1>1 DEF Gone, get_kd_kb_mode, Step, TtyTypes
  <1>6. CASE v # file[a]
    <2>1. spoilt'[v] = spoilt[v]
      BY <1>6 DEF get_kd_kb_mode
    <2> QED
      BY <1>2, <1>3, <1>4, <1>5, <1>6, <2>1, StackIdle
  <1>7. CASE v = file[a] /\ spoilt'[v] # "no"
    <2>1. spoilt[v] # "no" \/ On(v) # {}
      BY <1>7 DEF get_kd_kb_mode
    <2> QED
      BY <1>7, <2>1, StackSpoilt
  <1>8. CASE v = file[a] /\ spoilt'[v] = "no"
    <2>1. spoilt[v] = "no" /\ \A b \in On(v) : pc[b] = "up"
      BY <1>8 DEF get_kd_kb_mode, Inv, TypeOK
    <2>2. Tidy(v)
      BY <2>1 DEF Inv, TermInv
    <2>3. Stack(v)!There = {} => Look(v) = "console"
      <3>1. Stack(v)!There = On(v)
        BY DEF Stack!There, Beneath
      <3> QED
        BY <2>2, <3>1, LookVals DEF Tidy, Console
    <2>4. \A w \in Stack(v)!There : Stack(v)!Top(w) /\ Stack(v)!Whole(w) => Look(v) = "drawn"
      <3> SUFFICES ASSUME NEW w \in Stack(v)!There, Stack(v)!Top(w), Stack(v)!Whole(w)
                   PROVE  Look(v) = "drawn"
        OBVIOUS
      <3>1. w \in On(v)
        BY DEF Stack!There, Beneath
      <3>2. Newest(w) /\ Whole(w)
        BY <1>1, <3>1, StackVals
      <3>3. Kept(w, vt[v])
        BY <2>1, <2>2, <3>1, <3>2 DEF Tidy, SetInv
      <3> QED
        BY <3>2, <3>3, LookVals DEF Kept
    <2>5. UNCHANGED <<Look(v), Asked(v), Keys(v), Gone>> /\ Spoilt(v) = FALSE /\ Spoilt(v)' = FALSE
      BY <1>2, <1>5, <1>8, <2>1 DEF Look, Asked, Keys, Spoilt
    <2>6. Stack(v)!There = On(v) /\ a \notin On(v)
      BY <1>4 DEF Stack!There, Beneath
    <2>7. Beneath(v)' = [b \in On(v) \cup {a} |-> IF b = a THEN On(v) ELSE Beneath(v)[b]]
      <3>1. Beneath(v)' = [b \in On(v) \cup {a} |-> under'[b]]
        BY <1>3, <1>8 DEF Beneath
      <3>2. \A b \in On(v) \cup {a} : under'[b] = IF b = a THEN On(v) ELSE Beneath(v)[b]
        BY <1>2, <1>4, <1>8 DEF Beneath
      <3> QED
        BY <3>1, <3>2
    <2>8. Left(v)' = [b \in On(v) \cup {a} |-> IF b = a THEN {} ELSE Left(v)[b]]
      <3>1. Left(v)' = [b \in On(v) \cup {a} |-> over[b]]
        BY <1>2, <1>3, <1>8 DEF Left
      <3>2. \A b \in On(v) \cup {a} : over[b] = IF b = a THEN {} ELSE Left(v)[b]
        BY <1>2, <1>4 DEF Left
      <3> QED
        BY <3>1, <3>2
    <2>9. Stack(v)!Arrive(a)
      BY <2>3, <2>4, <2>5, <2>6, <2>7, <2>8 DEF Stack!Arrive
    <2> QED
      BY <2>9 DEF StackStep, Stack!Next
  <1> QED
    BY <1>6, <1>7, <1>8

\* What the terminal of the newest is set to after a step, too.
LEMMA SetAfter_ ==
    Inv' => \A v \in Vts : \A a \in On(v)' : spoilt'[v] = "no" /\ Newest(a)' => SetInv(a, vt[v])'
  BY DEF Inv, TermInv, Tidy

\* The newest sets a mode, or puts one back that is not the last.
LEMMA StackDraws ==
    ASSUME Inv, Inv', NEW a \in Apps,
           SetVt(a) \/ SetKb(a) \/ SetKd(a) \/ BackVt(a) \/ BackKb(a),
           NEW v \in Vts
    PROVE  StackStep(v)
  <1> USE DEF Step
  <1>1. a \in Open
    BY DEF SetVt, SetKb, SetKd, BackVt, BackKb, Open
  <1>2. /\ TtyTypes /\ UnderTypes /\ OverTypes /\ VtTypes /\ file[a] \in Vts
        /\ UNCHANGED <<mutes, file, under, over, org>>
    BY <1>1, Acting, TypesParts DEF Inv, SetVt, SetKb, SetKd, BackVt, BackKb, kernelVars
  <1>3. PICK p \in OpenPcs : pc' = [pc EXCEPT ![a] = p]
    BY DEF SetVt, SetKb, SetKd, BackVt, BackKb, OpenPcs
  <1>4. On(v)' = On(v)
    BY <1>1, <1>2, <1>3, MoveTypes
  <1>5. Gone' = Gone
    BY <1>1, <1>2, <1>3 DEF Gone, TtyTypes, Open, OpenPcs
  <1>6. CASE v # file[a]
    <2>1. spoilt'[v] = spoilt[v]
      BY <1>2, <1>6 DEF SetVt, SetKb, SetKd, BackVt, BackKb, VtTypes
    <2>2. vt'[v] = vt[v]
      <3>1. CASE SetVt(a) \/ SetKd(a) \/ BackVt(a)
        BY <1>2, <1>6, <3>1, SetVals DEF SetVt, SetKd, BackVt
      <3>2. CASE SetKb(a)
        BY <1>2, <1>6, <3>2, KbVals, TRUE \in BOOLEAN, Zenon DEF SetKb
      <3>3. CASE BackKb(a)
        BY <1>2, <1>6, <3>3, KbVals, FALSE \in BOOLEAN, Zenon DEF BackKb
      <3> QED
        BY <3>1, <3>2, <3>3
    <2> QED
      BY <1>2, <1>4, <1>5, <2>1, <2>2, StackIdle
  <1>7. CASE v = file[a] /\ spoilt'[v] # "no"
    <2>1. On(v) # {}
      BY <1>1, <1>7 DEF On
    <2> QED
      BY <1>7, <2>1, StackSpoilt
  <1>8. CASE v = file[a] /\ spoilt'[v] = "no"
    <2>1. spoilt[v] = "no" /\ (pc[a] # "up" \/ Newest(a))
      BY <1>2, <1>8 DEF SetVt, SetKb, SetKd, BackVt, BackKb, VtTypes
    <2>2. Newest(a) /\ a \in On(v)
      BY <1>1, <1>8, <2>1, Acting DEF On
    <2>3. Newest(a)' /\ a \in On(v)'
      BY <1>2, <1>4, <1>8, <2>2 DEF Newest
    <2>4. SetInv(a, vt[v])' /\ VtTypes'
      BY <1>8, <2>3, SetAfter_, TypesParts_ DEF Inv
    <2>5. /\ pc'[a] \in {"vtSet", "kbSet", "up", "vtBack", "kbBack"}
          /\ pc'[a] = "up" => SetKd(a)
      BY <1>2 DEF SetVt, SetKb, SetKd, BackVt, BackKb, TtyTypes
    <2>6. /\ Below(a)' = Below(a) /\ (\A b \in Apps : Whole(b)' <=> Whole(b)) /\ a \in Apps
          /\ Below(a) \subseteq Apps
      <3>1. \A b \in Apps : Whole(b)' <=> Whole(b)
        <4> TAKE b \in Apps
        <4>1. over[b] \subseteq Apps /\ over'[b] = over[b]
          BY <1>2 DEF OverTypes
        <4>2. \A c \in Apps : pc'[c] = "dead" <=> pc[c] = "dead"
          BY <1>5 DEF Gone
        <4> QED
          BY <4>1, <4>2 DEF Whole
      <3> QED
        BY <1>2, <3>1 DEF Below, UnderTypes, Open
    <2>7. (Sure(a)' <=> Sure(a)) /\ (Whole(a)' <=> Whole(a)) /\ BaseKd(a)' = BaseKd(a) /\ BaseMode(a)' = BaseMode(a)
      BY <1>2, <2>6 DEF Sure, BaseKd, BaseMode
    <2>8. Stack(v)!Safe(a) => Sure(a) /\ Whole(a) /\ BaseKd(a) = "graphics" /\ BaseMode(a) = "process"
      BY <1>2, <2>2, StackVals DEF BaseKd, BaseMode
    <2> DEFINE u == vt'[v]
    <2>9. /\ Whole(a) => Look(v)' \in {"moving", "drawn"}
          /\ Stack(v)!Safe(a) => Look(v)' = "drawn"
          /\ u.owner \in {vt[v].owner, a} \/ (u.owner = None /\ ~Stack(v)!Safe(a))
      <3>1. CASE pc'[a] \in {"vtSet", "kbSet"}
        <4>1. u.mode = "process" /\ u.owner = a /\ (Sure(a) => u.kd = BaseKd(a))
          BY <2>4, <2>7, <3>1 DEF SetInv
        <4> QED
          BY <2>8, <4>1, LookVals_
      <3>2. CASE pc'[a] = "up"
        <4>1. Kept(a, vt[v])'
          BY <2>4, <3>2 DEF SetInv
        <4>2. Whole(a) => u.mode = "process" /\ u.kd = "graphics"
          BY <2>7, <4>1 DEF Kept
        <4>3. u.owner = vt[v].owner
          BY <1>2, <1>8, <2>5, <3>2, SetVals DEF SetKd
        <4> QED
          BY <2>8, <4>2, <4>3, LookVals_
      <3>3. CASE pc'[a] \in {"vtBack", "kbBack"}
        <4>1. /\ u.owner \in {a, None} /\ (Sure(a) => u.mode = BaseMode(a))
              /\ Whole(a) => u.kd = "graphics"
          BY <2>4, <2>7, <3>3 DEF SetInv
        <4>2. u.mode = "process" => u.owner # None
          BY <1>2, <1>8, <2>4, NoneAssumption DEF VtTypes
        <4> QED
          BY <2>8, <4>1, <4>2, LookVals_
      <3> QED
        BY <2>5, <3>1, <3>2, <3>3
    <2>10. /\ Beneath(v)' = Beneath(v) /\ Left(v)' = Left(v)
           /\ Spoilt(v) = FALSE /\ Spoilt(v)' = FALSE
      BY <1>2, <1>4, <1>8, <2>1 DEF Beneath, Left, Spoilt
    <2>11. Stack(v)!Top(a) /\ (Stack(v)!Whole(a) => Whole(a))
      BY <1>2, <2>2, StackVals
    <2>12. Keys(v)' \in {"off", "console"} /\ Asked(v) = vt[v].owner /\ Asked(v)' = u.owner
      BY LookVals_ DEF Asked
    <2>13. Stack(v)!Draw(a)
      BY <1>5, <2>9, <2>10, <2>11, <2>12 DEF Stack!Draw
    <2> QED
      BY <2>13, <2>6 DEF StackStep, Stack!Next
  <1> QED
    BY <1>6, <1>7, <1>8

LEMMA StackLeaves ==
    ASSUME Inv, NEW a \in Apps, Throws(a) \/ BackKd(a) \/ Crash(a), NEW v \in Vts
    PROVE  StackStep(v)
  <1>1. /\ VtTypes /\ TtyTypes /\ UnderTypes /\ OverTypes /\ Forget(a) /\ mutes' = mutes
        /\ pc[a] # "dead"
    BY TypesParts DEF Inv, Throws, BackKd, Crash, Step, kernelVars
  <1>2. PICK p \in {"none", "dead"} : pc' = [pc EXCEPT ![a] = p] /\ (p = "dead" <=> Crash(a))
    <2>1. Crash(a) => pc' = [pc EXCEPT ![a] = "dead"]
      BY DEF Crash
    <2>2. Throws(a) \/ BackKd(a) => pc' = [pc EXCEPT ![a] = "none"]
      BY DEF Throws, BackKd, Step
    <2>3. ~(Crash(a) /\ (Throws(a) \/ BackKd(a)))
      BY <1>1, <2>1, <2>2 DEF TtyTypes
    <2> QED
      BY <2>1, <2>2, <2>3
  <1>3. On(v)' = On(v) \ {a}
    BY <1>1, <1>2, ForgetTypes
  <1>4. \A b \in On(v) : b # a => under'[b] = under[b] \ {a}
    BY <1>1 DEF Forget, UnderTypes, On, Open
  <1>5. \A b \in On(v) : under[b] \subseteq On(v)
    BY <1>1 DEF UnderTypes, On, Open
  <1>6. Gone' = IF Crash(a) THEN Gone \cup {a} ELSE Gone
    BY <1>1, <1>2 DEF Gone, TtyTypes
  <1>7. CASE a \notin On(v)
    <2>1. vt'[v] = vt[v]
      <3>1. CASE BackKd(a)
        <4>1. a \in Open /\ v # file[a]
          BY <1>7, <3>1 DEF BackKd, Step, Open, On
        <4> QED
          BY <3>1, <4>1, PutBack
      <3> QED
        BY <3>1 DEF Throws, Crash
    <2>2. spoilt'[v] = spoilt[v]
      <3>1. CASE Throws(a) \/ BackKd(a)
        BY <3>1 DEF Throws, BackKd
      <3>2. CASE Crash(a)
        <4>1. spoilt'[v] = IF a \in On(v) /\ spoilt[v] = "no" THEN "crash" ELSE spoilt[v]
          BY <3>2, Zenon DEF Crash
        <4> QED
          BY <1>7, <4>1
      <3> QED
        BY <3>1, <3>2
    <2>3. On(v)' = On(v)
      BY <1>3, <1>7
    <2>4. ASSUME NEW b \in On(v) PROVE under'[b] = under[b] /\ over'[b] = over[b]
      <3>1. a \notin under[b] /\ b \in Apps \ {a}
        BY <1>5, <1>7 DEF On, Open
      <3>2. under'[b] = under[b] \ {a}
        BY <1>4, <3>1
      <3>3. over'[b] = over[b]
        <4>1. CASE Throws(a) \/ Crash(a)
          BY <1>1, <3>1, <4>1 DEF Throws, Crash, OverTypes
        <4>2. CASE BackKd(a)
          <5>1. a \in Open
            BY <4>2 DEF BackKd, Step, Open
          <5>2. b \notin under[a]
            BY <1>1, <1>7, <5>1 DEF UnderTypes, On, Open
          <5> QED
            BY <3>1, <4>2, <5>2 DEF BackKd
        <4> QED
          BY <4>1, <4>2
      <3> QED
        BY <3>1, <3>2, <3>3
    <2>5. CASE ~Crash(a)
      BY <1>6, <2>1, <2>2, <2>3, <2>4, <2>5, StackIdle
    <2>6. CASE Crash(a)
      <3>1. Beneath(v)' = Beneath(v) /\ Left(v)' = Left(v)
        BY <2>3, <2>4 DEF Beneath, Left
      <3>2. UNCHANGED <<Look(v), Asked(v), Keys(v), Spoilt(v)>>
        BY <2>1, <2>2 DEF Look, Asked, Keys, Spoilt
      <3>3. a \notin Stack(v)!There
        BY <1>7 DEF Stack!There, Beneath
      <3>4. Stack(v)!Exit(a)
        BY <1>6, <2>6, <3>1, <3>2, <3>3 DEF Stack!Exit
      <3> QED
        BY <3>4 DEF StackStep, Stack!Next
    <2> QED
      BY <2>5, <2>6
  <1>8. CASE a \in On(v) /\ spoilt'[v] # "no"
    BY <1>8, StackSpoilt
  <1>9. CASE a \in On(v) /\ spoilt'[v] = "no"
    <2>1. ~Crash(a)
      <3> SUFFICES ASSUME Crash(a) PROVE FALSE
        OBVIOUS
      <3>1. spoilt'[v] = IF a \in On(v) /\ spoilt[v] = "no" THEN "crash" ELSE spoilt[v]
        BY Zenon DEF Crash
      <3> QED
        BY <1>9, <3>1
    <2>2. a \in Open /\ v = file[a]
      BY <1>9 DEF On
    <2>3. /\ spoilt[v] = "no" /\ Newest(a)
          /\ under[a] = {} => Console(vt[v])'
          /\ \A b \in Below(a) : Kept(b, vt[v])'
      BY <1>9, <2>1, <2>2, PutBack
    <2>4. \A b \in On(v) \ {a} : b \in under[a] /\ a \notin under[b] /\ b \in Apps \ {a}
      BY <1>9, <2>2, <2>3 DEF Inv, Ordered, Newest, On, Open
    <2>5. under[a] = {} <=> On(v) = {a}
      BY <1>1, <1>9, <2>2, <2>4 DEF UnderTypes
    <2>6. Beneath(v)' = [b \in On(v) \ {a} |-> Beneath(v)[b]]
      <3>1. \A b \in On(v) \ {a} : under'[b] = under[b]
        <4> TAKE b \in On(v) \ {a}
        <4>1. a \notin under[b] /\ under'[b] = under[b] \ {a}
          BY <1>4, <2>4
        <4> QED
          BY <4>1
      <3> QED
        BY <1>3, <3>1 DEF Beneath
    <2>7. Spoilt(v) = FALSE /\ Spoilt(v)' = FALSE /\ Stack(v)!There = On(v) /\ Gone' = Gone
      BY <1>6, <1>9, <2>1, <2>3 DEF Spoilt, Beneath, Stack!There
    <2>8. On(v) = {a} => Look(v)' = "console" /\ Asked(v)' = None /\ Keys(v)' = "console"
      BY <2>3, <2>5, LookVals_ DEF Console, Asked
    <2>9. \A b \in On(v) \ {a} : over'[b] = over[b] \/ (BackKd(a) /\ over'[b] = over[b] \cup {a})
      <3>1. CASE Throws(a)
        BY <1>1, <2>4, <3>1 DEF Throws, OverTypes
      <3>2. CASE BackKd(a)
        BY <2>4, <3>2 DEF BackKd
      <3> QED
        BY <2>1, <3>1, <3>2
    <2>10. \A b \in On(v) \ {a} : (Whole(b) => Whole(b)') /\ Left(v)'[b] = over'[b]
      <3> TAKE b \in On(v) \ {a}
      <3>1. pc'[a] # "dead"
        BY <1>1, <1>2, <2>1 DEF TtyTypes
      <3>2. over[b] \subseteq Apps /\ over'[b] \subseteq over[b] \cup {a}
        BY <1>1, <2>4, <2>9 DEF OverTypes
      <3>3. \A c \in Apps \ {a} : pc'[c] = pc[c]
        BY <1>1, <1>2 DEF TtyTypes
      <3> QED
        BY <1>3, <3>1, <3>2, <3>3 DEF Whole, Left
    <2>11. ASSUME NEW w \in Stack(v)!There, Stack(v)!JustBeneath(w, a)
           PROVE  /\ Stack(v)!Whole(w) => Look(v)' = "drawn" /\ Asked(v)' \in Left(v)'[w] \cup {w}
                  /\ Left(v)'[w] = {} => Asked(v)' = w /\ Keys(v)' = "off"
      <3>1. w \in Below(a) /\ w \in On(v) \ {a}
        BY <1>1, <1>9, <2>2, <2>7, <2>11, StackVals DEF Below, UnderTypes
      <3>2. Kept(w, vt[v])' /\ (Stack(v)!Whole(w) => Whole(w)') /\ Left(v)'[w] = over'[w]
        BY <1>1, <2>3, <2>10, <3>1, StackVals
      <3>3. Stack(v)!Whole(w) => Look(v)' = "drawn" /\ Asked(v)' \in Left(v)'[w] \cup {w}
        BY <3>2, LookVals_ DEF Kept, Asked
      <3>4. over'[w] = {} => Whole(w)'
        BY DEF Whole
      <3>5. UpKb' = IF mutes THEN "xlate" ELSE "off"
        BY <1>1 DEF UpKb
      <3>6. over'[w] = {} => Keys(v)' = "off"
        BY <1>1, <3>2, <3>4, <3>5, LookVals_ DEF Kept
      <3> QED
        BY <3>2, <3>3, <3>6 DEF Kept, Asked
    <2>12. Stack(v)!GiveBack(a)
      BY <1>1, <1>9, <2>3, <2>6, <2>7, <2>8, <2>11, StackVals DEF Stack!GiveBack
    <2>13. CASE Throws(a)
      <3>1. Left(v)' = [b \in On(v) \ {a} |-> Left(v)[b]]
        <4>1. \A b \in On(v) \ {a} : over'[b] = over[b]
          BY <1>1, <2>4, <2>13 DEF Throws, OverTypes
        <4> QED
          BY <1>3, <4>1 DEF Left
      <3>2. UNCHANGED <<Look(v), Asked(v), Keys(v)>>
        BY <2>13 DEF Throws, Look, Asked, Keys
      <3>3. Stack(v)!Fail(a)
        BY <2>7, <2>12, <3>1, <3>2 DEF Stack!Fail
      <3> QED
        BY <3>3 DEF StackStep, Stack!Next
    <2>14. CASE BackKd(a)
      <3>1. Left(v)' = [b \in On(v) \ {a} |-> Left(v)[b] \cup {a}]
        <4>1. \A b \in On(v) \ {a} : over'[b] = over[b] \cup {a}
          BY <2>4, <2>14 DEF BackKd
        <4> QED
          BY <1>3, <4>1 DEF Left
      <3>2. Stack(v)!Leave(a)
        BY <2>7, <2>12, <3>1 DEF Stack!Leave
      <3> QED
        BY <3>2 DEF StackStep, Stack!Next
    <2> QED
      BY <2>1, <2>13, <2>14
  <1> QED
    BY <1>7, <1>8, <1>9

LEMMA StackReset ==
    ASSUME Inv, Reset, NEW v \in Vts
    PROVE  StackStep(v)
  <1>1. UNCHANGED <<mutes, pc, file, under, over>> /\ VtTypes
    BY TypesParts DEF Reset, Inv
  <1>2. On(v)' = On(v) /\ Gone' = Gone
    BY <1>1 DEF On, Open, Gone
  <1>3. CASE v # fg
    BY <1>1, <1>2, <1>3, ResetVals, StackIdle
  <1>4. CASE v = fg /\ spoilt'[v] # "no"
    <2>1. spoilt[v] # "no" \/ On(v) # {}
      BY <1>4, Taken
    <2> QED
      BY <1>4, <2>1, StackSpoilt
  <1>5. CASE v = fg /\ spoilt'[v] = "no"
    <2>1. Look(v)' = "console" /\ Asked(v)' = None
      BY <1>1, <1>5, ResetVals, LookVals_ DEF Asked
    <2>2. Beneath(v)' = Beneath(v) /\ Left(v)' = Left(v) /\ Spoilt(v)' = FALSE
      BY <1>1, <1>2, <1>5 DEF Beneath, Left, Spoilt
    <2>3. CASE spoilt[v] = "no"
      <3>1. Asked(v) \in Gone
        BY <1>5, <2>3, Taken DEF Asked
      <3>2. Keys(v)' \in {Keys(v), "console"}
        BY <1>1, <1>5, ResetVals DEF Keys
      <3>3. Spoilt(v) = FALSE
        BY <2>3 DEF Spoilt
      <3>4. Stack(v)!Take
        BY <1>2, <2>1, <2>2, <3>1, <3>2, <3>3 DEF Stack!Take
      <3> QED
        BY <3>4 DEF StackStep, Stack!Next
    <2>4. CASE spoilt[v] # "no"
      <3>1. On(v) = {} /\ ~vt'[v].muted
        BY <1>1, <1>5, <2>4, ResetVals
      <3>2. Keys(v)' = "console"
        BY <1>1, <1>5, <3>1, ResetVals, LookVals_
      <3>3. Spoilt(v) = TRUE /\ DOMAIN Beneath(v)' = {}
        BY <1>2, <2>4, <3>1 DEF Spoilt, Beneath
      <3>4. Stack(v)!Recover
        BY <2>1, <2>2, <3>2, <3>3 DEF Stack!Recover, Stack!There
      <3> QED
        BY <3>4 DEF StackStep, Stack!Next
    <2> QED
      BY <2>3, <2>4
  <1> QED
    BY <1>3, <1>4, <1>5

LEMMA StackNext == Inv /\ Inv' /\ [Next]_vars => [\A v \in Vts : StackStep(v)]_vars
  <1> SUFFICES ASSUME Inv, Inv', Next, NEW v \in Vts PROVE StackStep(v)
    OBVIOUS
  <1>1. TtyTypes /\ UnderTypes
    BY TypesParts DEF Inv
  <1>2. ASSUME NEW a \in Apps,
               \/ ReqVtFd(a) \/ get_cur_act_vt(a)
               \/ get_kd_mode(a) \/ get_vt_mode(a) \/ make_active(a) \/ WaitActive(a)
        PROVE  StackStep(v)
    <2>1. UNCHANGED <<vt, under, over, spoilt>>
      BY <1>2 DEF ReqVtFd, get_cur_act_vt, get_kd_mode, get_vt_mode, make_active, WaitActive, kernelVars
    <2>2. On(v)' = On(v)
      <3>1. CASE ReqVtFd(a) \/ get_cur_act_vt(a)
        <4>1. Open' = Open /\ a \notin Open
          BY <1>1, <3>1 DEF ReqVtFd, get_cur_act_vt, Step, Open, TtyTypes
        <4>2. \A b \in Open : file'[b] = file[b]
          BY <1>1, <3>1, <4>1 DEF ReqVtFd, get_cur_act_vt, Open, TtyTypes
        <4> QED
          BY <4>1, <4>2 DEF On
      <3>2. CASE get_kd_mode(a) \/ get_vt_mode(a) \/ make_active(a) \/ WaitActive(a)
        <4>1. a \in Open /\ UNCHANGED <<file, under>>
          BY <3>2 DEF get_kd_mode, get_vt_mode, make_active, WaitActive, Step, Open
        <4>2. PICK p \in OpenPcs : pc' = [pc EXCEPT ![a] = p]
          BY <3>2 DEF get_kd_mode, get_vt_mode, make_active, WaitActive, Step, OpenPcs
        <4> QED
          BY <1>1, <4>1, <4>2, MoveTypes
      <3> QED
        BY <1>2, <3>1, <3>2
    <2>3. Gone' = Gone
      BY <1>1, <1>2 DEF ReqVtFd, get_cur_act_vt, get_kd_mode, get_vt_mode, make_active, WaitActive,
                        Step, Gone, TtyTypes
    <2> QED
      BY <2>1, <2>2, <2>3, StackIdle
  <1>3. CASE (\E w \in Vts : Ask(w)) \/ Switch
    <2>1. UNCHANGED <<vt, pc, file, under, over, spoilt>>
      BY <1>3 DEF Ask, Switch
    <2>2. On(v)' = On(v) /\ Gone' = Gone
      BY <2>1 DEF On, Open, Gone
    <2> QED
      BY <2>1, <2>2, StackIdle
  <1> QED
    BY <1>2, <1>3, StackSaves, StackDraws, StackLeaves, StackReset DEF Next, Construct, Destruct

\* On every terminal, for any number of applications, Ttys stack: only the newest
\* changes its screen, its keys or who is asked; one that goes, or fails in its
\* constructor, gives the screen back to the one beneath it and all to the console
\* if there is none; and nothing is taken from one that has had no other over it
\* (Tty::Tty, Tty::~Tty).
THEOREM TtysStack == Spec => ImplementsStack
  <1>1. Init => \A v \in Vts : Stack(v)!Init
    <2> SUFFICES ASSUME Init, NEW v \in Vts PROVE Stack(v)!Init
      OBVIOUS
    <2>1. On(v) = {} /\ vt[v] = Text /\ spoilt[v] = "no" /\ Gone = {}
      BY DEF Init, On, Open, Gone
    <2>2. Look(v) = "console" /\ Asked(v) = None /\ Keys(v) = "console" /\ Spoilt(v) = FALSE
      BY <2>1 DEF Look, Asked, Keys, Text, Spoilt
    <2>3. Beneath(v) = [u \in {} |-> {}] /\ Left(v) = [u \in {} |-> {}]
      BY <2>1 DEF Beneath, Left
    <2> QED
      BY <2>1, <2>2, <2>3 DEF Stack!Init
  <1> QED
    BY <1>1, InvInit, InvNext, StackNext, PTL DEF Spec, ImplementsStack
==============================================================================
