---------------------------- MODULE GdevMgrProofs ----------------------------
(***************************************************************************)
(* Proofs about GdevMgr, for any number of cards, managers and connectors: *)
(* its types, its registrations, its vertical blanks, the numbers of       *)
(* connectors, and the screens that it leaves as it found them.            *)
(*                                                                         *)
(* Registrations, blanks and numbers do not depend on what crtcs show, so  *)
(* that Kinds, the types they use, leaves that out: Types has it.          *)
(***************************************************************************)
EXTENDS GdevMgr, FiniteSetTheorems, SequenceTheorems, WellFoundedInduction, TLAPS

----------------------------------------------------------------------------
(* Descriptor numbers and screens.                                          *)

\* Any set of numbers that is not empty has a lowest one.
LEMMA LowestNat ==
    ASSUME NEW S \in SUBSET Nat, S # {}
    PROVE  \E n \in S : \A m \in S : n <= m
  <1> DEFINE R == OpToRel(<, Nat)
  <1>1. IsWellFoundedOn(R, Nat)
    BY NatLessThanWellFounded
  <1>2. \A m, n \in Nat : m < n => <<m, n>> \in R
    BY Zenon DEF OpToRel
  <1> HIDE DEF R
  <1>3. PICK n \in S : \A m \in S : ~ (<<m, n>> \in R)
    BY <1>1, WFMin, Zenon
  <1>4. \A m \in S : ~ (m < n)
    BY <1>2, <1>3, Zenon
  <1>5. \A m \in S : n <= m
    BY <1>4
  <1> QED
    BY <1>5

\* The types that do not depend on what crtcs show.
Kinds ==
    /\ hw \in [Cards -> Hardware] /\ mgr \in Nat /\ con_id \in Nat
    /\ phase \in {"none", "loading", "ready", "crashed"}
    /\ mgr <= MaxMgrs /\ (phase # "none" => mgr > 0)
    /\ regs \in [Fds -> Files \cup {None}] /\ failed \in BOOLEAN
    /\ \A k \in Cards : Len(dev[k]) \in Nat /\ DOMAIN dev[k] = 1..Len(dev[k])
                        /\ (dev[k] = <<>> <=> Len(dev[k]) = 0)
    /\ todo \cap Loaded = {} /\ todo \subseteq Cards
    /\ phase \in {"none", "crashed"} => Loaded = {}
    /\ phase # "loading" => todo = {}

\* The descriptor numbers of the devices.
FdInv ==
    /\ fd \in [Cards -> Nat] /\ DOMAIN dev = Cards
    /\ \A k \in Cards : fd[k] \in IF k \in Loaded THEN Fds ELSE {0}
    /\ \A k, c \in Loaded : fd[k] = fd[c] => k = c

\* A device's registration, and nobody else's: see RegsAccounted.
RegInv == ~failed =>
    /\ \A f \in Fds : regs[f] = None <=> \A k \in Loaded : fd[k] # f
    /\ \A k \in Loaded : regs[fd[k]] = File(k)
    /\ poll = {File(k) : k \in Loaded}

\* A vertical blank was asked for through an earlier manager, or through the
\* one that lives or has just been destroyed.
AskedInv == \A a \in asked :
    /\ a.file \in [mgr : Nat, card : Cards]
    /\ a.file.mgr < mgr \/ (a.file.mgr = mgr /\ phase # "loading")
    /\ a.file \in poll =>
        /\ phase = "ready" /\ a.file.mgr = mgr
        /\ \E gcon \in ToSet(dev[a.file.card]) : gcon.id = a.id

\* The numbers given out are those below con_id, each once.
IdInv ==
    /\ \A k \in Cards : Len(dev[k]) <= con_id
    /\ \A k \in Cards : \A j \in 1..Len(dev[k]) : dev[k][j].id \in 0..con_id - 1
    /\ \A k, c \in Cards : \A i \in 1..Len(dev[k]), j \in 1..Len(dev[c]) :
           dev[k][i].id = dev[c][j].id => k = c /\ i = j
    /\ phase \in {"loading", "ready"} => \A n \in 0..con_id - 1 :
           \E k \in Cards : \E j \in 1..Len(dev[k]) : dev[k][j].id = n

IInv == Kinds /\ FdInv /\ RegInv /\ AskedInv /\ IdInv

\* As long as a device is left out, a descriptor number is free.
LEMMA FdFree ==
    ASSUME FdInv, NEW k \in Cards \ Loaded
    PROVE  LowestFd \in Fds /\ \A c \in Cards : fd[c] # LowestFd
  <1> DEFINE Free == {f \in Fds : \A c \in Cards : fd[c] # f}
  <1>1. IsFiniteSet(Cards) /\ Cardinality(Cards) \in Nat
    BY CardsAssumption, FS_CardinalityType
  <1>2. IsFiniteSet(Fds) /\ Cardinality(Fds) = Cardinality(Cards) /\ Fds \in SUBSET Nat
    BY <1>1, FS_Interval DEF Fds
  <1>3. Free # {}
    <2> SUFFICES ASSUME \A f \in Fds : \E c \in Cards : fd[c] = f PROVE FALSE
      OBVIOUS
    <2> DEFINE owner == [f \in Fds |-> CHOOSE c \in Cards : fd[c] = f]
    <2>1. \A f \in Fds : owner[f] \in Cards \ {k} /\ fd[owner[f]] = f
      BY DEF FdInv, Fds
    <2>2. owner \in [Fds -> Cards \ {k}]
      BY <2>1
    <2> HIDE DEF owner
    <2>3. /\ IsFiniteSet(Cards \ {k}) /\ Cardinality(Cards \ {k}) = Cardinality(Cards) - 1
      BY <1>1, FS_RemoveElement
    <2>4. Cardinality(Cards \ {k}) < Cardinality(Fds)
      BY <1>1, <1>2, <2>3
    <2>5. IsFiniteSet(Fds) /\ IsFiniteSet(Cards \ {k})
      BY <1>2, <2>3
    <2>6. \E f, g \in Fds : f # g /\ owner[f] = owner[g]
      BY <2>2, <2>4, <2>5, FS_PigeonHole
    <2> QED
      BY <2>1, <2>6
  <1>4. Free \in SUBSET Nat
    BY <1>2
  <1>5. PICK f \in Free : \A g \in Free : f <= g
    BY <1>3, <1>4, LowestNat
  <1>6. /\ f \in Fds /\ f \notin {fd[c] : c \in Cards}
        /\ \A g \in 1..f - 1 : g \in {fd[c] : c \in Cards}
    <2> SUFFICES ASSUME NEW g \in 1..f - 1 PROVE g \in {fd[c] : c \in Cards}
      BY <1>5
    <2>1. g \in Fds /\ g < f
      BY <1>1, <1>5 DEF Fds
    <2>2. g \notin Free
      BY <1>2, <1>5, <2>1
    <2> QED
      BY <2>1, <2>2
  <1>7. LowestFd \in Fds /\ LowestFd \notin {fd[c] : c \in Cards}
    BY <1>6 DEF LowestFd
  <1> QED
    BY <1>7

\* What is known of the screens of a card.
LEMMA ScreensSeq ==
    ASSUME NEW k \in Cards, hw \in [Cards -> Hardware]
    PROVE  \E n \in Nat : /\ DOMAIN Screens(k) = 1..n /\ Len(Screens(k)) = n
                          /\ DOMAIN Gcons(k) = 1..n /\ Len(Gcons(k)) = n
                          /\ \A j \in 1..n : Gcons(k)[j].id = FirstId + j - 1
                          /\ Screens(k) = <<>> <=> n = 0
                          /\ Gcons(k) = <<>> <=> n = 0
  <1> DEFINE n == Cardinality(Usable(k))
             pick(j) == CHOOSE i \in Usable(k) :
                            Cardinality({c \in Usable(k) : c < i}) = j - 1
             gcon(j) == [con |-> Screens(k)[j], crtc |-> get_crtc(k, Screens(k)[j]),
                         id |-> FirstId + j - 1,
                         saved |-> Saved(k, get_crtc(k, Screens(k)[j]))]
  <1>1. IsFiniteSet(Usable(k)) /\ n \in Nat
    <2>1. hw[k] \in Hardware
      OBVIOUS
    <2>2. DOMAIN hw[k].cons = 1..Len(hw[k].cons) /\ Len(hw[k].cons) \in Nat
      BY <2>1, HardwareAssumption
    <2>3. IsFiniteSet(DOMAIN hw[k].cons)
      BY <2>2, FS_Interval
    <2> QED
      BY <2>3, FS_Subset, FS_CardinalityType DEF Usable
  <1>2. Screens(k) = [j \in 1..n |-> pick(j)]
    BY DEF Screens
  <1> HIDE DEF n, pick
  <1>3. Screens(k) \in Seq({pick(j) : j \in 1..n}) /\ Len(Screens(k)) = n /\ DOMAIN Screens(k) = 1..n
    BY <1>1, <1>2
  <1>4. Gcons(k) = [j \in 1..n |-> gcon(j)]
    BY <1>3 DEF Gcons
  <1>5. \A j : gcon(j).id = FirstId + j - 1
    OBVIOUS
  <1> HIDE DEF gcon
  <1>6. Gcons(k) \in Seq({gcon(j) : j \in 1..n}) /\ Len(Gcons(k)) = n /\ DOMAIN Gcons(k) = 1..n
    BY <1>1, <1>4
  <1>7. (Screens(k) = <<>> <=> n = 0) /\ (Gcons(k) = <<>> <=> n = 0)
    BY <1>1, <1>3, <1>6
  <1> QED
    BY <1>1, <1>3, <1>4, <1>5, <1>6, <1>7
----------------------------------------------------------------------------
(* The steps.                                                               *)

\* No devices, as before a manager is constructed and after it is destroyed.
LEMMA Emptied ==
    ASSUME dev' = [k \in Cards |-> <<>>], fd' = [k \in Cards |-> 0], con_id' \in Nat,
           phase' \in {"none", "crashed"}
    PROVE  /\ Loaded' = {} /\ FdInv' /\ IdInv'
           /\ \A k \in Cards : /\ Len(dev'[k]) \in Nat /\ DOMAIN dev'[k] = 1..Len(dev'[k])
                               /\ dev'[k] = <<>> <=> Len(dev'[k]) = 0
  <1>1. \A k \in Cards : /\ Len(dev'[k]) = 0 /\ 1..Len(dev'[k]) = {} /\ dev'[k] = <<>>
                          /\ DOMAIN dev'[k] = {}
    OBVIOUS
  <1>2. Loaded' = {}
    BY DEF Loaded
  <1>3. \A k \in Cards : Len(dev'[k]) <= con_id' /\ \A j \in 1..Len(dev'[k]) : FALSE
    BY <1>1
  <1>4. IdInv'
    BY <1>3 DEF IdInv
  <1>5. FdInv'
    BY <1>2 DEF FdInv
  <1> QED
    BY <1>1, <1>2, <1>4, <1>5

\* Before the first manager.
LEMMA InvInit == Init => IInv
  <1> SUFFICES ASSUME Init PROVE IInv
    OBVIOUS
  <1>1. \A k \in Cards : /\ Len(dev[k]) = 0 /\ 1..Len(dev[k]) = {} /\ dev[k] = <<>>
                          /\ DOMAIN dev[k] = {}
    BY DEF Init
  <1>2. Loaded = {}
    BY <1>1 DEF Loaded
  <1>3. \A k \in Cards : Len(dev[k]) <= con_id /\ \A j \in 1..Len(dev[k]) : FALSE
    BY <1>1 DEF Init
  <1>4. IdInv
    BY <1>3 DEF IdInv, Init
  <1>5. Kinds
    <2>1. phase = "none" /\ mgr = 0 /\ MaxMgrs \in Nat /\ regs \in [Fds -> {None}]
      BY NumbersAssumption DEF Init
    <2>2. regs \in [Fds -> Files \cup {None}]
      BY <2>1
    <2>3. \A k \in Cards : /\ Len(dev[k]) \in Nat /\ DOMAIN dev[k] = 1..Len(dev[k])
                           /\ (dev[k] = <<>> <=> Len(dev[k]) = 0)
      BY <1>1
    <2>4. hw \in [Cards -> Hardware] /\ con_id \in Nat /\ failed \in BOOLEAN /\ todo = {}
      BY DEF Init
    <2>5. mgr \in Nat /\ mgr <= MaxMgrs
      BY <2>1
    <2>6. todo \cap Loaded = {} /\ todo \subseteq Cards
      BY <2>4
    <2> QED
      BY <1>2, <2>1, <2>2, <2>3, <2>4, <2>5, <2>6 DEF Kinds
  <1>6. FdInv
    BY <1>2 DEF Init, FdInv
  <1>7. RegInv /\ AskedInv
    BY <1>2 DEF Init, RegInv, AskedInv
  <1> QED
    BY <1>4, <1>5, <1>6, <1>7 DEF IInv

\* A manager is constructed; those before it are gone.
LEMMA ConstructKeeps == IInv /\ Construct => IInv'
  <1> SUFFICES ASSUME IInv, Construct PROVE IInv'
    OBVIOUS
  <1>1. Loaded = {} /\ Loaded' = {}
    BY DEF Construct, IInv, Kinds, Loaded
  <1>2. \A k \in Cards : Len(dev[k]) = 0 /\ dev'[k] = dev[k]
    BY <1>1 DEF Construct, IInv, Kinds, Loaded
  <1>3. Kinds'
    BY <1>1, NumbersAssumption DEF Construct, IInv, Kinds, pollVars, Fds, Files
  <1>6. FdInv'
    BY <1>1 DEF Construct, IInv, FdInv, Fds
  <1>7. RegInv'
    BY <1>1 DEF Construct, IInv, RegInv, pollVars, Fds
  <1>4. AskedInv'
    BY DEF Construct, IInv, Kinds, AskedInv, pollVars
  <1>5. IdInv'
    BY <1>2 DEF Construct, IdInv
  <1> QED
    BY <1>3, <1>4, <1>5, <1>6, <1>7 DEF IInv

\* A step that leaves the devices alone.
LEMMA DevsKept ==
    ASSUME IInv, UNCHANGED <<hw, mgr, con_id, dev, fd, regs, poll, failed>>,
           todo' \subseteq todo, asked' = asked,
           phase' = phase \/ (phase = "loading" /\ phase' = "ready" /\ todo' = {})
    PROVE  IInv'
  <1>1. Loaded' = Loaded /\ \A k : File(k)' = File(k)
    BY DEF Loaded, File
  <1>2. Kinds'
    BY <1>1 DEF IInv, Kinds, Fds, Files
  <1>3. FdInv' /\ RegInv'
    BY <1>1 DEF IInv, FdInv, RegInv, Fds
  <1>4. AskedInv' /\ IdInv'
    BY DEF IInv, AskedInv, IdInv
  <1> QED
    BY <1>2, <1>3, <1>4 DEF IInv

\* A vertical blank is asked for, or comes.
LEMMA BlankKeeps ==
    ASSUME IInv, UNCHANGED <<hw, appVars, regs, poll>>,
           \A a \in asked' : a \in asked \/ (\E k \in Cards : \E gcon \in ToSet(dev[k]) :
               schedule_vblank(k, gcon) /\ a = [file |-> File(k), id |-> gcon.id])
    PROVE  IInv'
  <1>1. Loaded' = Loaded /\ \A k : File(k)' = File(k)
    BY DEF Loaded, File, appVars
  <1>2. ASSUME NEW k \in Cards, NEW gcon \in ToSet(dev[k]), schedule_vblank(k, gcon),
               NEW a, a = [file |-> File(k), id |-> gcon.id]
        PROVE  /\ a.file \in [mgr : Nat, card : Cards] /\ a.file.mgr = mgr /\ phase = "ready"
               /\ a.file.card = k /\ a.id = gcon.id
    BY <1>2 DEF File, IInv, Kinds, schedule_vblank
  <1>3. AskedInv'
    BY <1>2 DEF IInv, AskedInv, appVars
  <1>4. UNCHANGED <<hw, phase, mgr, todo, con_id, dev, fd, regs, poll, failed>>
    BY DEF appVars
  <1>5. Kinds'
    BY <1>1, <1>4 DEF IInv, Kinds, Fds, Files
  <1>6. FdInv' /\ RegInv'
    BY <1>1, <1>4 DEF IInv, FdInv, RegInv, Fds
  <1>7. IdInv'
    BY <1>4 DEF IInv, IdInv
  <1> QED
    BY <1>3, <1>5, <1>6, <1>7 DEF IInv

\* A device is registered and comes to devs.
LEMMA AddDevKeeps ==
    ASSUME IInv, NEW k \in Cards, AddDev(k)
    PROVE  IInv'
  <1>0. Kinds /\ FdInv /\ RegInv /\ AskedInv /\ IdInv /\ phase = "loading" /\ phase' = phase
    BY DEF IInv, AddDev, Loading
  <1>1. k \notin Loaded /\ k \in todo /\ dev[k] = <<>> /\ Len(dev[k]) = 0
    BY DEF AddDev, Loading, IInv, Kinds, Loaded
  <1>2. LowestFd \in Fds /\ \A c \in Cards : fd[c] # LowestFd
    BY <1>0, <1>1, FdFree
  <1>3. PICK n \in Nat : /\ DOMAIN Screens(k) = 1..n /\ Len(Screens(k)) = n
                         /\ DOMAIN Gcons(k) = 1..n /\ Len(Gcons(k)) = n
                         /\ \A j \in 1..n : Gcons(k)[j].id = FirstId + j - 1
                         /\ Screens(k) = <<>> <=> n = 0
                         /\ Gcons(k) = <<>> <=> n = 0
    BY <1>0, ScreensSeq DEF Kinds
  <1> DEFINE gs == Gcons(k)
             lf == LowestFd
  <1>4. /\ dev' = [dev EXCEPT ![k] = gs] /\ con_id' = con_id + n
        /\ fd' = [fd EXCEPT ![k] = lf] /\ Register(lf, File(k))
        /\ todo' = todo \ {k} /\ UNCHANGED <<hw, phase, mgr, asked, failed>> /\ n # 0
    BY <1>3 DEF AddDev
  <1>5. /\ DOMAIN gs = 1..n /\ Len(gs) = n /\ gs # <<>>
        /\ \A j \in 1..n : gs[j].id = con_id + j - 1
    BY <1>3, <1>4 DEF FirstId
  <1> HIDE DEF gs, lf
  <1>6. /\ \A c \in Cards : dev'[c] = IF c = k THEN gs ELSE dev[c]
        /\ \A c \in Cards : fd'[c] = IF c = k THEN lf ELSE fd[c]
        /\ DOMAIN dev' = Cards
    BY <1>0, <1>4 DEF FdInv
  <1>7. Loaded' = Loaded \cup {k} /\ \A c : File(c)' = File(c)
    BY <1>4, <1>5, <1>6 DEF Loaded, File
  <1>8. lf \in Fds /\ \A c \in Cards : fd[c] # lf
    BY <1>2 DEF lf
  <1>9. FdInv'
    <2>1. Fds \subseteq Nat /\ Fds' = Fds
      BY CardsAssumption, FS_CardinalityType DEF Fds
    <2>2. fd' \in [Cards -> Nat]
      BY <1>0, <1>4, <1>8, <2>1 DEF FdInv
    <2>3. \A c \in Cards : fd'[c] \in IF c \in Loaded' THEN Fds ELSE {0}
      BY <1>0, <1>6, <1>7, <1>8 DEF FdInv
    <2>4. Loaded \subseteq Cards
      BY DEF Loaded
    <2>5. \A b, c \in Loaded' : fd'[b] = fd'[c] => b = c
      BY <1>0, <1>1, <1>6, <1>7, <1>8, <2>4 DEF FdInv
    <2> QED
      BY <1>6, <2>1, <2>2, <2>3, <2>5 DEF FdInv
  <1>10. RegInv'
    <2> SUFFICES ASSUME ~failed
                 PROVE  /\ \A f \in Fds : regs'[f] = None <=> \A c \in Loaded' : fd'[c] # f
                        /\ \A c \in Loaded' : regs'[fd'[c]] = File(c)
                        /\ poll' = {File(c) : c \in Loaded'}
      BY <1>4, <1>7 DEF RegInv
    <2>1. /\ \A f \in Fds : regs[f] = None <=> \A c \in Loaded : fd[c] # f
          /\ \A c \in Loaded : regs[fd[c]] = File(c) /\ c \in Cards /\ fd[c] \in Fds
          /\ poll = {File(c) : c \in Loaded}
      BY <1>0 DEF RegInv, Loaded, FdInv
    <2>2. regs[lf] = None
      BY <1>8, <2>1
    <2>3. regs' = [regs EXCEPT ![lf] = File(k)] /\ poll' = poll \cup {File(k)}
      BY <1>4, <2>2 DEF Register
    <2>4. \A f \in Fds : regs'[f] = IF f = lf THEN File(k) ELSE regs[f]
      BY <1>0, <2>3 DEF Kinds
    <2>5. File(k) # None
      BY <1>0, CardsAssumption DEF File, Kinds
    <2>6. poll' = {File(c) : c \in Loaded'}
      BY <1>7, <2>1, <2>3
    <2>7. \A c \in Loaded' : regs'[fd'[c]] = File(c)
      BY <1>1, <1>6, <1>7, <1>8, <2>1, <2>4
    <2>8. \A f \in Fds : regs'[f] = None <=> \A c \in Loaded' : fd'[c] # f
      BY <1>1, <1>6, <1>7, <1>8, <2>1, <2>4, <2>5
    <2> QED
      BY <2>6, <2>7, <2>8
  <1>11. AskedInv'
    <2>1. poll' \subseteq poll \cup {File(k)} /\ File(k).mgr = mgr
      BY <1>4 DEF Register, File
    <2>2. \A a \in asked : a.file.mgr < mgr /\ mgr \in Nat /\ a.file.mgr \in Nat
      BY <1>0 DEF AskedInv, Kinds
    <2>3. \A a \in asked : a.file # File(k)
      BY <2>1, <2>2
    <2> QED
      BY <1>0, <1>4, <2>1, <2>3 DEF AskedInv
  <1>12. Kinds'
    <2>1. regs' \in [Fds -> Files \cup {None}]
      <3>1. File(k) \in Files
        BY <1>0, NumbersAssumption DEF File, Files, Kinds
      <3> QED
        BY <1>0, <1>4, <3>1 DEF Register, Kinds
    <2>2. \A c \in Cards : /\ Len(dev'[c]) \in Nat /\ DOMAIN dev'[c] = 1..Len(dev'[c])
                           /\ (dev'[c] = <<>> <=> Len(dev'[c]) = 0)
      BY <1>0, <1>4, <1>5, <1>6 DEF Kinds
    <2> QED
      BY <1>0, <1>4, <1>7, <2>1, <2>2 DEF Kinds, Fds, Files
  <1>13. IdInv'
    <2>1. \A c \in Cards : /\ Len(dev[c]) \in Nat /\ Len(dev[c]) <= con_id
                           /\ \A j \in 1..Len(dev[c]) : dev[c][j].id \in 0..con_id - 1
      BY <1>0 DEF IdInv, Kinds
    <2>2. con_id \in Nat /\ con_id' = con_id + n
      BY <1>0, <1>4 DEF Kinds
    <2>3. \A c \in Cards : /\ Len(dev'[c]) <= con_id'
                           /\ \A j \in 1..Len(dev'[c]) : dev'[c][j].id \in 0..con_id' - 1
      BY <1>5, <1>6, <2>1, <2>2
    <2>4. ASSUME NEW b \in Cards, NEW c \in Cards, NEW i \in 1..Len(dev'[b]),
                 NEW j \in 1..Len(dev'[c]), dev'[b][i].id = dev'[c][j].id
          PROVE  b = c /\ i = j
      <3>1. CASE b = k /\ c = k
        BY <1>5, <1>6, <2>2, <2>4, <3>1
      <3>2. CASE b = k /\ c # k
        BY <1>5, <1>6, <2>1, <2>2, <2>4, <3>2
      <3>3. CASE b # k /\ c = k
        <4>1. dev'[b] = dev[b] /\ dev'[c] = gs
          BY <1>6, <3>3
        <4>2. i \in 1..Len(dev[b]) /\ dev[b][i].id \in 0..con_id - 1
          BY <2>1, <4>1
        <4>3. j \in 1..n /\ gs[j].id = con_id + j - 1
          BY <1>5, <4>1
        <4>4. con_id + j - 1 \notin 0..con_id - 1
          BY <2>2, <4>3
        <4> QED
          BY <2>4, <4>1, <4>2, <4>3, <4>4
      <3>4. CASE b # k /\ c # k
        <4>1. dev'[b] = dev[b] /\ dev'[c] = dev[c]
          BY <1>6, <3>4
        <4>2. i \in 1..Len(dev[b]) /\ j \in 1..Len(dev[c]) /\ dev[b][i].id = dev[c][j].id
          BY <2>4, <4>1
        <4>3. \A x, y \in Cards : \A u \in 1..Len(dev[x]), v \in 1..Len(dev[y]) :
                  dev[x][u].id = dev[y][v].id => x = y /\ u = v
          BY <1>0 DEF IdInv
        <4> QED
          BY <4>2, <4>3, Zenon
      <3> QED
        BY <3>1, <3>2, <3>3, <3>4
    <2>5. ASSUME NEW m \in 0..con_id' - 1
          PROVE  \E c \in Cards : \E j \in 1..Len(dev'[c]) : dev'[c][j].id = m
      <3>1. CASE m < con_id
        <4>1. PICK c \in Cards : \E j \in 1..Len(dev[c]) : dev[c][j].id = m
          <5>1. m \in 0..con_id - 1
            BY <2>2, <3>1
          <5> QED
            BY <1>0, <5>1 DEF IdInv
        <4>2. c # k
          BY <1>1, <4>1
        <4> QED
          BY <1>6, <4>1, <4>2
      <3>2. CASE ~(m < con_id)
        <4>1. (m - con_id) + 1 \in 1..n /\ con_id + ((m - con_id) + 1) - 1 = m
          BY <2>2, <3>2
        <4>2. gs[(m - con_id) + 1].id = m /\ dev'[k] = gs /\ Len(dev'[k]) = n
          BY <1>5, <1>6, <4>1
        <4> QED
          BY <4>1, <4>2
      <3> QED
        BY <3>1, <3>2
    <2> QED
      BY <2>3, <2>4, <2>5 DEF IdInv
  <1> QED
    BY <1>9, <1>10, <1>11, <1>12, <1>13 DEF IInv

\* The application crashes: nothing of it is left.
LEMMA CrashKeeps ==
    ASSUME IInv, NEW k \in Cards, NoScreens(k)
    PROVE  IInv'
  <1>1. /\ Loaded' = {} /\ FdInv' /\ IdInv'
        /\ \A c \in Cards : /\ Len(dev'[c]) \in Nat /\ DOMAIN dev'[c] = 1..Len(dev'[c])
                            /\ dev'[c] = <<>> <=> Len(dev'[c]) = 0
    BY Emptied DEF NoScreens, IInv, Kinds
  <1>2. Kinds'
    BY <1>1 DEF NoScreens, Loading, IInv, Kinds, Fds, Files
  <1>3. RegInv' /\ AskedInv'
    BY <1>1 DEF NoScreens, RegInv, AskedInv, Fds
  <1> QED
    BY <1>1, <1>2, <1>3 DEF IInv

\* A constructor throws.
LEMMA ThrowKeeps ==
    ASSUME IInv, NEW k \in Cards, ThrowEarly(k) \/ ThrowLate(k)
    PROVE  IInv'
  <1>1. PICK gcons : Throw(k, gcons) /\ phase = "loading"
    BY DEF ThrowEarly, ThrowLate, Loading
  <1>2. /\ Loaded' = {} /\ FdInv' /\ IdInv'
        /\ \A c \in Cards : /\ Len(dev'[c]) \in Nat /\ DOMAIN dev'[c] = 1..Len(dev'[c])
                            /\ dev'[c] = <<>> <=> Len(dev'[c]) = 0
    BY <1>1, Emptied DEF Throw, IInv, Kinds
  <1>3. /\ regs' \in [Fds -> Files \cup {None}]
        /\ poll' \subseteq poll \cup {File(k)}
    <2>1. File(k) \in Files
      BY <1>1, NumbersAssumption DEF IInv, Kinds, File, Files
    <2> QED
      BY <2>1 DEF ThrowEarly, ThrowLate, Register, IInv, Kinds
  <1>4. Kinds'
    BY <1>1, <1>2, <1>3 DEF Throw, IInv, Kinds, Fds, Files
  <1>5. AskedInv'
    <2>1. \A a \in asked : a.file.mgr < mgr /\ mgr \in Nat /\ a.file.mgr \in Nat
      BY <1>1 DEF IInv, AskedInv, Kinds
    <2>2. \A a \in asked : a.file \notin poll /\ a.file # File(k)
      BY <1>1, <2>1 DEF IInv, AskedInv, File
    <2> QED
      BY <1>1, <1>3, <2>1, <2>2 DEF Throw, IInv, AskedInv
  <1>6. RegInv'
    BY <1>1 DEF Throw, RegInv
  <1> QED
    BY <1>2, <1>4, <1>5, <1>6 DEF IInv

\* A manager is destroyed: what it registered is out of ep_regs and of the
\* epoll set.
LEMMA DestroyKeeps == IInv /\ Destroy => IInv'
  <1> SUFFICES ASSUME IInv, Destroy PROVE IInv'
    OBVIOUS
  <1>1. /\ Loaded' = {} /\ FdInv' /\ IdInv'
        /\ \A c \in Cards : /\ Len(dev'[c]) \in Nat /\ DOMAIN dev'[c] = 1..Len(dev'[c])
                            /\ dev'[c] = <<>> <=> Len(dev'[c]) = 0
    BY Emptied DEF Destroy, IInv, Kinds
  <1>2. Kinds'
    <2>1. \A f \in Fds : regs[f] \in Files \cup {None}
      BY DEF IInv, Kinds
    <2>2. regs' \in [Fds -> Files \cup {None}]
      BY <2>1 DEF Destroy, Unregistered
    <2>3. todo' \cap Loaded' = {} /\ todo' = {}
      BY <1>1 DEF Destroy, IInv, Kinds
    <2> QED
      BY <1>1, <2>2, <2>3 DEF Destroy, IInv, Kinds, Fds, Files
  <1>3. AskedInv'
    <2>1. ASSUME NEW a \in asked, a.file \in poll PROVE a.file \in {File(k) : k \in Loaded}
      <3>1. /\ a.file \in [mgr : Nat, card : Cards] /\ a.file.mgr = mgr
            /\ \E gcon \in ToSet(dev[a.file.card]) : gcon.id = a.id
        BY <2>1 DEF IInv, AskedInv
      <3>2. a.file.card \in Loaded /\ a.file = File(a.file.card)
        BY <3>1 DEF Loaded, File, ToSet
      <3> QED
        BY <3>2
    <2> QED
      BY <2>1 DEF Destroy, Unpolled, IInv, AskedInv
  <1>4. RegInv'
    BY <1>1 DEF Destroy, Unpolled, Unregistered, IInv, RegInv, Fds
  <1> QED
    BY <1>1, <1>2, <1>3, <1>4 DEF IInv

\* The kernel polls a file no longer.
LEMMA CloseKeeps ==
    ASSUME IInv, NEW file \in poll, LastClose(file)
    PROVE  IInv'
  <1>1. Loaded' = Loaded /\ \A k : File(k)' = File(k)
    BY DEF LastClose, Loaded, File, appVars
  <1>2. RegInv'
    BY <1>1 DEF LastClose, IInv, RegInv, File, Loaded, appVars
  <1>3. AskedInv'
    BY DEF LastClose, IInv, AskedInv, appVars
  <1> QED
    BY <1>1, <1>2, <1>3 DEF LastClose, IInv, Kinds, FdInv, IdInv, appVars

LEMMA InvNext == IInv /\ [Next]_vars => IInv'
  <1> SUFFICES ASSUME IInv, [Next]_vars PROVE IInv'
    OBVIOUS
  <1>1. CASE Constructed \/ (\E k \in Cards : RefusedDev(k)) \/ UNCHANGED vars
    BY <1>1, DevsKept DEF Constructed, RefusedDev, Loading, vars, appVars, pollVars
  <1>2. CASE \E k \in Cards : \E gcon \in ToSet(dev[k]) : SetCrtc(k, gcon)
    BY <1>2, DevsKept DEF SetCrtc, appVars, pollVars
  <1>3. CASE \E k \in Cards : \E gcon \in ToSet(dev[k]) : schedule_vblank(k, gcon)
    BY <1>3, BlankKeeps DEF schedule_vblank
  <1>4. CASE \E a \in asked : process_event(a)
    BY <1>4, BlankKeeps DEF process_event
  <1> QED
    BY <1>1, <1>2, <1>3, <1>4, ConstructKeeps, AddDevKeeps, CrashKeeps, ThrowKeeps,
       DestroyKeeps, CloseKeeps DEF Next

----------------------------------------------------------------------------
(* What follows.                                                            *)

\* While no constructor has thrown, ep_regs and the epoll set are those of the
\* devices of the manager that lives, for any number of managers in turn.
THEOREM RegistrationsAccounted == Spec => []RegsAccounted
  <1>1. IInv => RegsAccounted
    BY DEF IInv, RegInv, RegsAccounted
  <1> QED
    BY <1>1, InvInit, InvNext, PTL DEF Spec

\* No vertical blank is delivered to a manager or a Gcon that is gone.
THEOREM EventsLive == Spec => []EventsReachLive
  <1>1. IInv => EventsReachLive
    BY DEF IInv, AskedInv, EventsReachLive
  <1> QED
    BY <1>1, InvInit, InvNext, PTL DEF Spec

\* A set that is mapped one to one on a finite set has its size.
LEMMA Counted ==
    ASSUME NEW S, NEW T, IsFiniteSet(T), NEW f \in Bijection(S, T)
    PROVE  Cardinality(S) = Cardinality(T)
  <1> DEFINE g == [t \in T |-> CHOOSE s \in S : f[s] = t]
  <1>1. f \in [S -> T] /\ (\A s, r \in S : f[s] = f[r] => s = r) /\ \A t \in T : \E s \in S : f[s] = t
    BY DEF Bijection, Injection, Surjection, IsInjective
  <1>2. \A t \in T : g[t] \in S /\ f[g[t]] = t
    BY <1>1
  <1>3. g \in [T -> S]
    BY <1>2
  <1> HIDE DEF g
  <1>4. \A s \in S : f[s] \in T /\ g[f[s]] = s
    BY <1>1, <1>2
  <1>5. g \in Bijection(T, S)
    BY <1>2, <1>3, <1>4 DEF Bijection, Injection, Surjection, IsInjective
  <1>6. ExistsBijection(T, S)
    BY <1>5 DEF ExistsBijection
  <1> QED
    BY <1>6, FS_Bijection

\* Connectors are numbered from 0 on without a gap, through all devices.
THEOREM NumbersContiguous == Spec => []IdsContiguous
  <1>1. IInv => IdsContiguous
    <2> SUFFICES ASSUME IInv PROVE IdsContiguous
      OBVIOUS
    <2> DEFINE gcons == {p \in Cards \X (1..con_id) : p[2] \in DOMAIN dev[p[1]]}
               ids == {dev[p[1]][p[2]].id : p \in gcons}
               number == [p \in gcons |-> dev[p[1]][p[2]].id]
    <2>1. con_id \in Nat /\ \A k \in Cards : Len(dev[k]) <= con_id /\ Len(dev[k]) \in Nat
                         /\ DOMAIN dev[k] = 1..Len(dev[k])
      BY DEF IInv, Kinds, IdInv
    <2>2. \A p \in gcons : p[1] \in Cards /\ p[2] \in 1..Len(dev[p[1]]) /\ p = <<p[1], p[2]>>
      BY <2>1
    <2>3. \A k \in Cards : \A j \in 1..Len(dev[k]) : <<k, j>> \in gcons
      BY <2>1
    <2>4. CASE phase \in {"loading", "ready"}
      <3>1. \A p \in gcons : number[p] = dev[p[1]][p[2]].id /\ number[p] \in 0..con_id - 1
        BY <2>2 DEF IInv, IdInv
      <3>2. \A p, q \in gcons : number[p] = number[q] => p = q
        BY <2>2, <3>1 DEF IInv, IdInv
      <3>3. \A n \in 0..con_id - 1 : \E p \in gcons : number[p] = n
        <4> TAKE n \in 0..con_id - 1
        <4>1. PICK k \in Cards : \E j \in 1..Len(dev[k]) : dev[k][j].id = n
          BY <2>4 DEF IInv, IdInv
        <4>2. PICK j \in 1..Len(dev[k]) : dev[k][j].id = n
          BY <4>1
        <4> QED
          BY <2>3, <3>1, <4>2
      <3>4. ids = 0..con_id - 1
        BY <3>1, <3>3
      <3> HIDE DEF gcons, ids
      <3>5. /\ number \in [gcons -> 0..con_id - 1] /\ IsInjective(number)
            /\ number \in Surjection(gcons, 0..con_id - 1)
        BY <3>1, <3>2, <3>3 DEF IsInjective, Surjection
      <3> HIDE DEF number
      <3>6. number \in Bijection(gcons, 0..con_id - 1)
        BY <3>5 DEF Bijection, Injection
      <3>7. IsFiniteSet(0..con_id - 1) /\ Cardinality(0..con_id - 1) = con_id
        BY <2>1, FS_Interval
      <3>8. Cardinality(gcons) = con_id
        BY <3>6, <3>7, Counted
      <3> QED
        BY <2>1, <3>4, <3>8 DEF IdsContiguous, gcons, ids
    <2>5. CASE phase \notin {"loading", "ready"}
      <3>1. \A k \in Cards : Len(dev[k]) = 0
        BY <2>5 DEF IInv, Kinds, Loaded
      <3>2. gcons = {}
        BY <2>1, <3>1
      <3>3. Cardinality(gcons) = 0
        BY <3>2, FS_EmptySet
      <3>4. ids = {} /\ 0..0 - 1 = {}
        BY <3>2
      <3> HIDE DEF gcons, ids
      <3>5. ids = 0..Cardinality(gcons) - 1
        BY <3>3, <3>4
      <3> QED
        BY <2>1, <3>5 DEF IdsContiguous, gcons, ids
    <2> QED
      BY <2>4, <2>5
  <1> QED
    BY <1>1, InvInit, InvNext, PTL DEF Spec

----------------------------------------------------------------------------
(* Lowest elements, ranks and ~Gdev's loop.                                 *)

\* The elements of a finite set of numbers are told apart by how many of the
\* set are below them, which is each number below its size.
LEMMA Ranked ==
    ASSUME NEW S \in SUBSET Nat, IsFiniteSet(S)
    PROVE  /\ Cardinality(S) \in Nat
           /\ \A j \in 1..Cardinality(S) : \E i \in S : Cardinality({c \in S : c < i}) = j - 1
           /\ \A i, j \in S : Cardinality({c \in S : c < i}) = Cardinality({c \in S : c < j})
                                  => i = j
  <1> DEFINE below(i) == {c \in S : c < i}
             n == Cardinality(S)
             rank == [i \in S |-> Cardinality(below(i))]
  <1>1. n \in Nat
    BY FS_CardinalityType
  <1>2. \A i \in S : IsFiniteSet(below(i)) /\ Cardinality(below(i)) \in Nat
    BY FS_Subset, FS_CardinalityType
  <1>3. ASSUME NEW i \in S PROVE Cardinality(below(i)) < n
    <2>1. below(i) \in SUBSET S /\ below(i) # S
      OBVIOUS
    <2>2. Cardinality(below(i)) <= n /\ Cardinality(below(i)) # n
      BY <2>1, FS_Subset
    <2> QED
      BY <1>1, <1>2, <2>2
  <1>4. ASSUME NEW i \in S, NEW j \in S, i < j
        PROVE  Cardinality(below(i)) < Cardinality(below(j))
    <2>1. i \in below(j) /\ i \notin below(i)
      BY <1>4
    <2>2. below(i) \in SUBSET below(j)
      <3>1. \A c \in S : c < i => c < j
        BY <1>4
      <3> QED
        BY <3>1
    <2> HIDE DEF below
    <2>3. /\ Cardinality(below(i)) <= Cardinality(below(j))
          /\ Cardinality(below(i)) # Cardinality(below(j))
      BY <1>2, <2>1, <2>2, FS_Subset
    <2> QED
      BY <1>2, <2>3
  <1> HIDE DEF below
  <1>5. ASSUME NEW i \in S, NEW j \in S, Cardinality(below(i)) = Cardinality(below(j))
        PROVE  i = j
    <2>1. ~ (i < j) /\ ~ (j < i)
      BY <1>2, <1>4, <1>5
    <2> QED
      BY <2>1
  <1>6. rank \in [S -> 0..n - 1] /\ IsInjective(rank)
    BY <1>1, <1>2, <1>3, <1>5 DEF IsInjective
  <1>7. IsFiniteSet(0..n - 1) /\ Cardinality(0..n - 1) = n
    <2>1. n - 1 \in Int /\ 0 \in Int /\ (0 > n - 1 => n = 0) /\ (n - 1) - 0 + 1 = n
      BY <1>1
    <2> HIDE DEF n
    <2> QED
      BY <2>1, FS_Interval
  <1>8. \A i \in S : rank[i] = Cardinality(below(i))
    OBVIOUS
  <1> HIDE DEF rank
  <1>9. rank \in Injection(S, 0..n - 1)
    BY <1>6 DEF Injection
  <1>10. rank \in Surjection(S, 0..n - 1)
    BY <1>7, <1>9, FS_Injection
  <1>11. ASSUME NEW j \in 1..n PROVE \E i \in S : Cardinality(below(i)) = j - 1
    <2>1. j - 1 \in 0..n - 1
      BY <1>1
    <2>2. PICK i \in S : rank[i] = j - 1
      BY <1>10, <2>1 DEF Surjection
    <2> QED
      BY <1>8, <2>2
  <1>12. \A j \in 1..n : \E i \in S : Cardinality(below(i)) = j - 1
    BY <1>11
  <1>13. \A i, j \in S : Cardinality(below(i)) = Cardinality(below(j)) => i = j
    BY <1>5
  <1> QED
    BY <1>1, <1>12, <1>13 DEF below

\* A set of pairs of numbers that is not empty has a first one, the first
\* components going before the second ones.
LEMMA LowestPair ==
    ASSUME NEW S \in SUBSET (Nat \X Nat), S # {}
    PROVE  \E p \in S : \A q \in S : p[1] < q[1] \/ (p[1] = q[1] /\ p[2] <= q[2])
  <1> DEFINE Lefts == {p[1] : p \in S}
  <1>1. Lefts \in SUBSET Nat /\ Lefts # {}
    OBVIOUS
  <1>2. PICK a \in Lefts : \A b \in Lefts : a <= b
    BY <1>1, LowestNat
  <1> DEFINE Rights == {p[2] : p \in {q \in S : q[1] = a}}
  <1>3. Rights \in SUBSET Nat /\ Rights # {}
    BY <1>2
  <1>4. PICK b \in Rights : \A c \in Rights : b <= c
    BY <1>3, LowestNat
  <1>5. PICK p \in S : p[1] = a /\ p[2] = b
    BY <1>4
  <1>6. ASSUME NEW q \in S PROVE p[1] < q[1] \/ (p[1] = q[1] /\ p[2] <= q[2])
    <2>1. q[1] \in Nat /\ q[2] \in Nat /\ a \in Nat /\ a <= q[1]
      BY <1>1, <1>2
    <2>2. q[1] = a => b <= q[2]
      BY <1>4
    <2> QED
      BY <1>5, <2>1, <2>2
  <1> QED
    BY <1>6

\* The recursive function of ~Gdev's loop exists, and is what its definition
\* says.
LEMMA RestoringDef ==
    ASSUME NEW l, NEW gcons, Len(gcons) \in Nat
    PROVE  Restoring(l, gcons) = [n \in 0..Len(gcons) |->
               IF n = 0 THEN l ELSE restore_saved_crtc(Restoring(l, gcons)[n - 1], gcons[n])]
  <1> DEFINE Upto(g, m) == g = [n \in 0..m |->
                 IF n = 0 THEN l ELSE restore_saved_crtc(g[n - 1], gcons[n])]
             S == {m \in 0..Len(gcons) : ~ \E g : Upto(g, m)}
  <1>1. S = {}
    <2> SUFFICES ASSUME S # {} PROVE FALSE
      OBVIOUS
    <2>0. S \in SUBSET Nat
      OBVIOUS
    <2>1. PICK m \in S : \A i \in S : m <= i
      BY <2>0, LowestNat
    <2>2. CASE m = 0
      <3>1. Upto([n \in 0..0 |-> l], 0)
        OBVIOUS
      <3> QED
        BY <2>1, <2>2, <3>1
    <2>3. CASE m # 0
      <3>0. m \in 1..Len(gcons) /\ ~ (m <= m - 1)
        BY <2>1, <2>3
      <3>1. m - 1 \in 0..Len(gcons) /\ m - 1 \notin S
        BY <2>1, <3>0
      <3>2. PICK g : Upto(g, m - 1)
        BY <3>1
      <3> DEFINE h == [n \in 0..m |->
                     IF n = m THEN restore_saved_crtc(g[m - 1], gcons[m]) ELSE g[n]]
      <3>3. \A n \in 0..m : n # m => n \in 0..m - 1
        BY <2>1
      <3>4. \A n \in 0..m : h[n] = IF n = 0 THEN l
                                   ELSE restore_saved_crtc(h[n - 1], gcons[n])
        BY <2>1, <2>3, <3>2, <3>3
      <3>5. Upto(h, m)
        BY <3>4
      <3> QED
        BY <2>1, <3>5
    <2> QED
      BY <2>2, <2>3
  <1>2. \E g : Upto(g, Len(gcons))
    BY <1>1
  <1>3. Restoring(l, gcons) = CHOOSE g : Upto(g, Len(gcons))
    BY DEF Restoring
  <1> QED
    BY <1>2, <1>3

\* The crtc chosen for a connector is one of the device.
LEMMA CrtcChosen ==
    ASSUME NEW k \in Cards, hw \in [Cards -> Hardware], NEW i \in DOMAIN hw[k].cons,
           get_crtc(k, i) # 0
    PROVE  get_crtc(k, i) \in ToSet(hw[k].crtcs) /\ get_crtc(k, i) \in CrtcIds
  <1> DEFINE con == hw[k].cons[i]
             crtcs == hw[k].crtcs
             free == {p \in (DOMAIN con.encs) \X (DOMAIN crtcs) :
                         crtcs[p[2]] \in con.encs[p[1]] \ InUse}
             first == CHOOSE p \in free : \A q \in free :
                          p[1] < q[1] \/ (p[1] = q[1] /\ p[2] <= q[2])
  <1>1. /\ crtcs \in Seq(CrtcIds) /\ con.encs \in Seq(SUBSET CrtcIds)
        /\ con.cur \in ToSet(crtcs) \cup {0}
    <2>1. hw[k] \in Hardware
      OBVIOUS
    <2>2. /\ hw[k].crtcs \in Seq(CrtcIds)
          /\ hw[k].cons \in Seq([on : BOOLEAN, cur : Nat, encs : Seq(SUBSET CrtcIds)])
          /\ hw[k].cons[i].cur \in ToSet(hw[k].crtcs) \cup {0}
      BY <2>1, HardwareAssumption
    <2> DEFINE cons == hw[k].cons
               Con == [on : BOOLEAN, cur : Nat, encs : Seq(SUBSET CrtcIds)]
    <2>3. cons[i] \in Con
      <3>1. cons \in Seq(Con) /\ i \in DOMAIN cons
        BY <2>2, Zenon
      <3> HIDE DEF cons, Con
      <3> QED
        BY <3>1
    <2>4. hw[k].cons[i].encs \in Seq(SUBSET CrtcIds)
      BY <2>3
    <2> QED
      BY <2>2, <2>4, Zenon
  <1>2. DOMAIN crtcs \subseteq Nat /\ DOMAIN con.encs \subseteq Nat
    BY <1>1
  <1>3. get_crtc(k, i) = IF con.cur \notin InUse \cup {0} THEN con.cur
                         ELSE IF free = {} THEN 0 ELSE crtcs[first[2]]
    BY DEF get_crtc
  <1>4. free \in SUBSET (Nat \X Nat)
    BY <1>2
  <1>5. free # {} => first \in free
    BY <1>4, LowestPair
  <1>6. \A p \in free : p[2] \in DOMAIN crtcs
    OBVIOUS
  <1> HIDE DEF first, free, con, crtcs
  <1>7. get_crtc(k, i) \in ToSet(crtcs)
    BY <1>1, <1>3, <1>5, <1>6 DEF ToSet
  <1>8. ToSet(crtcs) \subseteq CrtcIds
    BY <1>1 DEF ToSet
  <1> QED
    BY <1>7, <1>8 DEF crtcs

\* Each of a device's screens is a connector that has one.
LEMMA ScreenUsable ==
    ASSUME NEW k \in Cards, hw \in [Cards -> Hardware]
    PROVE  \A j \in DOMAIN Screens(k) :
               /\ Screens(k)[j] \in Usable(k) /\ Screens(k)[j] \in Nat \ {0}
               /\ Screens(k)[j] \in DOMAIN hw[k].cons
  <1> DEFINE rank(i) == Cardinality({c \in Usable(k) : c < i})
  <1>1. DOMAIN hw[k].cons = 1..Len(hw[k].cons) /\ Len(hw[k].cons) \in Nat
    <2>1. hw[k] \in Hardware
      OBVIOUS
    <2> QED
      BY <2>1, HardwareAssumption
  <1>2. IsFiniteSet(Usable(k)) /\ Usable(k) \in SUBSET Nat
    <2>1. IsFiniteSet(1..Len(hw[k].cons)) /\ Usable(k) \subseteq 1..Len(hw[k].cons)
      BY <1>1, FS_Interval DEF Usable
    <2> QED
      BY <2>1, FS_Subset
  <1>3. \A j \in 1..Cardinality(Usable(k)) : \E i \in Usable(k) : rank(i) = j - 1
    BY <1>2, Ranked
  <1>4. Screens(k) = [j \in 1..Cardinality(Usable(k)) |-> CHOOSE i \in Usable(k) : rank(i) = j - 1]
    BY DEF Screens
  <1> HIDE DEF rank
  <1>5. \A j \in DOMAIN Screens(k) : Screens(k)[j] \in Usable(k)
    BY <1>3, <1>4
  <1>6. \A i \in Usable(k) : i \in 1..Len(hw[k].cons)
    BY <1>1 DEF Usable
  <1> QED
    BY <1>1, <1>5, <1>6

----------------------------------------------------------------------------
(* Types.                                                                   *)

Shows == {"nothing", "before", "app"}
Lights == [CrtcIds -> [con : Nat, shows : Shows]]
GconType == [con : Nat, crtc : CrtcIds, id : Nat, saved : [con : Nat, shows : Shows]]

\* What drmModeSetCrtc leaves.
LEMMA DriveType ==
    ASSUME NEW l \in Lights, NEW x, NEW con \in Nat, NEW shows \in Shows
    PROVE  Drive(l, x, con, shows) \in Lights
  <1>1. Off \in [con : Nat, shows : Shows] /\ [con |-> con, shows |-> shows] \in [con : Nat, shows : Shows]
    BY DEF Off, Shows
  <1>2. \A y \in CrtcIds : l[y] \in [con : Nat, shows : Shows]
    BY DEF Lights
  <1> QED
    BY <1>1, <1>2 DEF Drive, Lights

LEMMA RestoreType ==
    ASSUME NEW l \in Lights, NEW gcon \in GconType
    PROVE  restore_saved_crtc(l, gcon) \in Lights
  <1>1. gcon.con \in Nat /\ gcon.saved.shows \in Shows
    BY DEF GconType
  <1> QED
    BY <1>1, DriveType DEF restore_saved_crtc

\* What is left when the connectors of a device are restored, one by one.
LEMMA RestoringType ==
    ASSUME NEW l \in Lights, NEW gcons \in Seq(GconType)
    PROVE  \A n \in 0..Len(gcons) : Restoring(l, gcons)[n] \in Lights
  <1> DEFINE r == Restoring(l, gcons)
             N == Len(gcons)
             Bad == {n \in 0..N : r[n] \notin Lights}
  <1>1. N \in Nat /\ \A n \in 1..N : gcons[n] \in GconType
    OBVIOUS
  <1>2. r = [n \in 0..N |-> IF n = 0 THEN l ELSE restore_saved_crtc(r[n - 1], gcons[n])]
    BY <1>1, RestoringDef
  <1> HIDE DEF r, N
  <1>3. r[0] = l /\ \A n \in 1..N : r[n] = restore_saved_crtc(r[n - 1], gcons[n])
    BY <1>1, <1>2
  <1>4. Bad = {}
    <2> SUFFICES ASSUME Bad # {} PROVE FALSE
      OBVIOUS
    <2>1. Bad \in SUBSET Nat
      BY <1>1
    <2>2. PICK m \in Bad : \A n \in Bad : m <= n
      BY <2>1, LowestNat
    <2>3. m \in 1..N /\ m - 1 \in 0..N /\ ~ (m <= m - 1)
      BY <1>1, <1>3, <2>2
    <2>4. r[m - 1] \in Lights
      BY <2>2, <2>3
    <2>5. r[m] \in Lights
      BY <1>1, <1>3, <2>3, <2>4, RestoreType
    <2> QED
      BY <2>2, <2>5
  <1>5. \A n \in 0..N : r[n] \in Lights
    BY <1>4
  <1> QED
    BY <1>5 DEF r, N

LEMMA LeftType ==
    ASSUME NEW k \in Cards, lit \in [Cards -> Lights], NEW gcons \in Seq(GconType)
    PROVE  Left(k, gcons) \in Lights
  <1> DEFINE l == Restoring(lit[k], gcons)[Len(gcons)]
  <1>1. lit[k] \in Lights /\ Len(gcons) \in 0..Len(gcons)
    OBVIOUS
  <1>2. l \in Lights
    BY <1>1, RestoringType
  <1>3. Left(k, gcons) = [x \in CrtcIds |-> IF l[x].shows = "app" THEN Off ELSE l[x]]
    BY DEF Left
  <1> HIDE DEF l
  <1>4. Off \in [con : Nat, shows : Shows]
    BY DEF Off, Shows
  <1> QED
    BY <1>2, <1>3, <1>4 DEF Lights

\* The Gcons that setup_dev makes.
LEMMA GconsType ==
    ASSUME NEW k \in Cards, hw \in [Cards -> Hardware], lit \in [Cards -> Lights],
           con_id \in Nat
    PROVE  Gcons(k) \in Seq(GconType)
  <1>1. PICK n \in Nat : DOMAIN Screens(k) = 1..n
    BY ScreensSeq
  <1> DEFINE x(j) == get_crtc(k, Screens(k)[j])
             gcon(j) == [con |-> Screens(k)[j], crtc |-> x(j), id |-> FirstId + j - 1,
                         saved |-> Saved(k, x(j))]
  <1>2. ASSUME NEW j \in 1..n PROVE gcon(j) \in GconType
    <2>1. /\ Screens(k)[j] \in Usable(k) /\ Screens(k)[j] \in Nat
          /\ Screens(k)[j] \in DOMAIN hw[k].cons
      BY <1>1, ScreenUsable
    <2>2. x(j) \in CrtcIds
      BY <2>1, CrtcChosen DEF Usable
    <2>3. FirstId + j - 1 \in Nat
      BY DEF FirstId
    <2>4. Saved(k, x(j)) \in [con : Nat, shows : Shows]
      BY <2>2 DEF Saved, Lights
    <2> HIDE DEF x
    <2> QED
      BY <2>1, <2>2, <2>3, <2>4 DEF GconType
  <1>3. Gcons(k) = [j \in 1..n |-> gcon(j)]
    BY <1>1 DEF Gcons
  <1> HIDE DEF gcon
  <1> QED
    BY <1>2, <1>3

LEMMA BeforeType ==
    ASSUME NEW h \in Hardware
    PROVE  Before(h) \in Lights
  <1>1. DOMAIN h.cons \subseteq Nat
    BY HardwareAssumption
  <1>2. Off \in [con : Nat, shows : Shows]
    BY DEF Off, Shows
  <1>3. ASSUME NEW x \in CrtcIds, \E i \in DOMAIN h.cons : h.cons[i].cur = x
        PROVE  [con |-> CHOOSE i \in DOMAIN h.cons : h.cons[i].cur = x, shows |-> "before"]
                   \in [con : Nat, shows : Shows]
    BY <1>1, <1>3 DEF Shows
  <1> QED
    BY <1>2, <1>3 DEF Before, Lights

\* Types, step by step: what Kinds leaves out of TypeOK.
Types ==
    /\ lit \in [Cards -> Lights] /\ poll \subseteq Files
    /\ asked \subseteq [file : Files, id : Nat]
    /\ \A k \in Cards : dev[k] \in Seq(GconType)

LEMMA TypesInit == Init => Types
  <1> SUFFICES ASSUME Init PROVE Types
    OBVIOUS
  <1>1. \A k \in Cards : dev[k] = <<>>
    BY DEF Init
  <1>2. \A k \in Cards : dev[k] \in Seq(GconType)
    BY <1>1, EmptySeq, Zenon
  <1>3. \A k \in Cards : Before(hw[k]) \in Lights
    BY BeforeType DEF Init
  <1> QED
    BY <1>2, <1>3 DEF Init, Types

\* Devices come, are thrown away or destroyed.
LEMMA TypesAddDev ==
    ASSUME Kinds, Types, NEW k \in Cards, AddDev(k)
    PROVE  Types'
  <1>1. Gcons(k) \in Seq(GconType)
    BY GconsType DEF Kinds, Types
  <1>2. \A c \in Cards : dev'[c] \in Seq(GconType)
    BY <1>1 DEF AddDev, Types
  <1>3. File(k) \in Files
    BY NumbersAssumption DEF AddDev, Loading, Kinds, File, Files
  <1>4. poll' \subseteq poll \cup {File(k)} /\ lit' = lit /\ asked' = asked
    BY DEF AddDev, Register
  <1> QED
    BY <1>2, <1>3, <1>4 DEF Types, Files

LEMMA TypesLeft ==
    ASSUME Types, NEW gs, \A c \in Cards : gs[c] \in Seq(GconType),
           lit' = [c \in Cards |-> Left(c, gs[c])], dev' = [c \in Cards |-> <<>>],
           asked' = asked, poll' \subseteq Files
    PROVE  Types'
  <1>1. \A c \in Cards : Left(c, gs[c]) \in Lights
    BY LeftType DEF Types
  <1>2. \A c \in Cards : dev'[c] = <<>>
    OBVIOUS
  <1>3. \A c \in Cards : dev'[c] \in Seq(GconType)
    BY <1>2, EmptySeq, Zenon
  <1> QED
    BY <1>1, <1>3 DEF Types, Files

LEMMA TypesThrow ==
    ASSUME Kinds, Types, NEW k \in Cards, ThrowEarly(k) \/ ThrowLate(k)
    PROVE  Types'
  <1>1. PICK gcons : Throw(k, gcons) /\ gcons \in {<<>>, Gcons(k)} /\ phase = "loading"
    BY DEF ThrowEarly, ThrowLate, Loading
  <1>2. gcons \in Seq(GconType)
    <2>1. Gcons(k) \in Seq(GconType) /\ <<>> \in Seq(GconType)
      BY GconsType, EmptySeq DEF Kinds, Types
    <2> QED
      BY <1>1, <2>1, Zenon
  <1>3. File(k) \in Files
    BY <1>1, NumbersAssumption DEF Kinds, File, Files
  <1>4. poll' \subseteq Files
    BY <1>3 DEF ThrowEarly, ThrowLate, Register, Types
  <1> DEFINE gs == [c \in Cards |-> IF c = k THEN gcons ELSE dev[c]]
  <1>5. \A c \in Cards : gs[c] \in Seq(GconType)
    BY <1>2 DEF Types
  <1>6. /\ lit' = [c \in Cards |-> Left(c, gs[c])] /\ dev' = [c \in Cards |-> <<>>]
        /\ asked' = asked
    BY <1>1 DEF Throw
  <1> HIDE DEF gs
  <1> QED
    BY <1>4, <1>5, <1>6, TypesLeft

LEMMA TypesNext == Kinds /\ Types /\ [Next]_vars => Types'
  <1> SUFFICES ASSUME Kinds, Types, [Next]_vars PROVE Types'
    OBVIOUS
  <1> USE DEF Types
  <1>1. CASE UNCHANGED vars
    BY <1>1 DEF vars, appVars, pollVars, Files
  <1>2. CASE Construct \/ Constructed
    BY <1>2 DEF Construct, Constructed, pollVars, Files
  <1>3. CASE Destroy
    <2>1. poll' \subseteq Files /\ asked' = asked /\ lit' = [c \in Cards |-> Left(c, dev[c])]
          /\ dev' = [c \in Cards |-> <<>>]
      BY <1>3 DEF Destroy, Unpolled
    <2> QED
      BY <2>1, TypesLeft
  <1>4. ASSUME NEW k \in Cards, RefusedDev(k) PROVE Types'
    BY <1>4 DEF RefusedDev, pollVars, Files
  <1>5. ASSUME NEW k \in Cards, NoScreens(k) PROVE Types'
    <2>1. \A c \in Cards : dev'[c] = <<>>
      BY <1>5 DEF NoScreens
    <2>2. \A c \in Cards : dev'[c] \in Seq(GconType)
      BY <2>1, EmptySeq, Zenon
    <2> QED
      BY <1>5, <2>2 DEF NoScreens
  <1>6. ASSUME NEW k \in Cards, NEW gcon \in ToSet(dev[k]), SetCrtc(k, gcon) \/ schedule_vblank(k, gcon)
        PROVE  Types'
    <2>1. gcon \in GconType
      BY DEF ToSet
    <2>2. CASE SetCrtc(k, gcon)
      <3>1. Drive(lit[k], gcon.crtc, gcon.con, "app") \in Lights
        BY <2>1, DriveType DEF GconType, Shows
      <3> QED
        BY <2>2, <3>1 DEF SetCrtc, appVars, pollVars, Files
    <2>3. CASE schedule_vblank(k, gcon)
      <3>1. File(k) \in Files /\ gcon.id \in Nat
        BY <2>1, <2>3, NumbersAssumption DEF schedule_vblank, Kinds, File, Files, GconType
      <3>2. [file |-> File(k), id |-> gcon.id] \in [file : Files, id : Nat]
        BY <3>1
      <3> QED
        BY <2>3, <3>2 DEF schedule_vblank, appVars, Files
    <2> QED
      BY <1>6, <2>2, <2>3
  <1>7. ASSUME NEW a \in asked, process_event(a) PROVE Types'
    BY <1>7 DEF process_event, appVars, Files
  <1>8. ASSUME NEW file \in poll, LastClose(file) PROVE Types'
    BY <1>8 DEF LastClose, appVars, Files
  <1> QED
    BY <1>1, <1>2, <1>3, <1>4, <1>5, <1>6, <1>7, <1>8, TypesAddDev, TypesThrow DEF Next

\* Every variable keeps its type, whatever the crtcs are made to show.
THEOREM TypeCorrect == Spec => []TypeOK
  <1>1. Kinds /\ FdInv /\ Types => TypeOK
    <2> SUFFICES ASSUME Kinds, FdInv, Types PROVE TypeOK
      OBVIOUS
    <2>1. Cardinality(Cards) \in Nat
      BY CardsAssumption, FS_CardinalityType
    <2>2. \A k \in Cards : fd[k] \in 0..Cardinality(Cards)
      BY <2>1 DEF FdInv, Fds
    <2>3. mgr \in 0..MaxMgrs
      BY NumbersAssumption DEF Kinds
    <2> QED
      BY <2>2, <2>3 DEF Kinds, FdInv, Types, TypeOK, Lights, GconType, Shows
  <1> DEFINE J == IInv /\ Types
  <1>2. Init => J
    BY InvInit, TypesInit
  <1>3. J /\ [Next]_vars => J'
    BY InvNext, TypesNext DEF IInv
  <1>4. J => TypeOK
    BY <1>1 DEF IInv
  <1> QED
    BY <1>2, <1>3, <1>4, PTL DEF Spec

----------------------------------------------------------------------------
(* The screens are left as they were found.                                 *)

\* A Gcon that drives, and gives back, what the console showed on its crtc.
Fits(h, gcon) ==
    /\ gcon.con \in DOMAIN h.cons /\ gcon.crtc \in CrtcIds
    /\ gcon.crtc = h.cons[gcon.con].cur /\ gcon.saved = Before(h)[gcon.crtc]

\* Crtcs show what they did, but where one of the gcons put the application's
\* frame buffer.
Shown(h, gcons, l) == \A x \in CrtcIds :
    \/ l[x] = Before(h)[x]
    \/ \E j \in 1..Len(gcons) :
           gcons[j].crtc = x /\ l[x] = [con |-> gcons[j].con, shows |-> "app"]

\* Only a manager whose constructor has returned lets anything be drawn.
LitInv == Orderly => \A k \in Cards :
    /\ \A j \in 1..Len(dev[k]) : Fits(hw[k], dev[k][j])
    /\ Shown(hw[k], dev[k], lit[k])
    /\ phase # "ready" => lit[k] = Before(hw[k])

\* What the console shows on a crtc is the one connector that the crtc drives.
LEMMA BeforeFacts ==
    ASSUME NEW h \in Hardware, NEW x \in CrtcIds
    PROVE  /\ \A i \in DOMAIN h.cons : h.cons[i].cur = x =>
                  Before(h)[x] = [con |-> i, shows |-> "before"]
           /\ \A i \in DOMAIN h.cons : Before(h)[x].con = i => h.cons[i].cur = x
           /\ Before(h)[x].shows # "app"
  <1>1. DOMAIN h.cons \subseteq Nat \ {0}
    BY HardwareAssumption
  <1>2. \A i, j \in DOMAIN h.cons : h.cons[i].cur = x /\ h.cons[j].cur = x => i = j
    BY HardwareAssumption, NumbersAssumption
  <1>3. Before(h)[x] = IF \E i \in DOMAIN h.cons : h.cons[i].cur = x
                       THEN [con |-> CHOOSE i \in DOMAIN h.cons : h.cons[i].cur = x,
                             shows |-> "before"]
                       ELSE Off
    BY DEF Before
  <1>4. CASE \E i \in DOMAIN h.cons : h.cons[i].cur = x
    <2>1. PICK i \in DOMAIN h.cons : h.cons[i].cur = x
      BY <1>4
    <2>2. (CHOOSE j \in DOMAIN h.cons : h.cons[j].cur = x) = i
      BY <1>2, <2>1
    <2>3. Before(h)[x] = [con |-> i, shows |-> "before"]
      BY <1>3, <2>1, <2>2
    <2>4. Before(h)[x].con = i /\ Before(h)[x].shows = "before"
      BY <2>3
    <2>5. \A j \in DOMAIN h.cons : h.cons[j].cur = x => j = i
      BY <1>2, <2>1
    <2> QED
      BY <2>1, <2>3, <2>4, <2>5
  <1>5. CASE ~ \E i \in DOMAIN h.cons : h.cons[i].cur = x
    <2>1. Before(h)[x].con = 0 /\ Before(h)[x].shows = "nothing"
      BY <1>3, <1>5 DEF Off
    <2> QED
      BY <1>1, <1>5, <2>1
  <1> QED
    BY <1>4, <1>5

\* A crtc that shows this connector is the one that drove it from the start.
LEMMA ShownCon ==
    ASSUME NEW h \in Hardware, NEW gcons, \A j \in 1..Len(gcons) : Fits(h, gcons[j]),
           NEW l, Shown(h, gcons, l), NEW x \in CrtcIds,
           NEW i \in DOMAIN h.cons, l[x].con = i
    PROVE  h.cons[i].cur = x
  <1>1. CASE l[x] = Before(h)[x]
    BY <1>1, BeforeFacts
  <1>2. CASE l[x] # Before(h)[x]
    <2>1. PICK j \in 1..Len(gcons) :
              gcons[j].crtc = x /\ l[x] = [con |-> gcons[j].con, shows |-> "app"]
      BY <1>2 DEF Shown
    <2>2. gcons[j].con = i
      BY <2>1
    <2> QED
      BY <2>1, <2>2 DEF Fits
  <1> QED
    BY <1>1, <1>2

\* Driving a connector from the crtc it had changes this crtc alone.
LEMMA DriveOwn ==
    ASSUME NEW h \in Hardware, NEW gcons, \A j \in 1..Len(gcons) : Fits(h, gcons[j]),
           NEW l, Shown(h, gcons, l), NEW gcon, Fits(h, gcon), NEW shows, NEW y \in CrtcIds
    PROVE  Drive(l, gcon.crtc, gcon.con, shows)[y] =
               IF y = gcon.crtc THEN [con |-> gcon.con, shows |-> shows] ELSE l[y]
  <1>1. gcon.con \in DOMAIN h.cons /\ gcon.crtc = h.cons[gcon.con].cur
    BY DEF Fits
  <1>2. ASSUME l[y].con = gcon.con PROVE y = gcon.crtc
    <2>1. \E i \in DOMAIN h.cons : i = gcon.con /\ l[y].con = i
      BY <1>1, <1>2
    <2>2. h.cons[gcon.con].cur = y
      BY <2>1, ShownCon
    <2> QED
      BY <1>1, <2>2
  <1>3. Drive(l, gcon.crtc, gcon.con, shows)[y] =
            IF y = gcon.crtc THEN [con |-> gcon.con, shows |-> shows]
            ELSE IF l[y].con = gcon.con THEN Off ELSE l[y]
    BY Zenon DEF Drive
  <1> QED
    BY <1>2, <1>3

\* One connector is restored.
LEMMA RestoreOwn ==
    ASSUME NEW h \in Hardware, NEW gcons, \A j \in 1..Len(gcons) : Fits(h, gcons[j]),
           NEW l, Shown(h, gcons, l), NEW gcon, Fits(h, gcon)
    PROVE  \A y \in CrtcIds : restore_saved_crtc(l, gcon)[y] =
               IF y = gcon.crtc THEN Before(h)[y] ELSE l[y]
  <1>1. Before(h)[gcon.crtc] = [con |-> gcon.con, shows |-> "before"]
    BY BeforeFacts DEF Fits
  <1>2. gcon.saved = [con |-> gcon.con, shows |-> "before"]
    BY <1>1 DEF Fits
  <1>3. gcon.saved # Off /\ gcon.saved.shows = "before"
    BY <1>2 DEF Off
  <1>4. restore_saved_crtc(l, gcon) = Drive(l, gcon.crtc, gcon.con, "before")
    BY <1>3 DEF restore_saved_crtc
  <1> QED
    BY <1>1, <1>4, DriveOwn

\* The destructor of a device brings back what the console showed.
LEMMA LeftBefore ==
    ASSUME NEW k \in Cards, NEW h \in Hardware, NEW gcons, Len(gcons) \in Nat,
           \A j \in 1..Len(gcons) : Fits(h, gcons[j]), Shown(h, gcons, lit[k])
    PROVE  Left(k, gcons) = Before(h)
  <1> DEFINE r == Restoring(lit[k], gcons)
             N == Len(gcons)
             Good(n) == /\ Shown(h, gcons, r[n])
                        /\ \A j \in 1..n : r[n][gcons[j].crtc] = Before(h)[gcons[j].crtc]
             Bad == {n \in 0..N : ~ Good(n)}
  <1>1. r = [n \in 0..N |-> IF n = 0 THEN lit[k] ELSE restore_saved_crtc(r[n - 1], gcons[n])]
    BY RestoringDef
  <1>2. N \in Nat
    OBVIOUS
  <1> HIDE DEF r
  <1>3. r[0] = lit[k] /\ \A n \in 1..N : r[n] = restore_saved_crtc(r[n - 1], gcons[n])
    BY <1>1, <1>2
  <1>4. Good(0)
    BY <1>3
  <1>5. ASSUME NEW n \in 1..N, Good(n - 1) PROVE Good(n)
    <2>1. \A y \in CrtcIds : r[n][y] = IF y = gcons[n].crtc THEN Before(h)[y] ELSE r[n - 1][y]
      BY <1>3, <1>5, RestoreOwn
    <2>2. Shown(h, gcons, r[n])
      BY <1>5, <2>1 DEF Shown
    <2>3. ASSUME NEW j \in 1..n
          PROVE  r[n][gcons[j].crtc] = Before(h)[gcons[j].crtc]
      <3>1. j \in 1..N /\ gcons[j].crtc \in CrtcIds
        BY <1>2 DEF Fits
      <3>2. j # n => j \in 1..n - 1
        BY <1>2
      <3> QED
        BY <1>5, <2>1, <3>1, <3>2
    <2> QED
      BY <2>2, <2>3
  <1> HIDE DEF Good
  <1>6. Bad = {}
    <2> SUFFICES ASSUME Bad # {} PROVE FALSE
      OBVIOUS
    <2>1. Bad \in SUBSET Nat
      BY <1>2
    <2>2. PICK m \in Bad : \A n \in Bad : m <= n
      BY <2>1, LowestNat
    <2>3. m \in 1..N /\ m - 1 \in 0..N /\ ~ (m <= m - 1)
      BY <1>2, <1>4, <2>2
    <2>4. Good(m - 1)
      BY <2>2, <2>3
    <2> QED
      BY <1>5, <2>2, <2>3, <2>4
  <1>7. Good(N)
    BY <1>2, <1>6
  <1>8. ASSUME NEW x \in CrtcIds PROVE r[N][x] = Before(h)[x]
    <2>1. CASE \E j \in 1..N : gcons[j].crtc = x
      BY <1>7, <2>1 DEF Good
    <2>2. CASE ~ \E j \in 1..N : gcons[j].crtc = x
      BY <1>7, <2>2 DEF Good, Shown
    <2> QED
      BY <2>1, <2>2
  <1>9. \A x \in CrtcIds : Before(h)[x].shows # "app"
    BY BeforeFacts
  <1>10. Left(k, gcons) = [x \in CrtcIds |-> IF r[N][x].shows = "app" THEN Off ELSE r[N][x]]
    BY DEF Left, r
  <1>11. Left(k, gcons) = [x \in CrtcIds |-> Before(h)[x]]
    BY <1>8, <1>9, <1>10
  <1>12. Before(h) = [x \in CrtcIds |-> Before(h)[x]]
    BY DEF Before
  <1> QED
    BY <1>11, <1>12

\* While every screen is lit and cards do not share crtc numbers, each screen
\* keeps the crtc it has.
LEMMA GconsFit ==
    ASSUME Kinds, Types, LitInv, Orderly, NEW k \in Cards, Loading(k)
    PROVE  Len(Gcons(k)) \in Nat /\ \A j \in 1..Len(Gcons(k)) : Fits(hw[k], Gcons(k)[j])
  <1>1. PICK n \in Nat : DOMAIN Screens(k) = 1..n /\ Len(Gcons(k)) = n
    BY ScreensSeq DEF Kinds
  <1>2. hw \in [Cards -> Hardware] /\ \A c \in Cards : hw[c] \in Hardware
    BY DEF Kinds
  <1>3. dev[k] = <<>> /\ 1..Len(dev[k]) = {} /\ Len(dev[k]) = 0
    BY DEF Kinds, Loading, Loaded
  <1>4. ASSUME NEW i \in DOMAIN hw[k].cons, hw[k].cons[i].on
        PROVE  get_crtc(k, i) = hw[k].cons[i].cur /\ hw[k].cons[i].cur \in CrtcIds
    <2> DEFINE x == hw[k].cons[i].cur
    <2>1. x # 0 /\ x \in ToSet(hw[k].crtcs)
      <3>1. x \in ToSet(hw[k].crtcs) \cup {0}
        BY <1>2, HardwareAssumption
      <3> QED
        BY <1>4, <3>1 DEF Orderly
    <2>2. ASSUME NEW c \in Cards, NEW gcon \in ToSet(dev[c]), gcon.crtc = x PROVE FALSE
      <3>1. DOMAIN dev[c] = 1..Len(dev[c])
        BY DEF Kinds
      <3>2. PICK j \in 1..Len(dev[c]) : gcon = dev[c][j]
        BY <3>1 DEF ToSet
      <3>3. Fits(hw[c], gcon)
        BY <3>2 DEF LitInv
      <3>4. c # k
        BY <1>3, <3>2
      <3>5. /\ gcon.con \in DOMAIN hw[c].cons /\ gcon.crtc = hw[c].cons[gcon.con].cur
            /\ gcon.crtc # 0
        BY <2>1, <2>2, <3>3 DEF Fits
      <3>6. hw[c].cons[gcon.con].cur \in ToSet(hw[c].crtcs) \cup {0}
        BY <1>2, <3>5, HardwareAssumption
      <3>7. x \in ToSet(hw[c].crtcs)
        BY <2>2, <3>5, <3>6
      <3> QED
        BY <2>1, <3>4, <3>7 DEF Orderly
    <2>3. x \notin InUse
      BY <2>2 DEF InUse
    <2>4. x \notin InUse \cup {0}
      BY <2>1, <2>3
    <2>5. get_crtc(k, i) = x
      BY <2>4 DEF get_crtc
    <2>6. get_crtc(k, i) \in CrtcIds
      BY <1>2, <2>1, <2>5, CrtcChosen
    <2> QED
      BY <2>5, <2>6
  <1>5. lit[k] = Before(hw[k])
    BY DEF LitInv, Loading
  <1>6. ASSUME NEW j \in 1..n PROVE Fits(hw[k], Gcons(k)[j])
    <2> DEFINE i == Screens(k)[j]
               x == get_crtc(k, i)
    <2>1. i \in DOMAIN hw[k].cons /\ hw[k].cons[i].on
      BY <1>1, <1>2, ScreenUsable DEF Usable
    <2>2. x = hw[k].cons[i].cur /\ x \in CrtcIds
      BY <1>4, <2>1
    <2>3. Gcons(k)[j] = [con |-> i, crtc |-> x, id |-> FirstId + j - 1, saved |-> Saved(k, x)]
      BY <1>1 DEF Gcons
    <2>4. Saved(k, x) = Before(hw[k])[x]
      BY <1>5 DEF Saved
    <2> HIDE DEF i, x
    <2>5. Gcons(k)[j].con = i /\ Gcons(k)[j].crtc = x /\ Gcons(k)[j].saved = Saved(k, x)
      BY <2>3
    <2> QED
      BY <2>1, <2>2, <2>4, <2>5 DEF Fits
  <1> QED
    BY <1>1, <1>6

\* Devices that fit are taken away: everything shows what it did.
LEMMA LitLeft ==
    ASSUME Kinds, LitInv, Orderly, NEW gs,
           \A c \in Cards : Len(gs[c]) \in Nat /\ Shown(hw[c], gs[c], lit[c])
                            /\ \A j \in 1..Len(gs[c]) : Fits(hw[c], gs[c][j]),
           lit' = [c \in Cards |-> Left(c, gs[c])], dev' = [c \in Cards |-> <<>>], hw' = hw
    PROVE  LitInv'
  <1>1. ASSUME NEW c \in Cards
        PROVE  /\ lit'[c] = Before(hw'[c]) /\ Shown(hw'[c], dev'[c], lit'[c])
               /\ \A j \in 1..Len(dev'[c]) : Fits(hw'[c], dev'[c][j])
    <2>1. hw[c] \in Hardware
      BY DEF Kinds
    <2>2. lit'[c] = Before(hw[c])
      BY <2>1, LeftBefore
    <2>3. dev'[c] = <<>> /\ 1..Len(dev'[c]) = {}
      OBVIOUS
    <2> QED
      BY <2>2, <2>3 DEF Shown
  <1> QED
    BY <1>1 DEF LitInv

\* What crtcs show keeps as it is when the devices do.
LEMMA LitKept ==
    ASSUME LitInv, UNCHANGED <<hw, lit, dev>>, phase' # "ready" => phase # "ready"
    PROVE  LitInv'
  <1> SUFFICES ASSUME Orderly PROVE LitInv'
    BY DEF LitInv, Orderly
  <1>1. \A k \in Cards : /\ \A j \in 1..Len(dev'[k]) : Fits(hw'[k], dev'[k][j])
                         /\ Shown(hw'[k], dev'[k], lit'[k])
    BY DEF LitInv
  <1>2. phase' # "ready" => \A k \in Cards : lit'[k] = Before(hw'[k])
    BY DEF LitInv
  <1> QED
    BY <1>1, <1>2 DEF LitInv

LEMMA LitInit == Init => LitInv
  <1> SUFFICES ASSUME Init PROVE LitInv
    OBVIOUS
  <1>1. \A k \in Cards : dev[k] = <<>> /\ 1..Len(dev[k]) = {} /\ lit[k] = Before(hw[k])
    BY DEF Init
  <1> QED
    BY <1>1 DEF LitInv, Shown

LEMMA LitAddDev ==
    ASSUME Kinds, FdInv, Types, LitInv, NEW k \in Cards, AddDev(k)
    PROVE  LitInv'
  <1> SUFFICES ASSUME Orderly PROVE LitInv'
    BY DEF LitInv, Orderly, AddDev
  <1>1. \A j \in 1..Len(Gcons(k)) : Fits(hw[k], Gcons(k)[j])
    BY GconsFit DEF AddDev
  <1>2. UNCHANGED <<hw, lit, phase>> /\ phase = "loading"
    BY DEF AddDev, Loading
  <1>3. \A c \in Cards : dev'[c] = IF c = k THEN Gcons(k) ELSE dev[c]
    BY DEF AddDev, FdInv
  <1>4. \A c \in Cards : lit[c] = Before(hw[c])
    BY <1>2 DEF LitInv
  <1> QED
    BY <1>1, <1>2, <1>3, <1>4 DEF LitInv, Shown

LEMMA LitThrow ==
    ASSUME Kinds, Types, LitInv, NEW k \in Cards, ThrowEarly(k) \/ ThrowLate(k)
    PROVE  LitInv'
  <1>1. PICK gcons : Throw(k, gcons) /\ gcons \in {<<>>, Gcons(k)} /\ Loading(k)
    BY DEF ThrowEarly, ThrowLate
  <1> SUFFICES ASSUME Orderly PROVE LitInv'
    BY <1>1 DEF LitInv, Orderly, Throw
  <1>2. Len(gcons) \in Nat /\ \A j \in 1..Len(gcons) : Fits(hw[k], gcons[j])
    <2>1. CASE gcons = <<>>
      <3>1. Len(gcons) = 0 /\ 1..Len(gcons) = {}
        BY <2>1
      <3> QED
        BY <3>1
    <2>2. CASE gcons = Gcons(k)
      BY <1>1, <2>2, GconsFit
    <2> QED
      BY <1>1, <2>1, <2>2
  <1> DEFINE gs == [c \in Cards |-> IF c = k THEN gcons ELSE dev[c]]
  <1>3. \A c \in Cards : lit[c] = Before(hw[c])
    BY <1>1 DEF LitInv, Loading
  <1>4. \A c \in Cards : /\ Len(dev[c]) \in Nat
                         /\ \A j \in 1..Len(dev[c]) : Fits(hw[c], dev[c][j])
    BY DEF LitInv, Kinds
  <1>5. \A c \in Cards : gs[c] = IF c = k THEN gcons ELSE dev[c]
    OBVIOUS
  <1>6. /\ lit' = [c \in Cards |-> Left(c, gs[c])] /\ dev' = [c \in Cards |-> <<>>]
        /\ hw' = hw
    BY <1>1 DEF Throw
  <1> HIDE DEF gs
  <1>7. \A c \in Cards : /\ Len(gs[c]) \in Nat /\ Shown(hw[c], gs[c], lit[c])
                         /\ \A j \in 1..Len(gs[c]) : Fits(hw[c], gs[c][j])
    BY <1>2, <1>3, <1>4, <1>5 DEF Shown
  <1> QED
    BY <1>6, <1>7, LitLeft

LEMMA LitDestroy ==
    ASSUME Kinds, LitInv, Destroy
    PROVE  LitInv'
  <1> SUFFICES ASSUME Orderly PROVE LitInv'
    BY DEF LitInv, Orderly, Destroy
  <1>1. \A c \in Cards : /\ Len(dev[c]) \in Nat /\ Shown(hw[c], dev[c], lit[c])
                         /\ \A j \in 1..Len(dev[c]) : Fits(hw[c], dev[c][j])
    BY DEF LitInv, Kinds
  <1>2. /\ lit' = [c \in Cards |-> Left(c, dev[c])] /\ dev' = [c \in Cards |-> <<>>]
        /\ hw' = hw
    BY DEF Destroy
  <1> QED
    BY <1>1, <1>2, LitLeft

\* The application's frame buffer comes on the crtc of one of its Gcons.
LEMMA LitSetCrtc ==
    ASSUME Kinds, Types, LitInv, NEW k \in Cards, NEW gcon \in ToSet(dev[k]), SetCrtc(k, gcon)
    PROVE  LitInv'
  <1> SUFFICES ASSUME Orderly PROVE LitInv'
    BY DEF LitInv, Orderly, SetCrtc
  <1>1. PICK i \in 1..Len(dev[k]) : gcon = dev[k][i]
    BY DEF Kinds, ToSet
  <1>2. /\ \A j \in 1..Len(dev[k]) : Fits(hw[k], dev[k][j])
        /\ Shown(hw[k], dev[k], lit[k]) /\ Fits(hw[k], gcon) /\ hw[k] \in Hardware
    BY <1>1 DEF LitInv, Kinds
  <1>3. UNCHANGED <<hw, dev, phase>> /\ phase = "ready"
        /\ \A c \in Cards : lit'[c] = IF c = k THEN Drive(lit[k], gcon.crtc, gcon.con, "app")
                                      ELSE lit[c]
    BY DEF SetCrtc, appVars, Types
  <1>4. \A y \in CrtcIds : Drive(lit[k], gcon.crtc, gcon.con, "app")[y] =
            IF y = gcon.crtc THEN [con |-> gcon.con, shows |-> "app"] ELSE lit[k][y]
    BY <1>2, DriveOwn
  <1>5. \A y \in CrtcIds : lit'[k][y] =
            IF y = gcon.crtc THEN [con |-> gcon.con, shows |-> "app"] ELSE lit[k][y]
    BY <1>3, <1>4
  <1>6. Shown(hw[k], dev[k], lit'[k])
    <2> SUFFICES ASSUME NEW x \in CrtcIds
                 PROVE  \/ lit'[k][x] = Before(hw[k])[x]
                        \/ \E j \in 1..Len(dev[k]) : dev[k][j].crtc = x
                                /\ lit'[k][x] = [con |-> dev[k][j].con, shows |-> "app"]
      BY DEF Shown
    <2>1. CASE x = gcon.crtc
      BY <1>1, <1>5, <2>1
    <2>2. CASE x # gcon.crtc
      <3>1. lit'[k][x] = lit[k][x]
        BY <1>5, <2>2
      <3> QED
        BY <1>2, <3>1 DEF Shown
    <2> QED
      BY <2>1, <2>2
  <1>7. ASSUME NEW c \in Cards
        PROVE  Shown(hw[c], dev[c], lit'[c]) /\ \A j \in 1..Len(dev[c]) : Fits(hw[c], dev[c][j])
    <2>1. CASE c = k
      BY <1>2, <1>6, <2>1
    <2>2. CASE c # k
      BY <1>3, <2>2 DEF LitInv
    <2> QED
      BY <2>1, <2>2
  <1> QED
    BY <1>3, <1>7 DEF LitInv

LEMMA LitNext == Kinds /\ FdInv /\ Types /\ LitInv /\ [Next]_vars => LitInv'
  <1> SUFFICES ASSUME Kinds, FdInv, Types, LitInv, [Next]_vars PROVE LitInv'
    OBVIOUS
  <1>1. CASE Construct \/ Constructed \/ UNCHANGED vars
    BY <1>1, LitKept DEF Construct, Constructed, vars, appVars
  <1>2. ASSUME NEW k \in Cards, NoScreens(k) PROVE LitInv'
    <2>1. UNCHANGED <<hw, lit>> /\ phase = "loading"
          /\ \A c \in Cards : dev'[c] = <<>>
      BY <1>2 DEF NoScreens, Loading
    <2>2. \A c \in Cards : 1..Len(dev'[c]) = {}
      BY <2>1
    <2>3. Orderly => \A c \in Cards : lit[c] = Before(hw[c])
      BY <2>1 DEF LitInv
    <2> QED
      BY <2>1, <2>2, <2>3 DEF LitInv, Shown, Orderly
  <1>3. ASSUME NEW k \in Cards, RefusedDev(k) PROVE LitInv'
    BY <1>3, LitKept DEF RefusedDev
  <1>4. ASSUME NEW k \in Cards, NEW gcon \in ToSet(dev[k]), schedule_vblank(k, gcon)
        PROVE  LitInv'
    BY <1>4, LitKept DEF schedule_vblank, appVars
  <1>5. ASSUME NEW a \in asked, process_event(a) PROVE LitInv'
    BY <1>5, LitKept DEF process_event, appVars
  <1>6. ASSUME NEW file \in poll, LastClose(file) PROVE LitInv'
    BY <1>6, LitKept DEF LastClose, appVars
  <1> QED
    BY <1>1, <1>2, <1>3, <1>4, <1>5, <1>6, LitAddDev, LitThrow, LitDestroy, LitSetCrtc DEF Next

\* A manager that was destroyed, or whose constructor threw, leaves every crtc
\* showing what it did before, whatever the application drew.
THEOREM ScreensRestored == Spec => []Restored
  <1>1. IInv => Kinds /\ FdInv
    BY DEF IInv
  <1>2. LitInv /\ Types => Restored
    BY DEF LitInv, Types, Restored
  <1>3. Init => IInv /\ Types /\ LitInv
    BY InvInit, TypesInit, LitInit
  <1>4. (IInv /\ Types /\ LitInv) /\ [Next]_vars => (IInv /\ Types /\ LitInv)'
    BY <1>1, InvNext, TypesNext, LitNext
  <1> QED
    BY <1>2, <1>3, <1>4, PTL DEF Spec
==============================================================================
