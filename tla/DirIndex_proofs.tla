--------------------------- MODULE DirIndex_proofs --------------------------
(***************************************************************************)
(* Proofs about DirIndex, for any directories, walkers and number of       *)
(* changes.                                                                *)
(***************************************************************************)
EXTENDS DirIndex, TLAPS

(* Directory d's walk by w has a stat it will still act on. *)
Stated(w, d) == at[w][d] \in {"stated", "list", "listed"}

(* No stamp is from the future, and what carries the present stamp of its
   directory shows the directory as it is: entries, and listings on their way
   into the index. *)
StampsPast ==
  /\ \A d \in Dirs : mtime[d] <= clock
  /\ \A d \in Dirs : \A e \in index[d] : e.mtime <= mtime[d]
  /\ \A w \in Walkers, d \in Dirs : Stated(w, d) => stat[w][d] <= mtime[d]

PendingSound ==
  \A w \in Walkers, d \in Dirs \ (tied \cup lossy) :
    at[w][d] = "listed" /\ stat[w][d] = mtime[d]
      => \A l \in got[w][d] : l = contents[d]

(* What a walk that has its stat might still reuse was true since it began. *)
ReusableSeen ==
  /\ \A w \in Walkers, d \in Dirs \ (tied \cup lossy) :
       at[w][d] = "stated"
         => \A e \in index[d] :
              e.mtime = stat[w][d] => e.listing \in since[w][d]
  /\ \A w \in Walkers, v \in Walkers, d \in Dirs \ (tied \cup lossy) :
       at[w][d] = "stated" /\ at[v][d] = "listed" /\ stat[v][d] = stat[w][d]
         => got[v][d] \subseteq since[w][d]

NowSeen == \A w \in Walkers, d \in Dirs : contents[d] \in since[w][d]

Inv == /\ TypeOK /\ StampsPast /\ IndexSound /\ PendingSound
       /\ ReusableSeen /\ NowSeen /\ WalkSeesCurrent

LEMMA TypeInit == Init => TypeOK
  BY DepthAssumption DEF Init, TypeOK, CachedDir, Stages

(* Every step keeps the types. *)
LEMMA TypeStep == TypeOK /\ [Next]_vars => TypeOK'
<1> SUFFICES ASSUME TypeOK, [Next]_vars PROVE TypeOK'
  OBVIOUS
<1> USE DEF TypeOK, CachedDir, Stages, Contents, disk, walks, history, Stage
<1>1. ASSUME NEW w \in Walkers, NEW d \in Dirs, WalkStep(w, d) PROVE TypeOK'
  <2>1. CASE Stat(w, d) BY <2>1 DEF Stat
  <2>2. CASE StatFails(w, d) BY <2>2 DEF StatFails
  <2>3. CASE LookUp(w, d)
    <3>1. CASE \E e \in Hits(w, d) : /\ got' = [got EXCEPT ![w][d] = {e.listing}]
                                     /\ Stage(w, d, "settled")
      <4>1. PICK e \in Hits(w, d) : /\ got' = [got EXCEPT ![w][d] = {e.listing}]
                                    /\ at' = [at EXCEPT ![w][d] = "settled"]
        BY <3>1
      <4>2. e \in CachedDir
        BY DEF Hits
      <4>3. QED BY <2>3, <4>1, <4>2 DEF LookUp
    <3>2. CASE Hits(w, d) = {} /\ Stage(w, d, "list") /\ UNCHANGED got
      BY <2>3, <3>2 DEF LookUp
    <3>3. QED BY <2>3, <3>1, <3>2 DEF LookUp
  <2>4. CASE List(w, d) BY <2>4 DEF List, ListAs
  <2>4p. CASE ListPartly(w, d)
    <3>1. PICK part \in SUBSET contents[d] : ListAs(w, d, part)
      BY <2>4p DEF ListPartly
    <3>1l. lossy' = lossy \cup {d}
      BY <2>4p DEF ListPartly
    <3>2. part \in Contents
      OBVIOUS
    <3>3. QED BY <3>1, <3>1l, <3>2 DEF ListAs
  <2>5. CASE ListFails(w, d) BY <2>5 DEF ListFails
  <2>6. CASE Insert(w, d)
    <3>1. {[mtime |-> stat[w][d], listing |-> l] : l \in got[w][d]} \in SUBSET CachedDir
      OBVIOUS
    <3>2. QED BY <2>6, <3>1 DEF Insert
  <2>7. QED BY <1>1, <2>1, <2>2, <2>3, <2>4, <2>4p, <2>5, <2>6 DEF WalkStep
<1>2. ASSUME NEW w \in Walkers, NextWalk(w) PROVE TypeOK'
  BY <1>2 DEF NextWalk
<1>3. ASSUME NEW d \in Dirs, Change(d), UNCHANGED <<index, walks, late, lossy>>,
             dirty' \in [Dirs -> Nat], outside' \in SUBSET Dirs
      PROVE TypeOK'
  <2>1. PICK t \in {clock, clock + 1}, c \in Contents :
          /\ clock' = t
          /\ mtime' = [mtime EXCEPT ![d] = t]
          /\ contents' = [contents EXCEPT ![d] = c]
          /\ since' = [w \in Walkers |-> [since[w] EXCEPT ![d] = @ \cup {c}]]
    BY <1>3 DEF Change
  <2>2. clock' \in Nat /\ changes' \in Nat /\ tied' \in SUBSET Dirs
    BY <1>3, <2>1 DEF Change
  <2>3. since' \in [Walkers -> [Dirs -> SUBSET Contents]]
    BY <2>1
  <2>4. mtime' \in [Dirs -> Nat] /\ contents' \in [Dirs -> Contents]
    BY <2>1
  <2>5. QED BY <1>3, <2>2, <2>3, <2>4
<1>4. ASSUME NEW d \in Dirs, OutsideChange(d) PROVE TypeOK'
  BY <1>4, <1>3 DEF OutsideChange
<1>5. ASSUME NEW d \in Dirs, SelfWrite(d) PROVE TypeOK'
  BY <1>5 DEF SelfWrite, Change
<1>6. ASSUME NEW d \in Dirs, Invalidate(d) PROVE TypeOK'
  BY <1>6 DEF Invalidate
<1>7. CASE Clear BY <1>7 DEF Clear
<1>8. CASE UNCHANGED vars BY <1>8 DEF vars
<1>9. QED BY <1>1, <1>2, <1>4, <1>5, <1>6, <1>7, <1>8 DEF Next

LEMMA InvInit == Init => Inv
<1> SUFFICES ASSUME Init PROVE Inv
  OBVIOUS
<1>1. TypeOK BY TypeInit
<1>2. QED BY <1>1 DEF Init, Inv, StampsPast, IndexSound, Trustworthy,
                     PendingSound, ReusableSeen, NowSeen, WalkSeesCurrent, Stated

(* One step of one walk keeps the invariant, whatever the clock's grain. *)
LEMMA WalkStepInv ==
  ASSUME Inv, NEW w \in Walkers, NEW d \in Dirs, WalkStep(w, d),
         TypeOK'
  PROVE  Inv'
<1> USE DEF Inv, StampsPast, IndexSound, Trustworthy, PendingSound,
            ReusableSeen, NowSeen, WalkSeesCurrent, Stated
<1>u. UNCHANGED <<contents, mtime, clock, since, tied>>
  BY DEF WalkStep, Stat, StatFails, LookUp, List, ListPartly, ListAs, ListFails,
         Insert, disk, history
<1>l. \/ Stat(w, d) \/ StatFails(w, d) \/ LookUp(w, d)
      \/ List(w, d) \/ ListFails(w, d) \/ Insert(w, d)
      => UNCHANGED lossy
  BY DEF Stat, StatFails, LookUp, List, ListFails, Insert, history
<1>1. CASE Stat(w, d)
  <2>1. /\ stat' = [stat EXCEPT ![w][d] = mtime[d]]
        /\ at' = [at EXCEPT ![w][d] = "stated"]
        /\ UNCHANGED <<index, got>>
    BY <1>1 DEF Stat, Stage
  <2>2. \A v \in Walkers, e \in Dirs :
          <<v, e>> # <<w, d>> => at'[v][e] = at[v][e] /\ stat'[v][e] = stat[v][e]
    BY <2>1 DEF TypeOK
  <2>3. at'[w][d] = "stated" /\ stat'[w][d] = mtime[d]
    BY <2>1 DEF TypeOK
  <2>4. StampsPast'
    BY <1>u, <1>l, <1>1, <2>1, <2>2, <2>3 DEF TypeOK
  <2>5. PendingSound'
    BY <1>u, <1>l, <1>1, <2>1, <2>2, <2>3 DEF TypeOK
  <2>6. ReusableSeen'
    BY <1>u, <1>l, <1>1, <2>1, <2>2, <2>3 DEF TypeOK
  <2>7. QED BY <1>u, <1>l, <1>1, <2>1, <2>4, <2>5, <2>6
<1>2. CASE StatFails(w, d) \/ ListFails(w, d)
  <2>1. \A v \in Walkers, e \in Dirs :
          at'[v][e] = at[v][e] \/ at'[v][e] \in {"list_uncached", "skipped"}
    <3>1. CASE StatFails(w, d)
      <4>1. at' = [at EXCEPT ![w][d] = "list_uncached"]
        BY <3>1 DEF StatFails, Stage
      <4>2. QED BY <4>1 DEF TypeOK
    <3>2. CASE ListFails(w, d)
      <4>1. at' = [at EXCEPT ![w][d] = "skipped"]
        BY <3>2 DEF ListFails, Stage
      <4>2. QED BY <4>1 DEF TypeOK
    <3>3. QED BY <1>2, <3>1, <3>2
  <2>2. UNCHANGED <<stat, got, index>>
    BY <1>2 DEF StatFails, ListFails
  <2>3. QED BY <1>u, <1>l, <1>2, <2>1, <2>2
<1>3. CASE LookUp(w, d)
  <2>1. CASE Hits(w, d) = {} /\ Stage(w, d, "list") /\ UNCHANGED got
    <3>1. \A v \in Walkers, e \in Dirs :
            at'[v][e] = at[v][e] \/ (at'[v][e] = "list" /\ at[v][e] = "stated")
      BY <1>3, <2>1 DEF LookUp, Stage, TypeOK
    <3>2. UNCHANGED <<stat, got, index>>
      BY <1>3, <2>1 DEF LookUp
    <3>3. QED BY <1>u, <1>l, <1>3, <3>1, <3>2
  <2>2. CASE \E e \in Hits(w, d) : /\ got' = [got EXCEPT ![w][d] = {e.listing}]
                                   /\ Stage(w, d, "settled")
    <3>1. PICK e \in Hits(w, d) : /\ got' = [got EXCEPT ![w][d] = {e.listing}]
                                  /\ at' = [at EXCEPT ![w][d] = "settled"]
      BY <2>2 DEF Stage
    <3>2. at[w][d] = "stated" /\ UNCHANGED <<stat, index>>
      BY <1>3 DEF LookUp
    <3>3. d \notin tied \cup lossy => e.listing \in since[w][d]
      BY <3>2 DEF Hits
    <3>4. \A v \in Walkers, f \in Dirs :
            <<v, f>> # <<w, d>> => at'[v][f] = at[v][f] /\ got'[v][f] = got[v][f]
      BY <3>1 DEF TypeOK
    <3>5. at'[w][d] = "settled" /\ got'[w][d] = {e.listing}
      BY <3>1 DEF TypeOK
    <3>6. StampsPast' /\ PendingSound' /\ ReusableSeen'
      BY <1>u, <1>l, <1>3, <3>2, <3>4, <3>5
    <3>7. WalkSeesCurrent'
      BY <1>u, <1>l, <1>3, <3>3, <3>4, <3>5
    <3>8. QED BY <1>u, <1>l, <1>3, <3>2, <3>6, <3>7
  <2>3. QED BY <1>3, <2>1, <2>2 DEF LookUp
<1>4. CASE List(w, d)
  <2>1. /\ got' = [got EXCEPT ![w][d] = {contents[d]}]
        /\ UNCHANGED <<stat, index>>
        /\ at[w][d] \in {"list", "list_uncached"}
    BY <1>4 DEF List, ListAs
  <2>2. \A v \in Walkers, f \in Dirs :
          <<v, f>> # <<w, d>> => at'[v][f] = at[v][f] /\ got'[v][f] = got[v][f]
    BY <1>4, <2>1 DEF List, ListAs, Stage, TypeOK
  <2>3. /\ got'[w][d] = {contents[d]}
        /\ at'[w][d] \in {"listed", "settled"}
        /\ at'[w][d] = "listed" => at[w][d] = "list"
    BY <1>4, <2>1 DEF List, ListAs, Stage, TypeOK
  <2>4. StampsPast' /\ PendingSound'
    BY <1>u, <1>l, <1>4, <2>1, <2>2, <2>3
  <2>5. ReusableSeen' /\ WalkSeesCurrent'
    BY <1>u, <1>l, <1>4, <2>1, <2>2, <2>3
  <2>6. QED BY <1>u, <1>l, <1>4, <2>1, <2>4, <2>5
<1>5. CASE Insert(w, d)
  <2>1. /\ index' = [index EXCEPT ![d] =
                       {[mtime |-> stat[w][d], listing |-> l] : l \in got[w][d]}]
        /\ UNCHANGED <<stat, got>>
        /\ at[w][d] = "listed"
    BY <1>5 DEF Insert
  <2>2. \A v \in Walkers, f \in Dirs :
          at'[v][f] = at[v][f] \/ at'[v][f] = "settled"
    BY <1>5 DEF Insert, Stage, TypeOK
  <2>3. \A f \in Dirs \ {d} : index'[f] = index[f]
    BY <2>1 DEF TypeOK
  <2>4. \A e \in index'[d] : e.mtime = stat[w][d] /\ e.listing \in got[w][d]
    BY <2>1 DEF TypeOK
  <2>5. StampsPast' /\ IndexSound' /\ PendingSound'
    BY <1>u, <1>l, <1>5, <2>1, <2>2, <2>3, <2>4
  <2>6. ReusableSeen'
    BY <1>u, <1>l, <1>5, <2>1, <2>2, <2>3, <2>4
  <2>7. QED BY <1>u, <1>l, <1>5, <2>1, <2>5, <2>6
<1>6. CASE ListPartly(w, d)
  <2>1. PICK part : ListAs(w, d, part)
    BY <1>6 DEF ListPartly
  <2>2. /\ UNCHANGED <<stat, index>>
        /\ lossy' = lossy \cup {d}
        /\ at[w][d] \in {"list", "list_uncached"}
    BY <1>6, <2>1 DEF ListPartly, ListAs
  <2>3. \A v \in Walkers, f \in Dirs :
          <<v, f>> # <<w, d>> => at'[v][f] = at[v][f] /\ got'[v][f] = got[v][f]
    BY <2>1 DEF ListAs, Stage, TypeOK
  <2>4. /\ at'[w][d] \in {"listed", "settled"}
        /\ at'[w][d] = "listed" => at[w][d] = "list"
    BY <2>1 DEF ListAs, Stage, TypeOK
  <2>5. StampsPast'
    BY <1>u, <2>2, <2>3, <2>4
  <2>6. IndexSound' /\ PendingSound' /\ ReusableSeen' /\ NowSeen' /\ WalkSeesCurrent'
    BY <1>u, <2>2, <2>3, <2>4
  <2>7. QED BY <2>5, <2>6
<1>7. QED BY <1>1, <1>2, <1>3, <1>4, <1>5, <1>6 DEF WalkStep

(* A change whose stamp differs from the last one leaves no entry, and no
   listing in hand, that carries the directory's new stamp. *)
LEMMA ChangeInv ==
  ASSUME Inv, NEW d \in Dirs, Change(d),
         UNCHANGED <<index, walks, lossy>>, TypeOK'
  PROVE  Inv'
<1> USE DEF Inv, StampsPast, IndexSound, Trustworthy, PendingSound,
            ReusableSeen, NowSeen, WalkSeesCurrent, Stated, walks
<1>1. PICK t \in {clock, clock + 1} :
        /\ clock' = t
        /\ mtime' = [mtime EXCEPT ![d] = t]
        /\ tied' = IF t = mtime[d] THEN tied \cup {d} ELSE tied
  BY DEF Change
<1>2. PICK c \in Contents :
        /\ contents' = [contents EXCEPT ![d] = c]
        /\ since' = [w \in Walkers |-> [since[w] EXCEPT ![d] = @ \cup {c}]]
  BY DEF Change
<1>3. mtime'[d] = t /\ mtime[d] <= t /\ clock <= t /\ t \in Nat
  BY <1>1 DEF TypeOK
<1>4. \A e \in Dirs \ {d} : mtime'[e] = mtime[e] /\ contents'[e] = contents[e]
  BY <1>1, <1>2 DEF TypeOK
<1>5. /\ \A w \in Walkers, e \in Dirs : since[w][e] \subseteq since'[w][e]
      /\ \A w \in Walkers : contents'[d] \in since'[w][d]
  BY <1>2 DEF TypeOK
<1>6. StampsPast'
  <2>1. \A e \in Dirs : mtime'[e] <= clock'
    BY <1>1, <1>3, <1>4 DEF TypeOK
  <2>2. ASSUME NEW e \in Dirs PROVE mtime[e] <= mtime'[e]
    <3>1. mtime[e] \in Nat
      BY DEF TypeOK
    <3>2. CASE e = d BY <1>3, <3>2
    <3>3. CASE e # d BY <1>4, <3>1, <3>3
    <3>4. QED BY <3>2, <3>3
  <2>3. QED BY <2>1, <2>2 DEF TypeOK, CachedDir
<1>7. IndexSound' /\ PendingSound'
  <2>1. CASE t = mtime[d]
    BY <1>1, <1>4, <2>1
  <2>2. CASE t # mtime[d]
    <3>0. mtime[d] \in Nat
      BY DEF TypeOK
    <3>1. mtime[d] < mtime'[d]
      BY <1>3, <2>2, <3>0
    <3>2. \A e \in index[d] : e.mtime # mtime'[d]
      BY <3>1 DEF TypeOK, CachedDir
    <3>3. \A w \in Walkers : at[w][d] = "listed" => stat[w][d] # mtime'[d]
      BY <3>1 DEF TypeOK
    <3>4. QED BY <1>1, <1>4, <2>2, <3>2, <3>3
  <2>3. QED BY <2>1, <2>2
<1>8. tied \subseteq tied'
  BY <1>1
<1>9. ReusableSeen' /\ NowSeen' /\ WalkSeesCurrent'
  BY <1>4, <1>5, <1>8
<1>10. QED BY <1>6, <1>7, <1>9

LEMMA InvStep == Inv /\ [Next]_vars => Inv'
<1> SUFFICES ASSUME Inv, [Next]_vars PROVE Inv'
  OBVIOUS
<1>t. TypeOK' BY TypeStep DEF Inv
<1>1. ASSUME NEW w \in Walkers, NEW d \in Dirs, WalkStep(w, d) PROVE Inv'
  BY <1>1, <1>t, WalkStepInv
<1>2. ASSUME NEW w \in Walkers, NextWalk(w) PROVE Inv'
  <2>1. /\ at' = [at EXCEPT ![w] = [d \in Dirs |-> "ahead"]]
        /\ stat' = [stat EXCEPT ![w] = [d \in Dirs |-> 0]]
        /\ got' = [got EXCEPT ![w] = [d \in Dirs |-> {}]]
        /\ since' = [since EXCEPT ![w] = [d \in Dirs |-> {contents[d]}]]
        /\ UNCHANGED <<disk, index, tied, lossy>>
    BY <1>2 DEF NextWalk
  <2>2. \A v \in Walkers \ {w} :
          /\ at'[v] = at[v] /\ stat'[v] = stat[v]
          /\ got'[v] = got[v] /\ since'[v] = since[v]
    BY <2>1 DEF Inv, TypeOK
  <2>3. \A d \in Dirs : /\ at'[w][d] = "ahead" /\ got'[w][d] = {}
                        /\ since'[w][d] = {contents[d]}
    BY <2>1 DEF Inv, TypeOK
  <2>4. QED BY <1>t, <2>1, <2>2, <2>3
          DEF Inv, disk, StampsPast, IndexSound, Trustworthy, PendingSound,
              ReusableSeen, NowSeen, WalkSeesCurrent, Stated
<1>3. ASSUME NEW d \in Dirs, OutsideChange(d) \/ SelfWrite(d) PROVE Inv'
  BY <1>3, <1>t, ChangeInv DEF OutsideChange, SelfWrite
<1>4. ASSUME UNCHANGED <<disk, walks, since, tied, lossy>>,
             \A d \in Dirs : index'[d] \subseteq index[d]
      PROVE  Inv'
  BY <1>4, <1>t DEF Inv, disk, walks, StampsPast, IndexSound, Trustworthy,
              PendingSound, ReusableSeen, NowSeen, WalkSeesCurrent, Stated
<1>5. ASSUME NEW d \in Dirs, Invalidate(d) PROVE Inv'
  BY <1>4, <1>5 DEF Invalidate, Inv, TypeOK, history
<1>6. CASE Clear
  BY <1>4, <1>6 DEF Clear, history
<1>7. CASE UNCHANGED vars
  BY <1>4, <1>7 DEF vars, history
<1>8. QED BY <1>1, <1>2, <1>3, <1>5, <1>6, <1>7 DEF Next

(* The type invariant, whatever the clock's grain. *)
THEOREM TypeCorrect == Spec => []TypeOK
<1>1. QED BY TypeInit, TypeStep, PTL DEF Spec

(* Where stamps tell the changes of a directory apart, the index never holds an
   entry that a walk would reuse although the directory has changed. *)
THEOREM IndexIsSound == Spec => []IndexSound
<1>1. Inv => IndexSound BY DEF Inv
<1>2. QED BY <1>1, InvInit, InvStep, PTL DEF Spec

(* There, too, whatever a walk uses for a directory is something the directory
   held since the walk began: scan_warm with a warm index is as good as reading
   the disk, which is how RawViewStore models a walk. *)
THEOREM WalksSeeCurrent == Spec => []WalkSeesCurrent
<1>1. Inv => WalkSeesCurrent BY DEF Inv
<1>2. QED BY <1>1, InvInit, InvStep, PTL DEF Spec

-----------------------------------------------------------------------------
(* Directories that only this process changes, whatever their stamps. *)

(* Entries and listings in hand are right whatever their stamp, save while a
   write awaits its invalidation and where a write met a listing in hand. *)
OwnInv ==
  /\ TypeOK
  /\ \A w \in Walkers, d \in Dirs \ (outside \cup late \cup lossy) :
       at[w][d] = "listed" => got[w][d] = {contents[d]}
  /\ \A d \in Dirs \ (outside \cup late \cup lossy) :
       dirty[d] = 0 => \A e \in index[d] : e.listing = contents[d]

LEMMA OwnStep == OwnInv /\ [Next]_vars => OwnInv'
<1> SUFFICES ASSUME OwnInv, [Next]_vars PROVE OwnInv'
  OBVIOUS
<1>t. TypeOK' BY TypeStep DEF OwnInv
<1> USE DEF OwnInv
<1>1. ASSUME NEW w \in Walkers, NEW d \in Dirs,
             Stat(w, d) \/ StatFails(w, d) \/ LookUp(w, d) \/ ListFails(w, d)
      PROVE  OwnInv'
  <2>1. UNCHANGED <<disk, index, dirty, outside, late, lossy>>
    BY <1>1 DEF Stat, StatFails, LookUp, ListFails, history
  <2>2. PICK s \in Stages \ {"listed"} : at' = [at EXCEPT ![w][d] = s]
    BY <1>1 DEF Stat, StatFails, LookUp, ListFails, Stage, Stages
  <2>3. \A v \in Walkers, e \in Dirs :
          at'[v][e] = "listed" => at[v][e] = "listed" /\ got'[v][e] = got[v][e]
    <3>1. at'[w][d] # "listed"
      BY <2>2 DEF TypeOK
    <3>2. \A v \in Walkers, e \in Dirs :
            <<v, e>> # <<w, d>> => at'[v][e] = at[v][e] /\ got'[v][e] = got[v][e]
      <4>1. CASE \E x \in Hits(w, d) : got' = [got EXCEPT ![w][d] = {x.listing}]
        <5>1. PICK x \in Hits(w, d) : got' = [got EXCEPT ![w][d] = {x.listing}]
          BY <4>1
        <5>2. QED BY <2>2, <5>1 DEF TypeOK
      <4>2. CASE UNCHANGED got
        BY <2>2, <4>2 DEF TypeOK
      <4>3. QED BY <1>1, <4>1, <4>2 DEF Stat, StatFails, LookUp, ListFails
    <3>3. QED BY <3>1, <3>2
  <2>4. QED BY <1>t, <2>1, <2>3 DEF disk
<1>2. ASSUME NEW w \in Walkers, NEW d \in Dirs, List(w, d) PROVE OwnInv'
  <2>1. \A v \in Walkers, e \in Dirs :
          <<v, e>> # <<w, d>> => at'[v][e] = at[v][e] /\ got'[v][e] = got[v][e]
    BY <1>2 DEF List, ListAs, Stage, TypeOK
  <2>2. got'[w][d] = {contents[d]}
    BY <1>2 DEF List, ListAs, TypeOK
  <2>3. QED BY <1>2, <1>t, <2>1, <2>2 DEF List, ListAs, disk
<1>3. ASSUME NEW w \in Walkers, NEW d \in Dirs, Insert(w, d) PROVE OwnInv'
  <2>1. \A e \in Dirs \ {d} : index'[e] = index[e]
    BY <1>3 DEF Insert, TypeOK
  <2>2. \A e \in index'[d] : e.listing \in got[w][d]
    BY <1>3 DEF Insert, TypeOK
  <2>3. \A v \in Walkers, e \in Dirs : at'[v][e] = "listed" => at[v][e] = "listed"
    BY <1>3 DEF Insert, Stage, TypeOK
  <2>4. at[w][d] = "listed" /\ UNCHANGED <<disk, got, dirty, outside, late, lossy>>
    BY <1>3 DEF Insert, history
  <2>5. QED BY <1>t, <2>1, <2>2, <2>3, <2>4 DEF disk
<1>4. ASSUME NEW w \in Walkers, NextWalk(w) PROVE OwnInv'
  <2>1. \A v \in Walkers, e \in Dirs :
          at'[v][e] = "listed" => at[v][e] = "listed" /\ got'[v][e] = got[v][e]
    <3>0. /\ at' = [at EXCEPT ![w] = [e \in Dirs |-> "ahead"]]
          /\ got' = [got EXCEPT ![w] = [e \in Dirs |-> {}]]
      BY <1>4 DEF NextWalk
    <3>1. \A v \in Walkers \ {w} : at'[v] = at[v] /\ got'[v] = got[v]
      BY <3>0 DEF TypeOK
    <3>2. \A e \in Dirs : at'[w][e] = "ahead"
      BY <3>0 DEF TypeOK
    <3>3. QED BY <3>1, <3>2
  <2>2. UNCHANGED <<disk, index, dirty, outside, late, lossy>>
    BY <1>4 DEF NextWalk
  <2>3. QED BY <1>t, <2>1, <2>2 DEF disk
<1>5. ASSUME NEW d \in Dirs, SelfWrite(d) PROVE OwnInv'
  <2>1. \A e \in Dirs \ {d} : contents'[e] = contents[e]
    BY <1>5 DEF SelfWrite, Change, TypeOK
  <2>2. /\ dirty'[d] # 0 /\ \A e \in Dirs \ {d} : dirty'[e] = dirty[e]
        /\ UNCHANGED <<index, walks, outside, lossy>>
        /\ late \subseteq late'
        /\ (\E w \in Walkers : at[w][d] = "listed") => d \in late'
    BY <1>5 DEF SelfWrite, TypeOK
  <2>3. QED BY <1>t, <2>1, <2>2 DEF walks
<1>6. ASSUME NEW d \in Dirs, Invalidate(d) PROVE OwnInv'
  <2>1. /\ index'[d] = {} /\ UNCHANGED <<disk, walks, history>>
        /\ \A e \in Dirs \ {d} : dirty'[e] = dirty[e] /\ index'[e] = index[e]
    BY <1>6 DEF Invalidate, TypeOK
  <2>2. QED BY <1>t, <2>1 DEF disk, walks, history
<1>7. CASE Clear
  BY <1>7, <1>t DEF Clear, disk, walks, history
<1>8. CASE UNCHANGED vars
  BY <1>8, <1>t DEF vars, disk, walks, history
<1>9. ASSUME NEW d \in Dirs, OutsideChange(d) PROVE OwnInv'
  <2>1. \A e \in Dirs \ {d} : contents'[e] = contents[e]
    BY <1>9 DEF OutsideChange, Change, TypeOK
  <2>2. outside' = outside \cup {d} /\ UNCHANGED <<index, walks, dirty, late, lossy>>
    BY <1>9 DEF OutsideChange
  <2>3. QED BY <1>t, <2>1, <2>2 DEF walks
<1>10. ASSUME NEW w \in Walkers, NEW d \in Dirs, ListPartly(w, d)
       PROVE  OwnInv'
  <2>1. PICK part : ListAs(w, d, part)
    BY <1>10 DEF ListPartly
  <2>2. /\ lossy' = lossy \cup {d}
        /\ UNCHANGED <<disk, index, dirty, outside, late>>
    BY <1>10, <2>1 DEF ListPartly, ListAs
  <2>3. \A v \in Walkers, e \in Dirs :
          <<v, e>> # <<w, d>> => at'[v][e] = at[v][e] /\ got'[v][e] = got[v][e]
    BY <2>1 DEF ListAs, Stage, TypeOK
  <2>4. QED BY <1>t, <2>2, <2>3 DEF disk
<1>11. QED BY <1>1, <1>2, <1>3, <1>4, <1>5, <1>6, <1>7, <1>8, <1>9, <1>10
          DEF Next, WalkStep

(* Even when two changes can share a stamp, this process's own marker writes
   to a directory nobody else changes are never hidden by the index once
   invalidated, unless a listing taken before the write was still to be
   inserted. *)
THEOREM SelfWritesAlwaysShow == Spec => []SelfWritesShow
<1>1. Init => OwnInv
  BY TypeInit DEF Init, OwnInv
<1>2. OwnInv => SelfWritesShow
  BY DEF OwnInv, SelfWritesShow, Trustworthy
<1>3. QED BY <1>1, <1>2, OwnStep, PTL DEF Spec
-----------------------------------------------------------------------------
(* Listings that may have lost entries: what is said above of equal listings
   holds of them with "part of" in place of "equal". *)

PartSound ==
  /\ \A d \in Dirs \ tied : \A e \in index[d] :
       e.mtime = mtime[d] => e.listing \subseteq contents[d]
  /\ \A w \in Walkers, d \in Dirs \ tied :
       at[w][d] = "listed" /\ stat[w][d] = mtime[d]
         => \A l \in got[w][d] : l \subseteq contents[d]

PartSeen ==
  /\ \A w \in Walkers, d \in Dirs \ tied :
       at[w][d] = "stated"
         => \A e \in index[d] :
              e.mtime = stat[w][d] => e.listing \subseteq UNION since[w][d]
  /\ \A w \in Walkers, v \in Walkers, d \in Dirs \ tied :
       at[w][d] = "stated" /\ at[v][d] = "listed" /\ stat[v][d] = stat[w][d]
         => \A l \in got[v][d] : l \subseteq UNION since[w][d]

PartInv == Inv /\ PartSound /\ PartSeen /\ NothingInvented

LEMMA PartInit == Init => PartInv
  BY InvInit DEF Init, PartInv, PartSound, PartSeen, NothingInvented

(* One step of one walk. *)
LEMMA PartWalkStep ==
  ASSUME PartInv, NEW w \in Walkers, NEW d \in Dirs, WalkStep(w, d), Inv'
  PROVE  PartInv'
<1> USE DEF PartInv, PartSound, PartSeen, NothingInvented
<1>i. TypeOK /\ NowSeen /\ StampsPast
  BY DEF Inv
<1>u. UNCHANGED <<contents, mtime, since, tied>>
  BY DEF WalkStep, Stat, StatFails, LookUp, List, ListPartly, ListAs, ListFails,
         Insert, disk, history
<1>n. contents[d] \subseteq UNION since[w][d]
  BY <1>i DEF NowSeen
<1>1. CASE Stat(w, d)
  <2>1. /\ stat' = [stat EXCEPT ![w][d] = mtime[d]]
        /\ at' = [at EXCEPT ![w][d] = "stated"]
        /\ UNCHANGED <<index, got>>
    BY <1>1 DEF Stat, Stage
  <2>2. \A v \in Walkers, e \in Dirs :
          <<v, e>> # <<w, d>> => at'[v][e] = at[v][e] /\ stat'[v][e] = stat[v][e]
    BY <1>i, <2>1 DEF TypeOK
  <2>3. at'[w][d] = "stated" /\ stat'[w][d] = mtime[d]
    BY <1>i, <2>1 DEF TypeOK
  <2>4. PartSound' /\ NothingInvented'
    BY <1>u, <2>1, <2>2, <2>3
  <2>5. ASSUME NEW v \in Walkers, NEW e \in Dirs \ tied', at'[v][e] = "stated"
        PROVE  /\ \A x \in index'[e] :
                    x.mtime = stat'[v][e] => x.listing \subseteq UNION since'[v][e]
               /\ \A u \in Walkers :
                    at'[u][e] = "listed" /\ stat'[u][e] = stat'[v][e]
                      => \A l \in got'[u][e] : l \subseteq UNION since'[v][e]
    <3>1. CASE <<v, e>> = <<w, d>>
      BY <1>n, <1>u, <2>1, <2>2, <2>3, <3>1
    <3>2. CASE <<v, e>> # <<w, d>>
      <4>1. \A u \in Walkers : at'[u][e] = "listed"
              => at[u][e] = "listed" /\ stat'[u][e] = stat[u][e]
        BY <2>2, <2>3
      <4>2. QED BY <1>u, <2>1, <2>2, <2>5, <3>2, <4>1
    <3>3. QED BY <3>1, <3>2
  <2>6. QED BY <2>4, <2>5
<1>2. CASE StatFails(w, d) \/ ListFails(w, d)
  <2>1. PICK s \in {"list_uncached", "skipped"} : at' = [at EXCEPT ![w][d] = s]
    BY <1>2 DEF StatFails, ListFails, Stage
  <2>2. \A v \in Walkers, e \in Dirs :
          at'[v][e] = at[v][e] \/ at'[v][e] \in {"list_uncached", "skipped"}
    BY <1>i, <2>1 DEF TypeOK
  <2>3. UNCHANGED <<stat, got, index>>
    BY <1>2 DEF StatFails, ListFails
  <2>4. QED BY <1>u, <2>2, <2>3
<1>3. CASE LookUp(w, d)
  <2>1. CASE Hits(w, d) = {} /\ Stage(w, d, "list") /\ UNCHANGED got
    <3>1. \A v \in Walkers, e \in Dirs :
            at'[v][e] = at[v][e] \/ at'[v][e] = "list"
      BY <1>i, <2>1 DEF Stage, TypeOK
    <3>2. UNCHANGED <<stat, got, index>>
      BY <1>3, <2>1 DEF LookUp
    <3>3. QED BY <1>u, <3>1, <3>2
  <2>2. CASE \E e \in Hits(w, d) : /\ got' = [got EXCEPT ![w][d] = {e.listing}]
                                   /\ Stage(w, d, "settled")
    <3>1. PICK e \in Hits(w, d) : /\ got' = [got EXCEPT ![w][d] = {e.listing}]
                                  /\ at' = [at EXCEPT ![w][d] = "settled"]
      BY <2>2 DEF Stage
    <3>2. at[w][d] = "stated" /\ UNCHANGED <<stat, index>>
      BY <1>3 DEF LookUp
    <3>3. d \notin tied => e.listing \subseteq UNION since[w][d]
      BY <3>2 DEF Hits
    <3>4. \A v \in Walkers, f \in Dirs :
            <<v, f>> # <<w, d>> => at'[v][f] = at[v][f] /\ got'[v][f] = got[v][f]
      BY <1>i, <3>1 DEF TypeOK
    <3>5. at'[w][d] = "settled" /\ got'[w][d] = {e.listing}
      BY <1>i, <3>1 DEF TypeOK
    <3>6. PartSound' /\ PartSeen'
      BY <1>u, <3>2, <3>4, <3>5
    <3>7. NothingInvented'
      BY <1>u, <3>3, <3>4, <3>5
    <3>8. QED BY <3>6, <3>7
  <2>3. QED BY <1>3, <2>1, <2>2 DEF LookUp
<1>4. CASE List(w, d) \/ ListPartly(w, d)
  <2>1. PICK part : part \subseteq contents[d] /\ ListAs(w, d, part)
    BY <1>4 DEF List, ListPartly
  <2>2. /\ UNCHANGED <<stat, index>>
        /\ at[w][d] \in {"list", "list_uncached"}
    BY <2>1 DEF ListAs
  <2>3. \A v \in Walkers, f \in Dirs :
          <<v, f>> # <<w, d>> => at'[v][f] = at[v][f] /\ got'[v][f] = got[v][f]
    BY <1>i, <2>1 DEF ListAs, Stage, TypeOK
  <2>4. got'[w][d] = {part} /\ at'[w][d] \in {"listed", "settled"}
    BY <1>i, <2>1 DEF ListAs, Stage, TypeOK
  <2>5. PartSound'
    BY <1>u, <2>1, <2>2, <2>3, <2>4
  <2>6. \A v \in Walkers : part \subseteq UNION since[v][d]
    BY <1>i, <2>1 DEF NowSeen
  <2>7. NothingInvented'
    BY <1>u, <2>3, <2>4, <2>6
  <2>8. PartSeen'
    BY <1>u, <2>2, <2>3, <2>4, <2>6
  <2>9. QED BY <2>5, <2>7, <2>8
<1>5. CASE Insert(w, d)
  <2>1. /\ index' = [index EXCEPT ![d] =
                       {[mtime |-> stat[w][d], listing |-> l] : l \in got[w][d]}]
        /\ UNCHANGED <<stat, got>>
        /\ at[w][d] = "listed"
    BY <1>5 DEF Insert
  <2>2. \A v \in Walkers, f \in Dirs :
          at'[v][f] = at[v][f] \/ at'[v][f] = "settled"
    BY <1>5, <1>i DEF Insert, Stage, TypeOK
  <2>3. \A f \in Dirs \ {d} : index'[f] = index[f]
    BY <1>i, <2>1 DEF TypeOK
  <2>4. \A e \in index'[d] : e.mtime = stat[w][d] /\ e.listing \in got[w][d]
    BY <1>i, <2>1 DEF TypeOK
  <2>5. PartSound' /\ NothingInvented'
    BY <1>u, <2>1, <2>2, <2>3, <2>4
  <2>6. PartSeen'
    BY <1>u, <2>1, <2>2, <2>3, <2>4
  <2>7. QED BY <2>5, <2>6
<1>6. QED BY <1>1, <1>2, <1>3, <1>4, <1>5 DEF WalkStep

(* A change leaves nothing that carries the directory's new stamp. *)
LEMMA PartChange ==
  ASSUME PartInv, NEW d \in Dirs, Change(d), UNCHANGED <<index, walks>>, Inv'
  PROVE  PartInv'
<1> USE DEF PartInv, PartSound, PartSeen, NothingInvented, walks
<1>i. TypeOK /\ StampsPast /\ StampsPast'
  BY DEF Inv
<1>1. PICK t \in {clock, clock + 1} :
        /\ mtime' = [mtime EXCEPT ![d] = t]
        /\ tied' = IF t = mtime[d] THEN tied \cup {d} ELSE tied
  BY DEF Change
<1>2. PICK c \in Contents :
        /\ contents' = [contents EXCEPT ![d] = c]
        /\ since' = [w \in Walkers |-> [since[w] EXCEPT ![d] = @ \cup {c}]]
  BY DEF Change
<1>3. mtime'[d] = t /\ mtime[d] <= t /\ t \in Nat /\ mtime[d] \in Nat
  BY <1>1, <1>i DEF TypeOK, StampsPast
<1>4. \A e \in Dirs \ {d} : mtime'[e] = mtime[e] /\ contents'[e] = contents[e]
  BY <1>i, <1>1, <1>2 DEF TypeOK
<1>5. \A w \in Walkers, e \in Dirs : UNION since[w][e] \subseteq UNION since'[w][e]
  BY <1>i, <1>2 DEF TypeOK
<1>6. tied \subseteq tied'
  BY <1>1
<1>7. PartSound'
  <2>1. CASE t = mtime[d]
    BY <1>1, <1>4, <2>1
  <2>2. CASE t # mtime[d]
    <3>1. mtime[d] < mtime'[d]
      BY <1>3, <2>2
    <3>2. \A e \in index[d] : e.mtime # mtime'[d]
      BY <1>i, <3>1 DEF TypeOK, CachedDir, StampsPast
    <3>3. \A w \in Walkers : at[w][d] = "listed" => stat[w][d] # mtime'[d]
      BY <1>i, <3>1 DEF TypeOK, StampsPast, Stated
    <3>4. QED BY <1>1, <1>4, <2>2, <3>2, <3>3
  <2>3. QED BY <2>1, <2>2
<1>8. NothingInvented'
  BY <1>5, <1>6
<1>9. PartSeen'
  BY <1>5, <1>6
<1>10. QED BY <1>7, <1>8, <1>9

LEMMA PartStep == PartInv /\ [Next]_vars => PartInv'
<1> SUFFICES ASSUME PartInv, [Next]_vars PROVE PartInv'
  OBVIOUS
<1>i. Inv' BY InvStep DEF PartInv
<1>1. ASSUME NEW w \in Walkers, NEW d \in Dirs, WalkStep(w, d) PROVE PartInv'
  BY <1>1, <1>i, PartWalkStep
<1>2. ASSUME NEW w \in Walkers, NextWalk(w) PROVE PartInv'
  <2>1. /\ at' = [at EXCEPT ![w] = [d \in Dirs |-> "ahead"]]
        /\ stat' = [stat EXCEPT ![w] = [d \in Dirs |-> 0]]
        /\ got' = [got EXCEPT ![w] = [d \in Dirs |-> {}]]
        /\ since' = [since EXCEPT ![w] = [d \in Dirs |-> {contents[d]}]]
        /\ UNCHANGED <<disk, index, tied>>
    BY <1>2 DEF NextWalk
  <2>2. \A v \in Walkers \ {w} :
          /\ at'[v] = at[v] /\ stat'[v] = stat[v]
          /\ got'[v] = got[v] /\ since'[v] = since[v]
    BY <2>1 DEF PartInv, Inv, TypeOK
  <2>3. \A d \in Dirs : at'[w][d] = "ahead" /\ got'[w][d] = {}
    BY <2>1 DEF PartInv, Inv, TypeOK
  <2>4. QED BY <1>i, <2>1, <2>2, <2>3
          DEF PartInv, PartSound, PartSeen, NothingInvented, disk
<1>3. ASSUME NEW d \in Dirs, OutsideChange(d) \/ SelfWrite(d) PROVE PartInv'
  BY <1>3, <1>i, PartChange DEF OutsideChange, SelfWrite
<1>4. ASSUME UNCHANGED <<disk, walks, since, tied>>,
             \A d \in Dirs : index'[d] \subseteq index[d]
      PROVE  PartInv'
  BY <1>4, <1>i DEF PartInv, PartSound, PartSeen, NothingInvented, disk, walks
<1>5. ASSUME NEW d \in Dirs, Invalidate(d) PROVE PartInv'
  BY <1>4, <1>5 DEF Invalidate, PartInv, Inv, TypeOK, history
<1>6. CASE Clear
  BY <1>4, <1>6 DEF Clear, history
<1>7. CASE UNCHANGED vars
  BY <1>4, <1>7 DEF vars, history
<1>8. QED BY <1>1, <1>2, <1>3, <1>5, <1>6, <1>7 DEF Next

(* Whatever entries a listing lost, and however long it is reused, nothing a
   walk reports was absent throughout that walk, where stamps tell the changes
   of a directory apart. *)
THEOREM NothingIsInvented == Spec => []NothingInvented
<1>1. PartInv => NothingInvented BY DEF PartInv
<1>2. QED BY <1>1, PartInit, PartStep, PTL DEF Spec
=============================================================================
