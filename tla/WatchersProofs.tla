--------------------------- MODULE WatchersProofs ---------------------------
(***************************************************************************)
(* What holds for any number of providers, kinds, failures and restarts:   *)
(* no goroutine gives up, and no installation is missed.                   *)
(***************************************************************************)
EXTENDS Watchers, TLAPS

\* Where a goroutine is tells what it has watched.
Progress(p) ==
  /\ pc[p] = "watch" => \A i \in 1..next[p] - 1 : watches[Watches[p][i]] > 0
  /\ pc[p] = "controller" => IsWatched(p)
  /\ pc[p] = "done" => IsWatched(p) \/ crdWatcher[p] # "off"

\* A watcher that runs has an event for each CRD of its group.
Noticed(p) ==
  crdWatcher[p] = "on" =>
    \A k \in Group[p] \cap installed : k \in crdEvents[p] \/ process = "terminating"

IInv == TypeOK /\ \A p \in Provider : Progress(p) /\ Noticed(p)

\* A bounded counter stays a natural number when one more use is made of it.
LEMMA SpendType ==
  ASSUME TypeOK, NEW counter \in Counters, Spend(counter)
  PROVE  left' \in [Counters -> Nat]
BY DEF TypeOK, Spend

\* The kinds to be watched.
LEMMA WatchesTypes ==
  ASSUME NEW p \in Provider
  PROVE  /\ Len(Watches[p]) \in Nat \ {0}
         /\ \A i \in 1..Len(Watches[p]) : Watches[p][i] \in Kind
BY WatchersAssumption

\* A process that starts or ends has done nothing yet.
LEMMA ProcessKeeps ==
  ASSUME IInv, NEW state \in {"down", "starting"}, NEW goroutine \in {"off", "check"},
         ProcessIs(state, goroutine), installed' = installed, left' \in [Counters -> Nat]
  PROVE  IInv'
<1>1. \A p \in Provider : 1 \leq Len(Watches[p])
  BY WatchesTypes
<1>2. TypeOK'
  BY <1>1 DEF IInv, TypeOK, ProcessIs
<1>3. \A p \in Provider : pc'[p] = goroutine /\ crdWatcher'[p] = "off"
  BY DEF ProcessIs
<1> QED BY <1>2, <1>3 DEF IInv, Progress, Noticed

\* A change of a CRD is told to every watcher that runs.
LEMMA CRDStep ==
  ASSUME IInv, NEW k \in Kind, InstallCRD(k) \/ RemoveCRD(k)
  PROVE  IInv'
<1>1. /\ left' \in [Counters -> Nat]
      /\ installed' \subseteq installed \cup {k} /\ installed' \subseteq Kind
      /\ UNCHANGED <<process, goroutines, crdWatcher>>
      /\ crdEvents' = [p \in Provider |->
           IF crdWatcher[p] = "on" THEN crdEvents[p] \cup {k} ELSE crdEvents[p]]
  BY SpendType DEF IInv, TypeOK, InstallCRD, RemoveCRD, CRDChanges, Counters
<1>2. TypeOK'
  BY <1>1 DEF IInv, TypeOK, goroutines
<1>3. ASSUME NEW p \in Provider
      PROVE  Progress(p)' /\ Noticed(p)'
  BY <1>1 DEF IInv, Progress, Noticed, IsWatched, goroutines
<1> QED BY <1>2, <1>3 DEF IInv

\* A goroutine moves on, or starts again.
LEMMA GoroutineStep ==
  ASSUME IInv, NEW p \in Provider, Goroutine(p)
  PROVE  IInv'
<1>0. Len(Watches[p]) \in Nat \ {0}
  BY WatchesTypes
<1>1. CASE CheckInstalled(p)
  <2>1. /\ left' \in [Counters -> Nat]
        /\ UNCHANGED <<installed, process, watches, crdEvents>>
        /\ next' = [next EXCEPT ![p] = 1]
        /\ \/ pc' = [pc EXCEPT ![p] = "watch"] /\ UNCHANGED crdWatcher
           \/ pc' = [pc EXCEPT ![p] = "done"] /\ crdWatcher' = [crdWatcher EXCEPT ![p] = "starting"]
           \/ UNCHANGED <<pc, crdWatcher>> /\ pc[p] = "check"
    <3>1. left' \in [Counters -> Nat]
      BY <1>1, SpendType DEF CheckInstalled, IInv, TypeOK, Counters
    <3> QED BY <1>1, <3>1 DEF CheckInstalled
  <2>2. TypeOK'
    <3>1. ASSUME NEW q \in Provider
          PROVE  next'[q] \in Nat \ {0} /\ next'[q] \leq Len(Watches[q])
      BY <1>0, <2>1 DEF IInv, TypeOK
    <3>2. /\ pc' \in [Provider -> {"off", "check", "watch", "controller", "done"}]
          /\ crdWatcher' \in [Provider -> {"off", "starting", "on"}]
      BY <2>1 DEF IInv, TypeOK
    <3>3. next' \in [Provider -> Nat \ {0}]
      BY <2>1 DEF IInv, TypeOK
    <3> QED BY <2>1, <3>1, <3>2, <3>3 DEF IInv, TypeOK
  <2>3. ASSUME NEW q \in Provider
        PROVE  Progress(q)' /\ Noticed(q)'
    BY <2>1 DEF IInv, TypeOK, Progress, Noticed, IsWatched
  <2> QED BY <2>2, <2>3 DEF IInv
<1>2. CASE Watch(p)
  <2>0. next[p] \in 1..Len(Watches[p]) /\ Watches[p][next[p]] \in Kind
    BY <1>0, WatchesTypes DEF IInv, TypeOK
  <2>1. /\ left' \in [Counters -> Nat] /\ pc[p] = "watch"
        /\ UNCHANGED <<installed, process, crds>>
        /\ \/ /\ watches' = [watches EXCEPT ![Watches[p][next[p]]] = @ + 1]
              /\ \/ Last(p) /\ pc' = [pc EXCEPT ![p] = Watched(p)] /\ UNCHANGED next
                 \/ ~Last(p) /\ next' = [next EXCEPT ![p] = @ + 1] /\ UNCHANGED pc
           \/ pc' = [pc EXCEPT ![p] = "check"] /\ UNCHANGED <<next, watches>>
    <3>1. left' \in [Counters -> Nat]
      BY <1>2, SpendType DEF Watch, IInv, TypeOK, Counters
    <3> QED BY <1>2, <3>1 DEF Watch
  <2>2. Watched(p) \in {"controller", "done"}
    BY DEF Watched
  <2>3. TypeOK'
    <3>1. pc' \in [Provider -> {"off", "check", "watch", "controller", "done"}]
      BY <2>1, <2>2 DEF IInv, TypeOK
    <3>2. watches' \in [Kind -> Nat]
      <4>1. ASSUME NEW k \in Kind, watches' = [watches EXCEPT ![k] = @ + 1]
            PROVE  watches' \in [Kind -> Nat]
        BY <4>1 DEF IInv, TypeOK
      <4>2. CASE UNCHANGED watches
        BY <4>2 DEF IInv, TypeOK
      <4> QED BY <2>0, <2>1, <4>1, <4>2
    <3>3. next' \in [Provider -> Nat \ {0}]
      <4>1. CASE next' = [next EXCEPT ![p] = @ + 1]
        BY <4>1 DEF IInv, TypeOK
      <4>2. CASE UNCHANGED next
        BY <4>2 DEF IInv, TypeOK
      <4> QED BY <2>1, <4>1, <4>2
    <3>4. ASSUME NEW q \in Provider
          PROVE  next'[q] \leq Len(Watches[q])
      BY <1>0, <2>0, <2>1 DEF IInv, TypeOK, Last
    <3> QED BY <2>1, <3>1, <3>2, <3>3, <3>4 DEF IInv, TypeOK, crds
  <2>4. \A k \in Kind : watches[k] > 0 => watches'[k] > 0
    BY <2>0, <2>1 DEF IInv, TypeOK
  <2>5. ASSUME NEW q \in Provider, q # p
        PROVE  Progress(q)'
    <3>1. pc'[q] = pc[q] /\ next'[q] = next[q] /\ crdWatcher'[q] = crdWatcher[q]
      BY <2>1, <2>5 DEF IInv, TypeOK, crds
    <3>2. \A i \in 1..Len(Watches[q]) : Watches[q][i] \in Kind
      BY WatchesTypes
    <3>3. next[q] \in Nat \ {0} /\ next[q] \leq Len(Watches[q]) /\ Len(Watches[q]) \in Nat
      BY WatchesTypes DEF IInv, TypeOK
    <3> QED BY <2>4, <3>1, <3>2, <3>3 DEF IInv, Progress, IsWatched
  <2>6. Progress(p)'
    <3>1. \A i \in 1..Len(Watches[p]) : Watches[p][i] \in Kind
      BY WatchesTypes
    <3>2. CASE pc' = [pc EXCEPT ![p] = "check"] /\ UNCHANGED <<next, watches>>
      BY <3>2 DEF IInv, TypeOK, Progress
    <3>3. CASE /\ watches' = [watches EXCEPT ![Watches[p][next[p]]] = @ + 1]
               /\ \/ Last(p) /\ pc' = [pc EXCEPT ![p] = Watched(p)] /\ UNCHANGED next
                  \/ ~Last(p) /\ next' = [next EXCEPT ![p] = @ + 1] /\ UNCHANGED pc
      <4>1. \A i \in 1..next[p] : watches'[Watches[p][i]] > 0
        <5>1. watches'[Watches[p][next[p]]] > 0
          BY <2>0, <3>3 DEF IInv, TypeOK
        <5>2. \A i \in 1..next[p] - 1 : watches'[Watches[p][i]] > 0
          BY <2>0, <2>1, <2>4, <3>1 DEF IInv, Progress
        <5> QED BY <2>0, <5>1, <5>2
      <4>2. CASE Last(p) /\ pc' = [pc EXCEPT ![p] = Watched(p)]
        BY <2>2, <4>1, <4>2 DEF IInv, TypeOK, Progress, IsWatched, Last
      <4>3. CASE next' = [next EXCEPT ![p] = @ + 1] /\ UNCHANGED pc
        BY <2>0, <2>1, <4>1, <4>3 DEF IInv, TypeOK, Progress
      <4> QED BY <3>3, <4>2, <4>3
    <3> QED BY <2>1, <3>2, <3>3
  <2>7. ASSUME NEW q \in Provider
        PROVE  Noticed(q)'
    BY <2>1 DEF IInv, Noticed, crds
  <2> QED BY <2>3, <2>5, <2>6, <2>7 DEF IInv
<1>3. CASE SetUpController(p)
  <2>1. CASE pc' = [pc EXCEPT ![p] = "done"] /\ UNCHANGED <<process, next, watches, crds, left>>
    <3>1. pc[p] = "controller" /\ UNCHANGED installed
      BY <1>3 DEF SetUpController
    <3>2. TypeOK'
      BY <2>1, <3>1 DEF IInv, TypeOK, crds
    <3>3. ASSUME NEW q \in Provider
          PROVE  Progress(q)' /\ Noticed(q)'
      BY <2>1, <3>1 DEF IInv, TypeOK, Progress, Noticed, IsWatched, crds
    <3> QED BY <3>2, <3>3 DEF IInv
  <2>2. CASE Spend("failures") /\ ProcessIs("down", "off")
    BY <1>3, <2>2, SpendType, ProcessKeeps DEF SetUpController, IInv, Counters
  <2> QED BY <1>3, <2>1, <2>2 DEF SetUpController
<1>4. CASE ListCRDs(p)
  <2>1. TypeOK'
    BY <1>4 DEF ListCRDs, IInv, TypeOK, goroutines
  <2>2. ASSUME NEW q \in Provider
        PROVE  Progress(q)' /\ Noticed(q)'
    BY <1>4 DEF ListCRDs, IInv, TypeOK, Progress, Noticed, IsWatched, goroutines
  <2> QED BY <2>1, <2>2 DEF IInv
<1> QED BY <1>1, <1>2, <1>3, <1>4 DEF Goroutine

\* A CRD of the group that was handled has ended the process, or will.
LEMMA HandleStep ==
  ASSUME IInv, NEW p \in Provider, NEW k \in Kind, HandleCRD(p, k)
  PROVE  IInv'
<1>1. CASE Concerns(p, k) /\ process = "terminating"
  BY <1>1, ProcessKeeps DEF HandleCRD, IInv, TypeOK
<1>2. CASE ~(Concerns(p, k) /\ process = "terminating")
  <2>1. /\ process' = IF Concerns(p, k) THEN "terminating" ELSE process
        /\ crdEvents' = [crdEvents EXCEPT ![p] = @ \ {k}]
        /\ UNCHANGED <<goroutines, crdWatcher, installed, left>>
    BY <1>2 DEF HandleCRD
  <2>2. TypeOK'
    BY <2>1 DEF IInv, TypeOK, goroutines
  <2>3. ASSUME NEW q \in Provider
        PROVE  Progress(q)' /\ Noticed(q)'
    BY <2>1 DEF IInv, TypeOK, Progress, Noticed, IsWatched, Concerns, goroutines
  <2> QED BY <2>2, <2>3 DEF IInv
<1> QED BY <1>1, <1>2

\* The strengthening is inductive.
LEMMA IInvHolds == Spec => []IInv
<1>0. ASSUME NEW p \in Provider
      PROVE  1 \leq Len(Watches[p])
  <2>1. Len(Watches[p]) \in Nat \ {0}
    BY WatchesTypes
  <2> QED BY <2>1
<1>1. Init => IInv
  <2> SUFFICES ASSUME Init PROVE IInv
    OBVIOUS
  <2>2. left \in [Counters -> Nat]
    BY WatchersAssumption DEF Init
  <2> QED BY <1>0, <2>2 DEF Init, IInv, TypeOK, Progress, Noticed
<1>2. IInv /\ [Next]_vars => IInv'
  <2> SUFFICES ASSUME IInv, [Next]_vars PROVE IInv'
    OBVIOUS
  <2>0. left \in [Counters -> Nat]
    BY DEF IInv, TypeOK
  <2>1. CASE Start \/ Stop \/ Crash
    BY <2>0, <2>1, SpendType, ProcessKeeps DEF Start, Stop, Crash, IInv, Counters
  <2>2. CASE CacheStarts
    <3>1. TypeOK'
      BY <2>2 DEF CacheStarts, IInv, TypeOK, goroutines, crds
    <3>2. ASSUME NEW p \in Provider
          PROVE  Progress(p)' /\ Noticed(p)'
      BY <2>2 DEF CacheStarts, IInv, Progress, Noticed, IsWatched, goroutines, crds
    <3> QED BY <3>1, <3>2 DEF IInv
  <2>3. CASE UNCHANGED vars
    BY <2>3 DEF vars, goroutines, crds, IInv, TypeOK, Progress, Noticed, IsWatched
  <2> QED BY <2>1, <2>2, <2>3, CRDStep, GoroutineStep, HandleStep DEF Next
<1> QED BY <1>1, <1>2, PTL DEF Spec

\* Types, and that a goroutine that watches has a kind to watch.
THEOREM WatchersTypeCorrect == Spec => []TypeOK
<1>1. IInv => TypeOK
  BY DEF IInv
<1> QED BY <1>1, IInvHolds, PTL

\* A goroutine ends only when its kinds are watched or somebody waits for them.
THEOREM NeverGivesUpHolds == Spec => []NeverGivesUp
<1>1. IInv => NeverGivesUp
  BY DEF IInv, Progress, NeverGivesUp
<1> QED BY <1>1, IInvHolds, PTL

\* No installation is missed, also one between the check and the CRD watcher.
THEOREM InstallNoticedHolds == Spec => []InstallNoticed
<1>1. IInv => InstallNoticed
  BY DEF IInv, Noticed, InstallNoticed
<1> QED BY <1>1, IInvHolds, PTL

\* When nothing is left to do, each provider is watched or absent: the goroutine of
\* one that is not watched left a watcher of CRDs, which saw no CRD of its group.
THEOREM QuietWatchedHolds == Spec => []QuietWatched
<1>1. IInv => QuietWatched
  <2> SUFFICES ASSUME IInv, process = "running", NEW p \in Provider,
                      pc[p] = "done", crdWatcher[p] # "starting", crdEvents[p] = {},
                      ~IsWatched(p)
               PROVE  Group[p] \cap installed = {}
    BY DEF QuietWatched
  <2>1. crdWatcher[p] = "on"
    BY DEF IInv, TypeOK, Progress
  <2> QED BY <2>1 DEF IInv, Noticed
<1> QED BY <1>1, IInvHolds, PTL
=============================================================================
