------------------------- MODULE VolumeBindingsProofs -------------------------
(* VolumeBindings keeps its promise, for any images, volumes and containers. *)
EXTENDS VolumeBindings, TLAPS

\* The invariants hold at the start: nothing is known.
LEMMA InitPromise == Init => TypeOK /\ KnownContainersExist
BY DEF Init, TypeOK, KnownContainersExist, Known, Served, Used

\* Every operation keeps the promise.
LEMMA NextPromise ==
  ASSUME BindingsAssumption, TypeOK, KnownContainersExist, [Next]_bindingVars
  PROVE  TypeOK' /\ KnownContainersExist'
<1> USE DEF BindingsAssumption, TypeOK, KnownContainersExist, Known, Served, Used
<1>1. CASE UNCHANGED bindingVars
  BY <1>1 DEF bindingVars
<1>2. ASSUME NEW v \in Volumes, Bind(v)
      PROVE  TypeOK' /\ KnownContainersExist'
  BY <1>2 DEF Bind
<1>3. ASSUME NEW v \in Volumes, UnmountVolume(v)
      PROVE  TypeOK' /\ KnownContainersExist'
  BY <1>3 DEF UnmountVolume
<1>4. ASSUME NEW c \in Containers, NEW v \in Volumes, Release(c, v) \/ MountVolume(c, v)
      PROVE  TypeOK' /\ KnownContainersExist'
  BY <1>4 DEF Release, MountVolume
<1>5. ASSUME NEW c \in Containers, Create(c)
      PROVE  TypeOK' /\ KnownContainersExist'
  BY <1>5 DEF Create
<1>6. ASSUME NEW c \in Containers, NEW i \in Images, Serve(i, c)
      PROVE  TypeOK' /\ KnownContainersExist'
  <2>1. TypeOK'
    BY <1>6 DEF Serve
  <2>2. \A j \in Images : current'[j] = IF j = i THEN c ELSE current[j]
    BY <1>6 DEF Serve
  <2>3. retired' = retired \cup ({current[i]} \ {None}) /\ users' = users /\ exists' = exists
    BY <1>6 DEF Serve
  <2>4. c \in exists /\ c \notin Known
    BY <1>6 DEF Serve
  <2> QED
    BY <2>1, <2>2, <2>3, <2>4
<1>7. ASSUME NEW S \in SUBSET Images, Retire(S)
      PROVE  TypeOK' /\ KnownContainersExist'
  <2>1. \A j \in Images : current'[j] = IF j \in S THEN None ELSE current[j]
    BY <1>7 DEF Retire
  <2>2. retired' = retired \cup {current[j] : j \in S} /\ users' = users /\ exists' = exists
    BY <1>7 DEF Retire
  <2>3. TypeOK'
    BY <1>7 DEF Retire
  <2> QED
    BY <1>7, <2>1, <2>2, <2>3 DEF Retire
<1>8. ASSUME NEW S \in SUBSET Containers, Forget(S) \/ Delete(S)
      PROVE  TypeOK' /\ KnownContainersExist'
  BY <1>8 DEF Forget, Delete
<1>9. CASE UnmountAll
  BY <1>9 DEF UnmountAll
<1> QED
  BY <1>1, <1>2, <1>3, <1>4, <1>5, <1>6, <1>7, <1>8, <1>9 DEF Next

\* The promise holds at all times: no container that an image, a volume or the
\* list of retired containers leads to is ever deleted.
THEOREM PromiseHolds ==
  ASSUME BindingsAssumption
  PROVE  Spec => [](TypeOK /\ KnownContainersExist)
<1>1. TypeOK /\ KnownContainersExist /\ [Next]_bindingVars
        => TypeOK' /\ KnownContainersExist'
  BY NextPromise
<1> QED BY InitPromise, <1>1, PTL DEF Spec
==============================================================================
