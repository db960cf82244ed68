-------------------- MODULE SoftwareCatalogsAdapterProofs --------------------
(***************************************************************************)
(* The adapter's safety, for any catalogs, images and number of retries.   *)
(***************************************************************************)
EXTENDS SoftwareCatalogsAdapter, TLAPS

\* While there are images left to pull, the round is in a catalog.
InCatalog == entTodo # {} => catalogName \in Catalogs

AdapterInv == TypeOK /\ InCatalog /\ StaleCatalogsAreNoticed

\* What a fresh adapter, and a fresh round, start from.
LEMMA EmptyMaps == /\ NoCatalogs \in CatalogFiles
                   /\ NoImages \in [Images -> Described \cup {None}]
BY DEF NoCatalogs, CatalogFiles, NoImages

\* The steps that start or refuse a round for a changed catalogs file, of n
\* retry timers left: a refused round arms another one.
LEMMA RoundPreserves ==
  ASSUME AdapterInv, NEW n \in 0..MaxRetries, ConfigChangedRound(n),
         UNCHANGED <<config, registry, local, imagesFile>>,
         changed' \in BOOLEAN, tick' \in BOOLEAN
  PROVE  AdapterInv'
<1>1. n + 1 \in 1..MaxRetries \/ n = MaxRetries
  BY AdapterAssumption
<1>2. CASE config # None /\ Pull(config) /\ retries' = n
  <2>1. TypeOK'
    BY <1>2, AdapterAssumption
    DEF AdapterInv, TypeOK, ConfigChangedRound, Pull, NoImages
  <2> QED
    BY <1>2, <2>1
    DEF AdapterInv, InCatalog, StaleCatalogsAreNoticed, Pull
<1>3. CASE config = None /\ catalogs' = NoCatalogs /\ pc' = "wait" /\ Retry(n)
             /\ UNCHANGED <<images, round, failed>>
  <2>1. retries' \in 0..MaxRetries /\ retries' > 0
    BY <1>1, <1>3, AdapterAssumption DEF Retry
  <2>2. TypeOK'
    BY <1>3, <2>1, EmptyMaps DEF AdapterInv, TypeOK, ConfigChangedRound, round
  <2> QED
    BY <1>3, <2>1, <2>2
    DEF AdapterInv, InCatalog, StaleCatalogsAreNoticed, round
<1> QED BY <1>2, <1>3 DEF ConfigChangedRound

\* buildah pull prints an image ID, or it fails.
LEMMA PulledIDs ==
  ASSUME TypeOK, NEW i \in Images, NEW policy
  PROVE  pulledIDs(i, policy) \subseteq ImageIDs \cup {None}
BY DEF TypeOK, pulledIDs

LEMMA PullEntryPreserves ==
  ASSUME AdapterInv, PullEntry
  PROVE  AdapterInv'
<1>1. PICK i \in entTodo :
        /\ entTodo' = entTodo \ {i}
        /\ \/ alreadyPulled(i) /\ UNCHANGED <<local, images, failed>>
           \/ \E id \in pulledIDs(i, buildahPolicy(catalogName)) : pullImage(i, id)
  BY DEF PullEntry
<1>2. i \in Images /\ catalogName \in Catalogs
  BY DEF AdapterInv, TypeOK, InCatalog
<1>3. pulledIDs(i, buildahPolicy(catalogName)) \subseteq ImageIDs \cup {None}
  BY <1>2, PulledIDs DEF AdapterInv
<1>4. ASSUME NEW id \in ImageIDs \cup {None}, pullImage(i, id)
      PROVE  AdapterInv'
  <2>1. CASE id = None
    BY <1>1, <1>4, <2>1
    DEF AdapterInv, TypeOK, InCatalog, StaleCatalogsAreNoticed, PullEntry, pullImage
  <2>2. CASE id \in ImageIDs
    <3>1. [imageID |-> id, catalogName |-> catalogName] \in Described
      BY <1>2, <2>2 DEF Described
    <3>2. /\ local' \in [Images -> ImageIDs \cup {None}]
          /\ images' \in [Images -> Described \cup {None}]
          /\ failed' \in BOOLEAN
      BY <1>2, <1>4, <2>2, <3>1, AdapterAssumption DEF AdapterInv, TypeOK, pullImage
    <3> QED
      BY <1>1, <3>2
      DEF AdapterInv, TypeOK, InCatalog, StaleCatalogsAreNoticed, PullEntry
  <2> QED BY <2>1, <2>2
<1>5. CASE UNCHANGED <<local, images, failed>>
  BY <1>1, <1>5
  DEF AdapterInv, TypeOK, InCatalog, StaleCatalogsAreNoticed, PullEntry
<1> QED BY <1>1, <1>3, <1>4, <1>5

\* The other steps of a round, which start from the catalogs the round has.
LEMMA RoundStepsPreserve ==
  ASSUME AdapterInv,
         ReceiveTick \/ NextCatalog \/ FinishRound(TRUE) \/ FinishRound(FALSE)
  PROVE  AdapterInv'
<1>1. CASE ReceiveTick
  BY <1>1
  DEF AdapterInv, TypeOK, InCatalog, StaleCatalogsAreNoticed, ReceiveTick, Pull, NoImages
<1>2. CASE NextCatalog
  <2>1. PICK c \in catTodo : /\ catalogName' = c
                             /\ catTodo' = catTodo \ {c}
                             /\ entTodo' = catalogs[c]
    BY <1>2 DEF NextCatalog
  <2>2. c \in Catalogs /\ catalogs[c] \subseteq Images
    BY <2>1 DEF AdapterInv, TypeOK, CatalogFiles
  <2> QED
    BY <1>2, <2>1, <2>2
    DEF AdapterInv, TypeOK, InCatalog, StaleCatalogsAreNoticed, NextCatalog
<1>3. CASE FinishRound(TRUE) \/ FinishRound(FALSE)
  BY <1>3
  DEF AdapterInv, TypeOK, InCatalog, StaleCatalogsAreNoticed, FinishRound, round
<1> QED BY <1>1, <1>2, <1>3

\* The surroundings of the puller, and its process.
LEMMA OthersPreserve ==
  ASSUME AdapterInv, Launch \/ Tick \/ EditCatalogs \/ ChangeRegistry \/ Restart
  PROVE  AdapterInv'
<1>1. CASE Launch
  BY <1>1 DEF AdapterInv, TypeOK, InCatalog, StaleCatalogsAreNoticed, Launch, round
<1>2. CASE Tick
  BY <1>2 DEF AdapterInv, TypeOK, InCatalog, StaleCatalogsAreNoticed, Tick, round
<1>3. CASE EditCatalogs
  BY <1>3 DEF AdapterInv, TypeOK, InCatalog, StaleCatalogsAreNoticed, EditCatalogs, round
<1>4. CASE ChangeRegistry
  BY <1>4
  DEF AdapterInv, TypeOK, InCatalog, StaleCatalogsAreNoticed, ChangeRegistry, round
<1>5. CASE Restart
  <2>1. failed' \in BOOLEAN /\ changed' \in BOOLEAN /\ tick' \in BOOLEAN
    BY <1>5 DEF Restart
  <2>2. retries' \in 0..MaxRetries
    BY <1>5, AdapterAssumption DEF Restart
  <2>3. TypeOK'
    BY <1>5, <2>1, <2>2, EmptyMaps DEF AdapterInv, TypeOK, Restart
  <2> QED
    BY <1>5, <2>3 DEF AdapterInv, InCatalog, StaleCatalogsAreNoticed, Restart
<1> QED BY <1>1, <1>2, <1>3, <1>4, <1>5

LEMMA AdapterNext == AdapterInv /\ [Next]_vars => AdapterInv'
<1> SUFFICES ASSUME AdapterInv, [Next]_vars PROVE AdapterInv'
  OBVIOUS
<1>1. retries \in 0..MaxRetries /\ changed \in BOOLEAN /\ tick \in BOOLEAN
  BY DEF AdapterInv, TypeOK
<1>2. CASE FirstRound
  BY <1>1, <1>2, RoundPreserves DEF FirstRound
<1>3. CASE ReceiveChange
  BY <1>1, <1>3, RoundPreserves DEF ReceiveChange
<1>4. CASE ReceiveRetry
  <2>1. retries - 1 \in 0..MaxRetries
    BY <1>1, <1>4, AdapterAssumption DEF ReceiveRetry
  <2> QED BY <1>1, <1>4, <2>1, RoundPreserves DEF ReceiveRetry
<1>5. CASE PullEntry
  BY <1>5, PullEntryPreserves
<1>6. CASE ReceiveTick \/ NextCatalog \/ FinishRound(TRUE) \/ FinishRound(FALSE)
  BY <1>6, RoundStepsPreserve
<1>7. CASE Launch \/ Tick \/ EditCatalogs \/ ChangeRegistry \/ Restart
  BY <1>7, OthersPreserve
<1>8. CASE UNCHANGED vars
  BY <1>8 DEF AdapterInv, TypeOK, InCatalog, StaleCatalogsAreNoticed, vars, round
<1> QED BY <1>2, <1>3, <1>4, <1>5, <1>6, <1>7, <1>8 DEF Next, Puller

LEMMA AdapterInit == Init => AdapterInv
<1> SUFFICES ASSUME Init PROVE AdapterInv
  OBVIOUS
<1>1. failed \in BOOLEAN /\ changed \in BOOLEAN /\ tick \in BOOLEAN
  BY DEF Init
<1>2. retries \in 0..MaxRetries
  BY AdapterAssumption DEF Init
<1>3. imagesFile \in [Images -> Described \cup {None}]
  BY EmptyMaps DEF Init
<1>4. TypeOK
  BY <1>1, <1>2, <1>3, EmptyMaps DEF Init, TypeOK
<1> QED BY <1>4 DEF Init, AdapterInv, InCatalog, StaleCatalogsAreNoticed

LEMMA AdapterInvariant == Spec => []AdapterInv
BY AdapterInit, AdapterNext, PTL DEF Spec

\* Every variable of the adapter keeps its type: in particular an image is
\* listed only with the ID of a pull that succeeded.
THEOREM AdapterTypeCorrect == Spec => []TypeOK
<1>1. AdapterInv => TypeOK
  BY DEF AdapterInv
<1> QED BY <1>1, AdapterInvariant, PTL

\* The adapter never settles on catalogs that are not those of the file,
\* whatever edits, malformed files, ticks and restarts come in between.
THEOREM CatalogsAreNoticed == Spec => []StaleCatalogsAreNoticed
<1>1. AdapterInv => StaleCatalogsAreNoticed
  BY DEF AdapterInv
<1> QED BY <1>1, AdapterInvariant, PTL
==============================================================================
