------------------------ MODULE CatalogPipelineProofs ------------------------
(***************************************************************************)
(* An image that the catalogs always list keeps its container, proved from *)
(* what each of the two processes keeps of it: the adapter (ListedAgain),  *)
(* whatever it pulls and however often it is restarted, and the image      *)
(* manager (SeenListed), whatever its rounds do with the file.             *)
(***************************************************************************)
EXTENDS CatalogPipeline, TLAPS

\* The adapter of the pipeline, with what is proved about it on its own.
Facts == INSTANCE SoftwareCatalogsAdapterProofs WITH
  imagesFile <- listed,
  pc         <- adapterPc

PipelineInv == Facts!AdapterInv /\ SteadyInv

LEMMA AdapterFacts ==
  /\ Facts!AdapterAssumption
  /\ Adapter!Init <=> Facts!Init
  /\ Adapter!Next <=> Facts!Next
<1>1. Facts!AdapterAssumption
  BY PipelineAssumption, ImageManagerAssumption DEF Facts!AdapterAssumption
<1>2. Adapter!Init <=> Facts!Init
  BY DEF Adapter!Init, Facts!Init, Adapter!CatalogFiles, Facts!CatalogFiles, Adapter!NoCatalogs,
         Facts!NoCatalogs, Adapter!NoImages, Facts!NoImages
<1>3. Adapter!Next <=> Facts!Next
  BY DEF Adapter!Next, Facts!Next, Adapter!Puller, Facts!Puller,
         Adapter!Launch, Facts!Launch, Adapter!FirstRound, Facts!FirstRound,
         Adapter!ReceiveChange, Facts!ReceiveChange, Adapter!ReceiveRetry, Facts!ReceiveRetry,
         Adapter!ReceiveTick, Facts!ReceiveTick, Adapter!NextCatalog, Facts!NextCatalog,
         Adapter!PullEntry, Facts!PullEntry, Adapter!FinishRound, Facts!FinishRound,
         Adapter!Tick, Facts!Tick, Adapter!EditCatalogs, Facts!EditCatalogs,
         Adapter!ChangeRegistry, Facts!ChangeRegistry, Adapter!Restart, Facts!Restart,
         Adapter!ConfigChangedRound, Facts!ConfigChangedRound, Adapter!Pull, Facts!Pull,
         Adapter!Retry, Facts!Retry, Adapter!alreadyPulled, Facts!alreadyPulled,
         Adapter!pullImage, Facts!pullImage, Adapter!pulledIDs, Facts!pulledIDs,
         Adapter!buildahPolicy, Facts!buildahPolicy, Adapter!round, Facts!round,
         Adapter!NoCatalogs, Facts!NoCatalogs, Adapter!NoImages, Facts!NoImages,
         Adapter!CatalogFiles, Facts!CatalogFiles
<1> QED BY <1>1, <1>2, <1>3

------------------------------------------------------------------------------
\* The adapter.

\* A round starts from catalogs that list the image, and with nothing listed.
LEMMA RoundListsAgain ==
  ASSUME PipelineInv, NEW i \in Steady, UNCHANGED <<config, local, listed>>,
         \/ config # None /\ Facts!Pull(config)
         \/ adapterPc = "wait" /\ Facts!Pull(catalogs)
  PROVE  ListedAgain(i)'
<1>1. i \in Images /\ ListedAgain(i)
  BY PipelineAssumption DEF PipelineInv, SteadyInv
<1>2. PICK c \in Catalogs : i \in catalogs'[c]
  BY <1>1 DEF PipelineInv, SteadyInv, SteadyEnvironment, Facts!Pull, ListedAgain
<1>3. images'[i] = None /\ catTodo' = Catalogs
  BY <1>1 DEF Facts!Pull, Facts!NoImages
<1> QED BY <1>1, <1>2, <1>3 DEF ListedAgain

\* An image that the round pulls is on its list then; another one keeps its place.
LEMMA PullListsAgain ==
  ASSUME PipelineInv, NEW i \in Steady, Facts!PullEntry, PullsSucceed
  PROVE  ListedAgain(i)'
<1>1. ListedAgain(i)
  BY DEF PipelineInv, SteadyInv
<1>2. UNCHANGED <<listed, catalogs, adapterPc, catTodo>> /\ adapterPc = "pull"
  BY DEF Facts!PullEntry
<1>3. images[i] # None => images'[i] # None
  <2>1. images \in [Images -> Facts!Described \cup {None}] /\ i \in Images
    BY PipelineAssumption DEF PipelineInv, Facts!AdapterInv, Facts!TypeOK
  <2>2. entTodo # {} => catalogName \in Catalogs
    BY DEF PipelineInv, Facts!AdapterInv, Facts!InCatalog
  <2>3. PICK e \in entTodo :
          \/ UNCHANGED images
          \/ \E id \in Facts!pulledIDs(e, Facts!buildahPolicy(catalogName)) :
               Facts!pullImage(e, id)
    BY DEF Facts!PullEntry
  <2>4. e \in Images /\ Facts!TypeOK
    BY DEF PipelineInv, Facts!AdapterInv, Facts!TypeOK
  <2>5. CASE UNCHANGED images
    BY <2>5
  <2>6. ASSUME NEW id \in Facts!pulledIDs(e, Facts!buildahPolicy(catalogName)),
               Facts!pullImage(e, id)
        PROVE  images[i] # None => images'[i] # None
    <3>1. id \in ImageIDs \cup {None}
      BY <2>4, <2>6 DEF Facts!pulledIDs, Facts!TypeOK
    <3>2. id # None => [imageID |-> id, catalogName |-> catalogName] # None
      BY <2>2, <3>1, PipelineAssumption
    <3> QED BY <2>1, <2>4, <2>6, <3>2 DEF Facts!pullImage
  <2> QED BY <2>3, <2>5, <2>6
<1>4. i \in entTodo /\ i \notin entTodo' => images'[i] # None
  BY <1>2 DEF PullsSucceed
<1> QED BY <1>1, <1>2, <1>3, <1>4 DEF ListedAgain

\* The file is replaced only by the list of a whole round.
LEMMA FinishListsAgain ==
  ASSUME PipelineInv, NEW i \in Steady, Facts!FinishRound(TRUE) \/ Facts!FinishRound(FALSE)
  PROVE  ListedAgain(i)' /\ (listed[i] # None => listed'[i] # None)
<1>1. ListedAgain(i)
  BY DEF PipelineInv, SteadyInv
<1>2. UNCHANGED <<catalogs, images, local, catTodo, entTodo>> /\ adapterPc' = "wait"
  BY DEF Facts!FinishRound, Facts!round
<1>3. adapterPc = "pull" /\ catTodo = {} /\ entTodo = {} /\ listed' \in {listed, images}
  BY DEF Facts!FinishRound
<1> QED BY <1>1, <1>2, <1>3 DEF ListedAgain

LEMMA AdapterListsAgain ==
  ASSUME PipelineInv, Facts!Next, PullsSucceed, NEW i \in Steady
  PROVE  ListedAgain(i)' /\ (listed[i] # None => listed'[i] # None)
<1>1. ListedAgain(i) /\ i \in Images /\ config # None
  BY PipelineAssumption DEF PipelineInv, SteadyInv, SteadyEnvironment
<1>2. CASE Facts!FirstRound \/ Facts!ReceiveChange \/ Facts!ReceiveRetry
  <2>1. UNCHANGED <<config, local, listed>> /\ Facts!Pull(config)
    BY <1>1, <1>2
    DEF Facts!FirstRound, Facts!ReceiveChange, Facts!ReceiveRetry, Facts!ConfigChangedRound
  <2> QED BY <1>1, <2>1, RoundListsAgain
<1>3. CASE Facts!ReceiveTick
  <2>1. UNCHANGED <<config, local, listed>> /\ adapterPc = "wait" /\ Facts!Pull(catalogs)
    BY <1>3 DEF Facts!ReceiveTick
  <2> QED BY <2>1, RoundListsAgain
<1>4. CASE Facts!NextCatalog
  BY <1>1, <1>4 DEF ListedAgain, Facts!NextCatalog
<1>5. CASE Facts!PullEntry
  BY <1>5, PullListsAgain DEF Facts!PullEntry
<1>6. CASE Facts!FinishRound(TRUE) \/ Facts!FinishRound(FALSE)
  BY <1>6, FinishListsAgain
<1>7. CASE Facts!Launch \/ Facts!Restart
  BY <1>1, <1>7 DEF ListedAgain, Facts!Launch, Facts!Restart, Facts!round, Facts!NoImages
<1>8. CASE Facts!Tick \/ Facts!EditCatalogs \/ Facts!ChangeRegistry
  BY <1>1, <1>8
  DEF ListedAgain, Facts!Tick, Facts!EditCatalogs, Facts!ChangeRegistry, Facts!round
<1> QED
  BY <1>2, <1>3, <1>4, <1>5, <1>6, <1>7, <1>8 DEF Facts!Next, Facts!Puller

LEMMA AdapterStepPreserves ==
  ASSUME PipelineInv, AdapterStep, SteadyEnvironment', PullsSucceed
  PROVE  PipelineInv' /\ UNCHANGED imageTag
<1>1. Facts!Next /\ UNCHANGED managerVars /\ imagesFile' = Written(listed')
  BY AdapterFacts DEF AdapterStep
<1>2. Facts!AdapterInv'
  BY <1>1, AdapterFacts, Facts!AdapterNext DEF PipelineInv
<1>3. /\ UNCHANGED <<imageTag, imPc, imImages, imMissing, imTodo, imImage, imNew>>
      /\ WorksOnListed'
  BY <1>1 DEF PipelineInv, SteadyInv, WorksOnListed, managerVars, storeVars, imUpdate
<1>4. \A i \in Steady : ListedAgain(i)' /\ SeenListed(i)'
  BY <1>1, <1>3, AdapterListsAgain DEF PipelineInv, SteadyInv, SeenListed
<1>5. imagesFile' = Written(listed)'
  BY <1>1 DEF Written
<1> QED BY <1>2, <1>3, <1>4, <1>5 DEF PipelineInv, SteadyInv

------------------------------------------------------------------------------
\* The image manager.

\* The file has an image ID for every image that the adapter has listed.
LEMMA WrittenLists ==
  ASSUME PipelineInv, NEW i \in Images
  PROVE  imagesFile[i] # None <=> listed[i] # None
<1>1. listed[i] \in Facts!Described \cup {None}
  BY DEF PipelineInv, Facts!AdapterInv, Facts!TypeOK
<1>2. listed[i] # None => listed[i].imageID \in ImageIDs
  BY <1>1 DEF Facts!Described
<1> QED BY <1>2, ImageManagerAssumption DEF PipelineInv, SteadyInv, Written

\* What a step of the image manager has to keep, the adapter being still.
ManagerKeeps ==
  /\ WorksOnListed'
  /\ imageTag' \in [Images -> Containers \cup {None}]
  /\ \A i \in Steady : SeenListed(i)' /\ (imageTag[i] # None => imageTag'[i] # None)

\* The round reads the file, and what it finds missing is not of Steady.
LEMMA RoundBegins ==
  ASSUME PipelineInv, ReadImages \/ DeleteImagesBegin, UNCHANGED listed
  PROVE  ManagerKeeps
<1>1. Steady \subseteq Images
  BY PipelineAssumption
<1>2. UNCHANGED imageTag /\ imPc' \in {"catalog", "prune"}
  BY DEF ReadImages, DeleteImagesBegin, storeVars
<1>3. WorksOnListed'
  BY <1>2 DEF WorksOnListed
<1>4. CASE ReadImages
  <2>1. imImages' = imagesFile /\ UNCHANGED imMissing
    BY <1>4 DEF ReadImages
  <2> QED
    BY <1>1, <1>2, <1>3, <2>1, WrittenLists DEF PipelineInv, SteadyInv, SeenListed, ManagerKeeps
<1>5. CASE DeleteImagesBegin
  <2>1. imPc = "catalog" /\ imMissing' \subseteq imagesMissingFrom(imImages) /\ UNCHANGED imImages
    BY <1>5 DEF DeleteImagesBegin
  <2> QED
    BY <1>1, <1>2, <1>3, <2>1
    DEF PipelineInv, SteadyInv, SeenListed, ManagerKeeps, imagesMissingFrom
<1> QED BY <1>4, <1>5

\* After that a round only looks at what it has read.
LEMMA RoundFrame ==
  ASSUME PipelineInv, UNCHANGED listed, imMissing' \subseteq imMissing,
         imPc' \notin {"catalog", "prune"},
         imageTag' \in [Images -> Containers \cup {None}],
         imImages' \in {imImages, NoImages},
         WorksOnListed',
         \A i \in Images :
           /\ imageTag'[i] # None => imageTag[i] # None \/ imImages[i] # None
           /\ imageTag[i] # None /\ i \notin imMissing => imageTag'[i] # None
  PROVE  ManagerKeeps
<1>1. Steady \subseteq Images
  BY PipelineAssumption
<1>2. \A i \in Images : imImages'[i] # None => imImages[i] # None
  BY DEF NoImages
<1> QED BY <1>1, <1>2 DEF PipelineInv, SteadyInv, SeenListed, ManagerKeeps

LEMMA ImagesRetired ==
  ASSUME PipelineInv, DeleteImagesEnd, UNCHANGED listed
  PROVE  ManagerKeeps
<1>1. \/ UNCHANGED imageTag
      \/ imageTag' = [i \in Images |-> IF i \in imMissing THEN None ELSE imageTag[i]]
  BY DEF DeleteImagesEnd, deleteImagesCommit, storeVars
<1>2. /\ imMissing' = {} /\ imPc' = "list" /\ UNCHANGED imImages
      /\ imageTag \in [Images -> Containers \cup {None}]
  BY DEF DeleteImagesEnd, PipelineInv, SteadyInv
<1>3. WorksOnListed'
  BY <1>2 DEF WorksOnListed
<1> QED BY <1>1, <1>2, <1>3, RoundFrame

\* The loop over the images that the round has read.
LEMMA NextImageKeepsWork ==
  ASSUME PipelineInv, NEW i, NextImage(i),
         imPc \in {"round", "reuse", "create", "mount", "commit"}
  PROVE  /\ WorksOnListed'
         /\ imPc' \in {"idle", "round"}
         /\ imImages' \in {imImages, NoImages}
         /\ UNCHANGED imMissing
BY DEF NextImage, PipelineInv, SteadyInv, WorksOnListed

LEMMA LoopGoesOn ==
  ASSUME PipelineInv, UNCHANGED <<imageTag, listed>>,
         imPc \in {"round", "reuse", "create", "mount", "commit"},
         \/ \E i \in Images \cup {imImage} : NextImage(i)
         \/ /\ WorksOnListed' /\ UNCHANGED <<imImages, imMissing>>
            /\ imPc' \notin {"catalog", "prune"}
  PROVE  ManagerKeeps
<1>1. imageTag \in [Images -> Containers \cup {None}]
  BY DEF PipelineInv, SteadyInv
<1>2. /\ WorksOnListed' /\ UNCHANGED imMissing
      /\ imPc' \notin {"catalog", "prune"} /\ imImages' \in {imImages, NoImages}
  BY NextImageKeepsWork
<1> QED BY <1>1, <1>2, RoundFrame

\* The steps of the loop that leave the tags alone.
LEMMA LoopSteps ==
  ASSUME PipelineInv, UNCHANGED listed,
         \/ SkipImage \/ UpdateImageBegin \/ ReuseContainer \/ GiveUpContainer
         \/ CreateContainer \/ CreateContainerFails \/ MountNewContainer
         \/ MountNewContainerFails \/ UpdateImageCommitFails \/ UpdateImageSetFails
  PROVE  ManagerKeeps
<1>1. WorksOnListed
  BY DEF PipelineInv, SteadyInv
<1>2. CASE \/ SkipImage \/ ReuseContainer \/ CreateContainerFails
           \/ MountNewContainerFails \/ UpdateImageCommitFails \/ UpdateImageSetFails
  <2>1. /\ imPc \in {"round", "reuse", "create", "mount", "commit"}
        /\ UNCHANGED imageTag
    BY <1>2
    DEF SkipImage, ReuseContainer, CreateContainerFails, MountNewContainerFails,
        UpdateImageCommitFails, UpdateImageSetFails, AbandonUpdate, storeVars
  <2>2. \E i \in Images \cup {imImage} : NextImage(i)
    <3>1. CASE SkipImage
      BY <1>1, <3>1 DEF SkipImage, WorksOnListed
    <3>2. CASE ~SkipImage
      BY <1>2, <3>2
      DEF ReuseContainer, CreateContainerFails, MountNewContainerFails,
          UpdateImageCommitFails, UpdateImageSetFails, AbandonUpdate
    <3> QED BY <3>1, <3>2
  <2> QED BY <2>1, <2>2, LoopGoesOn
<1>3. CASE UpdateImageBegin
  <2>1. /\ UNCHANGED <<imageTag, imImages, imMissing, imTodo>> /\ imPc = "round"
        /\ imImage' \in imTodo /\ imPc' \in {"reuse", "create"}
    BY <1>3 DEF UpdateImageBegin, storeVars
  <2>2. WorksOnListed'
    BY <1>1, <2>1 DEF WorksOnListed
  <2> QED BY <2>1, <2>2, LoopGoesOn
<1>4. CASE GiveUpContainer \/ CreateContainer \/ MountNewContainer
  <2>1. /\ UNCHANGED <<imageTag, imImages, imMissing, imTodo, imImage>>
        /\ imPc \in {"reuse", "create", "mount"} /\ imPc' \in {"create", "mount", "commit"}
        /\ imPc' \in {"mount", "commit"} => imNew' \in Containers
    BY <1>1, <1>4
    DEF GiveUpContainer, CreateContainer, MountNewContainer, storeVars, imUpdate, WorksOnListed
  <2>2. WorksOnListed'
    BY <1>1, <2>1 DEF WorksOnListed
  <2> QED BY <2>1, <2>2, LoopGoesOn
<1> QED BY <1>2, <1>3, <1>4

LEMMA ImageServed ==
  ASSUME PipelineInv, UpdateImageCommit, UNCHANGED listed
  PROVE  ManagerKeeps
<1>1. /\ imImage \in Images /\ imImages[imImage] # None /\ imNew \in Containers
      /\ imageTag \in [Images -> Containers \cup {None}]
  BY DEF PipelineInv, SteadyInv, WorksOnListed, UpdateImageCommit
<1>2. imageTag' = [imageTag EXCEPT ![imImage] = imNew]
  BY DEF UpdateImageCommit, updateImageCommit
<1>3. /\ WorksOnListed' /\ UNCHANGED imMissing
      /\ imPc' \notin {"catalog", "prune"} /\ imImages' \in {imImages, NoImages}
  BY NextImageKeepsWork DEF UpdateImageCommit
<1> QED BY <1>1, <1>2, <1>3, RoundFrame, ImageManagerAssumption

LEMMA MountPointsListed ==
  ASSUME PipelineInv, ListMountPoints, UNCHANGED listed
  PROVE  ManagerKeeps
<1>1. imageTag \in [Images -> Containers \cup {None}]
  BY DEF PipelineInv, SteadyInv
<1>2. /\ UNCHANGED <<imageTag, imMissing>> /\ imPc' \in {"idle", "round"}
      /\ imTodo' = {i \in Images : imImages[i] # None}
      /\ imImages' \in {imImages, NoImages} /\ (imPc' # "idle" => imImages' = imImages)
  BY DEF ListMountPoints, storeVars
<1>3. WorksOnListed'
  BY <1>2 DEF WorksOnListed
<1> QED BY <1>1, <1>2, <1>3, RoundFrame

LEMMA ManagerStepPreserves ==
  ASSUME PipelineInv, ManagerStep, SteadyEnvironment'
  PROVE  PipelineInv' /\ \A i \in Steady : imageTag[i] # None => imageTag'[i] # None
<1>1. IMNext /\ UNCHANGED adapterVars
  BY DEF ManagerStep
<1>2. UNCHANGED <<config, registry, local, listed, catalogs, images, adapterPc, pullRound,
                  catTodo, catalogName, entTodo, failed, changed, tick, retries>>
  BY <1>1 DEF adapterVars
<1>3. UNCHANGED imagesFile
  BY <1>1
  DEF IMNext, ReadImages, DeleteImagesBegin, DeleteImagesEnd, ListMountPoints, SkipImage,
      UpdateImageBegin, ReuseContainer, GiveUpContainer, CreateContainer, CreateContainerFails,
      MountNewContainer, MountNewContainerFails, UpdateImageCommit, UpdateImageCommitFails,
      UpdateImageSetFails, AbandonUpdate, NextImage
<1>4. ManagerKeeps
  BY <1>1, <1>2, RoundBegins, ImagesRetired, LoopSteps, ImageServed, MountPointsListed DEF IMNext
<1>5. Facts!AdapterInv'
  BY <1>2
  DEF PipelineInv, Facts!AdapterInv, Facts!TypeOK, Facts!InCatalog, Facts!StaleCatalogsAreNoticed
<1>6. \A i \in Steady : ListedAgain(i)'
  BY <1>2 DEF PipelineInv, SteadyInv, ListedAgain
<1>7. imagesFile' = Written(listed)'
  BY <1>2, <1>3 DEF PipelineInv, SteadyInv, Written
<1> QED BY <1>4, <1>5, <1>6, <1>7 DEF PipelineInv, SteadyInv, ManagerKeeps

------------------------------------------------------------------------------
LEMMA SteadyInitEstablishes == SteadyInit => PipelineInv
<1> SUFFICES ASSUME SteadyInit PROVE PipelineInv
  OBVIOUS
<1>1. Facts!Init /\ Facts!AdapterInv
  BY AdapterFacts, Facts!AdapterInit DEF SteadyInit, PipelineInit
<1>2. \A i \in Images : /\ listed[i] = None /\ images[i] = None /\ imageTag[i] = None
                        /\ imImages[i] = None
  BY <1>1 DEF Facts!Init, Facts!NoImages, SteadyInit, PipelineInit, StoreEmpty, IMIdle, NoImages
<1>3. imPc = "idle" /\ adapterPc = "down" /\ imMissing = {}
  BY <1>1 DEF Facts!Init, SteadyInit, PipelineInit, IMIdle
<1>4. \A i \in Steady : ListedAgain(i) /\ SeenListed(i)
  BY <1>2, <1>3, PipelineAssumption DEF ListedAgain, SeenListed
<1> QED
  BY <1>1, <1>3, <1>4
  DEF PipelineInv, SteadyInv, SteadyInit, PipelineInit, StoreEmpty, WorksOnListed

\* One step keeps the invariant and the tags of Steady.
TagsStay == \A i \in Steady : imageTag[i] # None => imageTag'[i] # None

LEMMA SteadyNextPreserves ==
  PipelineInv /\ [SteadyNext]_pipelineVars => PipelineInv' /\ [TagsStay]_pipelineVars
<1> SUFFICES ASSUME PipelineInv, [SteadyNext]_pipelineVars
             PROVE  PipelineInv' /\ TagsStay
  OBVIOUS
<1>1. CASE SteadyNext
  BY <1>1, AdapterStepPreserves, ManagerStepPreserves DEF SteadyNext, PipelineNext, TagsStay
<1>2. CASE UNCHANGED pipelineVars
  <2>1. /\ UNCHANGED <<config, registry, local, listed, catalogs, images, adapterPc, pullRound,
                      catTodo, catalogName, entTodo, failed, changed, tick, retries>>
        /\ UNCHANGED <<imageTag, imPc, imImages, imMissing, imTodo, imImage, imNew, imagesFile>>
    BY <1>2 DEF pipelineVars, adapterVars, managerVars, storeVars, imUpdate
  <2>2. Facts!AdapterInv'
    BY <2>1
    DEF PipelineInv, Facts!AdapterInv, Facts!TypeOK, Facts!InCatalog,
        Facts!StaleCatalogsAreNoticed
  <2>3. SteadyInv'
    BY <2>1
    DEF PipelineInv, SteadyInv, SteadyEnvironment, Written, WorksOnListed, ListedAgain, SeenListed
  <2> QED BY <2>1, <2>2, <2>3 DEF PipelineInv, TagsStay
<1> QED BY <1>1, <1>2

\* An image that every version of the catalogs lists, and that stays available,
\* keeps a container once it has one: rounds of the adapter that stop half way,
\* pull policies, restarts of the adapter and rounds of the image manager on an
\* older file never make deleteImagesMissingFromCatalog retire it.
THEOREM SteadyStayServed == SteadySpec => SteadyImagesStayServed
BY SteadyInitEstablishes, SteadyNextPreserves, PTL
DEF SteadySpec, SteadyImagesStayServed, TagsStay
==============================================================================
