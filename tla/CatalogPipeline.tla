---------------------------- MODULE CatalogPipeline ---------------------------
(***************************************************************************)
(* The catalogs adapter and the driver's image manager, two processes that *)
(* share the images file and the container storage: the adapter pulls the  *)
(* images of the catalogs and lists them in the file, the image manager    *)
(* makes a container of each image the file lists.                         *)
(*                                                                         *)
(* The rest of the driver (calls, cleaner, restarts) changes nothing that  *)
(* the two share, and no tag, and is left out here.                        *)
(***************************************************************************)
EXTENDS ImageManager, Naturals

CONSTANTS Catalogs, DontNeedImageUpdates, NeverPull, MaxRetries,
          Steady   \* images that the catalogs always list (see SteadyEnvironment)

ASSUME PipelineAssumption == /\ Steady \subseteq Images
                             /\ DontNeedImageUpdates \subseteq Catalogs
                             /\ NeverPull \in BOOLEAN
                             /\ MaxRetries \in Nat \ {0}
                             /\ None \notin [imageID : ImageIDs, catalogName : Catalogs]

VARIABLES config, registry, local, listed, catalogs, images, adapterPc,
          pullRound, catTodo, catalogName, entTodo, failed, changed, tick, retries

Adapter == INSTANCE SoftwareCatalogsAdapter WITH
  imagesFile <- listed,   \* the file, with the catalog of every image
  pc         <- adapterPc

adapterVars == <<config, registry, local, listed, catalogs, images, adapterPc,
                 pullRound, catTodo, catalogName, entTodo, failed, changed, tick,
                 retries>>

managerVars == <<txnVars, storeVars, buildahVars, imPc, imImages, imMissing,
                 imMountPoints, imTodo, imUpdate>>

pipelineVars == <<adapterVars, managerVars, imagesFile>>

\* What the image manager reads in a file that the adapter has written.
Written(file) == [i \in Images |-> IF file[i] = None THEN None ELSE file[i].imageID]

PipelineInit == /\ Adapter!Init
                /\ TxnInit /\ StoreEmpty /\ IMIdle
                /\ ctrs = {} /\ ctrImage = [c \in Containers |-> None] /\ mounted = {}
                /\ imagesFile = Written(listed)

AdapterStep == /\ Adapter!Next
               /\ imagesFile' = Written(listed')
               /\ UNCHANGED managerVars

ManagerStep == IMNext /\ UNCHANGED adapterVars

PipelineNext == AdapterStep \/ ManagerStep

PipelineSpec == PipelineInit /\ [][PipelineNext]_pipelineVars

\* The environment of a quiet cluster: whatever is edited, pushed or restarted,
\* the catalogs file can be read and always lists the images of Steady, and
\* they are always available: every pull of one succeeds.
SteadyEnvironment ==
  /\ config # None
  /\ \A i \in Steady : registry[i] # None /\ \E c \in Catalogs : i \in config[c]

SteadyInit == PipelineInit /\ SteadyEnvironment

PullsSucceed ==
  \A i \in Steady : i \in entTodo \ entTodo' /\ adapterPc' = "pull" => images'[i] # None

SteadyNext == PipelineNext /\ SteadyEnvironment' /\ PullsSucceed

SteadySpec == SteadyInit /\ [][SteadyNext]_pipelineVars

------------------------------------------------------------------------------
\* An image that every version of the catalogs lists never loses its container
\* once it has one: the adapter rebuilds its list from nothing in every round,
\* pulls image by image and may be restarted half way, but what the image
\* manager reads is always the list of a whole round.
SteadyImagesStayServed ==
  [][\A i \in Steady : imageTag[i] # None => imageTag'[i] # None]_pipelineVars

------------------------------------------------------------------------------
\* What the adapter keeps of an image that the catalogs always list: a round in
\* progress has listed it or still has to pull it, if the file lists it at all.
ListedAgain(i) ==
  /\ adapterPc \in {"wait", "pull"} => \E c \in Catalogs : i \in catalogs[c]
  /\ adapterPc = "pull" /\ listed[i] # None =>
       images[i] # None \/ i \in entTodo \/ \E c \in catTodo : i \in catalogs[c]

\* What the image manager has read of it: the file listed it before it got its
\* tag, and is read again before the tag is looked at.
SeenListed(i) ==
  /\ imImages[i] # None \/ imageTag[i] # None => listed[i] # None
  /\ imPc \in {"catalog", "prune"} /\ imageTag[i] # None => imImages[i] # None
  /\ i \notin imMissing

\* The image manager updates only images that it has read in the file.
WorksOnListed ==
  /\ imPc \in {"round", "reuse", "create", "mount", "commit"} =>
       imTodo \subseteq {i \in Images : imImages[i] # None}
  /\ imPc \in {"reuse", "create", "mount", "commit"} => imImage \in imTodo
  /\ imPc \in {"mount", "commit"} => imNew \in Containers

SteadyInv == /\ SteadyEnvironment
             /\ imageTag \in [Images -> Containers \cup {None}]
             /\ imagesFile = Written(listed)
             /\ WorksOnListed
             /\ \A i \in Steady : ListedAgain(i) /\ SeenListed(i)
==============================================================================
