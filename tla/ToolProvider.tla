----------------------------- MODULE ToolProvider ----------------------------
(***************************************************************************)
(* The tool provider driver on one node (pkg/toolprovider/driver.go): the  *)
(* node server's handlers, the image manager and the container cleaner run *)
(* concurrently on the metadata store and the container storage.  The      *)
(* process can be killed between any two steps and is started again; the   *)
(* node can be restarted, which also loses every mount.                    *)
(***************************************************************************)
EXTENDS NodeServer, ImageManager, ContainerCleaner

CONSTANT OldContainers   \* containers left behind by an earlier installation

ASSUME ToolProviderAssumption ==
  /\ OldContainers \subseteq Containers
  /\ Txns = Calls \cup {ImageManager, ContainerCleaner}
  /\ ImageManager \notin Calls
  /\ ContainerCleaner \notin Calls
  /\ ImageManager # ContainerCleaner

VARIABLES drv,         \* "down", "clean" (before buildah rm --all) or "up"
          storeExists  \* the store's MANIFEST file exists

drvVars == <<drv, storeExists>>

vars == <<txnVars, storeVars, buildahVars, nsVars, imVars, ccVars, drvVars>>

Init ==
  /\ TxnInit /\ StoreEmpty /\ NSInit /\ IMIdle /\ CCIdle
  /\ ctrs = OldContainers
  /\ ctrImage \in [Containers -> ImageIDs \cup {None}]
  /\ \A c \in Containers : ctrImage[c] = None <=> c \notin OldContainers
  /\ mounted \in SUBSET OldContainers
  /\ imagesFile \in ImagesFiles
  /\ drv = "down"
  /\ storeExists = FALSE

------------------------------------------------------------------------------
\* Faulty variant: every start takes the store for a new one.
StartCleansAlways ==
  /\ drv = "down"
  /\ drv' = "clean"
  /\ storeExists' = TRUE
  /\ UNCHANGED <<txnVars, storeVars, buildahVars, nsVars, imVars, ccVars>>

\* Run opens the store, creating it if its MANIFEST does not exist.
Start ==
  /\ drv = "down"
  /\ drv' = IF storeExists THEN "up" ELSE "clean"
  /\ storeExists' = TRUE
  /\ UNCHANGED <<txnVars, storeVars, buildahVars, nsVars, imVars, ccVars>>

\* "Created a new metadata store => removing all existing containers": the
\* command's result is ignored, whatever it left.
RemoveAllContainers ==
  /\ drv = "clean"
  /\ drv' = "up"
  /\ \E S \in SUBSET ctrs : rm(S)
  /\ UNCHANGED <<txnVars, storeVars, nsVars, imVars, ccVars, storeExists>>

\* The process dies: its goroutines, their locks and transactions are gone.
ProcessDies ==
  /\ drv' = "down"
  /\ DiscardAll
  /\ HandlersDie
  /\ IMDies
  /\ CCDies
  /\ UNCHANGED <<storeVars, ctrs, ctrImage, imagesFile, storeExists>>

Crash ==
  /\ drv # "down"
  /\ ProcessDies
  /\ UNCHANGED <<mounted, volMount>>

\* The node restarts: no container and no volume is mounted any more.
Reboot ==
  /\ ProcessDies
  /\ mounted' = {}
  /\ volMount' = [v \in Volumes |-> None]

\* The catalogs adapter replaces the images file.
WriteImagesFile ==
  /\ imagesFile' \in ImagesFiles \ {imagesFile}
  /\ UNCHANGED <<txnVars, storeVars, buildahVars, nsVars, imPc, imImages,
                 imMissing, imMountPoints, imTodo, imUpdate, ccVars, drvVars>>

NodeServerStep == drv = "up" /\ NSNext /\ UNCHANGED <<imVars, ccVars, drvVars>>

ImageManagerStep == drv = "up" /\ IMNext /\ UNCHANGED <<nsVars, ccVars, drvVars>>

ContainerCleanerStep == drv = "up" /\ CCNext /\ UNCHANGED <<nsVars, imVars, drvVars>>

Next == \/ NodeServerStep \/ ImageManagerStep \/ ContainerCleanerStep
        \/ Start \/ RemoveAllContainers \/ Crash \/ Reboot \/ WriteImagesFile

Spec == Init /\ [][Next]_vars

\* The goroutines are scheduled, the tickers tick, and the driver is started
\* again when it is down.
ManagerScheduling ==
  /\ WF_vars(Start \/ RemoveAllContainers)
  /\ WF_vars(ImageManagerStep)

Scheduling ==
  /\ ManagerScheduling
  /\ WF_vars(ContainerCleanerStep)
  /\ \A k \in Calls : WF_vars(drv = "up" /\ Handler(k) /\ UNCHANGED <<imVars, ccVars, drvVars>>)

\* A buildah command, a commit or a mount may fail, but not every time that it
\* is tried: the cleaner's commit, and the steps of the image manager.
Driver(A) == drv = "up" /\ A /\ UNCHANGED <<nsVars, drvVars>>

CleanerSucceeds == SF_vars(Driver(CleanCommit /\ UNCHANGED imVars))

ManagerSucceeds ==
  /\ SF_vars(Driver(UpdateImageBegin /\ UNCHANGED ccVars))
  /\ SF_vars(Driver(ReuseContainer /\ UNCHANGED ccVars))
  /\ SF_vars(Driver(CreateContainer /\ UNCHANGED ccVars))
  /\ SF_vars(Driver(MountNewContainer /\ UNCHANGED ccVars))
  /\ SF_vars(Driver(UpdateImageCommit /\ UNCHANGED ccVars))

CleaningSpec == Spec /\ Scheduling /\ CleanerSucceeds

ServingSpec == Spec /\ ManagerScheduling /\ ManagerSucceeds

FairSpec == Spec /\ Scheduling /\ CleanerSucceeds /\ ManagerSucceeds

------------------------------------------------------------------------------
TypeOK ==
  /\ TxnTypeOK
  /\ StoreTypeOK
  /\ BuildahTypeOK
  /\ HandlersTypeOK
  /\ ImageManagerTypeOK
  /\ CleanerTypeOK
  /\ drv \in {"down", "clean", "up"}
  /\ storeExists \in BOOLEAN

\* A container with a volume record is never removed, neither its metadata
\* nor the container: no interleaving of selectContainerForVolume with
\* updateImage and getContainersToDelete lets the cleaner take a container
\* that a publish has just chosen, although the cleaner's scan for volumes
\* is not among the reads that Badger checks.
RecordedContainersSurvive ==
  \A c \in Containers, v \in Volumes :
    <<c, v>> \in volumes => /\ c \in ctrs
                            /\ c \in mountPath \cap catalog

\* While a publish is between its commit and its mount, its volume's records
\* in both directions name the container it is about to mount, so no other
\* handler, and not the cleaner, has touched them.
ChosenContainerIsHeld ==
  \A k \in Calls :
    pc[k] \in {"target", "source", "mount"} =>
      /\ volumeContainer[vol[k]] = ctr[k]
      /\ <<ctr[k], vol[k]>> \in volumes

\* The container serving an image exists, has all its metadata, is not marked
\* for cleaning, and serves no other image.
ServingContainersAreSound ==
  \A i \in Images :
    imageTag[i] # None =>
      /\ imageTag[i] \in ctrs \cap mountPath \cap catalog
      /\ imageTag[i] \notin toClean
      /\ \A j \in Images : imageTag[j] = imageTag[i] => j = i

\* The store never loses sight of a container it knows: it serves an image or
\* it is marked for the cleaner.
KnownContainersAreAccounted ==
  \A c \in mountPath \cup catalog \cup imageID :
    c \in toClean \/ \E i \in Images : imageTag[i] = c

\* A publish that commits binds its volume to the container that serves its
\* image now: when the image has moved to another container, or has been
\* retired, since the publish read it, the commit is refused.
MovedImagesAreNoticed ==
  \A k \in Calls :
    pc[k] = "select" /\ imageTag[ImageOf[vol[k]]] # ctr[k] => hasConflict(k)

\* "Image is being updated. Please retry later": what makes the commit of a
\* publish conflict is always a step of the image manager that updates or
\* retires this very image, never another call, the cleaner or another image.
ConflictMeansUpdate ==
  [][\A k \in Calls :
       pc[k] = "select" /\ ~hasConflict(k) /\ hasConflict(k)' =>
         ImageOf[vol[k]] \in imMissing \cup {imImage}]_vars

\* The transactions of the image manager and of the cleaner never conflict,
\* so updateImage never abandons a container it has created because of them.
BackgroundNeverConflicts ==
  ~hasConflict(ImageManager) /\ ~hasConflict(ContainerCleaner)

\* A volume that is bound to a container is recorded on that container, so
\* that the cleaner's scan finds it.
BoundVolumesAreRecorded ==
  \A v \in Volumes :
    volumeContainer[v] # None => <<volumeContainer[v], v>> \in volumes

\* Two publishes of a volume never mount over one another, and a mounted
\* volume never changes its container: the check of the target path and the
\* mount are two steps, which only the volume's mutex keeps together.
NoMountOverMount ==
  [][\A v \in Volumes :
       volMount'[v] # volMount[v] => volMount[v] = None \/ volMount'[v] = None]_vars

\* Somebody will still look at container c: it serves an image, it waits for
\* the cleaner, or the image manager or the cleaner is working on it.
Accounted(c) == \/ c \in toClean \cup ccList \cup {imNew}
                \/ \E i \in Images : imageTag[i] = c

\* The steps after which the code gives up a container: the driver dies, or a
\* command or a commit fails and the error return deletes nothing.
GivesUp == \/ drv' = "down"
           \/ MountNewContainerFails \/ UpdateImageCommitFails
           \/ UpdateImageSetFails \/ DeleteContainerFails

\* A container is forgotten, while it exists, by no other step: in particular
\* no successful updateImage, no round of deleteImagesMissingFromCatalog and
\* no round of the cleaner leaks a container, whatever runs beside it.
NoSilentLeak ==
  [][\A c \in ctrs : Accounted(c) /\ c \in ctrs' /\ ~Accounted(c)' => GivesUp]_vars

\* Once the driver stays up, no retired container stays without volume records
\* for ever: the cleaner gets to it, and no publish binds to it again before.
RetiredContainersAreCollected ==
  <>[](drv = "up") =>
    \A c \in Containers \ OldContainers : []<>(c \notin containersToDelete)

Serves(c, id) == c \in ctrs \cap mounted /\ ctrImage[c] = id

\* The image needs a new container, because its own is not one of content id
\* that exists and has its mount path recorded, and the bound on the containers
\* leaves none to create.
NoContainerLeft(i, id) ==
  /\ \A c \in Containers : ctrImage[c] # None
  /\ ~(imageTag[i] \in ctrs \cap mountPath /\ ctrImage[imageTag[i]] = id)

\* Once the driver stays up and the images file keeps listing an image with
\* the content id, the image is served by a mounted container of that content.
CatalogIsServed ==
  \A i \in Images, id \in ImageIDs :
    <>[](drv = "up" /\ imagesFile[i] = id) =>
      <>[](Serves(imageTag[i], id) \/ NoContainerLeft(i, id))

\* An image that is served by a mounted container of the listed content stays
\* so: no step of a round that has read id for it, or has read nothing yet, and
\* no step of the cleaner, of a call or of a start leaves it without such a
\* container.  Only a restart of the node takes the mount away.
ServedImagesStayServed ==
  [][\A i \in Images, id \in ImageIDs :
       Serves(imageTag[i], id) /\ (imPc = "idle" \/ imImages[i] = id) =>
         Serves(imageTag[i], id)' \/ Reboot]_vars

------------------------------------------------------------------------------
\* What the code's own words promise and the code does not do (see README).

\* "unused container cleaning": a container that is bind-mounted in a pod is
\* never removed.
CleanerRemovesOnlyUnused ==
  \A v \in Volumes : volMount[v] # None => volMount[v] \in ctrs

\* "unused container cleaning": while the driver stays up, no retired
\* container stays for ever when no volume is bound to it or mounted from it.
UnusedContainersAreCleaned ==
  <>[](drv = "up") =>
    \A c \in Containers :
      []<>(c \notin toClean \/ \E v \in Volumes : c \in {volMount[v], volumeContainer[v]})

\* "Image ... was not found in the catalog": a publish of an image without a
\* container is answered NotFound.
MissingImageIsNotFound ==
  \A k \in Calls : err[k] = "ErrKeyNotFound" => code[k] = "NotFound"

==============================================================================
