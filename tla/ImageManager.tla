----------------------------- MODULE ImageManager ----------------------------
(***************************************************************************)
(* The image manager goroutine (updateImages of imageManager.go, on the    *)
(* transactions of metadatastore.go): on every tick or change of the       *)
(* images file it retires the images the file no longer lists, then makes  *)
(* every listed image served by a mounted container of the wanted content. *)
(***************************************************************************)
EXTENDS MetadataStore

CONSTANTS ImageManager,  \* the image manager's transaction
          NoID,          \* a line of the images file that gives no image ID
          Descriptions   \* what the file can say of an image

ASSUME ImageManagerAssumption == /\ ImageManager \in Txns
                                 /\ NoID \notin ImageIDs
                                 /\ NoID # None
                                 /\ Descriptions \subseteq ImageIDs \cup {NoID, None}
                                 /\ None \notin ImageIDs
                                 /\ None \notin Containers
                                 /\ None \notin Images

VARIABLES imagesFile,     \* the images file the catalogs adapter writes
          imPc,           \* where the manager is in its round
          imImages,       \* the file as this round has read it
          imMissing,      \* the tags this round's first transaction deletes
          imMountPoints,  \* the mount points listed at the start of the round
          imTodo,         \* the images still to update
          imImage,        \* the image being updated, its wanted content,
          imNewID,        \* the container found for it,
          imContainer,    \* and the container created to replace it
          imNew

imVars == <<imagesFile, imPc, imImages, imMissing, imMountPoints, imTodo,
            imImage, imNewID, imContainer, imNew>>

\* Image name -> image ID (or NoID), None for a name the file does not list.
ImagesFiles == [Images -> Descriptions]

NoImages == [i \in Images |-> None]

IMPCs == {"idle", "catalog", "prune", "list", "round", "reuse", "create",
          "mount", "commit"}

ImageManagerTypeOK == /\ imagesFile \in ImagesFiles
                      /\ imPc \in IMPCs
                      /\ imImages \in ImagesFiles \cup {NoImages}
                      /\ imMissing \subseteq Images
                      /\ imMountPoints \subseteq Containers
                      /\ imTodo \subseteq Images
                      /\ imImage \in Images \cup {None}
                      /\ imNewID \in ImageIDs \cup {None}
                      /\ imContainer \in Containers \cup {None}
                      /\ imNew \in Containers \cup {None}

IMIdle == /\ imPc = "idle"
          /\ imImages = NoImages
          /\ imMissing = {}
          /\ imMountPoints = {}
          /\ imTodo = {}
          /\ imImage = None
          /\ imNewID = None
          /\ imContainer = None
          /\ imNew = None

\* The process dies, and the round with it.
IMDies == /\ imPc' = "idle"
          /\ imImages' = NoImages
          /\ imMissing' = {}
          /\ imMountPoints' = {}
          /\ imTodo' = {}
          /\ imImage' = None
          /\ imNewID' = None
          /\ imContainer' = None
          /\ imNew' = None

imUpdate == <<imImage, imNewID, imContainer, imNew>>

------------------------------------------------------------------------------
\* getCatalogImagesFromConfigMap (when the file cannot be read the round ends
\* at once, and nothing changes).
ReadImages ==
  /\ imPc = "idle"
  /\ imImages' = imagesFile
  /\ imPc' = "catalog"
  /\ UNCHANGED <<txnVars, storeVars, buildahVars, imagesFile, imMissing,
                 imMountPoints, imTodo, imUpdate>>

\* A tag whose value cannot be read is left alone, and the loop goes on.
DeleteImagesBegin ==
  /\ imPc = "catalog"
  /\ NewTransaction(ImageManager, deleteImagesReads)
  /\ imMissing' \in SUBSET imagesMissingFrom(imImages)
  /\ imPc' = "prune"
  /\ UNCHANGED <<storeVars, buildahVars, imagesFile, imImages, imMountPoints,
                 imTodo, imUpdate>>

\* The result of db.Update is ignored: the round goes on after a failure.
DeleteImagesEnd ==
  /\ imPc = "prune"
  /\ \/ deleteImagesCommit(ImageManager, imMissing)
     \/ /\ CommitFails(ImageManager, deleteImagesWrites(imMissing))
        /\ UNCHANGED storeVars
  /\ imMissing' = {}
  /\ imPc' = "list"
  /\ UNCHANGED <<buildahVars, imagesFile, imImages, imMountPoints, imTodo,
                 imUpdate>>

\* mounter.List, once for the round (no mount point when it fails).
ListMountPoints ==
  /\ imPc = "list"
  /\ imTodo' = {i \in Images : imImages[i] # None}
  /\ IF imTodo' = {}
     THEN /\ imPc' = "idle"
          /\ imMountPoints' = {}
          /\ imImages' = NoImages
     ELSE /\ imPc' = "round"
          /\ imMountPoints' \in {mounted, {}}
          /\ UNCHANGED imImages
  /\ UNCHANGED <<txnVars, storeVars, buildahVars, imagesFile, imMissing,
                 imUpdate>>

\* The loop goes on to another image, or the round is over.
NextImage(i) ==
  /\ imTodo' = imTodo \ {i}
  /\ IF imTodo' = {}
     THEN imPc' = "idle" /\ imImages' = NoImages /\ imMountPoints' = {}
     ELSE imPc' = "round" /\ UNCHANGED <<imImages, imMountPoints>>
  /\ imImage' = None
  /\ imNewID' = None
  /\ imContainer' = None
  /\ imNew' = None
  /\ UNCHANGED <<imagesFile, imMissing>>

\* buildah pull --policy never fails, or inspecting the current container does.
SkipImage ==
  /\ imPc = "round"
  /\ \E i \in imTodo : NextImage(i)
  /\ UNCHANGED <<txnVars, storeVars, buildahVars>>

\* The image ID buildah pull --policy never prints.
pulled(desc) == IF desc = NoID THEN ImageIDs ELSE {desc}

\* Faulty variant: a container of the wanted content is kept whatever the store
\* says of its mount path.
KeepsUnknownMountPath ==
  /\ imPc = "round"
  /\ \E i \in imTodo : \E id \in pulled(imImages[i]) :
       LET c == imageTag[i] IN
       /\ c = None \/ c \in ctrs
       /\ NewTransaction(ImageManager, updateImageReads(i, id))
       /\ imImage' = i
       /\ imNewID' = id
       /\ imContainer' = c
       /\ imPc' = IF c # None /\ ctrImage[c] = id THEN "reuse" ELSE "create"
  /\ UNCHANGED <<storeVars, buildahVars, imagesFile, imImages, imMissing,
                 imMountPoints, imTodo, imNew>>

\* updateImage starts: an image whose container has the wanted content and a
\* recorded mount path may keep it.
UpdateImageBegin ==
  /\ imPc = "round"
  /\ \E i \in imTodo : \E id \in pulled(imImages[i]) :
       LET c == imageTag[i] IN
       /\ c = None \/ c \in ctrs    \* getImageIDFromContainer succeeds
       /\ NewTransaction(ImageManager, updateImageReads(i, id))
       /\ imImage' = i
       /\ imNewID' = id
       /\ imContainer' = c
       /\ imPc' = IF c # None /\ ctrImage[c] = id /\ c \in mountPath
                  THEN "reuse" ELSE "create"
  /\ UNCHANGED <<storeVars, buildahVars, imagesFile, imImages, imMissing,
                 imMountPoints, imTodo, imNew>>

\* Faulty variant: a known container is never mounted again.
ReuseWithoutMount ==
  /\ imPc = "reuse"
  /\ Commit(ImageManager, {})
  /\ NextImage(imImage)
  /\ UNCHANGED <<storeVars, buildahVars>>

\* The container is mounted, or mounted again after a restart of the node;
\* the transaction ends without a write.
ReuseContainer ==
  /\ imPc = "reuse"
  /\ IF imContainer \in imMountPoints
     THEN UNCHANGED buildahVars ELSE mountContainer(imContainer)
  /\ Commit(ImageManager, {})
  /\ NextImage(imImage)
  /\ UNCHANGED storeVars

\* It cannot be mounted, or not at the recorded path.
GiveUpContainer ==
  /\ imPc = "reuse"
  /\ imContainer \notin imMountPoints
  /\ imPc' = "create"
  /\ UNCHANGED <<txnVars, storeVars, buildahVars, imagesFile, imImages,
                 imMissing, imMountPoints, imTodo, imUpdate>>

AbandonUpdate == Discard(ImageManager) /\ NextImage(imImage) /\ UNCHANGED storeVars

CreateContainer ==
  /\ imPc = "create"
  /\ \E c \in Containers :
       /\ from(c, imNewID)
       /\ imNew' = c
  /\ imPc' = "mount"
  /\ UNCHANGED <<txnVars, storeVars, imagesFile, imImages, imMissing,
                 imMountPoints, imTodo, imImage, imNewID, imContainer>>

\* buildah from fails, or it succeeds and buildah containers -q fails.
CreateContainerFails ==
  /\ imPc = "create"
  /\ \/ UNCHANGED buildahVars
     \/ \E c \in Containers : from(c, imNewID)
  /\ AbandonUpdate

\* Faulty variant: the result of the mount is not looked at.
MountResultIgnored ==
  /\ imPc = "mount"
  /\ mountContainer(imNew) \/ UNCHANGED buildahVars
  /\ imPc' = "commit"
  /\ UNCHANGED <<txnVars, storeVars, imagesFile, imImages, imMissing,
                 imMountPoints, imTodo, imUpdate>>

MountNewContainer ==
  /\ imPc = "mount"
  /\ mountContainer(imNew)
  /\ imPc' = "commit"
  /\ UNCHANGED <<txnVars, storeVars, imagesFile, imImages, imMissing,
                 imMountPoints, imTodo, imUpdate>>

\* The new container is not deleted on this return.
MountNewContainerFails ==
  /\ imPc = "mount"
  /\ AbandonUpdate
  /\ UNCHANGED buildahVars

UpdateImageCommit ==
  /\ imPc = "commit"
  /\ updateImageCommit(ImageManager, imImage, imContainer, imNew)
  /\ NextImage(imImage)
  /\ UNCHANGED buildahVars

\* The commit fails: the new container is not deleted on this return either.
UpdateImageCommitFails ==
  /\ imPc = "commit"
  /\ CommitFails(ImageManager, updateImageWrites(imImage, imContainer, imNew))
  /\ NextImage(imImage)
  /\ UNCHANGED <<storeVars, buildahVars>>

\* A txn.Set is refused: deleteContainer, whose own failure is ignored.
UpdateImageSetFails ==
  /\ imPc = "commit"
  /\ rm({imNew}) \/ UNCHANGED buildahVars
  /\ AbandonUpdate

IMNext == \/ ReadImages \/ DeleteImagesBegin \/ DeleteImagesEnd
          \/ ListMountPoints \/ SkipImage \/ UpdateImageBegin
          \/ ReuseContainer \/ GiveUpContainer
          \/ CreateContainer \/ CreateContainerFails
          \/ MountNewContainer \/ MountNewContainerFails
          \/ UpdateImageCommit \/ UpdateImageCommitFails \/ UpdateImageSetFails
==============================================================================
