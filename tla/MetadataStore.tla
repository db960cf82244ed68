---------------------------- MODULE MetadataStore ----------------------------
(***************************************************************************)
(* The driver's metadata store (pkg/toolprovider/metadatastore.go): which  *)
(* container serves an image, which container a volume uses, and which     *)
(* containers are to be cleaned.  One variable per family of keys; a set   *)
(* variable holds the identifiers whose key is present.                    *)
(*                                                                         *)
(* Every operation is one Badger transaction.  An operation xxx is given   *)
(* as xxxReads (the keys it reads in its snapshot) and xxxCommit (its      *)
(* writes, when they are committed); the callers take the start and the    *)
(* commit as two steps, with the rest of the system running in between.    *)
(***************************************************************************)
EXTENDS BadgerTxn, Buildah

CONSTANTS Images,    \* image names, as the catalogs and the pods write them
          Volumes    \* CSI volume identifiers

VARIABLES imageTag,         \* imageTag.<image>.containerId
          mountPath,        \* container.<container>.mountPath
          catalog,          \* container.<container>.catalog
          imageID,          \* containerImage.<container>
          volumeContainer,  \* volume.<volume>.containerId
          volumes,          \* container.<container>.volume.<volume>
          toClean           \* containerToClean.<container>

storeVars == <<imageTag, mountPath, catalog, imageID, volumeContainer,
               volumes, toClean>>

------------------------------------------------------------------------------
\* The names of the keys.

containerForImage(image)  == <<"imageTag", image>>
mountPathForContainer(c)  == <<"container.mountPath", c>>
catalogForContainer(c)    == <<"container.catalog", c>>
imageIDForContainer(c)    == <<"containerImage", c>>
containerForVolume(v)     == <<"volume", v>>
volumeOnContainer(v, c)   == <<"container.volume", c, v>>
containerToClean(c)       == <<"containerToClean", c>>

Keys == {containerForImage(i) : i \in Images}
          \cup {mountPathForContainer(c) : c \in Containers}
          \cup {catalogForContainer(c) : c \in Containers}
          \cup {imageIDForContainer(c) : c \in Containers}
          \cup {containerForVolume(v) : v \in Volumes}
          \cup {volumeOnContainer(v, c) : v \in Volumes, c \in Containers}
          \cup {containerToClean(c) : c \in Containers}

TxnTypeOK == /\ reads \in [Txns -> SUBSET Keys]
             /\ stale \in [Txns -> BOOLEAN]

StoreTypeOK == /\ imageTag \in [Images -> Containers \cup {None}]
               /\ mountPath \subseteq Containers
               /\ catalog \subseteq Containers
               /\ imageID \subseteq Containers
               /\ volumeContainer \in [Volumes -> Containers \cup {None}]
               /\ volumes \subseteq Containers \X Volumes
               /\ toClean \subseteq Containers

StoreEmpty == /\ imageTag = [i \in Images |-> None]
              /\ mountPath = {}
              /\ catalog = {}
              /\ imageID = {}
              /\ volumeContainer = [v \in Volumes |-> None]
              /\ volumes = {}
              /\ toClean = {}

------------------------------------------------------------------------------
\* selectContainerForVolume: bind a volume to the container of its image.

\* Faulty variants: the reads are made in a View of their own, so that nothing
\* is checked at the commit; the tag is found by a scan over all tags.
ReadsOutsideTxn(image) == {}

ReadsEveryTag(image) == {containerForImage(i) : i \in Images}

selectContainerForVolumeReads(image) ==
  {containerForImage(image)}
    \cup IF imageTag[image] = None THEN {}
         ELSE {mountPathForContainer(imageTag[image]),
               catalogForContainer(imageTag[image])}

\* The three Gets succeed (otherwise ErrKeyNotFound ends the transaction).
selectContainerForVolumeFinds(image) ==
  /\ imageTag[image] # None
  /\ imageTag[image] \in mountPath
  /\ imageTag[image] \in catalog

selectContainerForVolumeWrites(v, c) == {containerForVolume(v), volumeOnContainer(v, c)}

selectContainerForVolumeCommit(t, v, c) ==
  /\ Commit(t, selectContainerForVolumeWrites(v, c))
  /\ volumeContainer' = [volumeContainer EXCEPT ![v] = c]
  /\ volumes' = volumes \cup {<<c, v>>}
  /\ UNCHANGED <<imageTag, mountPath, catalog, imageID, toClean>>

\* The two drops of a volume write the same keys.
dropVolumeContainerWrites(v, c) == {containerForVolume(v), volumeOnContainer(v, c)}

\* dropVolumeContainerOnMountError: two blind deletes, nothing is read.
\* Faulty variant: containerForVolume is not deleted.
DropKeepsVolumeKey(t, c, v) ==
  /\ Commit(t, {volumeOnContainer(v, c)})
  /\ volumes' = volumes \ {<<c, v>>}
  /\ UNCHANGED <<imageTag, mountPath, catalog, imageID, toClean, volumeContainer>>

dropVolumeContainerOnMountError(t, c, v) ==
  /\ Commit(t, dropVolumeContainerWrites(v, c))
  /\ volumeContainer' = [volumeContainer EXCEPT ![v] = None]
  /\ volumes' = volumes \ {<<c, v>>}
  /\ UNCHANGED <<imageTag, mountPath, catalog, imageID, toClean>>

\* dropVolumeContainerOnUnmount: the container c is the one read from
\* containerForVolume(v); the caller commits nothing when there is none.
dropVolumeContainerOnUnmountReads(v) == {containerForVolume(v)}

\* Faulty variant: every key under the container's volume prefix is deleted.
DropWholePrefix(t, v, c) ==
  /\ Commit(t, {containerForVolume(v)} \cup {volumeOnContainer(w, c) : w \in Volumes})
  /\ volumeContainer' = [volumeContainer EXCEPT ![v] = None]
  /\ volumes' = {r \in volumes : r[1] # c}
  /\ UNCHANGED <<imageTag, mountPath, catalog, imageID, toClean>>

dropVolumeContainerOnUnmountCommit(t, v, c) ==
  /\ Commit(t, dropVolumeContainerWrites(v, c))
  /\ volumeContainer' = [volumeContainer EXCEPT ![v] = None]
  /\ volumes' = volumes \ {<<c, v>>}
  /\ UNCHANGED <<imageTag, mountPath, catalog, imageID, toClean>>

------------------------------------------------------------------------------
\* deleteImagesMissingFromCatalog: retire the images the catalog lost.

deleteImagesReads == {containerForImage(i) : i \in {j \in Images : imageTag[j] # None}}

\* The tags found by the scan whose image the file does not list.
imagesMissingFrom(images) ==
  {i \in Images : imageTag[i] # None /\ images[i] = None}

\* Faulty variants: the tag stays; the container is not marked.
RetireKeepsTag(t, S) ==
  /\ Commit(t, {containerToClean(imageTag[i]) : i \in S})
  /\ toClean' = toClean \cup {imageTag[i] : i \in S}
  /\ UNCHANGED <<mountPath, catalog, imageID, volumeContainer, volumes, imageTag>>

RetireWithoutMark(t, S) ==
  /\ Commit(t, {containerForImage(i) : i \in S})
  /\ imageTag' = [i \in Images |-> IF i \in S THEN None ELSE imageTag[i]]
  /\ UNCHANGED <<mountPath, catalog, imageID, volumeContainer, volumes, toClean>>

deleteImagesWrites(S) == {containerForImage(i) : i \in S}
                           \cup {containerToClean(imageTag[i]) : i \in S}

deleteImagesCommit(t, S) ==
  /\ Commit(t, deleteImagesWrites(S))
  /\ imageTag' = [i \in Images |-> IF i \in S THEN None ELSE imageTag[i]]
  /\ toClean' = toClean \cup {imageTag[i] : i \in S}
  /\ UNCHANGED <<mountPath, catalog, imageID, volumeContainer, volumes>>

\* updateImage: the image's container, and its mount path when the container
\* already has the wanted content.
updateImageReads(image, newImageID) ==
  {containerForImage(image)}
    \cup IF imageTag[image] # None /\ ctrImage[imageTag[image]] = newImageID
         THEN {mountPathForContainer(imageTag[image])} ELSE {}

\* Faulty variants: the old container is marked without a check that there is
\* one; the old container is never marked.
ReplaceMarksAlways(t, image, old, new) ==
  /\ Commit(t, {containerForImage(image), containerToClean(old)})
  /\ imageTag' = [imageTag EXCEPT ![image] = new]
  /\ mountPath' = mountPath \cup {new}
  /\ catalog' = catalog \cup {new}
  /\ imageID' = imageID \cup {new}
  /\ toClean' = toClean \cup {old}
  /\ UNCHANGED <<volumeContainer, volumes>>

ReplaceWithoutMark(t, image, old, new) ==
  /\ Commit(t, {containerForImage(image)})
  /\ imageTag' = [imageTag EXCEPT ![image] = new]
  /\ mountPath' = mountPath \cup {new}
  /\ catalog' = catalog \cup {new}
  /\ imageID' = imageID \cup {new}
  /\ UNCHANGED <<volumeContainer, volumes, toClean>>

updateImageWrites(image, old, new) ==
  {containerForImage(image), mountPathForContainer(new), catalogForContainer(new),
   imageIDForContainer(new)}
    \cup IF old = None THEN {} ELSE {containerToClean(old)}

\* The container new replaces old (None: there was no container).
updateImageCommit(t, image, old, new) ==
  /\ Commit(t, updateImageWrites(image, old, new))
  /\ imageTag' = [imageTag EXCEPT ![image] = new]
  /\ mountPath' = mountPath \cup {new}
  /\ catalog' = catalog \cup {new}
  /\ imageID' = imageID \cup {new}
  /\ toClean' = IF old = None THEN toClean ELSE toClean \cup {old}
  /\ UNCHANGED <<volumeContainer, volumes>>

------------------------------------------------------------------------------
\* getContainersToDelete: the marked containers on which the inner scan finds
\* no volume.  The inner scan looks at no item, so it reads no key.

\* Faulty variant: the inner scan looks at its items, and so reads their keys.
ScanReadsVolumes == {containerToClean(c) : c \in toClean}
                      \cup {volumeOnContainer(r[2], r[1]) : r \in volumes}

getContainersToDeleteReads == {containerToClean(c) : c \in toClean}

\* Faulty variant: a container with one volume less than all of them passes.
FreeOfSomeVolume == {c \in toClean : \E v \in Volumes : <<c, v>> \notin volumes}

containersToDelete == {c \in toClean : \A v \in Volumes : <<c, v>> \notin volumes}

\* Faulty variant: containerToClean is not deleted.
ForgetKeepsMark(t, S) ==
  /\ Commit(t, UNION {{mountPathForContainer(c), catalogForContainer(c)} : c \in S})
  /\ mountPath' = mountPath \ S
  /\ catalog' = catalog \ S
  /\ imageID' = imageID \ S
  /\ UNCHANGED <<imageTag, volumeContainer, volumes, toClean>>

getContainersToDeleteWrites(S) ==
  UNION { {mountPathForContainer(c), catalogForContainer(c), containerToClean(c),
           imageIDForContainer(c)} : c \in S }

getContainersToDeleteCommit(t, S) ==
  /\ Commit(t, getContainersToDeleteWrites(S))
  /\ mountPath' = mountPath \ S
  /\ catalog' = catalog \ S
  /\ toClean' = toClean \ S
  /\ imageID' = imageID \ S
  /\ UNCHANGED <<imageTag, volumeContainer, volumes>>
==============================================================================
