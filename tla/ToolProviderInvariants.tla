------------------------ MODULE ToolProviderInvariants -----------------------
(***************************************************************************)
(* The inductive invariant behind the safety of ToolProvider: what every   *)
(* goroutine may rely on between two of its steps, whatever the others do. *)
(***************************************************************************)
EXTENDS ToolProvider

Tagged == {imageTag[i] : i \in {j \in Images : imageTag[j] # None}}

\* The containers that a tag or a volume record leads to.
Referred == Tagged \cup {r[1] : r \in volumes}

\* A handler past its first step has a volume, and one that has read a
\* container from the store still has it.
HandlerInv ==
  \A k \in Calls :
    /\ pc[k] # "idle" => vol[k] \in Volumes
    /\ pc[k] \in {"select", "target", "source", "mount", "cleanup", "dropCommit"}
         => ctr[k] \in Containers

\* The tag a publish has read is among the keys Badger checks for it, and as
\* long as the check succeeds the tag still names the container it chose.
SelectInv ==
  \A k \in Calls :
    pc[k] = "select" =>
      /\ containerForImage(ImageOf[vol[k]]) \in reads[k]
      /\ ~stale[k] => imageTag[ImageOf[vol[k]]] = ctr[k]

\* The tags that the image manager works on are among the keys Badger checks
\* for it, and as long as the check succeeds they are what it has read; and the
\* container it is creating is known to nobody else.
ManagerInv ==
  /\ imPc = "prune" =>
       \A i \in imMissing : /\ containerForImage(i) \in reads[ImageManager]
                            /\ ~stale[ImageManager] => imageTag[i] # None
  /\ imPc \in {"round", "reuse", "create", "mount", "commit"} =>
       \A i \in imTodo : imImages[i] # None
  /\ imPc \in {"reuse", "create", "mount", "commit"} =>
       /\ imImage \in Images
       /\ imNewID \in ImageIDs
       /\ containerForImage(imImage) \in reads[ImageManager]
       /\ ~stale[ImageManager] => imContainer = imageTag[imImage]
  /\ imPc \in {"mount", "commit"} =>
       /\ imNew \in ctrs
       /\ imNew \notin mountPath \cup toClean \cup ccList \cup Referred

\* The cleaner's containers are referred to by nothing.  Until its commit their
\* marks are among the keys Badger checks for it; after it nothing in the store
\* leads to them.
CleanerInv ==
  /\ ccList \cap Referred = {}
  /\ ccPc = "commit" =>
       \A c \in ccList : /\ containerToClean(c) \in reads[ContainerCleaner]
                         /\ ~stale[ContainerCleaner] => c \in toClean
  /\ ccPc = "delete" => ccList \cap (mountPath \cup toClean) = {}

\* An identifier that appears anywhere belongs to a container that was created,
\* so that buildah from never returns it again.
KnownInv ==
  \A c \in ctrs \cup mountPath \cup toClean \cup ccList \cup Referred :
    ctrImage[c] # None

\* Goroutines run only while the driver is up, and a store that has just been
\* created is still empty when buildah rm --all runs.
DriverInv ==
  /\ drv # "up" => /\ \A k \in Calls : pc[k] = "idle"
                   /\ imPc = "idle"
                   /\ ccPc = "idle"
                   /\ ccList = {}
  /\ drv # "down" => storeExists
  /\ drv = "clean" \/ ~storeExists => /\ Tagged = {}
                                      /\ mountPath = {}
                                      /\ toClean = {}
                                      /\ volumes = {}

\* A container serves one image, and is retired only when it serves none.
TagsInv ==
  \A i \in Images :
    imageTag[i] # None => /\ imageTag[i] \notin toClean
                          /\ \A j \in Images : imageTag[j] = imageTag[i] => j = i

\* What holds of the store and of the goroutines in every environment of the
\* driver: also when keys are deleted by hand, or commits lost with the power.
CoreInv == /\ TypeOK
           /\ HandlerInv
           /\ SelectInv
           /\ ManagerInv
           /\ CleanerInv
           /\ KnownInv
           /\ DriverInv
           /\ TagsInv

\* The containers referred to have their metadata (in a store whose keys nobody
\* deletes by hand), and they exist (when no commit is lost).
MetadataInv == Referred \subseteq mountPath \cap catalog

ExistInv == Referred \subseteq ctrs

------------------------------------------------------------------------------
\* A handler holds the mutex of its volume from its first step to its return.
MutexInv ==
  \A k \in Calls : pc[k] # "idle" => mtx[MutexOf[vol[k]]] = k

\* Nothing is mounted at the target path that a publish has checked.
TargetInv ==
  \A k \in Calls : pc[k] \in {"source", "mount"} => volMount[vol[k]] = None

\* What the handlers rely on about their volumes, inductive beside CoreInv.
VolumeInv == /\ MutexInv
             /\ TargetInv
             /\ ChosenContainerIsHeld
             /\ BoundVolumesAreRecorded

------------------------------------------------------------------------------
\* The image manager has read tags, and the mount path of the container that it
\* found for the image it is updating.
ManagerReads ==
  \A key \in reads[ImageManager] :
    \/ \E i \in Images : key = containerForImage(i)
    \/ /\ imPc \in {"reuse", "create", "mount", "commit"}
       /\ imContainer # None
       /\ key = mountPathForContainer(imContainer)

\* The cleaner has read marks, and only the cleaner deletes marks.
CleanerReads ==
  \A key \in reads[ContainerCleaner] : \E c \in toClean : key = containerToClean(c)

\* A publish has read the tag of its image and the metadata of its container.
PublishReads ==
  \A k \in Calls :
    pc[k] = "select" =>
      reads[k] \subseteq {containerForImage(ImageOf[vol[k]]),
                         mountPathForContainer(ctr[k]), catalogForContainer(ctr[k])}

\* What the open transactions have read, inductive beside CoreInv.
ReadsInv == /\ ManagerReads
            /\ CleanerReads
            /\ PublishReads
            /\ BackgroundNeverConflicts

\* All that the driver relies on when nobody else touches its store.
IInv == /\ CoreInv
        /\ MetadataInv
        /\ ExistInv
        /\ ReadsInv

------------------------------------------------------------------------------
\* The image manager has a new container, and the cleaner a list, only while
\* they work on it.
WorkInv == /\ imNew # None => imPc \in {"mount", "commit"}
           /\ ccPc = "idle" => ccList = {}

\* No container is lost from sight, inductive beside IInv.
AccountInv == WorkInv /\ KnownContainersAreAccounted

------------------------------------------------------------------------------
\* What the image manager does is what its copy of the images file says: it
\* retires no image that the copy lists, and the container that it is about to
\* enter in the store has the listed content and is mounted.
RoundInv ==
  /\ imPc = "prune" => \A i \in imMissing : imImages[i] = None
  /\ imPc \in {"reuse", "create", "mount", "commit"} => imNewID \in pulled(imImages[imImage])
  /\ imPc \in {"mount", "commit"} => ctrImage[imNew] = imNewID
  /\ imPc = "commit" => imNew \in mounted
==============================================================================
