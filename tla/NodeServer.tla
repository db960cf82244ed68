------------------------------ MODULE NodeServer -----------------------------
(***************************************************************************)
(* The CSI node service (pkg/toolprovider/nodeserver.go): the handlers of  *)
(* NodePublishVolume and NodeUnpublishVolume, run by one goroutine per     *)
(* gRPC call and serialised per volume by a hashed key mutex.              *)
(*                                                                         *)
(* The kubelet may call in any order, and more than once: a call whose     *)
(* answer was lost or timed out is repeated while the first handler may    *)
(* still be running (the handlers do not see the caller's cancellation).   *)
(* A call with a missing argument is refused before anything changes.      *)
(***************************************************************************)
EXTENDS MetadataStore

CONSTANTS Calls,     \* gRPC handler goroutines
          Mutexes,   \* the mutexes of the hashed key mutex
          MutexOf,   \* the mutex a volume identifier hashes to
          ImageOf    \* the image of the volume's context ("image" attribute)

ASSUME NodeServerAssumption == /\ MutexOf \in [Volumes -> Mutexes]
                               /\ ImageOf \in [Volumes -> Images]
                               /\ None \notin Calls
                               /\ None \notin Containers
                               /\ None \notin ImageIDs
                               /\ None \notin Volumes
                               /\ Calls \subseteq Txns

VARIABLES pc,        \* where each handler is
          vol,       \* volumeID of the call
          ctr,       \* containerID, once read from the store
          err,       \* the error of selectContainerForVolume
          code,      \* the gRPC status the handler is about to return
          mtx,       \* the holder of each mutex
          volMount   \* the container bind-mounted at the volume's target path

nsVars == <<pc, vol, ctr, err, code, mtx, volMount>>

PCs   == {"idle", "select", "target", "source", "mount", "cleanup",
          "drop", "dropCommit", "reply"}
Errs  == {"nil", "ErrKeyNotFound", "ErrEmptyKey", "ErrConflict", "ErrIO"}
Codes == {"", "OK", "NotFound", "Aborted", "FailedPrecondition", "Unknown",
          "Internal"}

HandlersTypeOK == /\ pc \in [Calls -> PCs]
                  /\ vol \in [Calls -> Volumes \cup {None}]
                  /\ ctr \in [Calls -> Containers \cup {None}]
                  /\ err \in [Calls -> Errs]
                  /\ code \in [Calls -> Codes]
                  /\ mtx \in [Mutexes -> Calls \cup {None}]
                  /\ volMount \in [Volumes -> Containers \cup {None}]

HandlersIdle == /\ pc = [k \in Calls |-> "idle"]
                /\ vol = [k \in Calls |-> None]
                /\ ctr = [k \in Calls |-> None]
                /\ err = [k \in Calls |-> "nil"]
                /\ code = [k \in Calls |-> ""]
                /\ mtx = [m \in Mutexes |-> None]

\* The process dies: its handlers, and the mutexes, are gone.
HandlersDie == /\ pc' = [k \in Calls |-> "idle"]
               /\ vol' = [k \in Calls |-> None]
               /\ ctr' = [k \in Calls |-> None]
               /\ err' = [k \in Calls |-> "nil"]
               /\ code' = [k \in Calls |-> ""]
               /\ mtx' = [m \in Mutexes |-> None]

NSInit == HandlersIdle /\ volMount = [v \in Volumes |-> None]

------------------------------------------------------------------------------
\* LockKey: the mutex is shared by the volumes that hash to it.
\* Faulty variant: nobody waits for the holder.
LockWithoutWaiting(k, v) == mtx' = [mtx EXCEPT ![MutexOf[v]] = k]

lock(k, v) == /\ mtx[MutexOf[v]] = None
              /\ mtx' = [mtx EXCEPT ![MutexOf[v]] = k]

\* Faulty variant: the error returns forget the mutex.
UnlockOnSuccess(k) ==
  mtx' = [mtx EXCEPT ![MutexOf[vol[k]]] = IF code[k] = "OK" THEN None ELSE k]

unlock(k) == mtx' = [mtx EXCEPT ![MutexOf[vol[k]]] = None]

goto(k, label) == pc' = [pc EXCEPT ![k] = label]

answer(k, status) == code' = [code EXCEPT ![k] = status]

\* The status for an error of selectContainerForVolume.
selectStatus(e) == CASE e = "ErrEmptyKey" -> "NotFound"
                     [] e = "ErrConflict" -> "Aborted"
                     [] OTHER             -> "Unknown"

selectFails(k, e) == /\ err' = [err EXCEPT ![k] = e]
                     /\ answer(k, selectStatus(e))
                     /\ goto(k, "reply")
                     /\ UNCHANGED storeVars

------------------------------------------------------------------------------
\* NodePublishVolume takes the lock and starts selectContainerForVolume.
NodePublishVolume(k, v) ==
  /\ pc[k] = "idle"
  /\ lock(k, v)
  /\ vol' = [vol EXCEPT ![k] = v]
  /\ UNCHANGED <<storeVars, buildahVars, volMount>>
  /\ \/ /\ selectContainerForVolumeFinds(ImageOf[v])
        /\ NewTransaction(k, selectContainerForVolumeReads(ImageOf[v]))
        /\ ctr' = [ctr EXCEPT ![k] = imageTag[ImageOf[v]]]
        /\ goto(k, "select")
        /\ UNCHANGED <<err, code>>
     \/ /\ ~selectContainerForVolumeFinds(ImageOf[v])
        /\ Discard(k)
        /\ selectFails(k, "ErrKeyNotFound")
        /\ UNCHANGED ctr

\* The transaction commits, conflicts, or fails to reach the disk.
SelectCommit(k) ==
  /\ pc[k] = "select"
  /\ UNCHANGED <<buildahVars, vol, ctr, mtx, volMount>>
  /\ \/ /\ selectContainerForVolumeCommit(k, vol[k], ctr[k])
        /\ goto(k, "target")
        /\ UNCHANGED <<err, code>>
     \/ /\ CommitFails(k, selectContainerForVolumeWrites(vol[k], ctr[k]))
        /\ selectFails(k, IF hasConflict(k) THEN "ErrConflict" ELSE "ErrIO")

\* Faulty variant: a target that is already mounted counts as published.
AcceptsMountedTarget(k) ==
  /\ pc[k] = "target"
  /\ \/ volMount[vol[k]] = None /\ goto(k, "source") /\ UNCHANGED code
     \/ volMount[vol[k]] # None /\ answer(k, "OK") /\ goto(k, "reply")
     \/ answer(k, "Unknown") /\ goto(k, "cleanup")
  /\ UNCHANGED <<txnVars, storeVars, buildahVars, vol, ctr, err, mtx, volMount>>

\* IsLikelyNotMountPoint(targetPath), and MkdirAll when the path is missing.
\* The target path of a bound volume lies on another device than its parent
\* (a container's overlay mount), so the check sees the bind mount.
CheckTarget(k) ==
  /\ pc[k] = "target"
  /\ \/ /\ volMount[vol[k]] = None
        /\ goto(k, "source")
        /\ UNCHANGED code
     \/ /\ volMount[vol[k]] # None
        /\ answer(k, "FailedPrecondition")
        /\ goto(k, "cleanup")
     \/ answer(k, "Unknown") /\ goto(k, "cleanup")   \* stat or mkdir fails
  /\ UNCHANGED <<txnVars, storeVars, buildahVars, vol, ctr, err, mtx, volMount>>

\* isDirEmpty(mountPath): no directory without the container; an empty one when
\* the container is not mounted, or has no files (no cleaningOnError on that
\* return).
CheckSource(k) ==
  /\ pc[k] = "source"
  /\ \/ ctr[k] \in mounted /\ goto(k, "mount") /\ UNCHANGED code
     \/ ctr[k] \in ctrs /\ answer(k, "Aborted") /\ goto(k, "reply")
     \/ /\ answer(k, IF ctr[k] \in ctrs THEN "Unknown" ELSE "Aborted")
        /\ goto(k, "cleanup")                         \* it cannot be read
  /\ UNCHANGED <<txnVars, storeVars, buildahVars, vol, ctr, err, mtx, volMount>>

\* Mount(mountPath, targetPath, bind and ro): the bind, then a read-only
\* remount, so a failing Mount can leave the bind mount in place.
Mount(k) ==
  /\ pc[k] = "mount"
  /\ \/ /\ ctr[k] \in ctrs
        /\ volMount' = [volMount EXCEPT ![vol[k]] = ctr[k]]
        /\ \/ answer(k, "OK") /\ goto(k, "reply")
           \/ answer(k, "Unknown") /\ goto(k, "cleanup")
     \/ answer(k, "Unknown") /\ goto(k, "cleanup") /\ UNCHANGED volMount
  /\ UNCHANGED <<txnVars, storeVars, buildahVars, vol, ctr, err, mtx>>

\* cleaningOnError: dropVolumeContainerOnMountError, whose error is logged.
CleaningOnError(k) ==
  /\ pc[k] = "cleanup"
  /\ goto(k, "reply")
  /\ \/ dropVolumeContainerOnMountError(k, ctr[k], vol[k])
     \/ /\ CommitFails(k, dropVolumeContainerWrites(vol[k], ctr[k]))
        /\ UNCHANGED storeVars
  /\ UNCHANGED <<buildahVars, vol, ctr, err, code, mtx, volMount>>

------------------------------------------------------------------------------
\* NodeUnpublishVolume takes the lock and unmounts the target path.  When
\* Unmount fails (not mounted, or busy) the target is removed, as far as it
\* can be, and the handler goes on as if it had succeeded.
NodeUnpublishVolume(k, v) ==
  /\ pc[k] = "idle"
  /\ lock(k, v)
  /\ vol' = [vol EXCEPT ![k] = v]
  /\ goto(k, "drop")
  /\ \/ volMount' = [volMount EXCEPT ![v] = None]
     \/ volMount[v] # None /\ UNCHANGED volMount     \* busy
  /\ UNCHANGED <<txnVars, storeVars, buildahVars, ctr, err, code>>

\* dropVolumeContainerOnUnmount reads the volume's container.
DropBegin(k) ==
  /\ pc[k] = "drop"
  /\ \/ /\ volumeContainer[vol[k]] # None
        /\ NewTransaction(k, dropVolumeContainerOnUnmountReads(vol[k]))
        /\ ctr' = [ctr EXCEPT ![k] = volumeContainer[vol[k]]]
        /\ goto(k, "dropCommit")
        /\ UNCHANGED code
     \/ /\ volumeContainer[vol[k]] = None
        /\ answer(k, "OK") /\ goto(k, "reply")
        /\ UNCHANGED <<txnVars, ctr>>
  /\ UNCHANGED <<storeVars, buildahVars, vol, err, mtx, volMount>>

DropCommit(k) ==
  /\ pc[k] = "dropCommit"
  /\ goto(k, "reply")
  /\ \/ /\ dropVolumeContainerOnUnmountCommit(k, vol[k], ctr[k])
        /\ answer(k, "OK")
     \/ /\ CommitFails(k, dropVolumeContainerWrites(vol[k], ctr[k]))
        /\ answer(k, "Internal")
        /\ UNCHANGED storeVars
  /\ UNCHANGED <<buildahVars, vol, ctr, err, mtx, volMount>>

\* The handler returns; its deferred unlock releases the volume.
Return(k) ==
  /\ pc[k] = "reply"
  /\ unlock(k)
  /\ goto(k, "idle")
  /\ vol' = [vol EXCEPT ![k] = None]
  /\ ctr' = [ctr EXCEPT ![k] = None]
  /\ err' = [err EXCEPT ![k] = "nil"]
  /\ answer(k, "")
  /\ UNCHANGED <<txnVars, storeVars, buildahVars, volMount>>

Handler(k) ==
  \/ SelectCommit(k) \/ CheckTarget(k) \/ CheckSource(k) \/ Mount(k)
  \/ CleaningOnError(k) \/ DropBegin(k) \/ DropCommit(k) \/ Return(k)

NSNext == \E k \in Calls :
            \/ \E v \in Volumes : NodePublishVolume(k, v) \/ NodeUnpublishVolume(k, v)
            \/ Handler(k)
==============================================================================
