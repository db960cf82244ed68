------------------------------ MODULE BindMounts -----------------------------
(***************************************************************************)
(* What a volume's bind mount gives access to.  Mount makes the bind in    *)
(* one command and remounts it read-only in a second one: when the second  *)
(* fails the bind stays, writable.  NodeUnpublishVolume removes a target   *)
(* that it could not unmount with rm -Rf, which goes through a writable    *)
(* bind to the files of the container; a read-only one refuses it.         *)
(*                                                                         *)
(* ToolProvider, with what its mounts and removals do to the files.        *)
(***************************************************************************)
EXTENDS ToolProviderInvariants

VARIABLES writable,  \* the volumes whose target is a writable bind mount
          damaged    \* the containers whose files a removal has deleted

fileVars == <<writable, damaged>>

filesInit == Init /\ writable = {} /\ damaged = {}

\* mounter.Mount(mountPath, targetPath, "", {"bind", "ro"})
MountFiles(k) ==
  /\ Mount(k)
  /\ writable' = IF volMount' # volMount /\ code'[k] # "OK"
                 THEN writable \cup {vol[k]} ELSE writable
  /\ UNCHANGED damaged

\* mounter.Unmount(targetPath), and rm -Rf targetPath when it fails.
UnpublishFiles(k, v) ==
  /\ NodeUnpublishVolume(k, v)
  /\ \/ /\ volMount'[v] = None
        /\ writable' = writable \ {v}
        /\ UNCHANGED damaged
     \/ /\ volMount'[v] # None
        /\ damaged' = damaged \cup {volMount[w] : w \in {v} \cap writable}
        /\ UNCHANGED writable

FileSteps == /\ drv = "up"
             /\ \E k \in Calls : MountFiles(k) \/ \E v \in Volumes : UnpublishFiles(k, v)
             /\ UNCHANGED <<imVars, ccVars, drvVars>>

\* The handlers' other steps mount and remove nothing.
OtherHandlerSteps ==
  /\ drv = "up"
  /\ \E k \in Calls :
       \/ \E v \in Volumes : NodePublishVolume(k, v)
       \/ SelectCommit(k) \/ CheckTarget(k) \/ CheckSource(k)
       \/ CleaningOnError(k) \/ DropBegin(k) \/ DropCommit(k) \/ Return(k)
  /\ UNCHANGED <<imVars, ccVars, drvVars>>

RebootFiles == /\ Reboot
               /\ writable' = {}
               /\ UNCHANGED damaged

filesNext ==
  \/ FileSteps
  \/ RebootFiles
  \/ /\ \/ OtherHandlerSteps \/ ImageManagerStep \/ ContainerCleanerStep
        \/ Start \/ RemoveAllContainers \/ Crash \/ WriteImagesFile
     /\ UNCHANGED fileVars

filesSpec == filesInit /\ [][filesNext]_<<vars, fileVars>>

------------------------------------------------------------------------------
\* A publish is answered OK only when its target is the container that the
\* store records for the volume, mounted read-only: a bind that an earlier
\* publish left writable is never taken for a published volume.
PublishedIsReadOnly ==
  [][\A k \in Calls :
       pc[k] \in {"target", "source", "mount"} /\ code'[k] = "OK" =>
         /\ vol[k] \notin writable'
         /\ volMount'[vol[k]] = volumeContainer'[vol[k]]]_<<vars, fileVars>>

\* "read-only mounted CSI volumes": no call changes the files of a container
\* that serves an image, which every later volume of the image would see.
ServedContentIsIntact ==
  \A i \in Images : imageTag[i] \notin damaged

------------------------------------------------------------------------------
\* A writable bind is a mounted one, and a publish has no answer before its
\* mount has succeeded.
AnswerInv ==
  /\ writable \subseteq {v \in Volumes : volMount[v] # None}
  /\ \A k \in Calls :
       pc[k] \in {"idle", "select", "target", "source", "mount"} => code[k] = ""
==============================================================================
