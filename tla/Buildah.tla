------------------------------- MODULE Buildah -------------------------------
(***************************************************************************)
(* The container storage the driver reaches through the buildah commands   *)
(* it runs (pkg/toolprovider/imageManager.go).  Buildah itself is not in   *)
(* the repository: this module says what the driver relies on.             *)
(*                                                                         *)
(* A container identifier is never reused.  A container is mounted at one  *)
(* path, which the metadata store records and which is therefore not       *)
(* modelled as a value of its own.                                         *)
(***************************************************************************)

CONSTANTS Containers,   \* container identifiers (their number bounds how
                        \* many containers a run can create)
          ImageIDs,     \* content identifiers of container images
          None

VARIABLES ctrs,      \* the containers that exist
          ctrImage,  \* ctrImage[c]: FromImageID of c, None if never created
          mounted    \* the containers mounted at their path

buildahVars == <<ctrs, ctrImage, mounted>>

BuildahTypeOK == /\ ctrs \subseteq Containers
                 /\ ctrImage \in [Containers -> ImageIDs \cup {None}]
                 /\ mounted \subseteq ctrs

\* buildah from --pull-never id
from(c, id) == /\ ctrImage[c] = None
               /\ ctrs' = ctrs \cup {c}
               /\ ctrImage' = [ctrImage EXCEPT ![c] = id]
               /\ UNCHANGED mounted

\* buildah mount c ("it doesn't hurt to mount a container several times")
mountContainer(c) == /\ c \in ctrs
                     /\ mounted' = mounted \cup {c}
                     /\ UNCHANGED <<ctrs, ctrImage>>

\* buildah rm: the containers of S are unmounted and deleted.
rm(S) == /\ ctrs' = ctrs \ S
         /\ mounted' = mounted \ S
         /\ UNCHANGED ctrImage
==============================================================================
