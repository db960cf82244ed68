------------------------------- MODULE Kubelet -------------------------------
(***************************************************************************)
(* The driver as the kubelet of its node uses it: a publish that has not   *)
(* been answered OK is called again until the pod is given up, which ends  *)
(* with an unpublish.                                                      *)
(***************************************************************************)
EXTENDS ToolProvider

Driven(A) == drv = "up" /\ A /\ UNCHANGED <<imVars, ccVars, drvVars>>

\* The kubelet's retries, on a volume whose mutex others hold now and then.
Retries == \A k \in Calls, v \in Volumes : SF_vars(Driven(NodePublishVolume(k, v)))

\* A handler runs to its end.  A commit, the check of a path or a mount may
\* fail, but not every time that it is tried.
HandlersProgress ==
  \A k \in Calls :
    /\ WF_vars(Driven(Handler(k)))
    /\ SF_vars(Driven(SelectCommit(k) /\ pc'[k] = "target"))
    /\ SF_vars(Driven(CheckTarget(k) /\ pc'[k] = "source"))
    /\ SF_vars(Driven(CheckSource(k) /\ pc'[k] = "mount"))
    /\ SF_vars(Driven(Mount(k) /\ volMount'[vol[k]] # None))

KubeletSpec == CleaningSpec /\ Retries /\ HandlersProgress

------------------------------------------------------------------------------
GivenUp(v) == []<><<\E k \in Calls : NodeUnpublishVolume(k, v)>>_vars

\* "Please retry later": once an image is served by a mounted container, as
\* CatalogIsServed promises, a volume of the image is mounted in the end when
\* its publish is repeated, although the publishes before conflicted with
\* updates of the image, met a container that was not mounted, or left the
\* records of another container behind.
RepeatedPublishesMount ==
  \A v \in Volumes, c \in Containers \ OldContainers :
    <>[](drv = "up" /\ imageTag[ImageOf[v]] = c /\ c \in mounted) =>
      GivenUp(v) \/ <>[](volMount[v] # None)
==============================================================================
