------------------------- MODULE ToolProviderBindings -------------------------
(***************************************************************************)
(* ToolProvider implements VolumeBindings.  The records of the store are   *)
(* the abstract relations: a publish binds its volume at its commit, the   *)
(* image manager serves and retires at its commits, the cleaner forgets at *)
(* its commit.  All other steps change no abstract variable, except those  *)
(* that create and delete containers and those that mount and unmount.     *)
(***************************************************************************)
EXTENDS ToolProviderInvariants

Bindings == INSTANCE VolumeBindings WITH
  exists  <- ctrs,
  current <- imageTag,
  retired <- toClean,
  users   <- volumes,
  target  <- volMount

\* Whatever the transactions, the mutexes, the cleaner's untracked scan, the
\* error returns, the crashes and the reboots do, what they amount to is a
\* sequence of operations that each happen at once.
ImplementsBindings == Bindings!Spec

\* What VolumeBindings is for, in the driver: no container is ever deleted that
\* an image, a retirement or a volume record leads to, and a container kept for
\* a volume is not lost to the cleaner when the volume is released.
KnownContainersExist == Bindings!KnownContainersExist
==============================================================================
