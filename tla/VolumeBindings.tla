---------------------------- MODULE VolumeBindings ----------------------------
(***************************************************************************)
(* What the driver promises about images, volumes and containers, each     *)
(* operation in one step: no transactions, no locks, no rounds, no process *)
(* that dies.  An image is served by one container; a volume is bound to   *)
(* the container that serves its image at that moment, and keeps it until  *)
(* it is released; a container is deleted only when nothing leads to it.   *)
(***************************************************************************)
CONSTANTS Images, Volumes, Containers,
          ImageOf,   \* the image a volume asks for
          None

BindingsAssumption == /\ ImageOf \in [Volumes -> Images]
                      /\ None \notin Containers

VARIABLES exists,    \* the containers in the container storage
          current,   \* the container that serves an image, or None
          retired,   \* containers that served an image, not forgotten yet
          users,     \* <<c, v>>: container c is kept for volume v
          target     \* the container mounted for a volume, or None

bindingVars == <<exists, current, retired, users, target>>

Served == {current[i] : i \in Images} \ {None}
Used   == {r[1] : r \in users}
Known  == Served \cup retired \cup Used

Init == /\ exists \in SUBSET Containers
        /\ current = [i \in Images |-> None]
        /\ retired = {}
        /\ users = {}
        /\ target = [v \in Volumes |-> None]

\* A volume is bound to the container that serves its image.
Bind(v) == /\ current[ImageOf[v]] # None
           /\ users' = users \cup {<<current[ImageOf[v]], v>>}
           /\ UNCHANGED <<exists, current, retired, target>>

Release(c, v) == /\ users' = users \ {<<c, v>>}
                 /\ UNCHANGED <<exists, current, retired, target>>

\* Only a container that is kept for the volume is mounted for it, and never
\* over another one.
MountVolume(c, v) == /\ <<c, v>> \in users
                     /\ c \in exists
                     /\ target[v] = None
                     /\ target' = [target EXCEPT ![v] = c]
                     /\ UNCHANGED <<exists, current, retired, users>>

UnmountVolume(v) == /\ target' = [target EXCEPT ![v] = None]
                    /\ UNCHANGED <<exists, current, retired, users>>

Create(c) == /\ c \notin exists \cup Known
             /\ exists' = exists \cup {c}
             /\ UNCHANGED <<current, retired, users, target>>

\* An unknown container becomes the one of image i; the former one is retired.
Serve(i, c) == /\ c \in exists \ Known
               /\ current' = [current EXCEPT ![i] = c]
               /\ retired' = retired \cup ({current[i]} \ {None})
               /\ UNCHANGED <<exists, users, target>>

Retire(S) == /\ \A i \in S : current[i] # None
             /\ current' = [i \in Images |-> IF i \in S THEN None ELSE current[i]]
             /\ retired' = retired \cup {current[i] : i \in S}
             /\ UNCHANGED <<exists, users, target>>

\* Retired containers without users are forgotten: nothing leads to them.
Forget(S) == /\ S \subseteq retired \ Used
             /\ retired' = retired \ S
             /\ UNCHANGED <<exists, current, users, target>>

Delete(S) == /\ S \cap Known = {}
             /\ exists' = exists \ S
             /\ UNCHANGED <<current, retired, users, target>>

\* The node restarts.
UnmountAll == /\ target' = [v \in Volumes |-> None]
              /\ UNCHANGED <<exists, current, retired, users>>

Next == \/ \E v \in Volumes : Bind(v) \/ UnmountVolume(v)
        \/ \E c \in Containers, v \in Volumes : Release(c, v) \/ MountVolume(c, v)
        \/ \E c \in Containers : Create(c) \/ \E i \in Images : Serve(i, c)
        \/ \E S \in SUBSET Images : Retire(S)
        \/ \E S \in SUBSET Containers : Forget(S) \/ Delete(S)
        \/ UnmountAll

Spec == Init /\ [][Next]_bindingVars

------------------------------------------------------------------------------
TypeOK == /\ exists \subseteq Containers
          /\ current \in [Images -> Containers \cup {None}]
          /\ retired \subseteq Containers
          /\ users \subseteq Containers \X Volumes
          /\ target \in [Volumes -> Containers \cup {None}]

\* No known container is ever deleted, a container serves one image at most,
\* and one kept for a volume still serves its image or is still retired, so
\* that it is not lost when the volume is released.
KnownContainersExist ==
  /\ Known \subseteq exists
  /\ Served \cap retired = {}
  /\ \A i, j \in Images : current[i] = current[j] /\ current[i] # None => i = j
  /\ Used \subseteq Served \cup retired
==============================================================================
