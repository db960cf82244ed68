----------------------- MODULE SoftwareCatalogsAdapter -----------------------
(***************************************************************************)
(* The software catalogs adapter (pkg/catalogs/adapter.go and its main):   *)
(* one goroutine pulls the images of the software catalogs, in rounds      *)
(* started by a change of the catalogs file, a tick or a retry timer, and  *)
(* lists them in the images file that the tool provider reads.             *)
(*                                                                         *)
(* The senders block on an unbuffered channel; of several events of one    *)
(* sender only one matters, so a Boolean stands for them.                  *)
(***************************************************************************)
EXTENDS Naturals

CONSTANTS Images,      \* image references
          ImageIDs,
          Catalogs,    \* catalog names
          DontNeedImageUpdates,  \* the catalogs that say so
          NeverPull,   \* the command line option
          MaxRetries,  \* bound on the armed retry timers
          None

ASSUME AdapterAssumption == /\ DontNeedImageUpdates \subseteq Catalogs
                            /\ NeverPull \in BOOLEAN
                            /\ MaxRetries \in Nat \ {0}
                            /\ None \notin ImageIDs

VARIABLES
  config,      \* the catalogs file: catalog -> images, or None (unreadable)
  registry,    \* what the transport has for an image, None if unavailable
  local,       \* the image an image name stands for in the local storage
  imagesFile,  \* image -> its ID and catalog in the images file, or None
  catalogs,    \* sca.SoftwareCatalogs (no images at all when it is nil)
  images,      \* sca.images, as far as the round has built it
  pc,          \* "down", "start", "wait" for the channel, or "pull"
  pullRound,   \* what the round was started for
  catTodo,     \* the catalogs the round has not reached,
  catalogName, \* the one it is in,
  entTodo,     \* and the images of that one still to pull
  failed,      \* a pull or the write of this round has failed
  changed,     \* the file watcher has an event to send
  tick,        \* the ticker has a tick to send
  retries      \* retry timers armed, or blocked in their send

round == <<catTodo, catalogName, entTodo>>

vars == <<config, registry, local, imagesFile, catalogs, images, pc, pullRound,
          round, failed, changed, tick, retries>>

CatalogFiles == [Catalogs -> SUBSET Images]
NoCatalogs   == [c \in Catalogs |-> {}]
Described    == [imageID : ImageIDs, catalogName : Catalogs]
NoImages     == [i \in Images |-> None]

Init == /\ config \in CatalogFiles \cup {None}
        /\ registry \in [Images -> ImageIDs \cup {None}]
        /\ local \in [Images -> ImageIDs \cup {None}]
        /\ imagesFile = NoImages
        /\ catalogs = NoCatalogs
        /\ images = NoImages
        /\ pc = "down"
        /\ pullRound = "ConfigChanged"
        /\ catTodo = {} /\ catalogName = None /\ entTodo = {}
        /\ failed = FALSE
        /\ changed = FALSE
        /\ tick = FALSE
        /\ retries = 0

------------------------------------------------------------------------------
\* A pull round starts: sca.images is made anew.
Pull(cats) == /\ catalogs' = cats
              /\ images' = NoImages
              /\ catTodo' = Catalogs
              /\ catalogName' = None
              /\ entTodo' = {}
              /\ failed' = FALSE
              /\ pc' = "pull"

\* time.AfterFunc after a round of n armed timers.
Retry(n) == retries' = IF n < MaxRetries THEN n + 1 ELSE n

\* Faulty variant: a catalogs file that cannot be read is not tried again.
RoundWithoutRetry(n) ==
  /\ pullRound' = "ConfigChanged"
  /\ retries' = n
  /\ \/ config # None /\ Pull(config)
     \/ config = None /\ catalogs' = NoCatalogs /\ pc' = "wait" /\ UNCHANGED <<images, round, failed>>

\* Faulty variant: every such round arms a retry, whatever came of it.
RoundAlwaysRetries(n) ==
  /\ pullRound' = "ConfigChanged"
  /\ Retry(n)
  /\ \/ config # None /\ Pull(config)
     \/ config = None /\ catalogs' = NoCatalogs /\ pc' = "wait" /\ UNCHANGED <<images, round, failed>>

\* A round for a changed catalogs file.  SoftwareCatalogs is assigned before
\* the error is looked at, so a file that cannot be read leaves it nil.
ConfigChangedRound(n) ==
  /\ pullRound' = "ConfigChanged"
  /\ \/ /\ config # None
        /\ Pull(config)
        /\ retries' = n
     \/ /\ config = None
        /\ catalogs' = NoCatalogs
        /\ pc' = "wait"
        /\ Retry(n)
        /\ UNCHANGED <<images, round, failed>>

\* The main reads the catalogs file once, and exits when it cannot; then it
\* watches the file and starts ImagePuller.
Launch == /\ pc = "down"
          /\ config # None
          /\ pc' = "start"
          /\ UNCHANGED <<config, registry, local, imagesFile, catalogs, images, pullRound,
                         round, failed, changed, tick, retries>>

\* ImagePuller: the first round, before the channel is read.
FirstRound == /\ pc = "start"
              /\ ConfigChangedRound(retries)
              /\ UNCHANGED <<config, registry, local, imagesFile, changed, tick>>

ReceiveChange == /\ pc = "wait"
                 /\ changed
                 /\ changed' = FALSE
                 /\ ConfigChangedRound(retries)
                 /\ UNCHANGED <<config, registry, local, imagesFile, tick>>

ReceiveRetry == /\ pc = "wait"
                /\ retries > 0
                /\ ConfigChangedRound(retries - 1)
                /\ UNCHANGED <<config, registry, local, imagesFile, changed, tick>>

ReceiveTick == /\ pc = "wait"
               /\ tick
               /\ tick' = FALSE
               /\ pullRound' = "Ticker"
               /\ Pull(catalogs)
               /\ UNCHANGED <<config, registry, local, imagesFile, changed, retries>>

\* The loops over the catalogs and their entries, each in any order.
NextCatalog ==
  /\ pc = "pull"
  /\ entTodo = {}
  /\ \E c \in catTodo : /\ catalogName' = c
                        /\ catTodo' = catTodo \ {c}
                        /\ entTodo' = catalogs[c]
  /\ UNCHANGED <<config, registry, local, imagesFile, catalogs, images, pc, pullRound,
                 failed, changed, tick, retries>>

\* buildah's policy: DontNeedImageUpdates has the last word.
buildahPolicy(c) == IF c \in DontNeedImageUpdates THEN "missing"
                    ELSE IF NeverPull THEN "never" ELSE "always"

\* What buildah pull can print: the image ID, or None when it fails.  A pull from
\* the local storage can fail at any time; one from the transport fails as long
\* as registry has nothing.
pulledIDs(i, policy) ==
  IF policy = "never" \/ (policy = "missing" /\ local[i] # None)
  THEN {local[i], None} ELSE {registry[i]}

\* Faulty variant: an image that another catalog has listed is never pulled again.
SkipKnown(i) == images[i] # None

\* An image that another catalog has listed already is not pulled again when
\* this catalog does not ask for the latest one.
alreadyPulled(i) == images[i] # None /\ (NeverPull \/ catalogName \in DontNeedImageUpdates)

\* Faulty variant: the failed pull is listed all the same.
ListsFailedPull(i, id) ==
  /\ local' = [local EXCEPT ![i] = id]
  /\ images' = [images EXCEPT ![i] = [imageID |-> id, catalogName |-> catalogName]]
  /\ failed' = (failed \/ id = None)

pullImage(i, id) ==
  \/ /\ id # None
     /\ local' = [local EXCEPT ![i] = id]
     /\ images' = [images EXCEPT ![i] = [imageID |-> id, catalogName |-> catalogName]]
     /\ UNCHANGED failed
  \/ /\ id = None
     /\ failed' = TRUE
     /\ UNCHANGED <<local, images>>

PullEntry ==
  /\ pc = "pull"
  /\ \E i \in entTodo :
       /\ entTodo' = entTodo \ {i}
       /\ \/ alreadyPulled(i) /\ UNCHANGED <<local, images, failed>>
          \/ /\ ~alreadyPulled(i)
             /\ \E id \in pulledIDs(i, buildahPolicy(catalogName)) : pullImage(i, id)
  /\ UNCHANGED <<config, registry, imagesFile, catalogs, pc, pullRound, catTodo,
                 catalogName, changed, tick, retries>>

\* Faulty variant: the images file is written before the round is complete.
WritesUnfinishedRound(ok) ==
  /\ pc = "pull"
  /\ pc' = "wait"
  /\ IF ok THEN imagesFile' = images /\ UNCHANGED failed
           ELSE imagesFile # images /\ failed' = TRUE /\ UNCHANGED imagesFile
  /\ UNCHANGED <<config, registry, local, catalogs, images, pullRound, round, changed,
                 tick, retries>>

\* The images file is replaced when it differs, or the write fails and the
\* file stays.  multierror.Append's result is dropped, so the round has no
\* error to return whatever failed in it, and no retry is armed.
FinishRound(ok) ==
  /\ pc = "pull"
  /\ catTodo = {} /\ entTodo = {}
  /\ pc' = "wait"
  /\ IF ok THEN imagesFile' = images /\ UNCHANGED failed
           ELSE imagesFile # images /\ failed' = TRUE /\ UNCHANGED imagesFile
  /\ UNCHANGED <<config, registry, local, catalogs, images, pullRound, round, changed,
                 tick, retries>>

------------------------------------------------------------------------------
\* The ticker of the main.
Tick == /\ pc # "down" /\ ~tick
        /\ tick' = TRUE
        /\ UNCHANGED <<config, registry, local, imagesFile, catalogs, images, pc, pullRound,
                       round, failed, changed, retries>>

\* The merged catalogs are edited, become malformed or well-formed again; the
\* watcher of a running adapter has an event to send.
EditCatalogs == /\ config' \in (CatalogFiles \cup {None}) \ {config}
                /\ changed' = (pc # "down")
                /\ UNCHANGED <<registry, local, imagesFile, catalogs, images, pc, pullRound,
                               round, failed, tick, retries>>

\* An image is pushed, or the registry is out of reach for it.
ChangeRegistry == /\ \E i \in Images, id \in ImageIDs \cup {None} :
                       registry[i] # id /\ registry' = [registry EXCEPT ![i] = id]
                  /\ UNCHANGED <<config, local, imagesFile, catalogs, images, pc, pullRound,
                                 round, failed, changed, tick, retries>>

\* The adapter is restarted: the files and the local storage remain.
Restart == /\ pc # "down"
           /\ pc' = "down"
           /\ pullRound' = "ConfigChanged"
           /\ catalogs' = NoCatalogs
           /\ images' = NoImages
           /\ catTodo' = {} /\ catalogName' = None /\ entTodo' = {}
           /\ failed' = FALSE
           /\ changed' = FALSE
           /\ tick' = FALSE
           /\ retries' = 0
           /\ UNCHANGED <<config, registry, local, imagesFile>>

Puller == \/ Launch \/ FirstRound \/ ReceiveChange \/ ReceiveRetry \/ ReceiveTick
          \/ NextCatalog \/ PullEntry \/ FinishRound(TRUE) \/ FinishRound(FALSE)

Next == Puller \/ Tick \/ EditCatalogs \/ ChangeRegistry \/ Restart

Spec == Init /\ [][Next]_vars

\* The puller and the ticker run.  The channel serves its blocked senders in
\* their order, so none of them waits for ever, and the write of the images
\* file does not fail every time.
FairSpec == /\ Spec
            /\ WF_vars(Puller)
            /\ WF_vars(Tick)
            /\ SF_vars(ReceiveChange)
            /\ SF_vars(ReceiveRetry)
            /\ SF_vars(ReceiveTick)
            /\ SF_vars(FinishRound(TRUE))

------------------------------------------------------------------------------
TypeOK == /\ config \in CatalogFiles \cup {None}
          /\ registry \in [Images -> ImageIDs \cup {None}]
          /\ local \in [Images -> ImageIDs \cup {None}]
          /\ imagesFile \in [Images -> Described \cup {None}]
          /\ catalogs \in CatalogFiles
          /\ images \in [Images -> Described \cup {None}]
          /\ pc \in {"down", "start", "wait", "pull"}
          /\ pullRound \in {"ConfigChanged", "Ticker"}
          /\ catTodo \subseteq Catalogs
          /\ catalogName \in Catalogs \cup {None}
          /\ entTodo \subseteq Images
          /\ failed \in BOOLEAN /\ changed \in BOOLEAN /\ tick \in BOOLEAN
          /\ retries \in 0..MaxRetries

\* The adapter never works for good with catalogs that are not those of the
\* file: an event, a retry or the first round is still to come.
StaleCatalogsAreNoticed ==
  catalogs # config => pc \in {"down", "start"} \/ changed \/ retries > 0

\* An image that some catalog wants at its latest, and that stays available
\* with one content, ends up in the images file with that content: after any
\* failed round, restart or unreadable catalogs file, and in whatever order
\* the catalogs that share the image are visited.
WantedLatest(i) ==
  config # None /\ \E c \in Catalogs \ DontNeedImageUpdates : i \in config[c]

LatestImagesArePublished ==
  \A i \in Images, id \in ImageIDs :
    <>[](pc \notin {"down", "start"} /\ WantedLatest(i) /\ registry[i] = id) =>
      <>[](imagesFile[i] # None /\ imagesFile[i].imageID = id)

\* The retry timers die out when the catalogs file can be read again.
RetriesEnd == <>[](config # None) => []<>(retries = 0)

------------------------------------------------------------------------------
\* What the options' descriptions promise and the code does not do.

\* "Delay before retrying a failed image pull round": when the round of a
\* changed catalogs file has failed, a retry is armed.
FailedRoundIsRetried ==
  pc = "wait" /\ pullRound = "ConfigChanged" /\ failed => retries > 0

\* "option to never really pull the image": nothing enters the local storage.
NeverPullNeverPulls == [][NeverPull => local' = local]_vars
==============================================================================
