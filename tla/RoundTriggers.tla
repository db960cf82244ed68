----------------------------- MODULE RoundTriggers ----------------------------
(***************************************************************************)
(* What starts the rounds of the image manager                             *)
(* (cmd/toolproviderplugin/main.go): one goroutine selects between the     *)
(* ticker and the watcher of the images file and hands every trigger over  *)
(* on an unbuffered channel, on which the image manager waits between its  *)
(* rounds.                                                                 *)
(*                                                                         *)
(* The adapter replaces the images file by a rename.  A watch is one of    *)
(* the file, not of its name: the replacement sends a Remove event and     *)
(* ends it, and the goroutine adds it again after the hand-over.  Adding a *)
(* watch can fail: the file may not exist, or the system has no watch left *)
(* to give.  Nobody looks at the error and nothing tries again.            *)
(***************************************************************************)
EXTENDS Naturals

VARIABLES
  exists,   \* the images file exists
  current,  \* the last round has read the images file as it is
  main,     \* main: "down", "init" (before watcher.Add), "run" (driver.Run) or "up"
  watched,  \* the file has a watch
  armed,    \* the last watcher.Add of the process has succeeded
  removed,  \* a Remove event waits in watcher.Events
  ticks,    \* the ticks in imTicker.C, which holds one
  trigger,  \* the goroutine: "select", "tick", "event" (in its send) or "add"
  im        \* the image manager: "off", "read", "work" or "ready" (to receive)

triggerVars == <<exists, current, main, watched, armed, removed, ticks, trigger, im>>

Init == /\ exists \in BOOLEAN
        /\ current = FALSE
        /\ main = "down"
        /\ watched = FALSE /\ armed = FALSE
        /\ removed = FALSE
        /\ ticks = 0
        /\ trigger = "select"
        /\ im = "off"

------------------------------------------------------------------------------
\* The main creates the ticker and the watcher and starts the goroutine.
StartMain == /\ main = "down"
             /\ main' = "init"
             /\ UNCHANGED <<exists, current, watched, armed, removed, ticks, trigger, im>>

\* watcher.Add, whose error is ignored.
Add == \/ exists /\ watched' = TRUE /\ armed' = TRUE
       \/ armed' = FALSE /\ UNCHANGED watched

WatchImagesFile == /\ main = "init"
                   /\ main' = "run"
                   /\ Add
                   /\ UNCHANGED <<exists, current, removed, ticks, trigger, im>>

\* driver.Run starts the image manager, which begins with a round.
StartImageManager == /\ main = "run"
                     /\ main' = "up"
                     /\ im' = "read"
                     /\ UNCHANGED <<exists, current, watched, armed, removed, ticks, trigger>>

\* The process dies and is started again.
Restart == /\ main # "down"
           /\ main' = "down"
           /\ watched' = FALSE /\ armed' = FALSE
           /\ removed' = FALSE
           /\ ticks' = 0
           /\ trigger' = "select"
           /\ im' = "off"
           /\ UNCHANGED <<exists, current>>

------------------------------------------------------------------------------
\* The adapter writes the images file anew: renameio.WriteFile.
ReplaceFile == /\ exists' = TRUE
               /\ current' = FALSE
               /\ watched' = FALSE
               /\ removed' = (removed \/ watched)
               /\ UNCHANGED <<main, armed, ticks, trigger, im>>

\* Faulty variant: the ticks that nobody receives queue up.
TicksQueueUp == /\ main # "down"
                /\ ticks' = ticks + 1
                /\ UNCHANGED <<exists, current, main, watched, armed, removed, trigger, im>>

\* The ticker: a tick that finds the channel full is dropped.
Tick == /\ main # "down"
        /\ ticks = 0
        /\ ticks' = 1
        /\ UNCHANGED <<exists, current, main, watched, armed, removed, trigger, im>>

\* Faulty variant: while there is a watch the ticks are left out.
SelectTickUnwatched == /\ main # "down" /\ trigger = "select"
                       /\ ticks = 1
                       /\ ticks' = 0
                       /\ trigger' = IF watched THEN "select" ELSE "tick"
                       /\ UNCHANGED <<exists, current, main, watched, armed, removed, im>>

SelectTick == /\ main # "down" /\ trigger = "select"
              /\ ticks = 1
              /\ ticks' = 0
              /\ trigger' = "tick"
              /\ UNCHANGED <<exists, current, main, watched, armed, removed, im>>

SelectEvent == /\ main # "down" /\ trigger = "select"
               /\ removed
               /\ removed' = FALSE
               /\ trigger' = "event"
               /\ UNCHANGED <<exists, current, main, watched, armed, ticks, im>>

\* Faulty variant: a busy image manager is not waited for.
HandOverOrDrop == /\ trigger \in {"tick", "event"}
                  /\ im' = IF im = "ready" THEN "read" ELSE im
                  /\ trigger' = IF trigger = "event" THEN "add" ELSE "select"
                  /\ UNCHANGED <<exists, current, main, watched, armed, removed, ticks>>

\* imageManagerChannel <- t: both sides go on, the goroutine to add the watch
\* again when it was a Remove event.
HandOver == /\ trigger \in {"tick", "event"}
            /\ im = "ready"
            /\ im' = "read"
            /\ trigger' = IF trigger = "event" THEN "add" ELSE "select"
            /\ UNCHANGED <<exists, current, main, watched, armed, removed, ticks>>

\* Faulty variant: the watch is not added again.
AddAgainForgotten == /\ trigger = "add"
                     /\ trigger' = "select"
                     /\ UNCHANGED <<exists, current, main, watched, armed, removed, ticks, im>>

AddAgain == /\ trigger = "add"
            /\ trigger' = "select"
            /\ Add
            /\ UNCHANGED <<exists, current, main, removed, ticks, im>>

------------------------------------------------------------------------------
\* A round reads the images file first; one that cannot read it is over.
ReadFile == /\ im = "read"
            /\ IF exists THEN current' = TRUE /\ im' = "work"
                         ELSE im' = "ready" /\ UNCHANGED current
            /\ UNCHANGED <<exists, main, watched, armed, removed, ticks, trigger>>

\* The rest of the round, as long as its buildah commands take.
EndRound == /\ im = "work"
            /\ im' = "ready"
            /\ UNCHANGED <<exists, current, main, watched, armed, removed, ticks, trigger>>

Main == StartMain \/ WatchImagesFile \/ StartImageManager

Goroutine == SelectTick \/ SelectEvent \/ HandOver \/ AddAgain

Rounds == ReadFile \/ EndRound

Next == Main \/ Goroutine \/ Rounds \/ Tick \/ ReplaceFile \/ Restart

Spec == Init /\ [][Next]_triggerVars

\* The goroutines run, the rounds end and the ticker ticks.
FairSpec == /\ Spec
            /\ WF_triggerVars(Main)
            /\ WF_triggerVars(Goroutine)
            /\ WF_triggerVars(Rounds)
            /\ WF_triggerVars(Tick)

------------------------------------------------------------------------------
TypeOK == /\ exists \in BOOLEAN /\ current \in BOOLEAN
          /\ watched \in BOOLEAN /\ armed \in BOOLEAN /\ removed \in BOOLEAN
          /\ ticks \in 0..1
          /\ main \in {"down", "init", "run", "up"}
          /\ trigger \in {"select", "tick", "event", "add"}
          /\ im \in {"off", "read", "work", "ready"}

\* A round is still to come that will read the file: the first one of the
\* process, one that a trigger asks for, or one that is about to read.
RoundIsComing == \/ main # "up"
                 \/ removed
                 \/ trigger \in {"tick", "event"}
                 \/ im = "read"

\* A trigger that finds the file changed is not lost before a round has read
\* the file, however long the round under way takes, and whatever other
\* triggers and replacements come in between.
TriggersAreNotLost ==
  [][RoundIsComing /\ exists /\ ~current => RoundIsComing' \/ current']_triggerVars

\* The watch is lost for good only when adding it fails.  Nothing else loses
\* it, whenever the file is replaced and however long the hand-over waits: the
\* event is on its way, or the goroutine is about to add the watch again.
WatchIsKept == armed => watched \/ removed \/ trigger \in {"event", "add"}

\* Every change is noticed in the end, also one that no event tells: when the
\* watch could not be added, at the start or again, or when the file was
\* replaced between a round's reading and the goroutine's adding the watch.
ChangesAreNoticed == exists /\ ~current ~> current \/ main = "down"
==============================================================================
