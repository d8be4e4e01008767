------------------------------- MODULE Player -------------------------------
(***************************************************************************)
(* Playback on a device (the Apple shell): the controller plays an item of *)
(* the queue through one AVPlayer, continues with the next item when one   *)
(* ends, and is brought up to date with every new queue.  It composes with *)
(* Queue: what is synchronized is the queue the session shows then.        *)
(*                                                                         *)
(* Everything runs on the main actor, one call at a time.  The end of an   *)
(* item and a failure of it are notifications that AVFoundation posts from *)
(* elsewhere: one that is already on its way when the player is stopped or *)
(* loaded again is still delivered, before any later tick of the player,   *)
(* which takes its turn on the same queue.  Positions, rates and the media *)
(* centre are left out: all that matters of them here is whether the       *)
(* duration is known, without which there is no seek.                      *)
(***************************************************************************)
EXTENDS Queue

CONSTANTS
  Unplayable,       \* the items whose audio URL the shell does not admit
  Followed,         \* bound: a device shows a group if its events are among these
  SessionMayFail    \* iOS may refuse the audio session; macOS has none

ASSUME SessionAssumption == SessionMayFail \in BOOLEAN

VARIABLES
  screen,    \* orderedItems: the queue that was last synchronized
  selected,  \* the item that is selected, or None
  phase,     \* PlaybackPhase
  wants,     \* wantsPlayback
  timed,     \* the duration is known
  loaded,    \* the item in the AVPlayer, or None
  running,   \* the AVPlayer's rate is not zero
  ready,     \* reportedReady
  posted     \* the notification on its way to the main queue, or None

playback == <<screen, selected, phase, wants, timed, loaded, running, ready, posted>>
playVars == <<vars, playback>>

\* The ids of a queue's items: in the order of the list, and all of them.
Shape(items) ==
  [top |-> [i \in DOMAIN items |-> items[i].id],
   all |-> {item.id : item \in Flatten(items)}]

PlayInit ==
  /\ Init
  /\ screen = Shape(<<>>)
  /\ selected = None
  /\ phase = "idle"
  /\ wants = FALSE
  /\ timed = FALSE
  /\ loaded = None
  /\ running = FALSE
  /\ ready = FALSE
  /\ posted = None

(***************************************************************************)
(* The controller's and the backend's operations, as parts of a step.      *)
(***************************************************************************)
Stop == loaded' = None /\ running' = FALSE /\ ready' = FALSE

Fail == Stop /\ wants' = FALSE /\ phase' = "failed"

\* load, then play; if the audio session is refused the controller fails.
LoadAndPlay(id) ==
  \/ /\ loaded' = id
     /\ running' = TRUE
     /\ ready' = FALSE
     /\ wants' = TRUE
     /\ phase' = "loading"
  \/ SessionMayFail /\ Fail

Pause ==
  /\ wants' = FALSE
  /\ running' = FALSE
  /\ phase' = "paused"
  /\ UNCHANGED <<loaded, ready>>

\* The phase is set to playing after the backend's answer, whatever it was.
Resume ==
  /\ phase' = "playing"
  /\ \/ wants' = TRUE /\ running' = (loaded # None) /\ UNCHANGED <<loaded, ready>>
     \/ SessionMayFail /\ wants' = FALSE /\ Stop

Toggle(id) ==
  /\ selected' = id
  /\ \/ id \in Unplayable /\ Fail /\ UNCHANGED timed
     \/ /\ id \notin Unplayable
        /\ selected # id \/ phase = "failed"
        /\ timed' = FALSE
        /\ LoadAndPlay(id)
     \/ /\ id \notin Unplayable
        /\ selected = id /\ phase # "failed"
        /\ IF phase \in {"playing", "loading"} THEN Pause ELSE Resume
        /\ UNCHANGED timed

\* Mutated Reset: the player is not stopped.
MutKeepPlaying ==
  /\ selected' = None
  /\ phase' = "idle"
  /\ timed' = FALSE
  /\ wants' = FALSE
  /\ UNCHANGED <<loaded, running, ready>>

Reset ==
  /\ Stop
  /\ selected' = None
  /\ phase' = "idle"
  /\ timed' = FALSE
  /\ wants' = FALSE

(***************************************************************************)
(* The steps.                                                              *)
(***************************************************************************)
\* A tap on an item of the screen, or a remote command for the selected one.
Tap ==
  /\ \E id \in screen.all \union ({selected} \ {None}) : Toggle(id)
  /\ UNCHANGED <<vars, screen, posted>>

\* A seek revives an item that has ended.
Seek ==
  /\ timed
  /\ phase = "completed"
  /\ phase' = IF wants THEN "playing" ELSE "paused"
  /\ UNCHANGED <<vars, screen, selected, wants, timed, loaded, running, ready, posted>>

Synchronize ==
  /\ DOMAIN group \subseteq Followed
  /\ screen # Shape(queue.items)
  /\ screen' = Shape(queue.items)
  /\ IF selected # None /\ selected \notin screen'.all
     THEN Reset
     ELSE UNCHANGED <<selected, phase, wants, timed, loaded, running, ready>>
  /\ UNCHANGED <<vars, posted>>

\* The first tick that finds the item ready to play.
Ready ==
  /\ loaded # None
  /\ posted = None
  /\ ~ready
  /\ ready' = TRUE
  /\ timed' = TRUE
  /\ phase' = IF wants THEN "playing" ELSE phase
  /\ UNCHANGED <<vars, screen, selected, wants, loaded, running, posted>>

\* A tick that finds the item failed.
TickFails ==
  /\ loaded # None
  /\ posted = None
  /\ Fail
  /\ UNCHANGED <<vars, screen, selected, timed, posted>>

\* AVFoundation plays to the end, or fails to.  A post returns
\* only once the main queue has run its block, so one waits at a time.
PlayedToEnd(outcome) ==
  /\ posted = None
  /\ loaded # None /\ ready /\ running
  /\ running' = FALSE
  /\ posted' = outcome
  /\ UNCHANGED <<vars, screen, selected, phase, wants, timed, loaded, ready>>

Interrupted ==
  /\ SessionMayFail
  /\ loaded # None
  /\ Pause
  /\ UNCHANGED <<vars, screen, selected, timed, posted>>

Delivers(outcome) == posted = outcome /\ posted' = None

\* Mutated NextIds: after the last item comes the first.
MutAround ==
  {screen.top[(i % Len(screen.top)) + 1] : i \in {j \in DOMAIN screen.top : screen.top[j] = selected}}

\* The item after the selected one in the list, if there is one.  The code
\* looks for the next one with an audio URL: every projected item has one,
\* admitted or not.
NextIds ==
  {screen.top[i] : i \in {j \in DOMAIN screen.top \ {1} : screen.top[j - 1] = selected}}

\* The end of an item: autoplay, if it is on, goes on with the next one.
Completed ==
  /\ Delivers("completed")
  /\ \/ \E id \in NextIds : Toggle(id)
     \/ /\ phase' = "completed"
        /\ wants' = FALSE
        /\ UNCHANGED <<selected, timed, loaded, running, ready>>
  /\ UNCHANGED <<vars, screen>>

Failed ==
  /\ Delivers("failed")
  /\ Fail
  /\ UNCHANGED <<vars, screen, selected, timed>>

\* What AVFoundation and the main queue do by themselves.
Audio ==
  \/ Ready
  \/ TickFails
  \/ \E outcome \in {"completed", "failed"} : PlayedToEnd(outcome)
  \/ Completed
  \/ Failed

User == Tap \/ Seek
QueueStep == Next /\ UNCHANGED playback

PlayNext ==
  \/ QueueStep
  \/ Synchronize
  \/ User
  \/ Audio
  \/ Interrupted

PlaySpec == PlayInit /\ [][PlayNext]_playVars

\* What has to happen while audio plays: the player gets ready, comes to the
\* end of the item or fails, and the main queue delivers its notifications.
\* An item that is paused may stay so.
Progress ==
  \/ running /\ Ready
  \/ \E outcome \in {"completed", "failed"} : PlayedToEnd(outcome)
  \/ Completed
  \/ Failed

FairPlaySpec == PlaySpec /\ WF_playVars(Progress) /\ WF_playVars(Synchronize)

(***************************************************************************)
(* Properties.                                                             *)
(***************************************************************************)
\* The audio in the player is that of the selected item, an item of the list
\* on the screen: whatever is tapped, ends, fails or arrives late, no item
\* plays on once the next queue no longer has it.
PlaysWhatIsShown ==
  loaded # None => loaded = selected /\ loaded \in screen.all

\* Left alone, playback comes to an end: autoplay goes down the list once,
\* and no item in the player is shown as loading or playing for ever.
PlaybackEnds ==
  <>[][Audio \/ Synchronize]_playVars =>
    <>[](~running /\ (loaded # None => phase \notin {"loading", "playing"}))
=============================================================================
