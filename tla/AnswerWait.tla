----------------------------- MODULE AnswerWait -----------------------------
(***************************************************************************)
(* AnswerWaiter::wait: one thread waits for the answers to a published     *)
(* item, on a live NMP observation, until a deadline; another may cancel.  *)
(*                                                                         *)
(*   idle -> observe -> install -> lock -> store -> loop                   *)
(*   loop -> clock -> recv -> got -> late -> look -> loop                  *)
(*                    recv -> closed            any of them -> ended       *)
(*                                                                         *)
(* The flag of AnswerWaitCancel is an atomic outside its mutex and the     *)
(* handle of the observation is under it, so the loads and stores of both  *)
(* sides are separate steps, and so are the readings of the clock.  The    *)
(* flag or the deadline may come between a check and what follows it.      *)
(* overdue and broken remember what the code does not, for the properties. *)
(* A frame carries the rows of one moment: it may be older than the        *)
(* answer.  NMP's stream is external.                                      *)
(***************************************************************************)
EXTENDS Naturals

CONSTANTS
  MaxTime,    \* bound: readings of the clock in one wait, and longest timeout
  MaxFrames,  \* frames one wait looks at: 128 in the code
  MayCancel   \* somebody holds the AnswerWaitCancel of the wait

Results == {"answered", "timed_out", "cancelled", "engine_closed",
            "frame_limit", "observation"}

ASSUME WaitAssumption ==
  /\ MaxTime \in Nat
  /\ MaxFrames \in Nat \ {0}
  /\ MayCancel \in BOOLEAN

VARIABLES
  wpc,        \* where the waiting thread is
  wresult,    \* what the wait returned
  now,        \* the clock, read since the wait began
  deadline,
  frames,     \* frames looked at
  frame,      \* the frame in hand: whether it shows a selected answer
  cancelled,  \* AnswerWaitCancel.cancelled
  handle,     \* AnswerWaitCancel.observation is set
  locked,     \* the waiting thread holds the mutex
  cpc,        \* where the cancelling thread is
  open,       \* the observation has not been cancelled
  posted,     \* the host shows a valid answer to the item
  overdue,    \* history: the frame in hand came after the flag or the deadline
  broken      \* history: the engine ended the observation by itself

waitVars == <<wpc, wresult, now, deadline, frames, frame, cancelled, handle,
              locked, cpc, open, posted, overdue, broken>>

WaitInit ==
  /\ wpc = "idle"
  /\ wresult = "none"
  /\ now = 0
  /\ deadline = 0
  /\ frames = 0
  /\ frame = FALSE
  /\ cancelled = FALSE
  /\ handle = FALSE
  /\ locked = FALSE
  /\ cpc = "idle"
  /\ open = FALSE
  /\ posted = FALSE
  /\ overdue = FALSE
  /\ broken = FALSE

cancelVars == <<cancelled, handle, locked, cpc>>
seenVars == <<overdue, broken>>

Returns(result) ==
  /\ wpc' = "ended"
  /\ wresult' = result

-----------------------------------------------------------------------------
(* wait                                                                    *)

\* A published item with questions; the caller's AnswerWaitCancel may have
\* been fired before.
Begin(timeout) ==
  /\ wpc = "idle"
  /\ wpc' = "observe"
  /\ now' = 0
  /\ deadline' = timeout
  /\ UNCHANGED <<wresult, frames, frame, cancelVars, open, posted, seenVars>>

Observe ==
  /\ wpc = "observe"
  /\ \/ /\ wpc' = "install"
        /\ open' = TRUE
        /\ UNCHANGED wresult
     \/ /\ Returns("observation")
        /\ UNCHANGED open
  /\ UNCHANGED <<now, deadline, frames, frame, cancelVars, posted, seenVars>>

\* install, before it locks.
Install ==
  /\ wpc = "install"
  /\ \/ /\ cancelled
        /\ Returns("cancelled")
        /\ open' = FALSE
     \/ /\ ~cancelled
        /\ wpc' = "lock"
        /\ UNCHANGED <<wresult, open>>
  /\ UNCHANGED <<now, deadline, frames, frame, cancelVars, posted, seenVars>>

\* Mutated Recheck: the flag is not loaded again.
MutSingleCheck ==
  /\ wpc = "lock"
  /\ wpc' = "store"
  /\ locked' = TRUE
  /\ UNCHANGED <<wresult, now, deadline, frames, frame, cancelled, handle, cpc,
                 open, posted, seenVars>>

\* install locks and loads the flag again.
Recheck ==
  /\ wpc = "lock"
  /\ \/ /\ cancelled
        /\ Returns("cancelled")
        /\ open' = FALSE
        /\ UNCHANGED locked
     \/ /\ ~cancelled
        /\ wpc' = "store"
        /\ locked' = TRUE
        /\ UNCHANGED <<wresult, open>>
  /\ UNCHANGED <<now, deadline, frames, frame, cancelled, handle, cpc, posted, seenVars>>

Store ==
  /\ wpc = "store"
  /\ handle' = TRUE
  /\ locked' = FALSE
  /\ wpc' = "loop"
  /\ UNCHANGED <<wresult, now, deadline, frames, frame, cancelled, cpc, open, posted, seenVars>>

\* A step of the loop that goes on to pc.
GoesOn(pc) == wpc' = pc /\ UNCHANGED wresult

\* The head of the loop loads the flag.
Loop ==
  /\ wpc = "loop"
  /\ \/ frames = MaxFrames /\ Returns("frame_limit")
     \/ frames < MaxFrames /\ cancelled /\ Returns("cancelled")
     \/ frames < MaxFrames /\ ~cancelled /\ GoesOn("clock")
  /\ UNCHANGED <<now, deadline, frames, frame, cancelVars, open, posted, seenVars>>

\* It reads the clock.
ReadClock ==
  /\ wpc = "clock"
  /\ \/ now >= deadline /\ Returns("timed_out")
     \/ now < deadline /\ GoesOn("recv")
  /\ UNCHANGED <<now, deadline, frames, frame, cancelVars, open, posted, seenVars>>

\* recv_timeout returns a frame; one may still be queued when the observation
\* has been cancelled.
Receive(shows) ==
  /\ wpc = "recv"
  /\ shows => posted
  /\ GoesOn("got")
  /\ frame' = shows
  /\ frames' = frames + 1
  /\ overdue' = (cancelled \/ now >= deadline)
  /\ UNCHANGED <<now, deadline, cancelVars, open, posted, broken>>

\* Mutated ReceiveFails: only the end of the stream.
MutNoTimeout ==
  /\ wpc = "recv"
  /\ ~open
  /\ GoesOn("closed")
  /\ UNCHANGED <<now, deadline, frames, frame, cancelVars, open, posted, seenVars>>

\* recv_timeout fails: the remaining time is over, or the stream is closed.
ReceiveFails ==
  /\ wpc = "recv"
  /\ \/ now >= deadline /\ Returns("timed_out")
     \/ ~open /\ GoesOn("closed")
  /\ UNCHANGED <<now, deadline, frames, frame, cancelVars, open, posted, seenVars>>

\* The stream is closed: the flag tells by whom.
StreamClosed ==
  /\ wpc = "closed"
  /\ Returns(IF cancelled THEN "cancelled" ELSE "engine_closed")
  /\ UNCHANGED <<now, deadline, frames, frame, cancelVars, open, posted, seenVars>>

\* A frame is in hand: the flag is loaded again.
FrameWanted ==
  /\ wpc = "got"
  /\ \/ cancelled /\ Returns("cancelled")
     \/ ~cancelled /\ GoesOn("late")
  /\ UNCHANGED <<now, deadline, frames, frame, cancelVars, open, posted, seenVars>>

\* Mutated FrameInTime: the clock is not read again.
MutLateAnswer ==
  /\ wpc = "late"
  /\ GoesOn("look")
  /\ UNCHANGED <<now, deadline, frames, frame, cancelVars, open, posted, seenVars>>

\* The clock is read again.
FrameInTime ==
  /\ wpc = "late"
  /\ \/ now >= deadline /\ Returns("timed_out")
     \/ now < deadline /\ GoesOn("look")
  /\ UNCHANGED <<now, deadline, frames, frame, cancelVars, open, posted, seenVars>>

\* The rows of the frame are looked at.
Look ==
  /\ wpc = "look"
  /\ \/ frame /\ Returns("answered")
     \/ ~frame /\ GoesOn("loop")
  /\ UNCHANGED <<now, deadline, frames, frame, cancelVars, open, posted, seenVars>>

-----------------------------------------------------------------------------
(* cancel, by another thread                                               *)

RaiseFlag ==
  /\ MayCancel
  /\ cpc = "idle"
  /\ wpc # "ended"
  /\ cancelled' = TRUE
  /\ cpc' = "flagged"
  /\ UNCHANGED <<wpc, wresult, now, deadline, frames, frame, handle, locked, open, posted, seenVars>>

CloseObservation ==
  /\ cpc = "flagged"
  /\ ~locked
  /\ open' = (open /\ ~handle)
  /\ cpc' = "done"
  /\ UNCHANGED <<wpc, wresult, now, deadline, frames, frame, cancelled, handle,
                 locked, posted, seenVars>>

-----------------------------------------------------------------------------
(* The clock, the host and the engine (external)                           *)

Tick ==
  /\ wpc \notin {"idle", "ended"}
  /\ now < MaxTime
  /\ now' = now + 1
  /\ UNCHANGED <<wpc, wresult, deadline, frames, frame, cancelVars, open, posted, seenVars>>

PostAnswer ==
  /\ ~posted
  /\ posted' = TRUE
  /\ UNCHANGED <<wpc, wresult, now, deadline, frames, frame, cancelVars, open, seenVars>>

EngineCloses ==
  /\ open /\ wpc \notin {"idle", "observe", "ended"}
  /\ open' = FALSE
  /\ broken' = TRUE
  /\ UNCHANGED <<wpc, wresult, now, deadline, frames, frame, cancelVars, posted, overdue>>

-----------------------------------------------------------------------------
WaiterStep ==
  \/ Observe
  \/ Install
  \/ Recheck
  \/ Store
  \/ Loop
  \/ ReadClock
  \/ \E shows \in BOOLEAN : Receive(shows)
  \/ ReceiveFails
  \/ StreamClosed
  \/ FrameWanted
  \/ FrameInTime
  \/ Look

CancelStep == RaiseFlag \/ CloseObservation

WaitStep == WaiterStep \/ CancelStep \/ Tick \/ PostAnswer \/ EngineCloses

\* The waiting thread, except for the frames it may or may not be sent.
WaiterProgress ==
  \/ Observe \/ Install \/ Recheck \/ Store
  \/ Loop \/ ReadClock \/ ReceiveFails \/ StreamClosed
  \/ FrameWanted \/ FrameInTime \/ Look

-----------------------------------------------------------------------------
(* Properties                                                              *)

\* Where the loop may be.
Watching == {"loop", "clock", "recv", "closed", "got", "late", "look"}

WaitTypeOK ==
  /\ wpc \in {"idle", "observe", "install", "lock", "store", "ended"} \cup Watching
  /\ wresult \in Results \cup {"none"}
  /\ now \in 0..MaxTime
  /\ deadline \in 0..MaxTime
  /\ frames \in 0..MaxFrames
  /\ cpc \in {"idle", "flagged", "done"}
  /\ {frame, cancelled, handle, locked, open, posted, overdue, broken} \subseteq BOOLEAN
  /\ wresult # "none" <=> wpc = "ended"
  /\ locked <=> wpc = "store"
  /\ cancelled <=> cpc # "idle"

\* cancel is not lost, whichever of the two threads came first: when it has
\* returned, no wait is left on an observation that is still open.
CancelNotLost ==
  cpc = "done" /\ wpc \in Watching => ~open

\* What a wait reports is what happened, although the flag, the clock and the
\* stream are read one after the other while the other thread goes on: an answer
\* is from a frame that came before the cancel and before the deadline, and a
\* stream that the cancel closed is not reported as closed by the engine (cancel
\* raises the flag before it closes).
ResultIsHonest ==
  /\ wresult = "answered" => posted /\ ~overdue
  /\ wresult = "engine_closed" => broken

\* Every wait ends, by its deadline at the latest.
WaitEnds == wpc = "observe" ~> wpc \in {"ended", "idle"}
=============================================================================
