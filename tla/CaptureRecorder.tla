--------------------------- MODULE CaptureRecorder ---------------------------
(***************************************************************************)
(* The bounded recorder of accepted telemetry frames                       *)
(* (apps/companion/src/telemetry/capture-recorder.ts, capture-storage.ts). *)
(*                                                                         *)
(* tryRecord is synchronous: it queues a frame or drops it, and never      *)
(* waits for the disk.  A pump writes the queue to frames.jsonl, one frame *)
(* at a time.  Objective references go to a second file through a promise  *)
(* chain.  finalize() ends the capture: it awaits the chain, waits for the *)
(* pump no longer than the drain timeout, truncates, syncs and closes the  *)
(* file, and only then writes the manifest and renames the directory.      *)
(*                                                                         *)
(* A frame is the position at which it was offered.  The byte limit and an *)
(* encoding that fails are a refusal that may happen to any frame; the     *)
(* byte counter moves with pendingFrames and is left out.  The promise     *)
(* callbacks that end the pump run in the turn in which the last write     *)
(* completes, before any further event is taken.                           *)
(***************************************************************************)
EXTENDS Integers, Sequences

CONSTANT MaxPendingFrames   \* RECORDER_MAX_PENDING_FRAMES

\* Bounds of the exploration, no part of the program.
CONSTANTS MaxFrames, MaxReferences

ASSUME LimitAssumption == MaxPendingFrames \in Nat \ {0}
ASSUME BoundsAssumption == {MaxFrames, MaxReferences} \subseteq Nat

VARIABLES
    lifecycle,  \* "accepting", "finalizing", "abandoned" or "closed"
    failed,     \* writerState is 'failed'
    complete,   \* integrity is 'complete-candidate'
    queue,      \* the frames waiting for the pump
    active,     \* activeBuffer, or NoFrame
    pending,    \* pendingFrames
    dropped,    \* droppedFrames
    recorded,   \* the confirmed frames: frameCount, confirmedOffset and hash
    tail,       \* frames.jsonl has bytes after confirmedOffset
    synced,     \* nothing was written to it since the last sync
    open,       \* fileHandle is defined
    tidying,    \* the step of closeAbandonedFile the pump is at, or "no"
    chain,      \* references the objectiveReferenceWriteChain still has to write
    journal,    \* the references in objective-events.jsonl
    chainFailed,\* objectiveReferenceWriteFailed
    stage,      \* what finalizeInternal waits for; "none" before, "returned" after
    safe,       \* publicationSafe
    manifest,   \* what manifest.json says or will say, or NoManifest
    published   \* the directory has its final name

\* What was asked of the recorder, for the properties and the bounds.
VARIABLES offered, accepted

frameVars == <<failed, queue, active, pending, recorded, offered>>
referenceVars == <<chain, journal, chainFailed, accepted>>
closingVars == <<open, safe, manifest, published>>
vars == <<lifecycle, complete, dropped, tail, synced, tidying, stage, frameVars,
          referenceVars, closingVars>>

NoFrame == 0
NoManifest == [complete |-> FALSE, frames |-> -1, dropped |-> -1, offered |-> -1]

Active == IF active = NoFrame THEN 0 ELSE 1
Pumping == active # NoFrame

Init ==
    /\ lifecycle = "accepting" /\ failed = FALSE /\ complete = TRUE
    /\ queue = <<>> /\ active = NoFrame /\ pending = 0 /\ dropped = 0
    /\ recorded = <<>> /\ tail = FALSE /\ synced = TRUE
    /\ open = TRUE /\ tidying = "no"
    /\ chain = <<>> /\ journal = <<>> /\ chainFailed = FALSE
    /\ stage = "none" /\ safe = TRUE /\ manifest = NoManifest /\ published = FALSE
    /\ offered = 0 /\ accepted = 0

-----------------------------------------------------------------------------
(* tryRecord *)

\* The frame is queued, and a pump that is not running takes it at once.
AcceptFrame ==
    /\ lifecycle = "accepting" /\ ~failed /\ open
    /\ pending + 1 <= MaxPendingFrames
    /\ offered' = offered + 1
    /\ pending' = pending + 1
    /\ IF active = NoFrame
       THEN active' = offered + 1 /\ UNCHANGED queue
       ELSE queue' = Append(queue, offered + 1) /\ UNCHANGED active
    /\ UNCHANGED <<lifecycle, failed, complete, dropped, recorded, tail, synced,
                   tidying, stage, referenceVars, closingVars>>

\* dropFrame: the recorder is closing, closed, failed or full, the frame is too
\* large for the byte limit, or it cannot be encoded.
DropFrame ==
    /\ offered' = offered + 1
    /\ dropped' = dropped + 1
    /\ complete' = FALSE
    /\ UNCHANGED <<lifecycle, failed, queue, active, pending, recorded, tail,
                   synced, tidying, stage, referenceVars, closingVars>>

TryRecord == offered < MaxFrames /\ (AcceptFrame \/ DropFrame)

-----------------------------------------------------------------------------
(* The pump *)

\* One short write of writeFully: bytes of the active frame are in the file.
ShortWrite ==
    /\ active # NoFrame
    /\ tail' = TRUE
    /\ synced' = FALSE
    /\ UNCHANGED <<lifecycle, complete, dropped, tidying, stage, frameVars,
                   referenceVars, closingVars>>

\* The pump's loop ends without a frame: an abandoned file is tidied up.
EndPump ==
    /\ active' = NoFrame
    /\ tidying' = IF lifecycle = "abandoned" THEN "truncate" ELSE "no"
    /\ open' = (lifecycle # "abandoned")

\* writeFully returns: the frame is confirmed, and the loop takes the next one.
WriteDone ==
    /\ active # NoFrame
    /\ recorded' = Append(recorded, active)
    /\ pending' = pending - 1
    /\ tail' = FALSE
    /\ synced' = FALSE
    /\ IF queue # <<>> /\ lifecycle # "abandoned"
       THEN /\ active' = Head(queue)
            /\ queue' = Tail(queue)
            /\ UNCHANGED <<tidying, open>>
       ELSE EndPump /\ UNCHANGED queue
    /\ UNCHANGED <<lifecycle, failed, complete, dropped, stage, offered,
                   referenceVars, safe, manifest, published>>

\* writeFully rejects: handleWriterFailure.  What it wrote stays in the file.
WriteFails ==
    /\ active # NoFrame
    /\ failed' = TRUE
    /\ complete' = FALSE
    /\ dropped' = dropped + Active + Len(queue)
    /\ queue' = <<>>
    /\ pending' = 0
    /\ EndPump
    /\ UNCHANGED <<lifecycle, recorded, tail, synced, stage, offered,
                   referenceVars, safe, manifest, published>>

\* closeAbandonedFile: truncate, then close; neither failure stops it.
TidyTruncate ==
    /\ tidying = "truncate"
    /\ tidying' = "close"
    /\ \/ tail' = FALSE /\ synced' = FALSE /\ UNCHANGED safe
       \/ safe' = FALSE /\ UNCHANGED <<tail, synced>>
    /\ UNCHANGED <<lifecycle, complete, dropped, stage, frameVars, referenceVars,
                   open, manifest, published>>

TidyClose ==
    /\ tidying = "close"
    /\ tidying' = "no"
    /\ lifecycle' = "closed"
    /\ safe' \in {safe, FALSE}
    /\ complete' = (complete /\ safe')
    /\ UNCHANGED <<dropped, tail, synced, stage, frameVars, referenceVars, open,
                   manifest, published>>

-----------------------------------------------------------------------------
(* tryRecordObjectiveReference and the write chain *)

AcceptReference ==
    /\ accepted < MaxReferences
    /\ lifecycle = "accepting" /\ ~failed /\ ~chainFailed
    /\ accepted' = accepted + 1
    /\ chain' = Append(chain, accepted + 1)
    /\ UNCHANGED <<lifecycle, complete, dropped, tail, synced, tidying, stage,
                   frameVars, journal, chainFailed, closingVars>>

ReferenceWritten ==
    /\ chain # <<>>
    /\ journal' = Append(journal, Head(chain))
    /\ chain' = Tail(chain)
    /\ UNCHANGED <<lifecycle, complete, dropped, tail, synced, tidying, stage,
                   frameVars, chainFailed, accepted, closingVars>>

\* The rejection is swallowed, so the references chained behind it are tried.
ReferenceFails ==
    /\ chain # <<>>
    /\ chain' = Tail(chain)
    /\ chainFailed' = TRUE
    /\ complete' = FALSE
    /\ UNCHANGED <<lifecycle, dropped, tail, synced, tidying, stage, frameVars,
                   journal, accepted, closingVars>>

-----------------------------------------------------------------------------
(* finalizeInternal; finalize() memoises its promise, so it runs once *)

Goto(next) ==
    /\ stage' = next
    /\ UNCHANGED <<frameVars, tidying, referenceVars>>

Close == stage' = "returned" /\ lifecycle' = "closed"

Finalize ==
    /\ stage = "none"
    /\ lifecycle' = "finalizing"
    /\ Goto("references")
    /\ UNCHANGED <<complete, dropped, tail, synced, closingVars>>

\* A plausible slip: finalize does not await the chain.
ReferencesIgnored ==
    /\ stage = "references"
    /\ Goto("drain")
    /\ UNCHANGED <<lifecycle, complete, dropped, tail, synced, closingVars>>

ReferencesSettled ==
    /\ stage = "references"
    /\ chain = <<>>
    /\ Goto("drain")
    /\ UNCHANGED <<lifecycle, complete, dropped, tail, synced, closingVars>>

Drained ==
    /\ stage = "drain"
    /\ ~Pumping
    /\ Goto("truncate")
    /\ UNCHANGED <<lifecycle, complete, dropped, tail, synced, closingVars>>

\* ... or the timeout is dealt with only once the pump has ended.
DrainTimesOutLate ==
    /\ stage = "drain"
    /\ Pumping /\ failed
    /\ lifecycle' = "abandoned"
    /\ Goto("returned")
    /\ UNCHANGED <<complete, dropped, tail, synced, closingVars>>

\* The drain timeout fires while the pump runs: discardQueuedFrames, abandoned.
\* The handle is left to the pump.
DrainTimesOut ==
    /\ stage = "drain"
    /\ Pumping
    /\ complete' = FALSE
    /\ dropped' = dropped + Len(queue)
    /\ queue' = <<>>
    /\ pending' = Active
    /\ lifecycle' = "abandoned"
    /\ stage' = "returned"
    /\ UNCHANGED <<failed, active, recorded, offered, tail, synced, tidying,
                   referenceVars, closingVars>>

\* truncate(confirmedOffset), sync and close: a failure makes the directory
\* unfit for publication, and the next step is taken all the same.
Truncate ==
    /\ stage = "truncate"
    /\ Goto("sync")
    /\ \/ tail' = FALSE /\ synced' = FALSE /\ UNCHANGED safe
       \/ safe' = FALSE /\ UNCHANGED <<tail, synced>>
    /\ UNCHANGED <<lifecycle, complete, dropped, open, manifest, published>>

Sync ==
    /\ stage = "sync"
    /\ Goto("close")
    /\ \/ synced' = TRUE /\ UNCHANGED safe
       \/ safe' = FALSE /\ UNCHANGED synced
    /\ UNCHANGED <<lifecycle, complete, dropped, tail, open, manifest, published>>

\* The manifest is computed in the turn in which the close returns: a frame
\* dropped while it is written is not in it.
CloseFile ==
    /\ stage = "close"
    /\ open' = FALSE
    /\ safe' \in {safe, FALSE}
    /\ IF safe'
       THEN /\ stage' = "manifest"
            /\ manifest' = [complete |-> complete /\ dropped = 0,
                            frames   |-> Len(recorded),
                            dropped  |-> dropped,
                            offered  |-> offered]
            /\ UNCHANGED <<lifecycle, complete>>
       ELSE /\ Close
            /\ complete' = FALSE
            /\ UNCHANGED manifest
    /\ UNCHANGED <<dropped, tail, synced, tidying, frameVars, referenceVars, published>>

WriteManifest ==
    /\ stage = "manifest"
    /\ \/ stage' = "rename" /\ UNCHANGED <<lifecycle, complete>>
       \/ Close /\ complete' = FALSE
    /\ UNCHANGED <<dropped, tail, synced, tidying, frameVars, referenceVars,
                   closingVars>>

Rename ==
    /\ stage = "rename"
    /\ Close
    /\ \/ published' = TRUE /\ UNCHANGED complete
       \/ complete' = FALSE /\ UNCHANGED published
    /\ UNCHANGED <<dropped, tail, synced, tidying, frameVars, referenceVars,
                   open, safe, manifest>>

-----------------------------------------------------------------------------
Pump == ShortWrite \/ WriteDone \/ WriteFails \/ TidyTruncate \/ TidyClose

References == AcceptReference \/ ReferenceWritten \/ ReferenceFails

Finalizing ==
    \/ Finalize \/ ReferencesSettled \/ Drained \/ DrainTimesOut
    \/ Truncate \/ Sync \/ CloseFile \/ WriteManifest \/ Rename

Next == TryRecord \/ Pump \/ References \/ Finalizing

Spec == Init /\ [][Next]_vars

\* finalizeInternal takes its next step, the timer of the drain fires, and the
\* operations finalize awaits itself settle.  Writes of frames may hang.
FinalizeFairness ==
    /\ WF_vars(ReferencesSettled) /\ WF_vars(Drained) /\ WF_vars(DrainTimesOut)
    /\ WF_vars(Truncate) /\ WF_vars(Sync) /\ WF_vars(CloseFile)
    /\ WF_vars(WriteManifest) /\ WF_vars(Rename)

\* Appending to the journal of references settles, one way or the other.
FairSpec ==
    Spec /\ FinalizeFairness /\ WF_vars(ReferenceWritten \/ ReferenceFails)

\* Appending to the journal may hang as the writes of frames may.
HangingJournalSpec == Spec /\ FinalizeFairness

-----------------------------------------------------------------------------
(* Properties *)

Stage == {"none", "references", "drain", "truncate", "sync", "close", "manifest",
          "rename", "returned"}

Manifest == [complete : BOOLEAN, frames : Nat, dropped : Nat, offered : Nat]

\* The state of the recorder has the shape the class declares.
TypeOK ==
    /\ lifecycle \in {"accepting", "finalizing", "abandoned", "closed"}
    /\ failed \in BOOLEAN /\ complete \in BOOLEAN
    /\ queue \in Seq(Nat \ {NoFrame}) /\ active \in Nat
    /\ pending \in Nat /\ dropped \in Nat
    /\ recorded \in Seq(Nat \ {NoFrame})
    /\ tail \in BOOLEAN /\ synced \in BOOLEAN /\ open \in BOOLEAN
    /\ tidying \in {"no", "truncate", "close"}
    /\ chain \in Seq(Nat) /\ journal \in Seq(Nat) /\ chainFailed \in BOOLEAN
    /\ stage \in Stage
    /\ safe \in BOOLEAN /\ published \in BOOLEAN
    /\ manifest \in Manifest \cup {NoManifest}
    /\ offered \in Nat /\ accepted \in Nat

\* Every frame the recorder was offered is in the file, counted as dropped,
\* queued or being written, whatever order overflow, a failing write, the drain
\* timeout and a late completion of the write come in; and the counter the item
\* limit is checked against is the number of the last two.
FramesAccounted ==
    /\ offered = Len(recorded) + dropped + Len(queue) + Active
    /\ pending = Len(queue) + Active
    /\ pending <= MaxPendingFrames

\* While finalize works on the file no write is in flight and the pump does not
\* tidy it up: the two never use the handle at the same time.
OneUserOfTheHandle ==
    stage \in {"truncate", "sync", "close", "manifest", "rename"} =>
        /\ active = NoFrame
        /\ tidying = "no"

\* A directory with its final name holds a synced file of whole lines that the
\* manifest describes to the end, counts every frame of the session, and calls
\* itself complete only when all of them, and every accepted reference, are in
\* it in the order they were offered.
PublishedIsWhole ==
    published =>
        /\ ~tail /\ synced
        /\ manifest.frames = Len(recorded)
        /\ manifest.frames + manifest.dropped = manifest.offered
        /\ manifest.complete =>
              /\ recorded = [i \in 1 .. manifest.offered |-> i]
              /\ journal = [i \in 1 .. accepted |-> i]

\* A capture that cannot be published says so: after finalize has returned,
\* an unpublished capture never reads as complete.
UnpublishedIsIncomplete == stage = "returned" /\ ~published => ~complete

\* finalize returns, and the companion's shutdown, which awaits it last, gets past
\* it: docs/telemetry.md:269 calls the finalization at shutdown bounded.
FinalizeReturns == stage = "references" ~> stage = "returned"

\* What holds of a capture at all times (capture-recorder.ts tryRecord, runPump, finalizeInternal).
CaptureInv ==
    /\ TypeOK /\ FramesAccounted /\ OneUserOfTheHandle
    /\ PublishedIsWhole /\ UnpublishedIsIncomplete
=============================================================================
