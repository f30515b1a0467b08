------------------------------- MODULE HudConfig --------------------------------
(***************************************************************************)
(* The HUD configuration: the companion's store, which compares the        *)
(* editor revision of each mutation with its own before it commits         *)
(* (hud-config/store.ts), and an editor page that polls the document,      *)
(* merges it with the operator's drafts and saves them                     *)
(* (realtime/hud-config-client.ts, operator/HudConsolePage.tsx and         *)
(* hud-console-drafts.ts).  Other pages are clients that always know the   *)
(* document of the moment at which they ask.                               *)
(*                                                                         *)
(* A revision is a hash of the document: the document itself stands for    *)
(* it.  Of each kind of resource the page edits one, and its content is a  *)
(* member of a small set.  Left out: save-as, which adds a resource no     *)
(* other page edits, the validation of contents, and the page on air.      *)
(***************************************************************************)
EXTENDS Integers, Sequences

CONSTANTS
    HudKinds,           \* preset, layout, theme: HudResourceKind
    HudContents,        \* contents of a resource
    FirstContent,       \* that of every resource at first
    MaxHudSaves, MaxHudEdits, MaxHudFaults      \* bounds

ASSUME HudAssumption == FirstContent \in HudContents
ASSUME HudBounds == {MaxHudSaves, MaxHudEdits, MaxHudFaults} \subseteq Nat

VARIABLES
    hudDocument,        \* [saved, onAir]: the resources, and the activation snapshot
    hudFile,
    hudJobs,            \* commits: the mutations, in order
    hudStep,            \* of the first of them
    hudAnswer,          \* the answer on its way to the page, or NoAnswer
    hudPage,            \* [seen, drafts, bases, conflicts, committed, busy]: the editor
    hudPoll,            \* the document on its way to the page, or NoPoll
    editedFrom          \* the content each draft was made from; no variable of the program

VARIABLES hudSaves, hudEdits, hudFaults     \* for the bounds

hudStore == <<hudDocument, hudFile, hudJobs, hudStep>>
hudEditor == <<hudPage, hudPoll, editedFrom>>
hudBounds == <<hudSaves, hudEdits, hudFaults>>
hudVars == <<hudStore, hudAnswer, hudEditor, hudBounds>>

NoAnswer == [result |-> "none"]
NoPoll == [saved |-> "no poll"]
Nothing == "nothing"
Activation == "activation"

ASSUME HudKindsAssumption == Nothing \notin HudKinds /\ Activation \notin HudKinds

FirstResources == [k \in HudKinds |-> FirstContent]
FirstDocument == [saved |-> FirstResources, onAir |-> FirstResources]

\* The page has merged its first document.
HudInit ==
    /\ hudDocument = FirstDocument /\ hudFile = FirstDocument
    /\ hudJobs = <<>> /\ hudStep = "ready"
    /\ hudAnswer = NoAnswer
    /\ hudPage = [seen |-> FirstDocument, drafts |-> FirstResources,
                  bases |-> [k \in HudKinds |-> FirstDocument],
                  conflicts |-> [k \in HudKinds |-> FALSE],
                  committed |-> Nothing, busy |-> FALSE]
    /\ hudPoll = NoPoll
    /\ editedFrom = FirstResources
    /\ hudSaves = 0 /\ hudEdits = 0 /\ hudFaults = 0

-----------------------------------------------------------------------------
(* The store *)

HudJob == Head(hudJobs)

\* What a mutation makes of the document.
Candidate(job) ==
    IF job.kind = Activation THEN [hudDocument EXCEPT !.onAir = hudDocument.saved]
    ELSE [hudDocument EXCEPT !.saved[job.kind] = job.value]

HudAnswers(result, document) ==
    hudAnswer' = IF HudJob.page
                 THEN [result |-> result, kind |-> HudJob.kind, document |-> document]
                 ELSE hudAnswer

HudJobIsDone == hudJobs' = Tail(hudJobs) /\ hudStep' = "ready"

\* commit: a mutation of another revision is refused.
CommitHudBegins ==
    /\ hudJobs # <<>> /\ hudStep = "ready"
    /\ IF HudJob.expected = hudDocument
       THEN hudStep' = "writing" /\ UNCHANGED <<hudJobs, hudAnswer>>
       ELSE HudJobIsDone /\ HudAnswers("conflict", hudDocument)
    /\ UNCHANGED <<hudDocument, hudFile, hudEditor, hudBounds>>

HudFileIsReplaced ==
    /\ hudStep = "writing"
    /\ hudFile' = Candidate(HudJob)
    /\ hudStep' = "written"
    /\ UNCHANGED <<hudDocument, hudJobs, hudAnswer, hudEditor, hudBounds>>

CommitHudEnds ==
    /\ hudStep = "written"
    /\ hudDocument' = Candidate(HudJob)
    /\ HudAnswers("ok", Candidate(HudJob))
    /\ HudJobIsDone
    /\ UNCHANGED <<hudFile, hudEditor, hudBounds>>

HudFault ==
    /\ hudFaults < MaxHudFaults /\ hudFaults' = hudFaults + 1
    /\ UNCHANGED <<hudSaves, hudEdits>>

\* Mutant: the document changes although it could not be written.
HudWriteFailsInMemory ==
    /\ hudStep = "writing" /\ HudFault
    /\ hudDocument' = Candidate(HudJob)
    /\ HudAnswers("failed", hudDocument)
    /\ HudJobIsDone
    /\ UNCHANGED <<hudFile, hudEditor>>

\* A document that could not be written is not taken.
HudWriteFails ==
    /\ hudStep = "writing" /\ HudFault
    /\ HudAnswers("failed", hudDocument)
    /\ HudJobIsDone
    /\ UNCHANGED <<hudDocument, hudFile, hudEditor>>

\* The companion dies and loads its file again; the requests fail.
HudCompanionRestarts ==
    /\ HudFault
    /\ hudDocument' = hudFile
    /\ hudJobs' = <<>> /\ hudStep' = "ready"
    /\ hudAnswer' = IF \E i \in DOMAIN hudJobs : hudJobs[i].page
                    THEN [result |-> "failed", kind |-> Nothing, document |-> hudDocument]
                    ELSE hudAnswer
    /\ hudPoll' = NoPoll
    /\ UNCHANGED <<hudFile, hudPage, editedFrom>>

-----------------------------------------------------------------------------
(* Mutations *)

Submit(job) ==
    /\ hudSaves < MaxHudSaves /\ hudSaves' = hudSaves + 1
    /\ hudJobs' = Append(hudJobs, job)
    /\ UNCHANGED <<hudDocument, hudFile, hudStep, hudAnswer, hudEdits, hudFaults>>

Dirty(k) == hudPage.drafts[k] # hudPage.seen.saved[k]

\* submitMutation: under the revision the draft is based on, not that of now.
SavesDraft(k) ==
    /\ ~hudPage.busy /\ Dirty(k)
    /\ Submit([page |-> TRUE, kind |-> k, value |-> hudPage.drafts[k],
               expected |-> hudPage.bases[k], from |-> editedFrom[k]])
    /\ hudPage' = [hudPage EXCEPT !.busy = TRUE]
    /\ UNCHANGED <<hudPoll, editedFrom>>

\* activateSelectedPreset, which asks that no draft be dirty.
ActivatesPreset ==
    /\ ~hudPage.busy /\ \A k \in HudKinds : ~Dirty(k)
    /\ Submit([page |-> TRUE, kind |-> Activation, value |-> FirstContent,
               expected |-> hudPage.seen, from |-> FirstContent])
    /\ hudPage' = [hudPage EXCEPT !.busy = TRUE]
    /\ UNCHANGED <<hudPoll, editedFrom>>

OtherPageSaves(k, c) ==
    /\ c # hudDocument.saved[k]
    /\ Submit([page |-> FALSE, kind |-> k, value |-> c,
               expected |-> hudDocument, from |-> hudDocument.saved[k]])
    /\ UNCHANGED hudEditor

-----------------------------------------------------------------------------
(* The editor page *)

EditsDraft(k, c) ==
    /\ hudEdits < MaxHudEdits /\ hudEdits' = hudEdits + 1
    /\ c # hudPage.drafts[k]
    /\ hudPage' = [hudPage EXCEPT !.drafts[k] = c]
    /\ UNCHANGED <<hudStore, hudAnswer, hudPoll, editedFrom, hudSaves, hudFaults>>

\* discard
DiscardsDraft(k) ==
    /\ Dirty(k)
    /\ hudPage' = [hudPage EXCEPT !.drafts[k] = hudPage.seen.saved[k],
                                  !.conflicts[k] = FALSE, !.bases[k] = hudPage.seen]
    /\ editedFrom' = [editedFrom EXCEPT ![k] = hudPage.seen.saved[k]]
    /\ UNCHANGED <<hudStore, hudAnswer, hudPoll, hudBounds>>

\* Mutant: every draft follows the document.
FollowsAlways(page, next, k) == TRUE

\* A draft follows the document when it is clean or was just committed.
Follows(page, next, k) ==
    page.committed = k \/ page.drafts[k] = page.seen.saved[k]

\* mergeHudEditorDocument: a dirty draft whose resource did not change keeps its content but
\* takes the new revision as its base; one whose resource changed is in conflict.
Merged(page, next) ==
    LET changed(k) == page.seen.saved[k] # next.saved[k]
        follows(k) == Follows(page, next, k)
    IN  [page EXCEPT
           !.seen = next, !.committed = Nothing,
           !.drafts = [k \in HudKinds |-> IF follows(k) THEN next.saved[k] ELSE @[k]],
           !.conflicts = [k \in HudKinds |-> IF follows(k) THEN FALSE ELSE @[k] \/ changed(k)],
           !.bases = [k \in HudKinds |-> IF follows(k) \/ ~changed(k) THEN next ELSE @[k]]]

\* The effect of a new document, unless this one was seen last; editedFrom goes with it.
TakesDocument(page, next) ==
    IF next = page.seen
    THEN hudPage' = page /\ editedFrom' = editedFrom
    ELSE /\ hudPage' = Merged(page, next)
         /\ editedFrom' = [k \in HudKinds |-> IF Follows(page, next, k) THEN next.saved[k]
                                              ELSE editedFrom[k]]

\* Mutant: the conditional request looks at what is on air only.
PollIsServedByActivation ==
    /\ hudPoll = NoPoll /\ hudDocument.onAir # hudPage.seen.onAir
    /\ hudPoll' = hudDocument
    /\ UNCHANGED <<hudStore, hudAnswer, hudPage, editedFrom, hudBounds>>

\* poll: an unchanged document is not sent again (304).
PollIsServed ==
    /\ hudPoll = NoPoll /\ hudDocument # hudPage.seen
    /\ hudPoll' = hudDocument
    /\ UNCHANGED <<hudStore, hudAnswer, hudPage, editedFrom, hudBounds>>

PollArrives ==
    /\ hudPoll # NoPoll
    /\ TakesDocument(hudPage, hudPoll)
    /\ hudPoll' = NoPoll
    /\ UNCHANGED <<hudStore, hudAnswer, hudBounds>>

\* The poll fails; the next one is scheduled all the same.
PollIsLost ==
    /\ hudPoll # NoPoll /\ HudFault
    /\ hudPoll' = NoPoll
    /\ UNCHANGED <<hudStore, hudAnswer, hudPage, editedFrom>>

\* The answer to the page's mutation: a commit replaces the draft, a conflict keeps it.
MutationIsAnswered ==
    /\ hudAnswer # NoAnswer
    /\ LET page == [hudPage EXCEPT !.busy = FALSE]
           k == hudAnswer.kind
       IN  CASE hudAnswer.result = "ok" /\ k = Activation ->
                  TakesDocument([page EXCEPT !.committed = Nothing], hudAnswer.document)
             [] hudAnswer.result = "ok" /\ k # Activation ->
                  LET content == hudAnswer.document.saved[k] IN
                  IF hudAnswer.document = page.seen
                  THEN /\ hudPage' = [page EXCEPT !.drafts[k] = content, !.committed = k]
                       /\ editedFrom' = [editedFrom EXCEPT ![k] = content]
                  ELSE TakesDocument([page EXCEPT !.drafts[k] = content, !.committed = k],
                                     hudAnswer.document)
             [] hudAnswer.result = "conflict" ->
                  /\ hudPage' = IF k = Activation THEN page
                                ELSE [page EXCEPT !.conflicts[k] = TRUE]
                  /\ UNCHANGED editedFrom
             [] hudAnswer.result = "failed" -> hudPage' = page /\ UNCHANGED editedFrom
    /\ hudAnswer' = NoAnswer
    /\ UNCHANGED <<hudStore, hudPoll, hudBounds>>

HudNext ==
    \/ CommitHudBegins \/ HudFileIsReplaced \/ CommitHudEnds
    \/ HudWriteFails \/ HudCompanionRestarts
    \/ ActivatesPreset \/ PollIsServed \/ PollArrives \/ PollIsLost \/ MutationIsAnswered
    \/ \E k \in HudKinds :
         \/ SavesDraft(k) \/ DiscardsDraft(k)
         \/ \E c \in HudContents : EditsDraft(k, c) \/ OtherPageSaves(k, c)

\* The queue works, the network answers, and the page polls every half second.
HudFairness ==
    /\ WF_hudVars(CommitHudBegins \/ HudFileIsReplaced \/ CommitHudEnds)
    /\ WF_hudVars(PollIsServed)
    /\ WF_hudVars(PollArrives)
    /\ WF_hudVars(MutationIsAnswered)

HudSpec == HudInit /\ [][HudNext]_hudVars /\ HudFairness

-----------------------------------------------------------------------------
(* Properties *)

HudResources == [HudKinds -> HudContents]
HudDocuments == [saved : HudResources, onAir : HudResources]

\* Types, and: the page waits exactly while its one mutation is queued or its answer under way.
HudTypeOK ==
    /\ hudDocument \in HudDocuments /\ hudFile \in HudDocuments
    /\ hudPage.seen \in HudDocuments /\ hudPage.drafts \in HudResources
    /\ \A k \in HudKinds : hudPage.bases[k] \in HudDocuments
    /\ hudPage.conflicts \in [HudKinds -> BOOLEAN]
    /\ hudPage.committed \in HudKinds \cup {Nothing}
    /\ hudStep \in {"ready", "writing", "written"}
    /\ hudStep # "ready" => hudJobs # <<>>
    /\ LET own == {i \in DOMAIN hudJobs : hudJobs[i].page} IN
       /\ \A i, j \in own : i = j
       /\ hudPage.busy <=> own # {} \/ hudAnswer # NoAnswer

\* What the pages are shown is what a restart would bring back, except while a mutation is
\* being written: neither a failed write nor a death changes that (store.ts:290-306).
FileIsDocument == hudStep # "written" => hudFile = hudDocument

\* A poll does not touch a draft the operator has changed (hud-console-drafts.ts:139-144),
\* as long as no commit of the page itself waits to be merged.
DirtyDraftsSurvivePolls ==
    [][PollArrives /\ hudPage.committed = Nothing =>
         \A k \in HudKinds : Dirty(k) => hudPage'.drafts[k] = hudPage.drafts[k]]_hudVars

\* The editor comes to show the document (hud-config-client.ts:231-270).
EditorFollowsDocument == <>[](hudPage.seen = hudDocument)

\* Saving replaces the content the draft was made from, or is refused: product.md:140 says of a
\* dirty draft whose resource changed elsewhere that it must not overwrite silently.
NoSilentOverwrite ==
    [][CommitHudEnds /\ HudJob.kind # Activation
         => hudDocument.saved[HudJob.kind] = HudJob.from]_hudVars

\* What holds of the document, its file and the page at all times (store.ts commit).
HudInv == HudTypeOK /\ FileIsDocument
=============================================================================
