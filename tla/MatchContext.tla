---------------------------- MODULE MatchContext ----------------------------
(***************************************************************************)
(* Which match the show is about: the match context controller             *)
(* (apps/companion/src/match-context/controller.ts), the file with the     *)
(* last known good manifest (lkg-store.ts), the local tournament library   *)
(* (local-tournament-store.ts) with its routes, the BP save of             *)
(* bp/workspace-controller.ts, and what app.ts does with the two files     *)
(* when the companion starts.                                              *)
(*                                                                         *)
(* The controller runs its commits one after the other (SerialCommitQueue) *)
(* and so does the library, but the two queues know nothing of each other. *)
(* A commit writes a temporary file, renames it over the old one, and      *)
(* after a further await goes on to memory; between these steps any other  *)
(* request may be taken.  Every request gets a number, which stands for    *)
(* the moment at which it was made and for the content it brings.          *)
(*                                                                         *)
(* Left out: the content of a manifest beyond its revision, players and    *)
(* teams, the order of the local schedule, and the refusal of a local      *)
(* document that would change a completed map.                             *)
(***************************************************************************)
EXTENDS Integers, Sequences

CONSTANTS
    Matches,       \* match ids
    LegacyMatches, \* those a file of an older version may hold as a standalone match
    NoBinding      \* undefined

\* Bounds of the exploration, no part of the program.
CONSTANTS MaxContextRequests,
          MaxContextFaults,   \* writes that fail and deaths, together
          RequestBudget   \* and how many there may be of each kind

ASSUME ContextAssumption == NoBinding \notin Matches /\ LegacyMatches \subseteq Matches
ASSUME ContextBounds ==
    /\ {MaxContextRequests, MaxContextFaults} \subseteq Nat
    /\ RequestBudget \in [{"refresh", "select", "decide", "library", "rehearsal"} -> Nat]

VARIABLES
    activeBinding, \* the match on show, or NoBinding
    bindingRev,   \* bindingRevision
    selection,    \* activeSelectionGeneration
    acquisition,  \* <<onlineCandidateGeneration, onlineCandidateAcquisition or 0>>
    staged,       \* pendingOnlineCandidate
    loads,        \* manifest requests on their way
    commits,      \* the controller's SerialCommitQueue; the head is running
    commitStep,   \* how far the head is: "ready", "writing", "written", "failed", "reading"
    lkg,          \* manifest-lkg.json
    library,      \* the state of the local tournament store in memory
    libraryFile,  \* and in its file
    libraryJobs,  \* its queue; the head is running
    libraryStep   \* "ready", "writing" or "written"

\* The stamps taken by Date.now() when a commit begins, and what has happened so far.
VARIABLES
    clock,        \* the newest stamp
    stamp,        \* the stamp of the commit of each queue that is being written
    requests,     \* requests so far
    shown,        \* [by, at]: the request behind the active binding and the stamp of its save
    budget,       \* what is left of RequestBudget
    faults        \* [writes, deaths]

memory == <<activeBinding, bindingRev, selection, acquisition, staged>>
controller == <<loads, commits, commitStep, lkg>>
store == <<library, libraryFile, libraryJobs, libraryStep>>
tallies == <<requests, budget>>
contextVars == <<memory, controller, store, clock, stamp, tallies, shown, faults>>

Origins == {"online", "local", "fixture"}
Modes == {"standalone", "bound-overlay"}
ManifestRevisions == 1..2

ManifestOf(match, from, mode, content) ==
    [match |-> match, from |-> from, mode |-> mode, content |-> content]

\* A binding: a manifest, whether it came out of the file, and its freshness.
Binding(manifest, cached, fresh) ==
    [of |-> manifest, cached |-> cached, fresh |-> fresh]

MatchOf(binding) == IF binding = NoBinding THEN NoBinding ELSE binding.of.match
IsLocalBinding(binding) == binding # NoBinding /\ binding.of.from = "local"
IsStandalone(binding) == IsLocalBinding(binding) /\ binding.of.mode = "standalone"
IsOnline(binding) == binding # NoBinding /\ binding.of.from = "online" /\ ~binding.cached
IsLibraryMatch(binding) == IsStandalone(binding) /\ ~binding.cached

EmptyLibrary == [docs |-> [m \in Matches |-> 0], selected |-> NoBinding, at |-> 0, event |-> 0]

\* A standalone match saved by an older version may be found in the file.
ContextInit ==
    /\ lkg \in {NoBinding} \cup
               {[of |-> ManifestOf(m, "local", "standalone", 0), at |-> 0] : m \in LegacyMatches}
    /\ libraryFile = EmptyLibrary
    /\ library = EmptyLibrary
    /\ activeBinding = NoBinding /\ bindingRev = 0 /\ selection = 0
    /\ acquisition = <<0, 0>> /\ staged = NoBinding
    /\ loads = {} /\ commits = <<>> /\ commitStep = "down"
    /\ libraryJobs = <<>> /\ libraryStep = "ready"
    /\ clock = 0 /\ stamp = [lkg |-> 0, library |-> 0] /\ requests = 0
    /\ budget = RequestBudget
    /\ shown = [by |-> 0, at |-> 0] /\ faults = [writes |-> 0, deaths |-> 0]

-----------------------------------------------------------------------------
(* The synchronous parts of the controller *)

\* setActive and clearActiveBinding: a local binding that gives way to another
\* kind takes the staged candidate and its acquisition with it.
SetActive(binding) ==
    /\ activeBinding' = binding
    /\ bindingRev' = bindingRev + 1
    /\ IF IsLocalBinding(activeBinding) /\ ~IsLocalBinding(binding)
       THEN acquisition' = <<acquisition[1] + 1, 0>> /\ staged' = NoBinding
       ELSE UNCHANGED <<acquisition, staged>>

Shows(by, at) == shown' = [by |-> by, at |-> at]

\* activateLocalDocument
ActivateLocal(match, content, by, at) ==
    /\ selection' = selection + 1
    /\ SetActive(Binding(ManifestOf(match, "local", "standalone", content), FALSE, TRUE))
    /\ Shows(by, at)

Asked(kind) ==
    /\ commitStep # "down"
    /\ requests < MaxContextRequests
    /\ requests' = requests + 1
    /\ budget[kind] > 0
    /\ budget' = [budget EXCEPT ![kind] = @ - 1]

\* onlineCandidateAcquisition ends with the request it belongs to (finally).
AcquisitionEnds(cand) ==
    acquisition' = IF acquisition[2] = cand THEN <<acquisition[1], 0>> ELSE acquisition

\* isLatestCandidate
NewestRefresh(gen) == gen = acquisition[1]

Commit(job) == commits' = Append(commits, job)

-----------------------------------------------------------------------------
(* Requests *)

\* stageOnlineMatch, called by the operator's refresh and by the timer.
StageOnlineMatch(m) ==
    /\ Asked("refresh")
    /\ acquisition' = <<acquisition[1] + 1, acquisition[1] + 1>>
    /\ staged' = NoBinding
    /\ loads' = loads \cup {[kind |-> "stage", match |-> m, from |-> "online",
                             gen |-> acquisition[1] + 1, by |-> requests + 1]}
    /\ UNCHANGED <<activeBinding, bindingRev, selection, commits, commitStep, lkg, store, clock,
                   stamp, shown, faults>>

\* selectMatch over a local binding only stages the online candidate ...
SelectOverLocal(m) ==
    /\ Asked("refresh")
    /\ IsLocalBinding(activeBinding)
    /\ acquisition' = <<acquisition[1] + 1, acquisition[1] + 1>>
    /\ loads' = loads \cup {[kind |-> "restage", match |-> m, from |-> "online",
                             gen |-> acquisition[1] + 1, by |-> requests + 1]}
    /\ UNCHANGED <<activeBinding, bindingRev, selection, staged, commits, commitStep, lkg, store,
                   clock, stamp, shown, faults>>

\* ... and any other supersedes every other selection and drops another match.  Over a
\* local binding the source is then not RivalHub.
SelectMatch(m) ==
    /\ Asked("select")
    /\ selection' = selection + 1
    /\ IF activeBinding # NoBinding /\ MatchOf(activeBinding) # m
       THEN SetActive(NoBinding) /\ Shows(0, 0)
       ELSE UNCHANGED <<activeBinding, bindingRev, acquisition, staged, shown>>
    /\ loads' = loads \cup {[kind |-> "select", match |-> m,
                             from |-> IF IsLocalBinding(activeBinding) THEN "fixture" ELSE "online",
                             gen |-> selection + 1, by |-> requests + 1]}
    /\ UNCHANGED <<commits, commitStep, lkg, store, clock, stamp, faults>>

\* activatePendingOnlineMatch, with the revisions of the page that asks.
ActivatePending ==
    /\ Asked("decide")
    /\ staged # NoBinding /\ acquisition[2] = 0
    /\ selection' = selection + 1
    /\ Commit([kind |-> "confirm", gen |-> selection + 1, cand |-> acquisition[1],
               rev |-> bindingRev, candidate |-> staged.by, of |-> staged.of,
               seen |-> activeBinding, by |-> requests + 1])
    /\ UNCHANGED <<activeBinding, bindingRev, acquisition, staged, loads, commitStep, lkg, store,
                   clock, stamp, shown, faults>>

\* The BP save of a match the library does not own: selectLocalMatch.  The draft was
\* compiled from the active binding, so it names the same match.
SaveBpOverlay ==
    /\ Asked("decide")
    /\ activeBinding # NoBinding /\ ~IsLibraryMatch(activeBinding)
    /\ selection' = selection + 1
    /\ Commit([kind |-> "overlay", gen |-> selection + 1, cand |-> 0, rev |-> bindingRev,
               candidate |-> 0,
               of |-> ManifestOf(MatchOf(activeBinding), "local",
                               IF IsStandalone(activeBinding) THEN "standalone" ELSE "bound-overlay",
                               requests + 1),
               seen |-> activeBinding, by |-> requests + 1])
    /\ UNCHANGED <<activeBinding, bindingRev, acquisition, staged, loads, commitStep, lkg, store,
                   clock, stamp, shown, faults>>

LibraryJob(kind, m) ==
    /\ Asked("library")
    /\ libraryJobs' = Append(libraryJobs, [kind |-> kind, match |-> m, event |-> library.event,
                                           by |-> requests + 1])
    /\ UNCHANGED <<memory, controller, library, libraryFile, libraryStep, clock, stamp, shown,
                   faults>>

CreateLocalMatch(m) == LibraryJob("create", m)
SelectLocalMatch(m) == LibraryJob("pick", m)
SaveEvent == LibraryJob("event", NoBinding)

\* /operator/local-match/save and the BP save of a library match: the context
\* revision is compared now, and not again.
SaveLocalMatch ==
    /\ IsLibraryMatch(activeBinding)
    /\ LibraryJob("save", MatchOf(activeBinding))

\* The BP save without any match makes one.
SaveFirstBp(m) ==
    /\ activeBinding = NoBinding
    /\ LibraryJob("import", m)

\* The rehearsal shows a fixture, and takes it away.
ActivateFixture(m) ==
    /\ Asked("rehearsal")
    /\ selection' = selection + 1
    /\ SetActive(Binding(ManifestOf(m, "fixture", "bound-overlay", requests + 1), FALSE, TRUE))
    /\ Shows(requests + 1, 0)
    /\ UNCHANGED <<controller, store, clock, stamp, faults>>

ClearActive ==
    /\ Asked("rehearsal")
    /\ selection' = selection + 1
    /\ acquisition' = <<acquisition[1] + 1, 0>>
    /\ staged' = NoBinding
    /\ activeBinding' = NoBinding
    /\ bindingRev' = IF activeBinding = NoBinding THEN bindingRev ELSE bindingRev + 1
    /\ Shows(0, 0)
    /\ UNCHANGED <<controller, store, clock, stamp, faults>>

-----------------------------------------------------------------------------
(* Answers *)

MarkStaleNeeded(m) == IsOnline(activeBinding) /\ MatchOf(activeBinding) = m /\ activeBinding.fresh

\* How a refresh that was not staged ends: the online binding of the same match
\* is marked stale by a commit of its own.
StagingFails(load) ==
    IF load.kind = "stage" /\ MarkStaleNeeded(load.match)
    THEN /\ Commit([kind |-> "stale", gen |-> load.gen, match |-> load.match])
         /\ UNCHANGED acquisition
    ELSE UNCHANGED commits /\ AcquisitionEnds(load.gen)

LoadAnswers(load, content) ==
    /\ load \in loads
    /\ loads' = loads \ {load}
    /\ CASE load.kind = "select" ->
              /\ Commit([kind |-> "select", gen |-> load.gen, cand |-> 0, rev |-> 0,
                         candidate |-> 0,
                         of |-> ManifestOf(load.match, load.from, "bound-overlay", content),
                         seen |-> NoBinding, by |-> load.by])
              /\ UNCHANGED acquisition
         [] load.kind # "select" /\ NewestRefresh(load.gen) ->
              /\ Commit([kind |-> load.kind, gen |-> load.gen, match |-> load.match,
                         of |-> ManifestOf(load.match, "online", "bound-overlay", content),
                         by |-> load.by])
              /\ UNCHANGED acquisition
         [] OTHER -> StagingFails(load)
    /\ UNCHANGED <<activeBinding, bindingRev, selection, staged, commitStep, lkg, store, clock, stamp,
                   tallies, shown, faults>>

\* No answer, or one that is invalid or of another match.
LoadFails(load) ==
    /\ load \in loads
    /\ loads' = loads \ {load}
    /\ IF load.kind = "select"
       THEN /\ Commit([kind |-> "fallback", gen |-> load.gen, match |-> load.match,
                       by |-> load.by])
            /\ UNCHANGED acquisition
       ELSE StagingFails(load)
    /\ UNCHANGED <<activeBinding, bindingRev, selection, staged, commitStep, lkg, store, clock, stamp,
                   tallies, shown, faults>>

\* A manifest that cannot be converted to a match document ends a selection.
ConversionFails(load) ==
    /\ load \in loads /\ load.kind = "select"
    /\ loads' = loads \ {load}
    /\ UNCHANGED <<memory, commits, commitStep, lkg, store, clock, stamp, tallies, shown,
                   faults>>

-----------------------------------------------------------------------------
(* The controller's commits *)

Runs(kinds, step) ==
    /\ commitStep = step
    /\ commits # <<>> /\ Head(commits).kind \in kinds

Done == commits' = Tail(commits) /\ commitStep' = "ready"

Saves == {"select", "overlay", "confirm"}

\* Mutant: the selection generation is not compared.
AnySelected(job) == TRUE

StillSelected(job) == job.gen = selection

\* Mutant: a decision is not compared with the binding revision.
StillCurrentForAnyBinding(job) ==
    /\ StillSelected(job)
    /\ job.kind = "confirm" => /\ job.cand = acquisition[1]
                               /\ staged # NoBinding /\ staged.by = job.candidate

\* isCurrent and canCommit of the job at the head of the queue.
StillCurrent(job) ==
    /\ StillSelected(job)
    /\ job.kind = "overlay" => job.rev = bindingRev
    /\ job.kind = "confirm" => /\ job.rev = bindingRev
                               /\ job.cand = acquisition[1]
                               /\ staged # NoBinding /\ staged.by = job.candidate

\* The save begins: the envelope is stamped and the temporary file written.
BeginSave ==
    /\ Runs(Saves, "ready")
    /\ IF StillCurrent(Head(commits))
       THEN /\ commitStep' = "writing"
            /\ clock' = clock + 1
            /\ stamp' = [stamp EXCEPT !.lkg = clock + 1]
            /\ UNCHANGED commits
       ELSE Done /\ UNCHANGED <<clock, stamp>>
    /\ UNCHANGED <<memory, loads, lkg, store, tallies, shown, faults>>

\* The guard is looked at once more in the turn of the rename.
ReplaceLkg ==
    /\ Runs(Saves, "writing")
    /\ IF StillCurrent(Head(commits))
       THEN /\ lkg' = [of |-> Head(commits).of, at |-> stamp.lkg]
            /\ commitStep' = "written"
            /\ UNCHANGED commits
       ELSE Done /\ UNCHANGED lkg
    /\ UNCHANGED <<memory, loads, store, clock, stamp, tallies, shown, faults>>

LkgWriteFails ==
    /\ Runs(Saves, "writing")
    /\ faults.writes + faults.deaths < MaxContextFaults
    /\ faults' = [faults EXCEPT !.writes = @ + 1]
    /\ commitStep' = "failed"
    /\ UNCHANGED <<memory, loads, commits, lkg, store, clock, stamp, tallies, shown>>

\* After the await the guard decides again.  A selection is shown although its
\* file could not be written; a BP or a confirmed candidate is not.
FinishSave ==
    /\ commitStep \in {"written", "failed"}
    /\ LET job == Head(commits) IN
       IF StillCurrent(job) /\ (commitStep = "written" \/ job.kind = "select")
       THEN /\ activeBinding' = Binding(job.of, FALSE, TRUE)
            /\ bindingRev' = bindingRev + 1
            /\ IF IsLocalBinding(activeBinding) /\ job.of.from # "local"
               THEN acquisition' = <<acquisition[1] + 1, 0>> /\ staged' = NoBinding
               ELSE /\ staged' = IF job.kind = "confirm" THEN NoBinding ELSE staged
                    /\ UNCHANGED acquisition
            /\ Shows(job.by, IF commitStep = "written" THEN stamp.lkg ELSE 0)
       ELSE UNCHANGED <<activeBinding, bindingRev, acquisition, staged, shown>>
    /\ Done
    /\ UNCHANGED <<selection, loads, lkg, store, clock, stamp, tallies, faults>>

\* useFallback: the binding in memory if it is of this match ...
FallBackToMemory ==
    /\ Runs({"fallback"}, "ready")
    /\ LET job == Head(commits) IN
       IF job.gen = selection /\ MatchOf(activeBinding) # job.match
       THEN commitStep' = "reading" /\ UNCHANGED <<memory, commits>>
       ELSE /\ IF job.gen = selection
               THEN SetActive([activeBinding EXCEPT !.fresh = FALSE]) /\ UNCHANGED selection
               ELSE UNCHANGED memory
            /\ Done
    /\ UNCHANGED <<loads, lkg, store, clock, stamp, tallies, shown, faults>>

\* ... and else the file if it holds this match.
FallBackToFile ==
    /\ Runs({"fallback"}, "reading")
    /\ LET job == Head(commits) IN
       IF job.gen = selection /\ lkg # NoBinding /\ lkg.of.match = job.match
       THEN SetActive(Binding(lkg.of, TRUE, FALSE)) /\ Shows(job.by, lkg.at) /\ UNCHANGED selection
       ELSE UNCHANGED <<memory, shown>>
    /\ Done
    /\ UNCHANGED <<loads, lkg, store, clock, stamp, tallies, faults>>

\* The commit of stageOnlineCandidate.  A refresh that brings what is shown
\* only makes it fresh again.
StageCandidate ==
    /\ Runs({"stage", "restage"}, "ready")
    /\ LET job == Head(commits)
           current == /\ NewestRefresh(job.gen)
                      /\ job.kind = "restage" => IsLocalBinding(activeBinding)
           known == job.kind = "stage" /\ IsOnline(activeBinding) /\ activeBinding.of = job.of
           refused == ~current /\ job.kind = "stage" /\ MarkStaleNeeded(job.match)
       IN  /\ IF current /\ known
              THEN IF activeBinding.fresh THEN UNCHANGED <<activeBinding, bindingRev>>
                   ELSE /\ activeBinding' = [activeBinding EXCEPT !.fresh = TRUE]
                        /\ bindingRev' = bindingRev + 1
              ELSE UNCHANGED <<activeBinding, bindingRev>>
           /\ staged' = IF current /\ ~known THEN [of |-> job.of, by |-> job.by] ELSE staged
           /\ IF refused
              THEN /\ commits' = Append(Tail(commits), [kind |-> "stale", gen |-> job.gen,
                                                        match |-> job.match])
                   /\ UNCHANGED acquisition
              ELSE commits' = Tail(commits) /\ AcquisitionEnds(job.gen)
    /\ UNCHANGED <<selection, loads, commitStep, lkg, store, clock, stamp, tallies, shown,
                   faults>>

\* The failed refresh of stageOnlineMatch.
MarkStale ==
    /\ Runs({"stale"}, "ready")
    /\ LET job == Head(commits) IN
       /\ IF IsOnline(activeBinding) /\ MatchOf(activeBinding) = job.match
          THEN activeBinding' = [activeBinding EXCEPT !.fresh = FALSE] /\ bindingRev' = bindingRev + 1
          ELSE UNCHANGED <<activeBinding, bindingRev>>
       /\ AcquisitionEnds(job.gen)
    /\ Done
    /\ UNCHANGED <<selection, staged, loads, lkg, store, clock, stamp, tallies, shown, faults>>

-----------------------------------------------------------------------------
(* The library's commits *)

\* What a job makes of the state, given a stamp.
LibraryAfter(job, at) ==
    CASE job.kind \in {"create", "import"} ->
           [library EXCEPT !.docs[job.match] = job.by, !.selected = job.match, !.at = at]
      [] job.kind = "pick" -> [library EXCEPT !.selected = job.match, !.at = at]
      [] job.kind = "save" -> [library EXCEPT !.docs[job.match] = job.by]
      [] job.kind = "event" -> [library EXCEPT !.event = job.by]

\* A match is created under a new id; the others must exist, an event comes with
\* its first match, and a saved document must carry the competition as it is now.
LibraryAccepts(job) ==
    CASE job.kind \in {"create", "import"} -> library.docs[job.match] = 0
      [] job.kind = "pick" -> library.docs[job.match] # 0
      [] job.kind = "save" -> library.docs[job.match] # 0 /\ job.event = library.event
      [] job.kind = "event" -> \E m \in Matches : library.docs[m] # 0

BeginLibraryJob ==
    /\ commitStep # "down"
    /\ libraryJobs # <<>> /\ libraryStep = "ready"
    /\ IF LibraryAccepts(Head(libraryJobs))
       THEN /\ libraryStep' = "writing"
            /\ clock' = clock + 1
            /\ stamp' = [stamp EXCEPT !.library = clock + 1]
            /\ UNCHANGED libraryJobs
       ELSE /\ libraryJobs' = Tail(libraryJobs)
            /\ UNCHANGED <<libraryStep, clock, stamp>>
    /\ UNCHANGED <<memory, controller, library, libraryFile, tallies, shown, faults>>

ReplaceLibrary ==
    /\ libraryStep = "writing"
    /\ libraryFile' = LibraryAfter(Head(libraryJobs), stamp.library)
    /\ libraryStep' = "written"
    /\ UNCHANGED <<memory, controller, library, libraryJobs, clock, stamp, tallies, shown,
                   faults>>

LibraryWriteFails ==
    /\ libraryStep = "writing"
    /\ faults.writes + faults.deaths < MaxContextFaults
    /\ faults' = [faults EXCEPT !.writes = @ + 1]
    /\ libraryJobs' = Tail(libraryJobs)
    /\ libraryStep' = "ready"
    /\ UNCHANGED <<memory, controller, library, libraryFile, clock, stamp, tallies, shown>>

\* The stamp behind an activated document, if the library will select it again.
SelectedAt(next, m) == IF next.selected = m THEN next.at ELSE 0

\* The store takes the new state, and the route that asked activates its document.
\* A changed event activates the selected match if a local one is shown.
FinishLibraryJob ==
    /\ libraryStep = "written"
    /\ library' = libraryFile
    /\ LET job == Head(libraryJobs)
           m == IF job.kind = "event" THEN libraryFile.selected ELSE job.match
       IN  IF /\ job.kind = "event"
              /\ ~(m # NoBinding /\ IsLocalBinding(activeBinding) /\ ~activeBinding.cached)
           THEN UNCHANGED <<memory, shown>>
           ELSE ActivateLocal(m, libraryFile.docs[m], job.by, SelectedAt(libraryFile, m))
    /\ libraryJobs' = Tail(libraryJobs)
    /\ libraryStep' = "ready"
    /\ UNCHANGED <<controller, libraryFile, clock, stamp, tallies, faults>>

-----------------------------------------------------------------------------
(* Deaths and starts *)

CompanionDies ==
    /\ commitStep # "down"
    /\ faults.writes + faults.deaths < MaxContextFaults
    /\ faults' = [faults EXCEPT !.deaths = @ + 1]
    /\ activeBinding' = NoBinding /\ bindingRev' = 0 /\ selection' = 0
    /\ acquisition' = <<0, 0>> /\ staged' = NoBinding
    /\ loads' = {} /\ commits' = <<>> /\ commitStep' = "down"
    /\ library' = EmptyLibrary /\ libraryJobs' = <<>> /\ libraryStep' = "ready"
    /\ stamp' = [lkg |-> 0, library |-> 0]
    /\ Shows(0, 0)
    /\ UNCHANGED <<lkg, libraryFile, clock, tallies>>

\* Mutant: the moment of the local selection is not looked at.
LibraryGoesFirstWithoutLkg ==
    /\ libraryFile.selected # NoBinding
    /\ \/ lkg = NoBinding
       \/ lkg.of.from = "local" /\ lkg.of.mode = "standalone"

\* What the start finds: the manifest of the file, unless it is a standalone match
\* and the library has one, or the library's match was selected later.
LibraryGoesFirst ==
    /\ libraryFile.selected # NoBinding
    /\ \/ lkg = NoBinding
       \/ lkg.of.from = "local" /\ lkg.of.mode = "standalone"
       \/ libraryFile.at # 0 /\ libraryFile.at >= lkg.at

Restored ==
    IF LibraryGoesFirst
    THEN Binding(ManifestOf(libraryFile.selected, "local", "standalone",
                          libraryFile.docs[libraryFile.selected]), FALSE, TRUE)
    ELSE IF lkg = NoBinding THEN NoBinding ELSE Binding(lkg.of, TRUE, FALSE)

\* The whole start runs before the companion listens.  A standalone match of an
\* older version moves to the library.
CompanionStarts ==
    /\ commitStep = "down"
    /\ commitStep' = "ready"
    /\ IF ~LibraryGoesFirst /\ IsStandalone(Restored)
       THEN LET m == lkg.of.match
                fresh == libraryFile.docs[m] = 0
            IN  /\ clock' = clock + 1
                /\ libraryFile' = IF fresh
                                  THEN [libraryFile EXCEPT !.docs[m] = clock + 1,
                                                           !.selected = m, !.at = clock + 1]
                                  ELSE libraryFile
                /\ activeBinding' = Binding(ManifestOf(m, "local", "standalone", libraryFile'.docs[m]),
                                     FALSE, TRUE)
                /\ Shows(0, clock + 1)
       ELSE /\ activeBinding' = Restored
            /\ Shows(0, IF LibraryGoesFirst THEN libraryFile.at
                        ELSE IF lkg = NoBinding THEN 0 ELSE lkg.at)
            /\ UNCHANGED <<clock, libraryFile>>
    /\ library' = libraryFile'
    /\ selection' = selection + 1
    /\ bindingRev' = bindingRev + 1
    /\ UNCHANGED <<acquisition, staged, loads, commits, lkg, libraryJobs, libraryStep, stamp,
                   tallies, faults>>

-----------------------------------------------------------------------------
Request ==
    \/ \E m \in Matches : \/ StageOnlineMatch(m)
                          \/ SelectOverLocal(m)
                          \/ SelectMatch(m)
                          \/ CreateLocalMatch(m)
                          \/ SelectLocalMatch(m)
                          \/ SaveFirstBp(m)
                          \/ ActivateFixture(m)
    \/ ActivatePending
    \/ SaveBpOverlay
    \/ SaveLocalMatch
    \/ SaveEvent
    \/ ClearActive

Answer == \E load \in loads : \/ \E r \in ManifestRevisions : LoadAnswers(load, r)
                              \/ LoadFails(load)
                              \/ ConversionFails(load)

CommitRuns == \/ BeginSave \/ ReplaceLkg \/ LkgWriteFails \/ FinishSave
              \/ FallBackToMemory \/ FallBackToFile \/ StageCandidate \/ MarkStale

LibraryRuns == BeginLibraryJob \/ ReplaceLibrary \/ LibraryWriteFails \/ FinishLibraryJob

ContextNext == Request \/ Answer \/ CommitRuns \/ LibraryRuns \/ CompanionDies \/ CompanionStarts

ContextSpec == ContextInit /\ [][ContextNext]_contextVars

-----------------------------------------------------------------------------
(* Properties *)

ManifestsOf(ms) == [match : ms, from : Origins, mode : Modes, content : Nat]

BindingsOf(ms) == {NoBinding} \cup [of : ManifestsOf(ms), cached : BOOLEAN, fresh : BOOLEAN]

\* Neither a binding nor the content of the file is NoBinding.
ASSUME NoBindingAssumption ==
    NoBinding \notin [of : ManifestsOf(Matches), cached : BOOLEAN, fresh : BOOLEAN]
                    \cup [of : ManifestsOf(Matches), at : Nat]

LibrariesOf(ms) == [docs : [ms -> Nat], selected : ms \cup {NoBinding}, at : Nat, event : Nat]

\* Types, and: only the head of a queue is under way, a request ends, a library names a
\* selected match it has, and an acquisition belongs to the newest candidate generation.
ContextTypeOK ==
    /\ activeBinding \in BindingsOf(Matches)
    /\ {bindingRev, selection, clock, requests} \subseteq Nat
    /\ acquisition[1] \in Nat /\ acquisition[2] \in {0, acquisition[1]}
    /\ staged # NoBinding => staged.of \in ManifestsOf(Matches) /\ staged.of.from = "online"
    /\ lkg # NoBinding => lkg.of \in ManifestsOf(Matches) /\ lkg.at \in 0..clock
    /\ {library, libraryFile} \subseteq LibrariesOf(Matches)
    /\ libraryFile.selected # NoBinding => libraryFile.docs[libraryFile.selected] # 0
    /\ libraryStep = "ready" => library = libraryFile \/ commitStep = "down"
    /\ commitStep \in {"down", "ready", "writing", "written", "failed", "reading"}
    /\ commitStep \notin {"down", "ready"} => commits # <<>>
    /\ libraryStep # "ready" => libraryJobs # <<>>
    /\ \A load \in loads : load.kind # "select" => load.gen <= acquisition[1]

\* What the controller commits was asked for after what it replaces: neither a slow load
\* nor a slow save brings an older selection back (controller.ts:322-328, 390-412, 468-473).
NewestSelectionWins ==
    [][shown'.by \notin {0, shown.by} /\ libraryJobs' = libraryJobs
         => shown'.by > shown.by]_contextVars

\* A BP saved over a match, and a confirmed RivalHub candidate, replace exactly the binding
\* the operator had before them when they decided (controller.ts:390, 406, 457, 465).
DecidedOnWhatIsShown ==
    [][(commitStep = "written" /\ Head(commits).kind \in {"overlay", "confirm"}
        /\ shown' # shown /\ shown'.by = Head(commits).by)
         => activeBinding = Head(commits).seen]_contextVars

\* Refreshes may answer in any order; a candidate never gives way to an older one
\* (controller.ts:552, 584).
NewestCandidateWins ==
    [][staged # NoBinding /\ staged' # NoBinding => staged'.by >= staged.by]_contextVars

\* If no save was begun after the one behind what is shown, a restart brings back the
\* same match from the same source, whichever file it is in (app.ts:628-645).  A standalone
\* match that only the last-known-good file has is left out: with a library, no route of
\* this version makes one.
RestartRestoresSelection ==
    (/\ activeBinding # NoBinding /\ shown.at = clock /\ shown.at # 0
     /\ IsStandalone(activeBinding) => library.docs[MatchOf(activeBinding)] = activeBinding.of.content)
        => /\ MatchOf(Restored) = MatchOf(activeBinding)
           /\ IsLocalBinding(Restored) = IsLocalBinding(activeBinding)

\* The acquisition is open only while the refresh that opened it is on its way or has its job
\* in the queue: whichever way that one ends, a candidate can be confirmed again
\* (controller.ts:456, 527).
AcquisitionIsOwned ==
    acquisition[2] # 0 =>
        \/ \E load \in loads : load.kind # "select" /\ load.gen = acquisition[2]
        \/ \E i \in DOMAIN commits :
              commits[i].kind \in {"stage", "restage", "stale"} /\ commits[i].gen = acquisition[2]

\* What holds of the context at all times (controller.ts, app.ts onReady).
ContextInv == ContextTypeOK /\ RestartRestoresSelection /\ AcquisitionIsOwned

\* Neither a selection nor a candidate gives way to an older one.
NewestWins == NewestSelectionWins /\ NewestCandidateWins
=============================================================================
