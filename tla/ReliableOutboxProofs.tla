------------------------- MODULE ReliableOutboxProofs -------------------------
(***************************************************************************)
(* Proofs about ReliableOutbox for every set of events and scopes and      *)
(* every size that satisfies the assumptions.  First the type invariant,   *)
(* and that whatever file the process leaves behind can be loaded by the   *)
(* next one; then what the outbox promises to the outside: it implements   *)
(* EventDelivery, forgets neither an acknowledged event nor the checkpoint *)
(* of its scope, and counts what it sends.  For that, the documents that   *)
(* exist at one time (the file, the memory, the one being committed) are   *)
(* related through the job that is running.                                *)
(***************************************************************************)
EXTENDS ReliableOutbox, TLAPS

-----------------------------------------------------------------------------
(* The data the operations are built from *)

\* slice(n) of a sequence keeps a suffix: its type, and how long it is.
LEMMA DropType ==
    ASSUME NEW S, NEW s \in Seq(S), NEW n \in Int, n <= Len(s)
    PROVE  /\ Drop(s, n) \in Seq(S)
           /\ Len(Drop(s, n)) = IF n <= 0 THEN Len(s) ELSE Len(s) - n
<1>1. CASE n <= 0
    BY <1>1 DEF Drop
<1>2. CASE n > 0
    BY <1>2 DEF Drop
<1> QED BY <1>1, <1>2

LEMMA SizesSum ==
    ASSUME NEW a \in Nat, NEW b \in Nat, a <= KeepTerminal, b <= MaxPending
    PROVE  a + b <= MaxRecords
<1>1. MaxPending \in Nat /\ KeepTerminal \in Nat /\ MaxRecords \in Nat
    BY SizesAssumption
<1> QED BY <1>1, SizesAssumption

\* trim yields a document within the limits, and one without records only when
\* it was given none: the terminal suffix is kept before the pending part is cut.
LEMMA TrimLimits ==
    ASSUME NEW t \in Seq(TerminalRecord), NEW p \in Seq(PendingRecord),
           NEW c \in Scope, Len(p) <= MaxPending
    PROVE  /\ Trim(t, p, c) \in File
           /\ Trim(t, p, c).pending = p
           /\ Trim(t, p, c).continuity = c
           /\ Len(Trim(t, p, c).terminal) <= KeepTerminal
           /\ t # <<>> => Trim(t, p, c).terminal # <<>>
<1> DEFINE recent == Drop(t, Len(t) - KeepTerminal)
           over   == Len(recent) + Len(p) - MaxRecords
<1>1. /\ recent \in Seq(TerminalRecord) /\ Len(recent) <= KeepTerminal
      /\ t # <<>> => Len(recent) > 0
    <2>1. KeepTerminal \in Nat \ {0} /\ Len(t) \in Nat
        BY SizesAssumption
    <2>2. /\ recent \in Seq(TerminalRecord)
          /\ Len(recent) = IF Len(t) - KeepTerminal <= 0 THEN Len(t)
                           ELSE Len(t) - (Len(t) - KeepTerminal)
        BY <2>1, DropType
    <2>3. t # <<>> => Len(t) > 0
        OBVIOUS
    <2> QED BY <2>1, <2>2, <2>3
<1>2. over <= 0 /\ over - Len(recent) <= 0
    BY <1>1, SizesAssumption
<1>3. Drop(recent, over) = recent /\ Drop(p, over - Len(recent)) = p
    BY <1>2 DEF Drop
<1>4. Trim(t, p, c) = [terminal |-> recent, pending |-> p, continuity |-> c]
    BY <1>3 DEF Trim
<1> QED BY <1>1, <1>4 DEF File

LEMMA ShortSeqType ==
    ASSUME NEW S, NEW x \in S
    PROVE  <<>> \in Seq(S) /\ <<x>> \in Seq(S) /\ <<x, x>> \in Seq(S)
OBVIOUS

LEMMA EventListsType == EventLists \subseteq Seq(Events)
<1> SUFFICES ASSUME NEW ks \in EventLists PROVE ks \in Seq(Events)
    OBVIOUS
<1>1. CASE ks = <<>>
    BY <1>1
<1>2. CASE \E k \in Events : ks = <<k>>
    BY <1>2
<1>3. CASE \E k \in Events : ks = <<k, k>>
    BY <1>3
<1> QED BY <1>1, <1>2, <1>3 DEF EventLists

LEMMA BackoffType == ASSUME NEW n \in Nat, n > 0 PROVE Backoff(n) \in Nat
<1>1. CASE n < 7
    <2>1. n \in {1, 2, 3, 4, 5, 6}
        BY <1>1
    <2> QED BY <2>1, <1>1 DEF Backoff, BackoffSeconds
<1>2. CASE ~(n < 7)
    BY <1>2 DEF Backoff, BackoffSeconds
<1> QED BY <1>1, <1>2

\* A key settled in a walk has one of the terminal statuses there.
LEMMA StatusType ==
    ASSUME NEW t \in Seq(TerminalRecord), NEW k \in Keys(t)
    PROVE  StatusIn(t, k) \in Terminal
<1>1. PICK i \in DOMAIN t : t[i].key = k
    BY DEF Keys
<1> DEFINE j == CHOOSE x \in DOMAIN t : t[x].key = k
<1>2. j \in DOMAIN t
    BY <1>1
<1>3. t[j] \in TerminalRecord
    BY <1>2
<1> QED BY <1>3 DEF StatusIn, TerminalRecord

-----------------------------------------------------------------------------
(* The walk's current record, and the running job *)

LEMMA CurrentType ==
    ASSUME IInv, pc \in {"loop", "sending"}, Position <= Len(mem.pending)
    PROVE  /\ Current \in PendingRecord /\ Current.key \in Events
           /\ At \in Nat /\ queue # <<>>
<1>1. mem.pending \in Seq(PendingRecord) /\ kept \in Seq(PendingRecord)
      /\ settled \in Seq(TerminalRecord)
    BY DEF IInv, TypeOK, File
<1>2. Position \in 1..Len(mem.pending)
    BY <1>1 DEF Position
<1>3. Current \in PendingRecord
    BY <1>1, <1>2 DEF Current
<1>4. queue # <<>> /\ Head(queue) \in Job /\ Head(queue).kind \in {"flush", "sweep"}
    BY DEF IInv, TypeOK, JobShape
<1>5. At \in Nat
    BY <1>4 DEF Job, At
<1> QED BY <1>3, <1>4, <1>5 DEF PendingRecord

-----------------------------------------------------------------------------
(* The inductive invariant, action by action *)

LEMMA EmptyFileLimits == EmptyFile \in File /\ WithinLimits(EmptyFile)
BY SizesAssumption DEF EmptyFile, File, WithinLimits, NoScope, Scope

LEMMA InitIInv == Init => IInv
<1> SUFFICES ASSUME Init PROVE IInv
    OBVIOUS
<1>1. TypeOK
    <2>1. NoEvent \in Event /\ NoScope \in Scope
        BY DEF NoEvent, Event, NoScope, Scope
    <2> QED BY <2>1, EmptyFileLimits, SinkAssumption DEF Init, TypeOK
<1>2. JobShape
    BY DEF Init, JobShape
<1> QED BY <1>1, <1>2, EmptyFileLimits DEF Init, IInv

LEMMA MutationIInv ==
    ASSUME IInv, NEW p \in Places, NEW ks \in EventLists, RuntimeMutation(p, ks)
    PROVE  IInv'
<1> DEFINE s == [live |-> live, place |-> p]
           enqueues == [i \in DOMAIN ks |-> [kind |-> "enqueue", key |-> ks[i]]]
<1> USE DEF IInv
<1>1. s \in Scope /\ EventAt(s) \in Event
    BY DEF TypeOK, Scope, EventAt, Event
<1>2. enqueues \in Seq(Job)
    <2>1. ks \in Seq(Events)
        BY EventListsType
    <2>2. DOMAIN ks = 1..Len(ks) /\ Len(ks) \in Nat /\ \A i \in DOMAIN ks : ks[i] \in Events
        BY <2>1
    <2>3. \A i \in 1..Len(ks) : [kind |-> "enqueue", key |-> ks[i]] \in Job
        BY <2>2 DEF Job
    <2> QED BY <2>2, <2>3
<1>3. ContinuityJobs(s) \in Seq(Job)
    <2>1. [kind |-> "continuity", scope |-> s] \in Job
        BY <1>1 DEF Job
    <2> HIDE DEF s
    <2> QED BY <2>1, ShortSeqType DEF ContinuityJobs
<1>4. queue' = queue \o ContinuityJobs(s) \o enqueues
    BY DEF RuntimeMutation
<1>5. /\ queue' \in Seq(Job)
      /\ queue # <<>> => queue' # <<>> /\ Head(queue') = Head(queue)
    <2> HIDE DEF enqueues
    <2>1. queue \in Seq(Job)
        BY DEF TypeOK
    <2> QED BY <1>2, <1>3, <1>4, <2>1
<1>6. TypeOK'
    BY <1>1, <1>5 DEF TypeOK, RuntimeMutation, history
<1>7. JobShape'
    BY <1>5 DEF JobShape, RuntimeMutation
<1>8. \A f \in {disk', mem', file'} : WithinLimits(f)
    BY DEF RuntimeMutation
<1> QED BY <1>6, <1>7, <1>8 DEF WithinLimits

\* The jobs: what they put into memory, and that the queue keeps its shape.
LEMMA FrameIInv ==
    ASSUME IInv, TypeOK', UNCHANGED <<outbox, up>>
    PROVE  IInv'
<1>1. UNCHANGED <<disk, mem, queue, pc, kept, settled, file, call, up>>
    BY DEF outbox
<1>2. JobShape'
    BY <1>1 DEF IInv, JobShape
<1> QED BY <1>1, <1>2 DEF IInv, WithinLimits

LEMMA FinishIInv ==
    ASSUME IInv, queue # <<>>, Finish, call = "idle",
           mem' \in {mem, file}, UNCHANGED <<disk, call, service, received, now>>,
           acked' \subseteq Events, outcome' = outcome, sends' = sends,
           crashes' = crashes, failures' \in Nat
    PROVE  IInv'
<1> USE DEF IInv
<1>1. queue' \in Seq(Job)
    BY DEF TypeOK, Finish
<1>2. TypeOK'
    BY <1>1, EmptyFileLimits DEF TypeOK, Finish, service
<1>3. JobShape'
    BY DEF JobShape, Finish, service
<1>4. \A f \in {disk', mem', file'} : WithinLimits(f)
    BY EmptyFileLimits DEF Finish
<1> QED BY <1>2, <1>3, <1>4 DEF WithinLimits

LEMMA CommitIInv ==
    ASSUME IInv, up, queue # <<>>, NEW f \in File, WithinLimits(f), CommitStarts(f),
           call = "idle", UNCHANGED <<disk, mem, call, service, received, history, now>>
    PROVE  IInv'
<1> USE DEF IInv
<1>1. TypeOK'
    BY DEF TypeOK, CommitStarts, service, history
<1>2. JobShape'
    BY DEF JobShape, CommitStarts, service
<1>3. \A g \in {disk', mem', file'} : WithinLimits(g)
    BY DEF CommitStarts
<1> QED BY <1>1, <1>2, <1>3 DEF WithinLimits

LEMMA StartContinuityIInv == ASSUME IInv, StartContinuity PROVE IInv'
<1> USE DEF IInv
<1>0. call = "idle"
    BY DEF JobShape, StartContinuity
<1>1. CASE HasRecords
    <2> DEFINE f == [mem EXCEPT !.continuity = Head(queue).scope]
    <2>1. Head(queue).scope \in Scope
        <3>1. Head(queue) \in Job /\ Head(queue).kind = "continuity"
            BY DEF StartContinuity, TypeOK
        <3> QED BY <3>1 DEF Job
    <2>2. f \in File /\ WithinLimits(f)
        BY <1>1, <2>1 DEF TypeOK, File, WithinLimits, HasRecords
    <2>3. CommitStarts(f)
        BY <1>1 DEF StartContinuity
    <2> QED BY <1>0, <2>2, <2>3, CommitIInv DEF StartContinuity
<1>2. CASE ~HasRecords
    <2>1. Finish
        BY <1>2 DEF StartContinuity
    <2> QED BY <1>0, <2>1, FinishIInv DEF StartContinuity, TypeOK, history
<1> QED BY <1>1, <1>2

LEMMA StartEnqueueIInv == ASSUME IInv, StartEnqueue PROVE IInv'
<1> DEFINE k   == Head(queue).key
           new == [key |-> k, attempts |-> 0, nextAt |-> event[k].at]
           f   == Trim(mem.terminal, Append(mem.pending, new), event[k].scope)
<1> USE DEF IInv
<1>1. k \in Events /\ event[k] \in Event /\ new \in PendingRecord
    <2>1. k \in Events
        <3>1. Head(queue) \in Job /\ Head(queue).kind = "enqueue"
            BY DEF StartEnqueue, TypeOK
        <3> QED BY <3>1 DEF Job
    <2> QED BY <2>1 DEF TypeOK, Event, PendingRecord
<1>2. call = "idle"
    BY DEF JobShape, StartEnqueue
<1>3. CASE Finish
    BY <1>2, <1>3, FinishIInv DEF StartEnqueue, TypeOK, history
<1>4. CASE Len(mem.pending) < MaxPending /\ CommitStarts(f)
    <2>1. /\ mem.terminal \in Seq(TerminalRecord) /\ mem.pending \in Seq(PendingRecord)
          /\ event[k].scope \in Scope
        BY <1>1 DEF TypeOK, File, Event
    <2>2. /\ Append(mem.pending, new) \in Seq(PendingRecord)
          /\ Append(mem.pending, new) # <<>>
          /\ Len(Append(mem.pending, new)) <= MaxPending
        <3> HIDE DEF k, new
        <3> QED BY <1>1, <1>4, <2>1, SizesAssumption, SMTT(20)
    <2>3. f \in File /\ WithinLimits(f)
        <3> DEFINE p == Append(mem.pending, new)
                   c == event[k].scope
        <3>1. /\ f = Trim(mem.terminal, p, c)
              /\ p \in Seq(PendingRecord) /\ Len(p) <= MaxPending /\ p # <<>>
              /\ c \in Scope
            BY <2>1, <2>2
        <3> HIDE DEF f, p, c
        <3>2. f \in File /\ f.pending = p /\ Len(f.terminal) <= KeepTerminal
            BY <2>1, <3>1, TrimLimits
        <3> QED BY <3>1, <3>2 DEF WithinLimits
    <2> QED BY <1>2, <1>4, <2>3, CommitIInv DEF StartEnqueue
<1>5. Finish \/ (Len(mem.pending) < MaxPending /\ CommitStarts(f))
    <2>1. Len(mem.pending) \in Nat /\ MaxPending \in Nat
        BY SizesAssumption DEF TypeOK, File
    <2> QED BY <2>1 DEF StartEnqueue
<1> QED BY <1>3, <1>4, <1>5

\* The walk: every pending record goes to exactly one of kept and settled.
LEMMA StartWalkIInv == ASSUME IInv, StartWalk PROVE IInv'
<1> USE DEF IInv
<1>1. TypeOK'
    BY DEF TypeOK, StartWalk, service, history
<1>2. Len(mem.pending) \in Nat
    BY DEF TypeOK, File
<1>3. JobShape'
    BY <1>2 DEF JobShape, StartWalk, service
<1>4. UNCHANGED <<disk, mem, file>>
    BY DEF StartWalk
<1> QED BY <1>1, <1>3, <1>4 DEF WithinLimits

WalkStep == WalkRetires \/ WalkKeeps \/ WalkSends \/ SinkAnswers \/ SinkFails

LEMMA WalkStepIInv == ASSUME IInv, WalkStep PROVE IInv'
<1> USE DEF IInv
<1>1. /\ pc \in {"loop", "sending"} /\ Position <= Len(mem.pending) /\ up
      /\ kept \in Seq(PendingRecord) /\ settled \in Seq(TerminalRecord)
      /\ Len(kept) \in Nat /\ Len(settled) \in Nat /\ Len(mem.pending) \in Nat
    BY DEF WalkStep, WalkRetires, WalkKeeps, WalkSends, SinkAnswers, SinkFails,
           Walking, GivesUp, Position, JobShape, TypeOK, File
<1>2. /\ Current \in PendingRecord /\ Current.key \in Events
      /\ At \in Nat /\ queue # <<>>
    BY <1>1, CurrentType
<1>3. /\ \/ kept' = kept
         \/ \E r \in PendingRecord : kept' = Append(kept, r)
      /\ \/ settled' = settled
         \/ \E r \in TerminalRecord : settled' = Append(settled, r)
      /\ kept' = kept \/ settled' = settled
      /\ pc' = "sending" => kept' = kept /\ settled' = settled /\ call' = "sent"
      /\ pc' \in {"loop", "sending"} /\ call' \in {"idle", "sent"}
      /\ (call' # "idle") = (pc' = "sending")
    <2>1. ASSUME NEW x \in Terminal
          PROVE  [key |-> Current.key, status |-> x] \in TerminalRecord
        BY <1>2 DEF TerminalRecord
    <2>2. Retried(Current) \in PendingRecord
        <3>1. Current.attempts \in Nat /\ Backoff(Current.attempts + 1) \in Nat
            BY <1>2, BackoffType DEF PendingRecord
        <3> QED BY <1>2, <3>1 DEF Retried, PendingRecord
    <2>3. CASE WalkRetires
        BY <2>1, <2>3, <1>2 DEF WalkRetires, Settle, Terminal, Walking, JobShape
    <2>4. CASE WalkKeeps
        BY <2>4, <1>2 DEF WalkKeeps, Walking, JobShape
    <2>5. CASE WalkSends
        BY <2>5, <1>2 DEF WalkSends, Walking, JobShape
    <2>6. CASE SinkAnswers
        BY <2>1, <2>6, <1>2 DEF SinkAnswers, Settle, Terminal, JobShape
    <2>7. CASE SinkFails
        BY <2>2, <2>7, <1>2 DEF SinkFails, JobShape
    <2> QED BY <2>3, <2>4, <2>5, <2>6, <2>7 DEF WalkStep
<1>4. /\ UNCHANGED <<disk, mem, queue, file, service, acked, outcome, crashes, failures, now>>
      /\ sends' \in [Events -> Nat] /\ received' \subseteq Events
    <2>1. sends \in [Events -> Nat] /\ received \subseteq Events
        BY DEF TypeOK
    <2> QED BY <1>2, <2>1 DEF WalkStep, WalkRetires, WalkKeeps, WalkSends, SinkAnswers,
                              SinkFails, RequestMayArrive, Settle, history
<1>5. /\ kept' \in Seq(PendingRecord) /\ settled' \in Seq(TerminalRecord)
      /\ Len(kept') + Len(settled') <= Len(kept) + Len(settled) + 1
      /\ pc' = "sending" => Len(kept') + Len(settled') = Len(kept) + Len(settled)
    <2>1. /\ kept' \in Seq(PendingRecord)
          /\ Len(kept') = Len(kept) \/ Len(kept') = Len(kept) + 1
        <3>1. ASSUME NEW r \in PendingRecord, kept' = Append(kept, r)
              PROVE  kept' \in Seq(PendingRecord) /\ Len(kept') = Len(kept) + 1
            BY <1>1, <3>1
        <3> QED BY <1>1, <1>3, <3>1
    <2>2. /\ settled' \in Seq(TerminalRecord)
          /\ Len(settled') = Len(settled) \/ Len(settled') = Len(settled) + 1
        <3>1. ASSUME NEW r \in TerminalRecord, settled' = Append(settled, r)
              PROVE  settled' \in Seq(TerminalRecord) /\ Len(settled') = Len(settled) + 1
            BY <1>1, <3>1
        <3> QED BY <1>1, <1>3, <3>1
    <2> QED BY <1>1, <1>3, <2>1, <2>2
<1>6. TypeOK'
    BY <1>3, <1>4, <1>5 DEF TypeOK, service
<1>7. JobShape'
    <2>1. Head(queue').kind \in {"flush", "sweep"}
        BY <1>1, <1>4 DEF JobShape
    <2>2. Len(kept) + Len(settled) < Len(mem.pending)
        BY <1>1 DEF Position
    <2>3. Len(kept') \in Nat /\ Len(settled') \in Nat
        BY <1>5
    <2> QED BY <1>1, <1>2, <1>3, <1>4, <1>5, <2>1, <2>2, <2>3 DEF JobShape, service
<1> QED BY <1>4, <1>6, <1>7 DEF WithinLimits

LEMMA ReceiverHandlesIInv == ASSUME IInv, ReceiverHandles PROVE IInv'
<1> USE DEF IInv
<1>1. pc = "sending" /\ Position <= Len(mem.pending)
    BY DEF ReceiverHandles, JobShape, TypeOK, File, Position
<1>2. Current.key \in Events
    BY <1>1, CurrentType
<1>3. TypeOK'
    BY <1>2 DEF ReceiverHandles, TypeOK, service, history
<1>4. JobShape'
    BY <1>1 DEF ReceiverHandles, JobShape, service
<1> QED BY <1>3, <1>4 DEF ReceiverHandles, WithinLimits

LEMMA WalkEndsIInv == ASSUME IInv, WalkEnds PROVE IInv'
<1> USE DEF IInv
<1> DEFINE t == mem.terminal \o settled
           f == Trim(t, kept, mem.continuity)
<1>1. /\ mem.terminal \in Seq(TerminalRecord) /\ mem.pending \in Seq(PendingRecord)
      /\ settled \in Seq(TerminalRecord) /\ kept \in Seq(PendingRecord)
      /\ mem.continuity \in Scope
    BY DEF TypeOK, File
<1>2. call = "idle" /\ queue # <<>>
    BY DEF JobShape, WalkEnds
<1>3. CASE Finish
    BY <1>2, <1>3, FinishIInv DEF WalkEnds, TypeOK, history
<1>4. CASE CommitStarts(f)
    <2>1. Len(kept) + Len(settled) = Len(mem.pending)
        <3>1. /\ Len(kept) \in Nat /\ Len(settled) \in Nat
              /\ Len(mem.pending) \in Nat
            BY <1>1
        <3>2. /\ Len(kept) + Len(settled) <= Len(mem.pending)
              /\ Len(kept) + Len(settled) + 1 > Len(mem.pending)
            BY DEF WalkEnds, JobShape, Position
        <3> QED BY <3>1, <3>2
    <2>2. Len(mem.pending) <= MaxPending /\ MaxPending \in Nat
        BY SizesAssumption DEF WithinLimits
    <2>3. Len(kept) <= MaxPending /\ t \in Seq(TerminalRecord)
        BY <1>1, <2>1, <2>2
    <2>4. mem.continuity # NoScope => t # <<>> \/ kept # <<>>
        <3> SUFFICES ASSUME mem.continuity # NoScope, kept = <<>> PROVE t # <<>>
            OBVIOUS
        <3>1. mem.terminal # <<>> \/ mem.pending # <<>>
            BY DEF WithinLimits
        <3>2. Len(mem.terminal) > 0 \/ Len(settled) > 0
            BY <1>1, <2>1, <3>1
        <3> QED BY <1>1, <3>2
    <2>5. f \in File /\ WithinLimits(f)
        <3> HIDE DEF t
        <3> QED BY <1>1, <2>3, <2>4, <2>2, TrimLimits DEF WithinLimits
    <2> QED BY <1>2, <1>4, <2>5, CommitIInv DEF WalkEnds
<1> QED BY <1>3, <1>4 DEF WalkEnds

LEMMA ReplaceIInv == ASSUME IInv, Replace PROVE IInv'
<1> USE DEF IInv
<1>1. outcome' \in [Events -> Terminal \cup {"none"}]
    <2>1. settled \in Seq(TerminalRecord) /\ outcome \in [Events -> Terminal \cup {"none"}]
        BY DEF TypeOK
    <2> QED BY <2>1, StatusType DEF Replace
<1>2. TypeOK'
    BY <1>1 DEF TypeOK, Replace, service
<1>3. JobShape'
    BY DEF JobShape, Replace, service
<1> QED BY <1>2, <1>3 DEF Replace, WithinLimits

LEMMA ReplaceFailsIInv == ASSUME IInv, ReplaceFails PROVE IInv'
BY FinishIInv DEF IInv, ReplaceFails, JobShape, TypeOK

LEMMA InstallIInv == ASSUME IInv, Install PROVE IInv'
<1> USE DEF IInv
<1>1. queue # <<>> /\ call = "idle"
    BY DEF Install, JobShape
<1>2. acked' \subseteq Events
    <2>1. Head(queue) \in Job
        BY <1>1 DEF TypeOK
    <2>2. Head(queue).kind = "enqueue" => Head(queue).key \in Events
        BY <2>1 DEF Job
    <2> QED BY <2>2 DEF Install, TypeOK
<1> QED BY <1>1, <1>2, FinishIInv DEF Install, TypeOK

LEMMA RetryTimerIInv == ASSUME IInv, RetryTimer PROVE IInv'
<1> USE DEF IInv
<1> DEFINE job == [kind |-> IF sink THEN "flush" ELSE "sweep", at |-> now]
<1>1. job \in Job /\ queue' = Append(queue, job)
    BY DEF RetryTimer, TypeOK, Job
<1>2. /\ queue' \in Seq(Job) /\ queue' # <<>>
      /\ queue # <<>> => Head(queue') = Head(queue)
    <2> HIDE DEF job
    <2> QED BY <1>1 DEF TypeOK
<1>3. TypeOK'
    BY <1>2 DEF TypeOK, RetryTimer, service, history
<1>4. JobShape'
    BY <1>2 DEF JobShape, RetryTimer, service
<1> QED BY <1>3, <1>4 DEF RetryTimer, WithinLimits

LEMMA CrashIInv == ASSUME IInv, Crash PROVE IInv'
<1> USE DEF IInv
<1>1. received' \subseteq Events
    <2>1. CASE call = "sent"
        <3>1. pc = "sending" /\ Position <= Len(mem.pending)
            BY <2>1 DEF JobShape, TypeOK, File, Position
        <3> QED BY <3>1, CurrentType DEF Crash, RequestMayArrive, TypeOK
    <2> QED BY <2>1 DEF Crash, RequestMayArrive, TypeOK
<1>2. TypeOK'
    <2>1. NoScope \in Scope
        BY DEF NoScope, Scope
    <2>2. <<>> \in Seq(Job) /\ <<>> \in Seq(PendingRecord) /\ <<>> \in Seq(TerminalRecord)
        OBVIOUS
    <2>3. /\ UNCHANGED <<disk, event, producer, live, sink, acked, outcome, sends,
                         failures, now>>
          /\ crashes' = crashes + 1 /\ up' = FALSE /\ place' = NoPlace
        BY DEF Crash
    <2>4. crashes' \in Nat
        BY <2>3 DEF TypeOK
    <2> QED BY <1>1, <2>1, <2>2, <2>3, <2>4, EmptyFileLimits DEF Crash, TypeOK
<1>3. JobShape'
    BY DEF JobShape, Crash
<1> QED BY <1>2, <1>3, EmptyFileLimits DEF Crash, WithinLimits

LEMMA RestartIInv == ASSUME IInv, Restart PROVE IInv'
<1> USE DEF IInv
<1>1. disk.continuity \in Scope
    BY DEF TypeOK, File
<1>2. TypeOK'
    BY <1>1, SinkAssumption DEF Restart, TypeOK, Scope, history
<1>3. JobShape'
    BY DEF JobShape, Restart
<1> QED BY <1>2, <1>3 DEF Restart, WithinLimits

-----------------------------------------------------------------------------

THEOREM IInvInductive == Init /\ [][Next]_vars => []IInv
<1>1. ASSUME IInv, [Next]_vars PROVE IInv'
    <2>1. ASSUME NEW p \in Places, ContextChanges(p) PROVE IInv'
        <3>1. TypeOK'
            BY <1>1, <2>1 DEF IInv, ContextChanges, TypeOK, outbox, history
        <3> QED BY <1>1, <2>1, <3>1, FrameIInv DEF ContextChanges
    <2>2. CASE Tick
        <3>1. TypeOK'
            BY <1>1, <2>2 DEF IInv, Tick, TypeOK, outbox, service, history
        <3> QED BY <1>1, <2>2, <3>1, FrameIInv DEF Tick, service
    <2>3. CASE UNCHANGED vars
        <3>1. TypeOK'
            BY <1>1, <2>3 DEF IInv, TypeOK, vars, outbox, service, history
        <3> QED BY <1>1, <2>3, <3>1, FrameIInv DEF vars, service
    <2>4. CASE Service
        BY <2>1, <2>4, <1>1, MutationIInv, RetryTimerIInv DEF Service
    <2>5. CASE Jobs
        BY <2>5, <1>1, StartContinuityIInv, StartEnqueueIInv, StartWalkIInv, WalkStepIInv,
           WalkEndsIInv, ReplaceIInv, InstallIInv DEF Jobs, Walk, WalkStep
    <2> QED BY <1>1, <2>2, <2>3, <2>4, <2>5, ReceiverHandlesIInv, ReplaceFailsIInv,
               CrashIInv, RestartIInv DEF Next
<1> QED BY <1>1, InitIInv, PTL

\* Every value the program holds has the type the code gives it.
THEOREM TypeCorrect == Spec => []TypeOK
<1>1. IInv => TypeOK
    BY DEF IInv
<1> QED BY <1>1, IInvInductive, PTL DEF Spec

\* Whatever was committed, and wherever the process died, load accepts the file.
THEOREM FileAlwaysLoadable == Spec => []AlwaysLoadable
<1>1. IInv => AlwaysLoadable
    <2> SUFFICES ASSUME IInv PROVE Loadable(disk)
        BY DEF AlwaysLoadable
    <2>1. WithinLimits(disk)
        BY DEF IInv
    <2>5. Len(disk.pending) \in Nat /\ Len(disk.terminal) \in Nat
        BY DEF IInv, TypeOK, File
    <2>3. Len(disk.pending) <= MaxPending /\ Len(disk.terminal) <= KeepTerminal
        BY <2>1 DEF WithinLimits
    <2>4. Len(disk.terminal) + Len(disk.pending) <= MaxRecords
        BY <2>3, <2>5, SizesSum
    <2> QED BY <2>1, <2>4 DEF WithinLimits, Loadable
<1> QED BY <1>1, IInvInductive, PTL DEF Spec

-----------------------------------------------------------------------------
(* How the documents, the walk and the queue are related *)

Derived(k) == event[k] # NoEvent

RunningIs(kinds) == queue # <<>> /\ Head(queue).kind \in kinds

Enqueues(q, i) == q[i].kind = "enqueue"

WalkedKeys == {mem.pending[i].key : i \in 1..(Len(kept) + Len(settled))}

\* Only between the replacement and its installation do file and memory differ.
DiskIsMemory == up => IF pc = "install" THEN disk = file ELSE mem = disk

\* What was queued and asked for is gone with the process.
DeadHoldsNothing == ~up => queue = <<>> /\ requested = NoScope

\* The walk puts every record it has passed into one of its two lists.
WalkCovers ==
    /\ pc = "idle" => kept = <<>> /\ settled = <<>>
    /\ pc \in {"loop", "sending"} => Keys(kept) \cup Keys(settled) = WalkedKeys

\* What each job's document says, compared with the memory it was made from.
DocumentOfJob ==
    pc \in {"replace", "install"} =>
        \/ /\ RunningIs({"continuity"}) /\ settled = <<>> /\ HasRecords
           /\ file.pending = mem.pending /\ file.continuity = Head(queue).scope
        \/ /\ RunningIs({"enqueue"}) /\ settled = <<>>
           /\ Head(queue).key \notin Keys(mem.pending)
           /\ file.pending = Append(mem.pending, [key |-> Head(queue).key, attempts |-> 0,
                                                  nextAt |-> event[Head(queue).key].at])
           /\ file.continuity = event[Head(queue).key].scope
        \/ /\ RunningIs({"flush", "sweep"}) /\ HasRecords
           /\ file.pending = kept /\ Keys(kept) \cup Keys(settled) = Keys(mem.pending)
           /\ file.continuity = mem.continuity

AcceptedWasReceived ==
    /\ \A i \in DOMAIN settled : settled[i].status = "accepted" => settled[i].key \in received
    /\ call = "accepted" => Current.key \in received

\* The event of a queued enqueue was never sent or settled; only the job that is
\* running may find its record in the memory: its twin put it there just before.
QueuedIsFresh ==
    \A i \in DOMAIN queue : Enqueues(queue, i) =>
        /\ Derived(queue[i].key)
        /\ sends[queue[i].key] = 0 /\ outcome[queue[i].key] = "none"
        /\ queue[i].key \in Keys(mem.pending) => i = 1

TwinsAreAdjacent ==
    \A i, j \in DOMAIN queue :
        i < j /\ Enqueues(queue, i) /\ Enqueues(queue, j) /\ queue[i].key = queue[j].key
            => j = i + 1

\* An event has been derived before any record or answer names it.
KnownWasDerived ==
    /\ \A k \in Keys(disk.pending) \cup Keys(mem.pending) : Derived(k)
    /\ \A k \in Events : sends[k] > 0 \/ outcome[k] # "none" => Derived(k)

\* The inductive invariant of the delivery; IInv is proved before it.
DInv ==
    /\ DiskIsMemory /\ WalkCovers /\ DocumentOfJob /\ AcceptedWasReceived
    /\ QueuedIsFresh /\ TwinsAreAdjacent /\ KnownWasDerived /\ AckedNeverLost

-----------------------------------------------------------------------------
(* Sequences *)

LEMMA KeysAppend ==
    ASSUME NEW S, NEW s \in Seq(S), NEW r
    PROVE  Keys(Append(s, r)) = Keys(s) \cup {r.key}
<1>1. /\ DOMAIN Append(s, r) = 1..(Len(s) + 1) /\ DOMAIN s = 1..Len(s) /\ Len(s) \in Nat
      /\ Append(s, r)[Len(s) + 1] = r
      /\ \A i \in 1..Len(s) : Append(s, r)[i] = s[i]
    OBVIOUS
<1>2. ASSUME NEW k \in Keys(Append(s, r)) PROVE k \in Keys(s) \cup {r.key}
    <2>1. PICK i \in DOMAIN Append(s, r) : k = Append(s, r)[i].key
        BY <1>2 DEF Keys
    <2>2. i = Len(s) + 1 \/ i \in 1..Len(s)
        BY <1>1, <2>1
    <2> QED BY <1>1, <2>1, <2>2 DEF Keys
<1>3. ASSUME NEW k \in Keys(s) \cup {r.key} PROVE k \in Keys(Append(s, r))
    <2>1. CASE k \in Keys(s)
        <3>1. PICK i \in DOMAIN s : k = s[i].key
            BY <2>1 DEF Keys
        <3>2. i \in DOMAIN Append(s, r) /\ Append(s, r)[i].key = k
            BY <1>1, <3>1
        <3> QED BY <3>2 DEF Keys
    <2>2. CASE k = r.key
        <3>1. Len(s) + 1 \in DOMAIN Append(s, r)
            BY <1>1
        <3> QED BY <1>1, <2>2, <3>1 DEF Keys
    <2> QED BY <1>3, <2>1, <2>2
<1> QED BY <1>2, <1>3

LEMMA EmptyKeys == Keys(<<>>) = {}
BY DEF Keys

LEMMA KeysType ==
    ASSUME NEW s, s \in Seq(PendingRecord) \/ s \in Seq(TerminalRecord)
    PROVE  Keys(s) \subseteq Events
<1>1. ASSUME s \in Seq(PendingRecord), NEW i \in DOMAIN s PROVE s[i].key \in Events
    <2>1. s[i] \in PendingRecord
        BY <1>1
    <2> QED BY <2>1 DEF PendingRecord
<1>2. ASSUME s \in Seq(TerminalRecord), NEW i \in DOMAIN s PROVE s[i].key \in Events
    <2>1. s[i] \in TerminalRecord
        BY <1>2
    <2> QED BY <2>1 DEF TerminalRecord
<1>3. \A i \in DOMAIN s : s[i].key \in Events
    BY <1>1, <1>2
<1> QED BY <1>3 DEF Keys

LEMMA ConcatIndex ==
    ASSUME NEW S, NEW a \in Seq(S), NEW b \in Seq(S)
    PROVE  /\ a \o b \in Seq(S) /\ Len(a \o b) = Len(a) + Len(b)
           /\ Len(a) \in Nat /\ Len(b) \in Nat /\ DOMAIN a = 1..Len(a)
           /\ \A i \in 1..Len(a) : (a \o b)[i] = a[i]
           /\ \A i \in 1..Len(b) : (a \o b)[Len(a) + i] = b[i]
<1>1. /\ a \o b \in Seq(S) /\ Len(a \o b) = Len(a) + Len(b)
      /\ Len(a) \in Nat /\ Len(b) \in Nat /\ DOMAIN a = 1..Len(a)
    OBVIOUS
<1>2. \A i \in 1..Len(a) : (a \o b)[i] = a[i]
    OBVIOUS
<1>3. ASSUME NEW i \in 1..Len(b) PROVE (a \o b)[Len(a) + i] = b[i]
    <2>1. Len(a) + i \in 1..(Len(a) + Len(b)) /\ ~(Len(a) + i <= Len(a))
          /\ (Len(a) + i) - Len(a) = i
        BY <1>1
    <2> QED BY <1>1, <2>1
<1> QED BY <1>1, <1>2, <1>3

LEMMA TailIndex ==
    ASSUME NEW S, NEW q \in Seq(S), q # <<>>
    PROVE  /\ DOMAIN q = 1..Len(q) /\ Len(q) \in Nat /\ 1 \in DOMAIN q /\ q[1] = Head(q)
           /\ \A i \in DOMAIN Tail(q) :
                i \in Nat /\ i >= 1 /\ i + 1 \in DOMAIN q /\ Tail(q)[i] = q[i + 1]
<1>1. Len(q) \in Nat /\ Len(q) > 0 /\ DOMAIN q = 1..Len(q)
    OBVIOUS
<1>2. Tail(q) \in Seq(S) /\ Len(Tail(q)) = Len(q) - 1
    OBVIOUS
<1>3. DOMAIN Tail(q) = 1..(Len(q) - 1)
    BY <1>2
<1>4. \A i \in DOMAIN Tail(q) : Tail(q)[i] = q[i + 1]
    BY <1>1, <1>3
<1> QED BY <1>1, <1>3, <1>4

\* The status a walk settled a key with is that of one of its entries.
LEMMA StatusOfEntry ==
    ASSUME NEW t, NEW k \in Keys(t)
    PROVE  \E j \in DOMAIN t : t[j].key = k /\ StatusIn(t, k) = t[j].status
<1>1. PICK i \in DOMAIN t : t[i].key = k
    BY DEF Keys
<1> QED BY <1>1 DEF StatusIn

-----------------------------------------------------------------------------
(* The invariant of the delivery, action by action *)

LEMMA InitDInv == Init => DInv
<1> SUFFICES ASSUME Init PROVE DInv
    OBVIOUS
<1>1. /\ queue = <<>> /\ kept = <<>> /\ settled = <<>> /\ pc = "idle" /\ call = "idle"
      /\ mem = EmptyFile /\ disk = EmptyFile /\ acked = {}
      /\ \A k \in Events : sends[k] = 0 /\ outcome[k] = "none"
    BY DEF Init
<1>2. Keys(disk.pending) = {} /\ Keys(mem.pending) = {} /\ DOMAIN queue = {} /\ DOMAIN settled = {}
    BY <1>1, EmptyKeys DEF EmptyFile
<1> QED BY <1>1, <1>2 DEF DInv, DiskIsMemory, WalkCovers, DocumentOfJob, AcceptedWasReceived,
                          QueuedIsFresh, TwinsAreAdjacent, KnownWasDerived, AckedNeverLost

\* What depends on neither the queue nor the events stays, with its variables.
LEMMA DocumentsStay ==
    ASSUME DInv, UNCHANGED <<disk, mem, pc, kept, settled, file, call, up, received,
                             acked, outcome, sends>>
    PROVE  DiskIsMemory' /\ WalkCovers' /\ AcceptedWasReceived' /\ AckedNeverLost'
BY DEF DInv, DiskIsMemory, WalkCovers, WalkedKeys, AcceptedWasReceived, Current, Position,
       AckedNeverLost

LEMMA FrameDInv ==
    ASSUME DInv, UNCHANGED <<outbox, up, event, received, acked, outcome, sends>>
    PROVE  DInv'
<1>1. UNCHANGED <<disk, mem, queue, pc, kept, settled, file, call>>
    BY DEF outbox
<1>2. DocumentOfJob' /\ QueuedIsFresh' /\ TwinsAreAdjacent' /\ KnownWasDerived'
    BY <1>1 DEF DInv, DocumentOfJob, RunningIs, HasRecords, QueuedIsFresh, TwinsAreAdjacent,
                KnownWasDerived, Enqueues, Derived
<1> QED BY <1>1, <1>2, DocumentsStay DEF DInv

\* The queue after its first job is gone.
LEMMA QueueTail ==
    ASSUME IInv, DInv, queue # <<>>, queue' = Tail(queue), UNCHANGED <<event, sends, outcome>>,
           \A i \in DOMAIN queue :
              i > 1 /\ Enqueues(queue, i) /\ queue[i].key \in Keys(mem.pending)' => i = 2
    PROVE  QueuedIsFresh' /\ TwinsAreAdjacent'
<1>1. queue \in Seq(Job)
    BY DEF IInv, TypeOK
<1>2. \A i \in DOMAIN queue' :
          i \in Nat /\ i >= 1 /\ i + 1 \in DOMAIN queue /\ queue'[i] = queue[i + 1]
    BY <1>1, TailIndex
<1>3. QueuedIsFresh'
    <2> SUFFICES ASSUME NEW i \in DOMAIN queue', Enqueues(queue', i)
                 PROVE  /\ event'[queue'[i].key] # NoEvent
                        /\ sends'[queue'[i].key] = 0 /\ outcome'[queue'[i].key] = "none"
                        /\ queue'[i].key \in Keys(mem.pending)' => i = 1
        BY DEF QueuedIsFresh, Enqueues, Derived
    <2>1. i + 1 \in DOMAIN queue /\ queue'[i] = queue[i + 1] /\ Enqueues(queue, i + 1)
          /\ i \in Nat /\ i >= 1
        BY <1>2 DEF Enqueues
    <2>2. i + 1 > 1 /\ (i + 1 = 2 => i = 1)
        BY <2>1
    <2> QED BY <2>1, <2>2 DEF DInv, QueuedIsFresh, Derived
<1>4. TwinsAreAdjacent'
    <2> SUFFICES ASSUME NEW i \in DOMAIN queue', NEW j \in DOMAIN queue', i < j,
                        Enqueues(queue', i), Enqueues(queue', j), queue'[i].key = queue'[j].key
                 PROVE  j = i + 1
        BY DEF TwinsAreAdjacent, Enqueues
    <2>1. /\ i + 1 \in DOMAIN queue /\ queue'[i] = queue[i + 1] /\ i \in Nat
          /\ j + 1 \in DOMAIN queue /\ queue'[j] = queue[j + 1] /\ j \in Nat
        BY <1>2
    <2>2. i + 1 < j + 1 /\ Enqueues(queue, i + 1) /\ Enqueues(queue, j + 1)
        BY <2>1 DEF Enqueues
    <2>3. j + 1 = (i + 1) + 1
        BY <2>1, <2>2 DEF DInv, TwinsAreAdjacent
    <2> QED BY <2>1, <2>3
<1> QED BY <1>3, <1>4

\* A job that ends without a document.
LEMMA FinishDInv ==
    ASSUME IInv, DInv, queue # <<>>, Finish, up, pc # "install", call = "idle",
           UNCHANGED <<disk, mem, call, service, received, acked, outcome, sends>>
    PROVE  DInv'
<1>1. UNCHANGED <<event, up>>
    BY DEF service
<1>2. QueuedIsFresh' /\ TwinsAreAdjacent'
    <2>1. \A i \in DOMAIN queue :
              i > 1 /\ Enqueues(queue, i) /\ queue[i].key \in Keys(mem.pending)' => i = 2
        BY DEF DInv, QueuedIsFresh
    <2> QED BY <1>1, <2>1, QueueTail DEF Finish
<1>3. /\ pc' = "idle" /\ kept' = <<>> /\ settled' = <<>>
    BY DEF Finish
<1>4. DiskIsMemory' /\ WalkCovers' /\ DocumentOfJob'
    BY <1>1, <1>3 DEF DInv, DiskIsMemory, WalkCovers, DocumentOfJob
<1>5. AcceptedWasReceived' /\ KnownWasDerived' /\ AckedNeverLost'
    BY <1>1, <1>3 DEF DInv, AcceptedWasReceived, KnownWasDerived, AckedNeverLost, Derived
<1> QED BY <1>2, <1>4, <1>5 DEF DInv

\* A job that goes on to write a document.
LEMMA CommitDInv ==
    ASSUME DInv, NEW f, CommitStarts(f), pc # "install", call = "idle", DocumentOfJob',
           UNCHANGED <<disk, mem, call, service, received, history>>
    PROVE  DInv'
<1>1. /\ UNCHANGED <<event, up, queue, kept, settled, acked, outcome, sends>> /\ pc' = "replace"
    BY DEF service, history, CommitStarts
<1>2. DiskIsMemory' /\ WalkCovers' /\ AcceptedWasReceived' /\ AckedNeverLost'
    BY <1>1 DEF DInv, DiskIsMemory, WalkCovers, AcceptedWasReceived, AckedNeverLost
<1>3. QueuedIsFresh' /\ TwinsAreAdjacent' /\ KnownWasDerived'
    BY <1>1 DEF DInv, QueuedIsFresh, TwinsAreAdjacent, KnownWasDerived, Derived, Enqueues
<1> QED BY <1>2, <1>3 DEF DInv

LEMMA StartContinuityDInv == ASSUME IInv, DInv, StartContinuity PROVE DInv'
<1>1. call = "idle" /\ settled = <<>> /\ pc = "idle" /\ up /\ queue # <<>>
    BY DEF IInv, JobShape, StartContinuity, DInv, WalkCovers
<1>2. CASE HasRecords
    <2> DEFINE f == [mem EXCEPT !.continuity = Head(queue).scope]
    <2>1. CommitStarts(f)
        BY <1>2 DEF StartContinuity
    <2>2. f.pending = mem.pending /\ f.continuity = Head(queue).scope
        BY DEF IInv, TypeOK, File
    <2>3. DocumentOfJob'
        BY <1>1, <1>2, <2>1, <2>2
           DEF DocumentOfJob, RunningIs, HasRecords, StartContinuity, CommitStarts
    <2> HIDE DEF f
    <2> QED BY <1>1, <2>1, <2>3, CommitDInv DEF StartContinuity
<1>3. CASE ~HasRecords
    BY <1>1, <1>3, FinishDInv DEF StartContinuity, history
<1> QED BY <1>2, <1>3

LEMMA StartEnqueueDInv == ASSUME IInv, DInv, StartEnqueue PROVE DInv'
<1> DEFINE k   == Head(queue).key
           new == [key |-> k, attempts |-> 0, nextAt |-> event[k].at]
           p   == Append(mem.pending, new)
           f   == Trim(mem.terminal, p, event[k].scope)
<1>1. call = "idle" /\ settled = <<>> /\ pc = "idle" /\ up /\ queue # <<>>
    BY DEF IInv, JobShape, StartEnqueue, DInv, WalkCovers
<1>2. CASE Finish
    BY <1>1, <1>2, FinishDInv DEF StartEnqueue, history
<1>3. CASE /\ k \notin Keys(mem.pending) /\ ~(Len(mem.pending) >= MaxPending)
           /\ CommitStarts(f)
    <2>1. f.pending = p /\ f.continuity = event[k].scope
        <3>1. k \in Events
            <4>1. Head(queue) \in Job /\ Head(queue).kind = "enqueue"
                BY DEF StartEnqueue, IInv, TypeOK
            <4> QED BY <4>1 DEF Job
        <3>2. /\ mem.terminal \in Seq(TerminalRecord) /\ mem.pending \in Seq(PendingRecord)
              /\ event[k].scope \in Scope /\ new \in PendingRecord
            BY <3>1 DEF IInv, TypeOK, File, Event, PendingRecord
        <3>3. p \in Seq(PendingRecord) /\ Len(p) <= MaxPending
            <4> HIDE DEF k, new
            <4> QED BY <1>3, <3>2, SizesAssumption
        <3> HIDE DEF p, k
        <3> QED BY <3>2, <3>3, TrimLimits
    <2>2. DocumentOfJob'
        BY <1>1, <1>3, <2>1
           DEF DocumentOfJob, RunningIs, StartEnqueue, CommitStarts, service
    <2> HIDE DEF f
    <2> QED BY <1>1, <1>3, <2>2, CommitDInv DEF StartEnqueue
<1> QED BY <1>2, <1>3 DEF StartEnqueue

LEMMA StartWalkDInv == ASSUME IInv, DInv, StartWalk PROVE DInv'
<1>1. /\ UNCHANGED <<disk, mem, queue, event, up, call, received, acked, outcome, sends>>
      /\ pc = "idle" /\ pc' = "loop" /\ kept' = <<>> /\ settled' = <<>> /\ call = "idle"
    BY DEF StartWalk, service, history, IInv, JobShape
<1>2. WalkCovers'
    <2>1. WalkedKeys' = {}
        BY <1>1 DEF WalkedKeys
    <2> QED BY <1>1, <2>1, EmptyKeys DEF WalkCovers
<1>3. DiskIsMemory' /\ DocumentOfJob' /\ AcceptedWasReceived' /\ AckedNeverLost'
    BY <1>1 DEF DInv, DiskIsMemory, DocumentOfJob, AcceptedWasReceived, AckedNeverLost
<1>4. QueuedIsFresh' /\ TwinsAreAdjacent' /\ KnownWasDerived'
    BY <1>1 DEF DInv, QueuedIsFresh, TwinsAreAdjacent, KnownWasDerived, Derived, Enqueues
<1> QED BY <1>2, <1>3, <1>4 DEF DInv

\* The record the walk is at: known, derived, and the subject of no queued enqueue.
LEMMA CurrentIsKnown ==
    ASSUME IInv, DInv, pc \in {"loop", "sending"}, Position <= Len(mem.pending)
    PROVE  /\ Position \in 1..Len(mem.pending) /\ Position = Len(kept) + Len(settled) + 1
           /\ Len(kept) \in Nat /\ Len(settled) \in Nat
           /\ Current = mem.pending[Position]
           /\ Current.key \in Events /\ Current.key \in Keys(mem.pending)
           /\ Derived(Current.key) /\ mem = disk /\ up
           /\ \A i \in DOMAIN queue : Enqueues(queue, i) => queue[i].key # Current.key
<1>1. /\ mem.pending \in Seq(PendingRecord) /\ kept \in Seq(PendingRecord)
      /\ settled \in Seq(TerminalRecord) /\ queue \in Seq(Job)
    BY DEF IInv, TypeOK, File
<1>2. Position \in 1..Len(mem.pending) /\ Len(kept) \in Nat /\ Len(settled) \in Nat
    BY <1>1 DEF Position
<1>3. Current.key \in Events /\ Current.key \in Keys(mem.pending)
    <2>1. Position \in DOMAIN mem.pending
        BY <1>1, <1>2
    <2> QED BY <2>1, CurrentType DEF Current, Keys
<1>4. up /\ mem = disk /\ Derived(Current.key)
    BY <1>3 DEF IInv, JobShape, DInv, DiskIsMemory, KnownWasDerived
<1>5. ASSUME NEW i \in DOMAIN queue, Enqueues(queue, i) PROVE queue[i].key # Current.key
    <2>1. queue # <<>> /\ Head(queue).kind \in {"flush", "sweep"}
        BY DEF IInv, JobShape
    <2>2. i # 1
        BY <1>1, <2>1, <1>5, TailIndex DEF Enqueues
    <2> QED BY <1>3, <1>5, <2>2 DEF DInv, QueuedIsFresh
<1> QED BY <1>1, <1>2, <1>3, <1>4, <1>5 DEF Position, Current

\* The walk puts its record into one of the lists and goes on.
LEMMA PassesDInv ==
    ASSUME IInv, DInv, pc \in {"loop", "sending"}, Position <= Len(mem.pending),
           NEW r, r.key = Current.key,
           \/ kept' = Append(kept, r) /\ settled' = settled
           \/ /\ settled' = Append(settled, r) /\ kept' = kept
              /\ r.status = "accepted" => r.key \in received',
           pc' = "loop", call' = "idle", received \subseteq received',
           UNCHANGED <<disk, mem, queue, file, service, acked, outcome, sends>>
    PROVE  DInv'
<1>1. UNCHANGED <<event, up>>
    BY DEF service
<1>2. /\ kept \in Seq(PendingRecord) /\ settled \in Seq(TerminalRecord)
      /\ Len(kept) \in Nat /\ Len(settled) \in Nat
    BY DEF IInv, TypeOK
<1>3. WalkCovers'
    <2>1. WalkedKeys' = WalkedKeys \cup {Current.key}
        <3>1. Len(kept') + Len(settled') = Len(kept) + Len(settled) + 1
            <4>1. Len(Append(kept, r)) = Len(kept) + 1 /\ Len(Append(settled, r)) = Len(settled) + 1
                BY <1>2
            <4>2. CASE kept' = Append(kept, r) /\ settled' = settled
                BY <1>2, <4>1, <4>2
            <4>3. CASE settled' = Append(settled, r) /\ kept' = kept
                BY <1>2, <4>1, <4>3
            <4> QED BY <4>2, <4>3
        <3>2. 1..(Len(kept') + Len(settled')) = 1..(Len(kept) + Len(settled)) \cup {Position}
            BY <1>2, <3>1 DEF Position
        <3>3. WalkedKeys' = {mem.pending[i].key : i \in 1..(Len(kept') + Len(settled'))}
            BY DEF WalkedKeys
        <3> QED BY <3>2, <3>3, CurrentIsKnown DEF WalkedKeys
    <2>2. Keys(kept') \cup Keys(settled') = Keys(kept) \cup Keys(settled) \cup {Current.key}
        <3>1. CASE kept' = Append(kept, r) /\ settled' = settled
            BY <1>2, <3>1, KeysAppend
        <3>2. CASE settled' = Append(settled, r) /\ kept' = kept
            BY <1>2, <3>2, KeysAppend
        <3> QED BY <3>1, <3>2
    <2>3. Keys(kept) \cup Keys(settled) = WalkedKeys
        BY DEF DInv, WalkCovers
    <2>4. Keys(kept)' \cup Keys(settled)' = WalkedKeys'
        BY <2>1, <2>2, <2>3 DEF Keys
    <2> QED BY <2>4 DEF WalkCovers
<1>4. AcceptedWasReceived'
    <2>1. CASE settled' = settled
        BY <2>1 DEF DInv, AcceptedWasReceived
    <2>2. CASE settled' = Append(settled, r) /\ (r.status = "accepted" => r.key \in received')
        <3> SUFFICES ASSUME NEW i \in DOMAIN settled', settled'[i].status = "accepted"
                     PROVE  settled'[i].key \in received'
            BY DEF AcceptedWasReceived
        <3>1. \/ i \in DOMAIN settled /\ settled'[i] = settled[i]
              \/ settled'[i] = r
            BY <1>2, <2>2
        <3> QED BY <2>2, <3>1 DEF DInv, AcceptedWasReceived
    <2> QED BY <2>1, <2>2
<1>5. DiskIsMemory' /\ DocumentOfJob' /\ AckedNeverLost'
    <2>1. DiskIsMemory'
        BY <1>1 DEF DInv, DiskIsMemory, IInv, JobShape
    <2> QED BY <2>1 DEF DInv, DocumentOfJob, AckedNeverLost
<1>6. QueuedIsFresh' /\ TwinsAreAdjacent' /\ KnownWasDerived'
    BY <1>1 DEF DInv, QueuedIsFresh, TwinsAreAdjacent, KnownWasDerived, Derived, Enqueues
<1> QED BY <1>3, <1>4, <1>5, <1>6 DEF DInv

LEMMA WalkSendsDInv == ASSUME IInv, DInv, WalkSends PROVE DInv'
<1>1. /\ UNCHANGED <<disk, mem, queue, kept, settled, event, up, acked, outcome, received>>
      /\ pc = "loop" /\ pc' = "sending" /\ call' = "sent" /\ Position <= Len(mem.pending)
      /\ sends' = [sends EXCEPT ![Current.key] = @ + 1]
    BY DEF WalkSends, Walking, service
<1>2. DiskIsMemory' /\ WalkCovers' /\ DocumentOfJob' /\ AcceptedWasReceived' /\ AckedNeverLost'
    BY <1>1 DEF DInv, DiskIsMemory, WalkCovers, WalkedKeys, DocumentOfJob, AcceptedWasReceived,
                AckedNeverLost
<1>3. /\ Derived(Current.key) /\ Current.key \in Events
      /\ \A i \in DOMAIN queue : Enqueues(queue, i) => queue[i].key # Current.key
    BY <1>1, CurrentIsKnown
<1>4. \A k \in Events : k # Current.key => sends'[k] = sends[k]
    BY <1>1 DEF IInv, TypeOK
<1>5. QueuedIsFresh'
    <2>1. \A i \in DOMAIN queue : Enqueues(queue, i) => queue[i].key \in Events
        <3> SUFFICES ASSUME NEW i \in DOMAIN queue, Enqueues(queue, i) PROVE queue[i].key \in Events
            OBVIOUS
        <3>1. queue[i] \in Job
            BY DEF IInv, TypeOK
        <3> QED BY <3>1 DEF Enqueues, Job
    <2> QED BY <1>1, <1>3, <1>4, <2>1 DEF DInv, QueuedIsFresh, Derived, Enqueues
<1>6. TwinsAreAdjacent' /\ KnownWasDerived'
    BY <1>1, <1>3, <1>4 DEF DInv, TwinsAreAdjacent, KnownWasDerived, Derived, Enqueues
<1> QED BY <1>2, <1>5, <1>6 DEF DInv

LEMMA WalkStepDInv == ASSUME IInv, DInv, WalkStep PROVE DInv'
<1>1. pc \in {"loop", "sending"} /\ Position <= Len(mem.pending)
    BY DEF WalkStep, WalkRetires, WalkKeeps, WalkSends, SinkAnswers, SinkFails, Walking,
           GivesUp, Position, IInv, JobShape, TypeOK, File
<1>2. CASE WalkRetires
    <2>1. PICK x \in {"expired", "superseded"} : Settle(x)
        BY <1>2 DEF WalkRetires
    <2>2. call = "idle" /\ pc = "loop"
        BY <1>2 DEF WalkRetires, Walking, IInv, JobShape
    <2> DEFINE r == [key |-> Current.key, status |-> x]
    <2>3. r.key = Current.key /\ r.status # "accepted" /\ settled' = Append(settled, r)
        BY <2>1 DEF Settle
    <2> HIDE DEF r
    <2> QED BY <1>1, <1>2, <2>2, <2>3, PassesDInv DEF WalkRetires, history
<1>3. CASE WalkKeeps
    <2>2. call = "idle" /\ pc = "loop"
        BY <1>3 DEF WalkKeeps, Walking, IInv, JobShape
    <2> QED BY <1>1, <1>3, <2>2, PassesDInv DEF WalkKeeps, history
<1>4. CASE WalkSends
    BY <1>4, WalkSendsDInv
<1>5. CASE SinkAnswers
    <2> DEFINE r == [key |-> Current.key, status |-> call]
    <2>1. r.key = Current.key /\ (r.status = "accepted" => r.key \in received)
          /\ settled' = Append(settled, r)
        BY <1>5 DEF SinkAnswers, Settle, DInv, AcceptedWasReceived
    <2> HIDE DEF r
    <2> QED BY <1>1, <1>5, <2>1, PassesDInv DEF SinkAnswers, history
<1>6. CASE SinkFails
    <2>1. Retried(Current).key = Current.key
        BY DEF Retried
    <2>2. received \subseteq received'
        BY <1>6 DEF SinkFails, RequestMayArrive
    <2> QED BY <1>1, <1>6, <2>1, <2>2, PassesDInv DEF SinkFails, history
<1> QED BY <1>2, <1>3, <1>4, <1>5, <1>6 DEF WalkStep

LEMMA ReceiverHandlesDInv == ASSUME IInv, DInv, ReceiverHandles PROVE DInv'
<1>1. /\ UNCHANGED <<disk, mem, queue, pc, kept, settled, file, event, up, acked, outcome, sends>>
      /\ received \subseteq received'
      /\ call' = "accepted" => Current.key \in received'
    BY DEF ReceiverHandles, service, history
<1>2. DiskIsMemory' /\ WalkCovers' /\ DocumentOfJob' /\ AckedNeverLost'
    BY <1>1 DEF DInv, DiskIsMemory, WalkCovers, WalkedKeys, DocumentOfJob, RunningIs, HasRecords,
                AckedNeverLost
<1>3. AcceptedWasReceived'
    BY <1>1 DEF DInv, AcceptedWasReceived, Current, Position
<1>4. QueuedIsFresh' /\ TwinsAreAdjacent' /\ KnownWasDerived'
    BY <1>1 DEF DInv, QueuedIsFresh, TwinsAreAdjacent, KnownWasDerived, Derived, Enqueues
<1> QED BY <1>2, <1>3, <1>4 DEF DInv

LEMMA WalkEndsDInv == ASSUME IInv, DInv, WalkEnds PROVE DInv'
<1> DEFINE f == Trim(mem.terminal \o settled, kept, mem.continuity)
<1>1. /\ call = "idle" /\ queue # <<>> /\ Head(queue).kind \in {"flush", "sweep"}
      /\ pc = "loop" /\ up /\ Len(kept) + Len(settled) <= Len(mem.pending)
    BY DEF IInv, JobShape, WalkEnds
<1>2. CASE Finish
    BY <1>1, <1>2, FinishDInv DEF WalkEnds, history
<1>3. CASE ~(settled = <<>> /\ kept = mem.pending) /\ CommitStarts(f)
    <2>1. /\ mem.terminal \in Seq(TerminalRecord) /\ mem.pending \in Seq(PendingRecord)
          /\ settled \in Seq(TerminalRecord) /\ kept \in Seq(PendingRecord)
          /\ mem.continuity \in Scope /\ Len(mem.pending) <= MaxPending
          /\ Len(kept) \in Nat /\ Len(settled) \in Nat /\ Len(mem.pending) \in Nat
        BY DEF IInv, TypeOK, File, WithinLimits
    <2>2. Len(kept) + Len(settled) = Len(mem.pending)
        <3>1. /\ Len(kept) \in Nat /\ Len(settled) \in Nat
              /\ Len(mem.pending) \in Nat
            BY <2>1
        <3>2. /\ Len(kept) + Len(settled) <= Len(mem.pending)
              /\ Len(kept) + Len(settled) + 1 > Len(mem.pending)
            BY <1>1 DEF WalkEnds, Position
        <3> QED BY <3>1, <3>2
    <2>3. f.pending = kept /\ f.continuity = mem.continuity
        <3> DEFINE t == mem.terminal \o settled
        <3>1. t \in Seq(TerminalRecord) /\ Len(kept) <= MaxPending
            BY <2>1, <2>2, SizesAssumption
        <3>2. f = Trim(t, kept, mem.continuity)
            OBVIOUS
        <3> HIDE DEF t, f
        <3> QED BY <2>1, <3>1, <3>2, TrimLimits
    <2>4. Keys(kept) \cup Keys(settled) = Keys(mem.pending)
        <3>1. 1..(Len(kept) + Len(settled)) = DOMAIN mem.pending
            BY <2>1, <2>2
        <3>2. WalkedKeys = Keys(mem.pending)
            BY <3>1 DEF WalkedKeys, Keys
        <3> QED BY <1>1, <3>2 DEF DInv, WalkCovers
    <2>5. HasRecords
        <3> SUFFICES ASSUME mem.pending = <<>> PROVE FALSE
            BY DEF HasRecords
        <3>1. Len(kept) = 0 /\ Len(settled) = 0
            BY <2>1, <2>2
        <3> QED BY <1>3, <2>1, <3>1
    <2>6. DocumentOfJob'
        <3>1. file' = f /\ UNCHANGED <<mem, queue, kept, settled>>
            BY <1>3 DEF CommitStarts, WalkEnds
        <3> HIDE DEF f
        <3> QED BY <1>1, <2>3, <2>4, <2>5, <3>1 DEF DocumentOfJob, RunningIs, HasRecords
    <2> HIDE DEF f
    <2> QED BY <1>1, <1>3, <2>6, CommitDInv DEF WalkEnds
<1> QED BY <1>2, <1>3 DEF WalkEnds

\* The records of the document that replaces the file: which are new, and what
\* became of those that are gone.
LEMMA DocumentKeys ==
    ASSUME IInv, DInv, pc \in {"replace", "install"}
    PROVE  /\ \A k \in Keys(mem.pending) : k \in Keys(file.pending) \/ k \in Keys(settled)
           /\ Keys(settled) \subseteq Keys(mem.pending)
           /\ \A k \in Keys(file.pending) \ Keys(mem.pending) :
                 RunningIs({"enqueue"}) /\ k = Head(queue).key
           /\ RunningIs({"enqueue"}) => Head(queue).key \in Keys(file.pending)
<1>1. mem.pending \in Seq(PendingRecord) /\ Keys(<<>>) = {}
    BY EmptyKeys DEF IInv, TypeOK, File
<1>2. CASE RunningIs({"continuity"}) /\ file.pending = mem.pending /\ settled = <<>>
    BY <1>1, <1>2 DEF RunningIs
<1>3. CASE /\ RunningIs({"enqueue"}) /\ settled = <<>>
           /\ file.pending = Append(mem.pending, [key |-> Head(queue).key, attempts |-> 0,
                                                  nextAt |-> event[Head(queue).key].at])
    BY <1>1, <1>3, KeysAppend
<1>4. CASE /\ RunningIs({"flush", "sweep"}) /\ file.pending = kept
           /\ Keys(kept) \cup Keys(settled) = Keys(mem.pending)
    BY <1>4 DEF RunningIs
<1> QED BY <1>2, <1>3, <1>4 DEF DInv, DocumentOfJob

\* The running enqueue's event is fresh.
LEMMA HeadIsFresh ==
    ASSUME IInv, DInv, RunningIs({"enqueue"})
    PROVE  /\ Head(queue).key \in Events /\ Derived(Head(queue).key)
           /\ outcome[Head(queue).key] = "none" /\ sends[Head(queue).key] = 0
<1>1. queue # <<>> /\ queue \in Seq(Job) /\ Head(queue).kind = "enqueue"
    BY DEF IInv, TypeOK, RunningIs
<1>2. 1 \in DOMAIN queue /\ queue[1] = Head(queue) /\ Head(queue) \in Job
    BY <1>1, TailIndex
<1> QED BY <1>1, <1>2 DEF Job, Enqueues, DInv, QueuedIsFresh

LEMMA ReplaceDInv == ASSUME IInv, DInv, Replace PROVE DInv'
<1>1. /\ UNCHANGED <<mem, queue, kept, settled, file, call, event, up, received, acked, sends>>
      /\ pc = "replace" /\ pc' = "install" /\ disk' = file /\ up
      /\ outcome' = [k \in Events |-> IF k \in Keys(settled) THEN StatusIn(settled, k)
                                      ELSE outcome[k]]
      /\ call = "idle" /\ settled \in Seq(TerminalRecord) /\ queue \in Seq(Job)
    BY DEF Replace, service, IInv, TypeOK, JobShape
<1>2. DiskIsMemory' /\ WalkCovers' /\ DocumentOfJob' /\ AcceptedWasReceived'
    BY <1>1 DEF DInv, DiskIsMemory, WalkCovers, DocumentOfJob, RunningIs, HasRecords,
                AcceptedWasReceived
<1>3. AckedNeverLost'
    <2> SUFFICES ASSUME NEW k \in acked PROVE k \in Keys(file.pending) \/ outcome'[k] # "none"
        BY <1>1 DEF AckedNeverLost
    <2>1. k \in Events /\ mem = disk
        BY <1>1 DEF IInv, TypeOK, DInv, DiskIsMemory
    <2>2. CASE k \in Keys(settled)
        BY <1>1, <2>1, <2>2, StatusType DEF Terminal
    <2>3. CASE k \notin Keys(settled)
        BY <1>1, <2>1, <2>3, DocumentKeys DEF DInv, AckedNeverLost
    <2> QED BY <2>2, <2>3
<1>4. QueuedIsFresh'
    <2> SUFFICES ASSUME NEW i \in DOMAIN queue, Enqueues(queue, i)
                 PROVE  outcome'[queue[i].key] = "none"
        BY <1>1 DEF DInv, QueuedIsFresh, Derived, Enqueues
    <2>1. queue[i].key \in Events
        <3>1. queue[i] \in Job
            BY <1>1
        <3> QED BY <3>1 DEF Enqueues, Job
    <2>2. queue[i].key \notin Keys(settled)
        <3> SUFFICES ASSUME queue[i].key \in Keys(settled) PROVE FALSE
            OBVIOUS
        <3>1. i = 1
            BY <1>1, DocumentKeys DEF DInv, QueuedIsFresh
        <3>2. RunningIs({"enqueue"})
            BY <1>1, <3>1 DEF RunningIs, Enqueues, IInv, JobShape
        <3>3. settled = <<>>
            BY <1>1, <3>2 DEF DInv, DocumentOfJob, RunningIs
        <3> QED BY <3>3, EmptyKeys
    <2> QED BY <1>1, <2>1, <2>2 DEF DInv, QueuedIsFresh
<1>5. KnownWasDerived'
    <2>1. \A k \in Keys(file.pending) : Derived(k)
        BY <1>1, DocumentKeys, HeadIsFresh DEF DInv, KnownWasDerived
    <2>2. \A k \in Keys(settled) : Derived(k)
        BY <1>1, DocumentKeys DEF DInv, KnownWasDerived
    <2>3. \A k \in Events : outcome'[k] # "none" => outcome[k] # "none" \/ k \in Keys(settled)
        BY <1>1
    <2> QED BY <1>1, <2>1, <2>2, <2>3 DEF DInv, KnownWasDerived, Derived
<1>6. TwinsAreAdjacent'
    BY <1>1 DEF DInv, TwinsAreAdjacent, Enqueues
<1> QED BY <1>2, <1>3, <1>4, <1>5, <1>6 DEF DInv

LEMMA ReplaceFailsDInv == ASSUME IInv, DInv, ReplaceFails PROVE DInv'
<1>1. queue # <<>> /\ call = "idle" /\ pc # "install"
    BY DEF ReplaceFails, IInv, JobShape
<1> QED BY <1>1, FinishDInv DEF ReplaceFails

LEMMA InstallDInv == ASSUME IInv, DInv, Install PROVE DInv'
<1>1. /\ UNCHANGED <<disk, event, up, received, outcome, sends>>
      /\ pc = "install" /\ pc' = "idle" /\ mem' = file /\ disk = file /\ call' = "idle"
      /\ kept' = <<>> /\ settled' = <<>> /\ queue # <<>> /\ queue' = Tail(queue)
      /\ queue \in Seq(Job)
    BY DEF Install, Finish, service, IInv, TypeOK, JobShape, DInv, DiskIsMemory
<1>2. DiskIsMemory' /\ WalkCovers' /\ DocumentOfJob' /\ AcceptedWasReceived'
    BY <1>1 DEF DiskIsMemory, WalkCovers, DocumentOfJob, AcceptedWasReceived
<1>3. QueuedIsFresh' /\ TwinsAreAdjacent'
    <2>1. ASSUME NEW i \in DOMAIN queue, i > 1, Enqueues(queue, i),
                 queue[i].key \in Keys(mem.pending)'
          PROVE  i = 2
        <3>1. queue[i].key \in Keys(file.pending)
            BY <1>1, <2>1 DEF Keys
        <3>2. i \in Nat /\ queue[i].key \notin Keys(mem.pending)
            BY <1>1, <2>1, TailIndex DEF DInv, QueuedIsFresh
        <3>3. RunningIs({"enqueue"}) /\ queue[i].key = Head(queue).key
            BY <1>1, <3>1, <3>2, DocumentKeys
        <3>4. 1 \in DOMAIN queue /\ Enqueues(queue, 1) /\ queue[1].key = queue[i].key
            BY <1>1, <3>3, TailIndex DEF RunningIs, Enqueues
        <3>5. i = 1 + 1
            BY <2>1, <3>4 DEF DInv, TwinsAreAdjacent
        <3> QED BY <3>5
    <2> QED BY <1>1, <2>1, QueueTail
<1>4. AckedNeverLost'
    <2>1. CASE acked' = acked
        BY <1>1, <2>1 DEF DInv, AckedNeverLost
    <2>2. CASE RunningIs({"enqueue"}) /\ acked' = acked \cup {Head(queue).key}
        BY <1>1, <2>2, DocumentKeys DEF DInv, AckedNeverLost
    <2> QED BY <1>1, <2>1, <2>2 DEF Install, RunningIs
<1>5. KnownWasDerived'
    BY <1>1 DEF DInv, KnownWasDerived, Derived
<1> QED BY <1>2, <1>3, <1>4, <1>5 DEF DInv

LEMMA RetryTimerDInv == ASSUME IInv, DInv, RetryTimer PROVE DInv'
<1> DEFINE job == [kind |-> IF sink THEN "flush" ELSE "sweep", at |-> now]
<1>1. /\ UNCHANGED <<disk, mem, pc, kept, settled, file, call, event, up, received,
                     acked, outcome, sends>>
      /\ queue' = Append(queue, job) /\ queue \in Seq(Job) /\ job.kind # "enqueue"
      /\ pc # "idle" => queue # <<>>
    BY DEF RetryTimer, service, history, IInv, TypeOK, JobShape
<1>2. /\ DOMAIN queue \subseteq DOMAIN queue'
      /\ \A i \in DOMAIN queue' : i \notin DOMAIN queue => queue'[i] = job
      /\ \A i \in DOMAIN queue : queue'[i] = queue[i]
      /\ queue # <<>> => queue' # <<>> /\ Head(queue') = Head(queue)
    <2> HIDE DEF job
    <2> QED BY <1>1
<1>3. DocumentOfJob'
    BY <1>1, <1>2 DEF DInv, DocumentOfJob, RunningIs, HasRecords
<1>4. \A i \in DOMAIN queue' : Enqueues(queue', i) =>
          i \in DOMAIN queue /\ Enqueues(queue, i) /\ queue'[i] = queue[i]
    BY <1>1, <1>2 DEF Enqueues
<1>5. QueuedIsFresh' /\ TwinsAreAdjacent' /\ KnownWasDerived'
    <2> HIDE DEF job
    <2>1. QueuedIsFresh' /\ TwinsAreAdjacent'
        BY <1>1, <1>4 DEF DInv, QueuedIsFresh, TwinsAreAdjacent, Derived, Keys, Enqueues
    <2> QED BY <1>1, <2>1 DEF DInv, KnownWasDerived, Derived
<1> QED BY <1>1, <1>3, <1>5, DocumentsStay DEF DInv

\* What a mutation appends: the scope when it is a new one, then its events.
LEMMA MutationQueue ==
    ASSUME IInv, NEW p \in Places, NEW ks \in EventLists, RuntimeMutation(p, ks)
    PROVE  LET s == [live |-> live, place |-> p]
               c == IF s = requested THEN 0 ELSE 1
           IN  /\ Len(queue) \in Nat /\ Len(ks) \in 0..2
               /\ DOMAIN ks = 1..Len(ks) /\ \A i \in DOMAIN ks : ks[i] \in Events
               /\ DOMAIN queue = 1..Len(queue)
               /\ DOMAIN queue' = 1..(Len(queue) + c + Len(ks))
               /\ \A i \in DOMAIN queue : queue'[i] = queue[i]
               /\ c = 1 => queue'[Len(queue) + 1] = [kind |-> "continuity", scope |-> s]
               /\ \A i \in DOMAIN ks :
                     queue'[Len(queue) + c + i] = [kind |-> "enqueue", key |-> ks[i]]
<1> DEFINE s  == [live |-> live, place |-> p]
           c  == IF s = requested THEN 0 ELSE 1
           cj == ContinuityJobs(s)
           en == [i \in DOMAIN ks |-> [kind |-> "enqueue", key |-> ks[i]]]
<1>1. /\ ks \in Seq(Events) /\ Len(ks) \in 0..2 /\ DOMAIN ks = 1..Len(ks)
      /\ \A i \in DOMAIN ks : ks[i] \in Events
    BY EventListsType DEF EventLists
<1>2. queue \in Seq(Job) /\ queue' = (queue \o cj) \o en
    BY DEF IInv, TypeOK, RuntimeMutation
<1>3. s \in Scope
    BY DEF IInv, TypeOK, Scope
<1>4. /\ cj \in Seq(Job) /\ Len(cj) = c
      /\ c = 1 => cj[1] = [kind |-> "continuity", scope |-> s]
    <2>1. [kind |-> "continuity", scope |-> s] \in Job
        BY <1>3 DEF Job
    <2> HIDE DEF s
    <2> QED BY <2>1 DEF ContinuityJobs
<1>5. en \in Seq(Job) /\ Len(en) = Len(ks) /\ \A i \in DOMAIN ks :
          en[i] = [kind |-> "enqueue", key |-> ks[i]]
    <2>1. \A i \in 1..Len(ks) : [kind |-> "enqueue", key |-> ks[i]] \in Job
        BY <1>1 DEF Job
    <2> QED BY <1>1, <2>1
<1> HIDE DEF s, cj, en
<1>6. /\ queue \o cj \in Seq(Job) /\ Len(queue \o cj) = Len(queue) + Len(cj)
      /\ Len(queue) \in Nat
      /\ \A i \in 1..Len(queue) : (queue \o cj)[i] = queue[i]
      /\ \A i \in 1..Len(cj) : (queue \o cj)[Len(queue) + i] = cj[i]
    <2>1. queue \in Seq(Job) /\ cj \in Seq(Job)
        BY <1>2, <1>4
    <2> QED BY ONLY <2>1, ConcatIndex
<1>7. /\ queue' \in Seq(Job) /\ Len(queue') = Len(queue) + Len(cj) + Len(en)
      /\ \A i \in 1..(Len(queue) + Len(cj)) : queue'[i] = (queue \o cj)[i]
      /\ \A i \in 1..Len(en) : queue'[Len(queue) + Len(cj) + i] = en[i]
    <2> DEFINE a == queue \o cj
    <2>1. a \in Seq(Job) /\ Len(a) = Len(queue) + Len(cj) /\ queue' = a \o en
        BY <1>2, <1>6
    <2>2. /\ queue' \in Seq(Job) /\ Len(queue') = Len(a) + Len(en)
          /\ \A i \in 1..Len(a) : queue'[i] = a[i]
          /\ \A i \in 1..Len(en) : queue'[Len(a) + i] = en[i]
        <3> HIDE DEF a
        <3>1. /\ a \o en \in Seq(Job) /\ Len(a \o en) = Len(a) + Len(en)
              /\ \A i \in 1..Len(a) : (a \o en)[i] = a[i]
              /\ \A i \in 1..Len(en) : (a \o en)[Len(a) + i] = en[i]
            <4>1. a \in Seq(Job) /\ en \in Seq(Job)
                BY <1>5, <2>1
            <4> QED BY <4>1, ConcatIndex
        <3> QED BY <2>1, <3>1
    <2> QED BY <2>1, <2>2
<1>8. Len(queue) \in Nat /\ DOMAIN queue = 1..Len(queue) /\ DOMAIN queue' = 1..Len(queue')
    BY <1>2, <1>7
<1>9. /\ \A i \in DOMAIN queue : queue'[i] = queue[i]
      /\ c = 1 => queue'[Len(queue) + 1] = [kind |-> "continuity", scope |-> s]
      /\ \A i \in DOMAIN ks : queue'[Len(queue) + c + i] = [kind |-> "enqueue", key |-> ks[i]]
    <2>1. c \in 0..1 /\ Len(cj) = c
        BY <1>4
    <2> HIDE DEF c
    <2>2. \A i \in 1..Len(queue) : i \in 1..(Len(queue) + Len(cj)) /\ queue'[i] = queue[i]
        BY <1>6, <1>7, <2>1, SMTT(20)
    <2>3. c = 1 => queue'[Len(queue) + 1] = cj[1]
        BY <1>6, <1>7, <2>1
    <2>4. \A i \in 1..Len(ks) : queue'[Len(queue) + c + i] = en[i]
        BY <1>5, <1>7, <2>1
    <2> QED BY <1>1, <1>4, <1>5, <1>8, <2>2, <2>3, <2>4
<1> QED BY <1>1, <1>4, <1>5, <1>7, <1>8, <1>9 DEF s

\* What is derived stays as it was; what the mutation derives is no longer NoEvent.
LEMMA MutationEvents ==
    ASSUME IInv, NEW p \in Places, NEW ks \in EventLists, RuntimeMutation(p, ks)
    PROVE  /\ \A k \in Events : Derived(k) => event'[k] = event[k] /\ Derived(k)'
           /\ \A i \in DOMAIN ks : ~Derived(ks[i]) /\ Derived(ks[i])'
           /\ \A i \in DOMAIN ks : event'[ks[i]].scope = [live |-> live, place |-> p]
<1> DEFINE s == [live |-> live, place |-> p]
<1>1. \A i \in DOMAIN ks : ks[i] \in Events /\ event[ks[i]] = NoEvent
    BY MutationQueue DEF RuntimeMutation
<1>2. event' = [k \in Events |-> IF k \in {ks[i] : i \in DOMAIN ks} THEN EventAt(s) ELSE event[k]]
    BY DEF RuntimeMutation
<1>3. EventAt(s) # NoEvent /\ EventAt(s).scope = s
    <2>1. EventAt(s).scope.place = p /\ NoEvent.scope.place = NoPlace /\ p # NoPlace
        BY PlaceAssumption DEF EventAt, NoEvent, NoScope
    <2> QED BY <2>1 DEF EventAt
<1>4. ASSUME NEW i \in DOMAIN ks
      PROVE  ~Derived(ks[i]) /\ Derived(ks[i])' /\ event'[ks[i]].scope = s
    <2>1. ks[i] \in Events /\ ks[i] \in {ks[j] : j \in DOMAIN ks}
        BY <1>1
    <2>2. event'[ks[i]] = EventAt(s)
        BY <1>2, <2>1
    <2> QED BY <1>1, <1>3, <2>2 DEF Derived
<1>5. ASSUME NEW k \in Events, Derived(k) PROVE event'[k] = event[k] /\ Derived(k)'
    <2>1. k \notin {ks[i] : i \in DOMAIN ks}
        BY <1>1, <1>5 DEF Derived
    <2> QED BY <1>2, <1>5, <2>1 DEF Derived
<1> QED BY <1>4, <1>5

LEMMA MutationDInv ==
    ASSUME IInv, DInv, NEW p \in Places, NEW ks \in EventLists, RuntimeMutation(p, ks)
    PROVE  DInv'
<1> DEFINE s == [live |-> live, place |-> p]
           c == IF s = requested THEN 0 ELSE 1
<1>1. UNCHANGED <<disk, mem, pc, kept, settled, file, call, up, received, acked, outcome, sends>>
    BY DEF RuntimeMutation, history
<1>2. /\ Len(queue) \in Nat /\ Len(ks) \in 0..2 /\ c \in 0..1
      /\ DOMAIN ks = 1..Len(ks) /\ \A i \in DOMAIN ks : ks[i] \in Events
      /\ DOMAIN queue = 1..Len(queue)
      /\ DOMAIN queue' = 1..(Len(queue) + c + Len(ks))
      /\ \A i \in DOMAIN queue : queue'[i] = queue[i]
      /\ c = 1 => queue'[Len(queue) + 1] = [kind |-> "continuity", scope |-> s]
      /\ \A i \in DOMAIN ks :
            queue'[Len(queue) + c + i] = [kind |-> "enqueue", key |-> ks[i]]
    BY MutationQueue
<1> HIDE DEF s, c
<1>3. ASSUME NEW i \in DOMAIN queue', Enqueues(queue', i), i \notin DOMAIN queue
      PROVE  /\ i - Len(queue) - c \in DOMAIN ks
             /\ queue'[i].key = ks[i - Len(queue) - c]
    <2>1. i = Len(queue) + 1 => c = 0
        BY <1>2, <1>3 DEF Enqueues
    <2>2. i - Len(queue) - c \in DOMAIN ks
        <3>1. /\ i \in 1..(Len(queue) + c + Len(ks)) /\ i \notin 1..Len(queue)
              /\ Len(queue) \in Nat /\ Len(ks) \in Nat /\ c \in {0, 1}
            BY <1>2, <1>3
        <3>2. i - Len(queue) - c \in 1..Len(ks)
            BY <2>1, <3>1
        <3> QED BY <1>2, <3>2
    <2>3. i = Len(queue) + c + (i - Len(queue) - c)
        BY <1>2, <1>3
    <2>4. queue'[i] = [kind |-> "enqueue", key |-> ks[i - Len(queue) - c]]
        BY <1>2, <2>2, <2>3
    <2> QED BY <2>2, <2>4
<1>4. \A i \in DOMAIN queue : Enqueues(queue, i) => queue[i].key \in Events /\ Derived(queue[i].key)
    <2> SUFFICES ASSUME NEW i \in DOMAIN queue, Enqueues(queue, i)
                 PROVE  queue[i].key \in Events /\ Derived(queue[i].key)
        OBVIOUS
    <2>1. queue[i] \in Job
        BY DEF IInv, TypeOK
    <2> QED BY <2>1 DEF Enqueues, Job, DInv, QueuedIsFresh
<1>5. QueuedIsFresh'
    <2> SUFFICES ASSUME NEW i \in DOMAIN queue', Enqueues(queue', i)
                 PROVE  /\ event'[queue'[i].key] # NoEvent
                        /\ sends[queue'[i].key] = 0 /\ outcome[queue'[i].key] = "none"
                        /\ queue'[i].key \in Keys(mem.pending) => i = 1
        BY <1>1 DEF QueuedIsFresh, Enqueues, Derived
    <2>1. CASE i \in DOMAIN queue
        <3>1. queue'[i] = queue[i] /\ Enqueues(queue, i)
            BY <1>2, <2>1 DEF Enqueues
        <3> QED BY <1>4, <2>1, <3>1, MutationEvents, ZenonT(30) DEF DInv, QueuedIsFresh, Derived
    <2>2. CASE i \notin DOMAIN queue
        <3>1. PICK j \in DOMAIN ks : queue'[i].key = ks[j]
            BY <1>3, <2>2
        <3>2. ks[j] \in Events /\ ~Derived(ks[j]) /\ Derived(ks[j])'
            BY <1>2, MutationEvents
        <3>3. sends[ks[j]] = 0 /\ outcome[ks[j]] = "none" /\ ks[j] \notin Keys(mem.pending)
            <4>1. sends[ks[j]] \in Nat
                BY <3>2 DEF IInv, TypeOK
            <4> QED BY <3>2, <4>1 DEF DInv, KnownWasDerived
        <3> QED BY <3>1, <3>2, <3>3 DEF Derived
    <2> QED BY <2>1, <2>2
<1>6. TwinsAreAdjacent'
    <2> SUFFICES ASSUME NEW i \in DOMAIN queue', NEW j \in DOMAIN queue', i < j,
                        Enqueues(queue', i), Enqueues(queue', j), queue'[i].key = queue'[j].key
                 PROVE  j = i + 1
        BY DEF TwinsAreAdjacent, Enqueues
    <2>1. CASE j \in DOMAIN queue
        <3>1. i \in DOMAIN queue
            BY <1>2, <2>1
        <3>2. queue'[i] = queue[i] /\ queue'[j] = queue[j]
            BY <1>2, <2>1, <3>1
        <3> QED BY <2>1, <3>1, <3>2 DEF DInv, TwinsAreAdjacent, Enqueues
    <2>2. CASE i \in DOMAIN queue /\ j \notin DOMAIN queue
        <3>1. Derived(queue[i].key) /\ queue'[i] = queue[i]
            BY <1>2, <1>4, <2>2 DEF Enqueues
        <3>2. \E x \in DOMAIN ks : queue'[j].key = ks[x]
            BY <1>3, <2>2
        <3>3. \A x \in DOMAIN ks : ~Derived(ks[x])
            BY MutationEvents
        <3> QED BY <3>1, <3>2, <3>3
    <2>3. CASE i \notin DOMAIN queue /\ j \notin DOMAIN queue
        <3>1. i - Len(queue) - c \in 1..2 /\ j - Len(queue) - c \in 1..2
            BY <1>2, <1>3, <2>3, SMTT(20)
        <3> QED BY <1>2, <3>1, SMTT(20)
    <2> QED BY <2>1, <2>2, <2>3
<1>7. KnownWasDerived'
    <2>1. Keys(disk.pending) \subseteq Events /\ Keys(mem.pending) \subseteq Events
        BY KeysType DEF IInv, TypeOK, File
    <2> QED BY <1>1, <2>1, MutationEvents DEF DInv, KnownWasDerived
<1>8. DocumentOfJob'
    <2> SUFFICES ASSUME pc \in {"replace", "install"} PROVE DocumentOfJob'
        BY <1>1 DEF DocumentOfJob
    <2>1. queue # <<>> /\ queue \in Seq(Job)
        BY DEF IInv, TypeOK, JobShape
    <2>2. 1 \in DOMAIN queue /\ queue' # <<>> /\ Head(queue') = Head(queue)
        <3>1. 1 \in DOMAIN queue /\ Head(queue) = queue[1]
            BY <2>1, TailIndex
        <3>2. queue' \in Seq(Job)
            BY MutationIInv DEF IInv, TypeOK
        <3>3. 1 \in DOMAIN queue' /\ queue'[1] = queue[1]
            BY <1>2, <3>1
        <3>4. queue' # <<>>
            BY <3>3
        <3> QED BY <3>1, <3>2, <3>3, <3>4, TailIndex
    <2>3. RunningIs({"enqueue"}) => event'[Head(queue).key] = event[Head(queue).key]
        BY HeadIsFresh, MutationEvents
    <2>4. \A kinds : RunningIs(kinds)' = RunningIs(kinds)
        BY <2>1, <2>2 DEF RunningIs
    <2> QED BY <1>1, <2>2, <2>3, <2>4 DEF DInv, DocumentOfJob, HasRecords
<1> QED BY <1>1, <1>5, <1>6, <1>7, <1>8, DocumentsStay DEF DInv

LEMMA CrashDInv == ASSUME IInv, DInv, Crash PROVE DInv'
<1>1. /\ UNCHANGED <<disk, event, acked, outcome, sends>> /\ up' = FALSE /\ mem' = EmptyFile
      /\ pc' = "idle" /\ kept' = <<>> /\ settled' = <<>> /\ call' = "idle" /\ queue' = <<>>
    BY DEF Crash
<1>2. Keys(mem'.pending) = {} /\ DOMAIN queue' = {} /\ DOMAIN settled' = {}
    BY <1>1, EmptyKeys DEF EmptyFile
<1>3. DiskIsMemory' /\ WalkCovers' /\ DocumentOfJob' /\ AcceptedWasReceived'
    BY <1>1, <1>2 DEF DiskIsMemory, WalkCovers, DocumentOfJob, AcceptedWasReceived
<1>4. QueuedIsFresh' /\ TwinsAreAdjacent'
    BY <1>2 DEF QueuedIsFresh, TwinsAreAdjacent
<1>5. KnownWasDerived' /\ AckedNeverLost'
    BY <1>1, <1>2 DEF DInv, KnownWasDerived, AckedNeverLost, Derived
<1> QED BY <1>3, <1>4, <1>5 DEF DInv

LEMMA RestartDInv == ASSUME IInv, DInv, DeadHoldsNothing, Restart PROVE DInv'
<1>1. /\ UNCHANGED <<disk, queue, pc, kept, settled, file, call, event, received,
                     acked, outcome, sends>>
      /\ mem' = disk /\ ~up /\ pc = "idle" /\ queue = <<>>
    BY DEF Restart, history, IInv, JobShape, DeadHoldsNothing
<1>2. DiskIsMemory' /\ WalkCovers' /\ DocumentOfJob' /\ AcceptedWasReceived' /\ AckedNeverLost'
    BY <1>1 DEF DInv, DiskIsMemory, WalkCovers, DocumentOfJob, AcceptedWasReceived,
                AckedNeverLost, Keys, IInv, JobShape
<1>3. QueuedIsFresh' /\ TwinsAreAdjacent' /\ KnownWasDerived'
    BY <1>1 DEF DInv, QueuedIsFresh, TwinsAreAdjacent, KnownWasDerived, Derived, Enqueues
<1> QED BY <1>2, <1>3 DEF DInv

LEMMA NextDeadHoldsNothing == ASSUME DeadHoldsNothing, [Next]_vars PROVE DeadHoldsNothing'
<1>1. CASE Service
    <2>1. up /\ up' = up
        BY <1>1 DEF Service, RuntimeMutation, ContextChanges, RetryTimer, service
    <2> QED BY <2>1 DEF DeadHoldsNothing
<1>2. CASE Jobs
    BY <1>2 DEF Jobs, StartContinuity, StartEnqueue, StartWalk, Walk, WalkRetires, WalkKeeps, WalkSends,
       SinkAnswers, SinkFails, WalkEnds, Replace, Install, Walking, DeadHoldsNothing, service
<1>3. CASE ReceiverHandles \/ ReplaceFails \/ Crash \/ Restart \/ Tick \/ UNCHANGED vars
    BY <1>3 DEF ReceiverHandles, ReplaceFails, Crash, Restart, Tick, DeadHoldsNothing, vars, service, outbox
<1> QED BY <1>1, <1>2, <1>3 DEF Next

LEMMA NextDInv == ASSUME IInv, DInv, DeadHoldsNothing, [Next]_vars PROVE DInv'
<1>1. ASSUME NEW p \in Places, ContextChanges(p) PROVE DInv'
    BY <1>1, FrameDInv DEF ContextChanges, history
<1>2. CASE Tick
    BY <1>2, FrameDInv DEF Tick, service, history
<1>3. CASE UNCHANGED vars
    BY <1>3, FrameDInv DEF vars, service, history
<1>4. CASE Service
    BY <1>1, <1>4, MutationDInv, RetryTimerDInv DEF Service
<1>5. CASE Jobs
    BY <1>5, StartContinuityDInv, StartEnqueueDInv, StartWalkDInv, WalkStepDInv, WalkEndsDInv,
       ReplaceDInv, InstallDInv DEF Jobs, Walk, WalkStep
<1> QED BY <1>2, <1>3, <1>4, <1>5, ReceiverHandlesDInv, ReplaceFailsDInv, CrashDInv,
           RestartDInv DEF Next

\* The invariant of the delivery, with the types and limits it needs.
THEOREM DInvInductive == Init /\ [][Next]_vars => [](IInv /\ DeadHoldsNothing /\ DInv)
<1>1. Init => DeadHoldsNothing /\ DInv
    BY InitDInv DEF Init, DeadHoldsNothing
<1>2. IInv /\ DeadHoldsNothing /\ DInv /\ [Next]_vars => DeadHoldsNothing' /\ DInv'
    BY NextDInv, NextDeadHoldsNothing
<1> QED BY <1>1, <1>2, IInvInductive, PTL

-----------------------------------------------------------------------------
(* The outbox implements EventDelivery *)

LEMMA InitDelivers == Init => Delivery!Init
<1> SUFFICES ASSUME Init PROVE Delivery!Init
    OBVIOUS
<1>1. Keys(disk.pending) = {} /\ \A k \in Events : outcome[k] = "none"
    BY EmptyKeys DEF Init, EmptyFile
<1> QED BY <1>1 DEF Init, Delivery!Init, DurableStatus

\* A step that touches neither the file nor the receiver is none of the delivery's.
LEMMA Unseen ==
    ASSUME UNCHANGED <<disk, outcome, received>>
    PROVE  UNCHANGED Delivery!vars
BY DEF DurableStatus, Delivery!vars, Keys

\* A request that arrives, in time or too late, is one of a recorded event.
LEMMA Arrival ==
    ASSUME IInv, DInv, pc = "sending", UNCHANGED <<disk, outcome>>,
           received' = received \/ received' = received \cup {Current.key}
    PROVE  [Delivery!Next]_(Delivery!vars)
<1>1. CASE received' = received
    BY <1>1, Unseen
<1>2. CASE received' = received \cup {Current.key}
    <2>1. Position <= Len(mem.pending)
        BY DEF IInv, JobShape, TypeOK, File, Position
    <2>2. Current.key \in Events /\ Current.key \in Keys(disk.pending)
        BY <2>1, CurrentIsKnown
    <2>3. DurableStatus[Current.key] # "absent" /\ DurableStatus' = DurableStatus
        BY <2>2 DEF DurableStatus
    <2> QED BY <1>2, <2>2, <2>3 DEF Delivery!Next, Delivery!Receive
<1> QED BY <1>1, <1>2

\* The replacement of the file is one durable write of every event's status.
LEMMA ReplaceDelivers == ASSUME IInv, DInv, Replace PROVE Delivery!DurableWrite
<1>1. /\ pc = "replace" /\ up /\ disk' = file /\ mem = disk /\ received' = received
      /\ outcome' = [k \in Events |-> IF k \in Keys(settled) THEN StatusIn(settled, k)
                                      ELSE outcome[k]]
      /\ settled \in Seq(TerminalRecord)
      /\ outcome \in [Events -> Terminal \cup {"none"}]
    BY DEF Replace, service, IInv, TypeOK, DInv, DiskIsMemory
<1>2. outcome' \in [Events -> Terminal \cup {"none"}]
    BY <1>1, ReplaceIInv DEF IInv, TypeOK
<1>3. DurableStatus' = [k \in Events |-> IF k \in Keys(file.pending) THEN "pending"
                                         ELSE IF outcome'[k] = "none" THEN "absent"
                                         ELSE outcome'[k]]
    BY <1>1 DEF DurableStatus
<1>4. DurableStatus' \in [Events -> Delivery!Status]
    BY <1>2, <1>3 DEF Delivery!Status, Delivery!Final, Terminal
<1>5. ASSUME NEW k \in Events PROVE Delivery!MayBecome(k, DurableStatus'[k])
    <2>1. /\ DurableStatus[k] = IF k \in Keys(disk.pending) THEN "pending"
                                ELSE IF outcome[k] = "none" THEN "absent" ELSE outcome[k]
          /\ DurableStatus'[k] = IF k \in Keys(file.pending) THEN "pending"
                                 ELSE IF outcome'[k] = "none" THEN "absent" ELSE outcome'[k]
        BY <1>3 DEF DurableStatus
    <2>2. CASE k \in Keys(file.pending)
        <3>1. CASE k \in Keys(disk.pending)
            BY <2>1, <2>2, <3>1 DEF Delivery!MayBecome
        <3>2. CASE k \notin Keys(disk.pending)
            <4>1. outcome[k] = "none"
                BY <1>1, <2>2, <3>2, DocumentKeys, HeadIsFresh
            <4> QED BY <2>1, <2>2, <3>2, <4>1 DEF Delivery!MayBecome
        <3> QED BY <3>1, <3>2
    <2>3. CASE k \notin Keys(file.pending) /\ k \in Keys(settled)
        <3>1. k \in Keys(disk.pending)
            BY <1>1, <2>3, DocumentKeys
        <3>2. outcome'[k] = StatusIn(settled, k) /\ StatusIn(settled, k) \in Terminal
            BY <1>1, <2>3, StatusType
        <3>3. outcome'[k] = "accepted" => k \in received
            <4>1. PICK j \in DOMAIN settled :
                      settled[j].key = k /\ StatusIn(settled, k) = settled[j].status
                BY <2>3, StatusOfEntry
            <4> QED BY <3>2, <4>1 DEF DInv, AcceptedWasReceived
        <3>4. DurableStatus[k] = "pending" /\ DurableStatus'[k] = outcome'[k]
            BY <2>1, <2>3, <3>1, <3>2 DEF Terminal
        <3>5. outcome'[k] \in Delivery!Final
            BY <3>2 DEF Delivery!Final, Terminal
        <3> QED BY <3>3, <3>4, <3>5 DEF Delivery!MayBecome
    <2>4. CASE k \notin Keys(file.pending) /\ k \notin Keys(settled)
        <3>1. k \notin Keys(disk.pending)
            BY <1>1, <2>4, DocumentKeys
        <3>2. outcome'[k] = outcome[k]
            BY <1>1, <2>4
        <3> QED BY <2>1, <2>4, <3>1, <3>2 DEF Delivery!MayBecome
    <2> QED BY <2>2, <2>3, <2>4
<1> QED BY <1>1, <1>4, <1>5 DEF Delivery!DurableWrite

LEMMA NextDelivers == ASSUME IInv, DInv, [Next]_vars PROVE [Delivery!Next]_(Delivery!vars)
<1>1. CASE UNCHANGED <<disk, outcome, received>>
    BY <1>1, Unseen
<1>2. CASE ReceiverHandles
    BY <1>2, Arrival DEF ReceiverHandles, history, IInv, JobShape, TypeOK
<1>3. CASE SinkFails
    BY <1>3, Arrival DEF SinkFails, GivesUp, RequestMayArrive, history
<1>4. CASE Crash
    <2>1. CASE pc = "sending"
        BY <1>4, <2>1, Arrival DEF Crash, RequestMayArrive
    <2>2. CASE pc # "sending"
        BY <1>1, <1>4, <2>2 DEF Crash, RequestMayArrive, IInv, JobShape
    <2> QED BY <2>1, <2>2
<1>5. CASE Replace
    BY <1>5, ReplaceDelivers DEF Delivery!Next
<1>6. CASE Service \/ ReplaceFails \/ Restart \/ Tick \/ UNCHANGED vars
    BY <1>1, <1>6 DEF Service, RuntimeMutation, ContextChanges, RetryTimer, ReplaceFails, Restart,
                      Tick, outbox, history, vars
<1>7. CASE StartContinuity \/ StartEnqueue \/ StartWalk \/ Install
    BY <1>1, <1>7 DEF StartContinuity, StartEnqueue, StartWalk, Install, history
<1>8. CASE WalkRetires \/ WalkKeeps \/ WalkSends \/ SinkAnswers \/ WalkEnds
    BY <1>1, <1>8 DEF WalkRetires, WalkKeeps, WalkSends, SinkAnswers, WalkEnds, history
<1> QED BY <1>2, <1>3, <1>4, <1>5, <1>6, <1>7, <1>8 DEF Next, Jobs, Walk

\* The file as a reader sees it keeps the promise of EventDelivery, whatever crashes,
\* failed writes, and lost, late or repeated answers do (reliable-outbox.ts).
THEOREM OutboxDelivers == Spec => DeliveryKept
<1>1. IInv /\ DInv /\ [Next]_vars => [Delivery!Next]_(Delivery!vars)
    BY NextDelivers
<1> QED BY <1>1, InitDelivers, DInvInductive, PTL DEF Spec, DeliveryKept, Delivery!Spec

-----------------------------------------------------------------------------
(* The checkpoint of the scope *)

\* A job that names a scope, the scope it will write, and a stretch of the queue
\* (after i, up to j) without a request to save another one.
Scoped(i) == queue[i].kind \in {"continuity", "enqueue"}
ScopeOf(i) == IF queue[i].kind = "continuity" THEN queue[i].scope ELSE event[queue[i].key].scope
NoSave(i, j) == \A x \in DOMAIN queue : i < x /\ x <= j => queue[x].kind # "continuity"

\* An event is queued under the scope that was asked for before it.
SameScopeBetween ==
    \A i, j \in DOMAIN queue :
        i < j /\ Scoped(i) /\ Enqueues(queue, j) /\ NoSave(i, j) => ScopeOf(j) = ScopeOf(i)

LastScopeIsRequested ==
    \A i \in DOMAIN queue : Scoped(i) /\ NoSave(i, Len(queue)) => ScopeOf(i) = requested

NothingRequestedNothingQueued == requested = NoScope => \A i \in DOMAIN queue : ~Scoped(i)

\* Up to the next request to save, the records stand under their checkpoint.
RecordsHaveTheirScope ==
    HasRecords /\ requested # NoScope =>
        /\ \A i \in DOMAIN queue :
              Enqueues(queue, i) /\ NoSave(0, i) => mem.continuity = ScopeOf(i)
        /\ NoSave(0, Len(queue)) => mem.continuity = requested

ScopesAgree == /\ SameScopeBetween /\ LastScopeIsRequested
               /\ NothingRequestedNothingQueued /\ RecordsHaveTheirScope

\* The inductive invariant of the checkpoint; a failed write may lose one.
CInv == up /\ failures = 0 => ScopesAgree

LEMMA InitCInv == Init => CInv
BY DEF Init, EmptyFile, CInv, ScopesAgree, SameScopeBetween, LastScopeIsRequested, HasRecords,
       NothingRequestedNothingQueued, RecordsHaveTheirScope

LEMMA FrameCInv ==
    ASSUME CInv, UNCHANGED <<queue, event, mem, requested, up, failures>>
    PROVE  CInv'
BY DEF CInv, ScopesAgree, SameScopeBetween, LastScopeIsRequested, HasRecords, Scoped, ScopeOf,
       NoSave, Enqueues, NothingRequestedNothingQueued, RecordsHaveTheirScope

LEMMA RetryTimerCInv == ASSUME IInv, CInv, RetryTimer PROVE CInv'
<1> DEFINE job == [kind |-> IF sink THEN "flush" ELSE "sweep", at |-> now]
<1> SUFFICES ASSUME up, failures = 0 PROVE ScopesAgree'
    BY DEF CInv, RetryTimer, service, history
<1>1. ScopesAgree /\ UNCHANGED <<mem, event, requested>> /\ queue' = Append(queue, job)
      /\ queue \in Seq(Job) /\ job.kind \in {"flush", "sweep"}
    BY DEF CInv, RetryTimer, service, IInv, TypeOK
<1>2. /\ DOMAIN queue = 1..Len(queue) /\ Len(queue) \in Nat
      /\ DOMAIN queue' = 1..(Len(queue) + 1) /\ Len(queue') = Len(queue) + 1
      /\ \A i \in DOMAIN queue : queue'[i] = queue[i]
      /\ queue'[Len(queue) + 1] = job
    <2> HIDE DEF job
    <2> QED BY <1>1
<1> HIDE DEF job
<1>3. ASSUME NEW i \in DOMAIN queue'
      PROVE  /\ Scoped(i)' => i \in DOMAIN queue /\ Scoped(i) /\ ScopeOf(i)' = ScopeOf(i)
             /\ Enqueues(queue', i) => i \in DOMAIN queue /\ Enqueues(queue, i) /\ Scoped(i)'
    BY <1>1, <1>2 DEF Scoped, ScopeOf, Enqueues
<1>4. ASSUME NEW i \in Nat, NEW j \in Nat, NoSave(i, j)', j <= Len(queue') PROVE NoSave(i, j)
    BY <1>2, <1>4 DEF NoSave
<1>5. ASSUME NEW i \in Nat, NoSave(i, Len(queue))' PROVE NoSave(i, Len(queue))
    <2> SUFFICES ASSUME NEW x \in DOMAIN queue, i < x PROVE queue[x].kind # "continuity"
        BY DEF NoSave
    <2>1. x \in DOMAIN queue' /\ x <= Len(queue') /\ queue'[x] = queue[x]
        BY <1>2
    <2> QED BY <1>5, <2>1 DEF NoSave
<1>6. SameScopeBetween'
    <2> SUFFICES ASSUME NEW i \in DOMAIN queue', NEW j \in DOMAIN queue', i < j, Scoped(i)',
                        Enqueues(queue', j), NoSave(i, j)'
                 PROVE  ScopeOf(j)' = ScopeOf(i)'
        BY DEF SameScopeBetween, Enqueues
    <2>1. /\ i \in DOMAIN queue /\ j \in DOMAIN queue /\ i \in Nat /\ j \in Nat /\ j <= Len(queue')
          /\ Scoped(i) /\ Enqueues(queue, j)
          /\ ScopeOf(i)' = ScopeOf(i) /\ ScopeOf(j)' = ScopeOf(j)
        BY <1>2, <1>3
    <2> QED BY <1>1, <1>4, <2>1 DEF ScopesAgree, SameScopeBetween
<1>7. LastScopeIsRequested' /\ NothingRequestedNothingQueued'
    BY <1>1, <1>2, <1>3, <1>5 DEF ScopesAgree, LastScopeIsRequested, NothingRequestedNothingQueued
<1>8. RecordsHaveTheirScope'
    <2>1. \A i \in DOMAIN queue' : Enqueues(queue', i) /\ NoSave(0, i)' =>
              /\ i \in DOMAIN queue /\ Enqueues(queue, i) /\ NoSave(0, i)
              /\ ScopeOf(i)' = ScopeOf(i)
        BY <1>2, <1>3, <1>4
    <2> QED BY <1>1, <1>5, <2>1 DEF ScopesAgree, RecordsHaveTheirScope, HasRecords, Enqueues
<1> QED BY <1>6, <1>7, <1>8 DEF ScopesAgree

\* The running job ends: what it left in the memory is its own scope, or the memory's.
LEMMA TailCInv ==
    ASSUME IInv, ScopesAgree, queue # <<>>, queue' = Tail(queue), UNCHANGED <<event, requested>>,
           HasRecords' => \/ Scoped(1) /\ mem'.continuity = ScopeOf(1)
                          \/ /\ queue[1].kind # "continuity" /\ HasRecords
                             /\ mem'.continuity = mem.continuity
    PROVE  ScopesAgree'
<1>1. queue \in Seq(Job)
    BY DEF IInv, TypeOK
<1>2. /\ DOMAIN queue = 1..Len(queue) /\ Len(queue) \in Nat /\ 1 \in DOMAIN queue
      /\ \A i \in DOMAIN queue' :
            i \in Nat /\ i >= 1 /\ i + 1 \in DOMAIN queue /\ queue'[i] = queue[i + 1]
      /\ DOMAIN queue' = 1..(Len(queue) - 1) /\ Len(queue') = Len(queue) - 1
    BY <1>1, TailIndex
<1>3. ASSUME NEW i \in DOMAIN queue'
      PROVE  /\ Scoped(i)' = Scoped(i + 1) /\ ScopeOf(i)' = ScopeOf(i + 1)
             /\ Enqueues(queue', i) = Enqueues(queue, i + 1)
    BY <1>2 DEF Scoped, ScopeOf, Enqueues
<1>4. ASSUME NEW i \in Nat, NEW j \in Nat, NoSave(i, j)' PROVE NoSave(i + 1, j + 1)
    <2> SUFFICES ASSUME NEW x \in DOMAIN queue, i + 1 < x, x <= j + 1
                 PROVE  queue[x].kind # "continuity"
        BY DEF NoSave
    <2>1. x - 1 \in DOMAIN queue' /\ i < x - 1 /\ x - 1 <= j /\ (x - 1) + 1 = x
        BY <1>2
    <2>2. queue'[x - 1] = queue[x]
        BY <1>2, <2>1
    <2> QED BY <1>4, <2>1, <2>2 DEF NoSave
<1>5. SameScopeBetween'
    <2> SUFFICES ASSUME NEW i \in DOMAIN queue', NEW j \in DOMAIN queue', i < j, Scoped(i)',
                        Enqueues(queue', j), NoSave(i, j)'
                 PROVE  ScopeOf(j)' = ScopeOf(i)'
        BY DEF SameScopeBetween, Enqueues
    <2>1. i + 1 \in DOMAIN queue /\ j + 1 \in DOMAIN queue /\ i + 1 < j + 1 /\ NoSave(i + 1, j + 1)
        BY <1>2, <1>4
    <2> QED BY <1>3, <2>1 DEF ScopesAgree, SameScopeBetween
<1>6. LastScopeIsRequested'
    <2> SUFFICES ASSUME NEW i \in DOMAIN queue', Scoped(i)', NoSave(i, Len(queue))'
                 PROVE  ScopeOf(i)' = requested
        BY DEF LastScopeIsRequested
    <2>1. i + 1 \in DOMAIN queue /\ Len(queue') + 1 = Len(queue) /\ Len(queue') \in Nat /\ i \in Nat
        BY <1>2
    <2>2. NoSave(i + 1, Len(queue') + 1)
        <3> SUFFICES ASSUME NEW x \in DOMAIN queue, i + 1 < x, x <= Len(queue') + 1
                     PROVE  queue[x].kind # "continuity"
            BY DEF NoSave
        <3>1. x - 1 \in DOMAIN queue' /\ i < x - 1 /\ x - 1 <= Len(queue') /\ (x - 1) + 1 = x
            BY <1>2, <2>1
        <3>2. queue'[x - 1] = queue[x]
            BY <1>2, <3>1
        <3> QED BY <3>1, <3>2 DEF NoSave
    <2> QED BY <1>3, <2>1, <2>2 DEF ScopesAgree, LastScopeIsRequested
<1>7. NothingRequestedNothingQueued'
    BY <1>2, <1>3 DEF ScopesAgree, NothingRequestedNothingQueued
<1>8. RecordsHaveTheirScope'
    <2> SUFFICES ASSUME HasRecords', requested # NoScope
                 PROVE  /\ \A i \in DOMAIN queue' :
                              Enqueues(queue', i) /\ NoSave(0, i)' => mem'.continuity = ScopeOf(i)'
                        /\ NoSave(0, Len(queue))' => mem'.continuity = requested
        BY DEF RecordsHaveTheirScope, Enqueues
    <2>1. ASSUME NEW i \in DOMAIN queue', Enqueues(queue', i), NoSave(0, i)'
          PROVE  mem'.continuity = ScopeOf(i)'
        <3>1. i + 1 \in DOMAIN queue /\ 1 < i + 1 /\ i \in Nat /\ Enqueues(queue, i + 1)
              /\ ScopeOf(i)' = ScopeOf(i + 1)
            BY <1>2, <1>3, <2>1
        <3>2. NoSave(1, i + 1)
            BY <1>4, <2>1, <3>1
        <3>3. CASE Scoped(1) /\ mem'.continuity = ScopeOf(1)
            BY <1>2, <3>1, <3>2, <3>3 DEF ScopesAgree, SameScopeBetween
        <3>4. CASE /\ queue[1].kind # "continuity" /\ HasRecords
                   /\ mem'.continuity = mem.continuity
            <4>1. NoSave(0, i + 1)
                BY <1>2, <3>2, <3>4 DEF NoSave
            <4> QED BY <3>1, <3>4, <4>1 DEF ScopesAgree, RecordsHaveTheirScope
        <3> QED BY <3>3, <3>4
    <2>2. ASSUME NoSave(0, Len(queue))' PROVE mem'.continuity = requested
        <3>1. NoSave(1, Len(queue))
            <4> SUFFICES ASSUME NEW x \in DOMAIN queue, 1 < x PROVE queue[x].kind # "continuity"
                BY DEF NoSave
            <4>1. x - 1 \in DOMAIN queue' /\ 0 < x - 1 /\ x - 1 <= Len(queue') /\ (x - 1) + 1 = x
                BY <1>2
            <4>2. queue'[x - 1] = queue[x]
                BY <1>2, <4>1
            <4> QED BY <2>2, <4>1, <4>2 DEF NoSave
        <3>2. CASE Scoped(1) /\ mem'.continuity = ScopeOf(1)
            BY <1>2, <3>1, <3>2 DEF ScopesAgree, LastScopeIsRequested
        <3>3. CASE /\ queue[1].kind # "continuity" /\ HasRecords
                   /\ mem'.continuity = mem.continuity
            <4>1. NoSave(0, Len(queue))
                BY <1>2, <3>1, <3>3 DEF NoSave
            <4> QED BY <3>3, <4>1 DEF ScopesAgree, RecordsHaveTheirScope
        <3> QED BY <3>2, <3>3
    <2> QED BY <2>1, <2>2
<1> QED BY <1>5, <1>6, <1>7, <1>8 DEF ScopesAgree

\* A mutation asks for its scope first, unless it was the last one asked for.
LEMMA MutationCInv ==
    ASSUME IInv, DInv, CInv, NEW p \in Places, NEW ks \in EventLists, RuntimeMutation(p, ks)
    PROVE  CInv'
<1> DEFINE s == [live |-> live, place |-> p]
           c == IF s = requested THEN 0 ELSE 1
<1> SUFFICES ASSUME up, failures = 0 PROVE ScopesAgree'
    BY DEF CInv, RuntimeMutation, history
<1>1. ScopesAgree /\ mem' = mem /\ requested' = s /\ s # NoScope
    <2>1. s.place = p /\ NoScope.place = NoPlace /\ p # NoPlace
        BY PlaceAssumption DEF NoScope
    <2> QED BY <2>1 DEF CInv, RuntimeMutation
<1>2. /\ Len(queue) \in Nat /\ Len(ks) \in Nat /\ c \in {0, 1}
      /\ DOMAIN ks = 1..Len(ks) /\ \A i \in DOMAIN ks : ks[i] \in Events
      /\ DOMAIN queue = 1..Len(queue)
      /\ DOMAIN queue' = 1..(Len(queue) + c + Len(ks))
      /\ \A i \in DOMAIN queue : queue'[i] = queue[i]
      /\ c = 1 => queue'[Len(queue) + 1] = [kind |-> "continuity", scope |-> s]
      /\ \A i \in DOMAIN ks :
            queue'[Len(queue) + c + i] = [kind |-> "enqueue", key |-> ks[i]]
    BY MutationQueue
<1>3. c = 0 => requested = s
    OBVIOUS
<1>4. \A i \in DOMAIN ks : event'[ks[i]].scope = s
    BY MutationEvents
<1> HIDE DEF s, c
<1>5. Len(queue') = Len(queue) + c + Len(ks)
    <2>1. queue' \in Seq(Job)
        BY MutationIInv DEF IInv, TypeOK
    <2> QED BY <1>2, <2>1
\* What was queued is what it was.
<1>6. ASSUME NEW i \in DOMAIN queue
      PROVE  /\ i \in DOMAIN queue' /\ Scoped(i)' = Scoped(i)
             /\ Enqueues(queue', i) = Enqueues(queue, i)
             /\ Scoped(i) => ScopeOf(i)' = ScopeOf(i)
             /\ Enqueues(queue, i) => Scoped(i)
    <2>1. i \in DOMAIN queue' /\ queue'[i] = queue[i]
        BY <1>2
    <2>2. ASSUME Enqueues(queue, i) PROVE event'[queue[i].key] = event[queue[i].key]
        <3>1. queue[i] \in Job
            BY DEF IInv, TypeOK
        <3>2. queue[i].key \in Events /\ Derived(queue[i].key)
            BY <2>2, <3>1 DEF Enqueues, Job, DInv, QueuedIsFresh
        <3> QED BY <3>2, MutationEvents
    <2> QED BY <2>1, <2>2 DEF Scoped, ScopeOf, Enqueues
\* What is appended has the mutation's scope.
<1>7. ASSUME NEW i \in DOMAIN queue', i \notin DOMAIN queue
      PROVE  /\ i \in Nat /\ i > Len(queue) /\ ScopeOf(i)' = s
             /\ Enqueues(queue', i) => i > Len(queue) + c
    <2>1. i \in Nat /\ i > Len(queue) /\ i <= Len(queue) + c + Len(ks)
        BY <1>2, <1>7
    <2>2. CASE c = 1 /\ i = Len(queue) + 1
        <3>1. queue'[i] = [kind |-> "continuity", scope |-> s]
            BY <1>2, <2>2
        <3> QED BY <2>1, <3>1 DEF ScopeOf, Enqueues
    <2>3. CASE ~(c = 1 /\ i = Len(queue) + 1)
        <3> DEFINE j == i - (Len(queue) + c)
        <3>1. j \in 1..Len(ks) /\ i = Len(queue) + c + j /\ i > Len(queue) + c
            <4>1. Len(queue) \in Nat /\ Len(ks) \in Nat /\ c \in {0, 1}
                BY <1>2
            <4> QED BY <2>1, <2>3, <4>1
        <3> HIDE DEF j
        <3>2. j \in DOMAIN ks /\ queue'[i] = [kind |-> "enqueue", key |-> ks[j]]
            BY <1>2, <3>1
        <3> QED BY <1>4, <2>1, <3>1, <3>2 DEF ScopeOf
    <2> QED BY <2>2, <2>3
\* No request between an old job and a new one: it was not a new scope.
<1>8. ASSUME NEW i \in Nat, NEW j \in Nat, i <= Len(queue), NoSave(i, j)', j > Len(queue)
      PROVE  c = 1 => FALSE
    <2> SUFFICES ASSUME c = 1 PROVE FALSE
        OBVIOUS
    <2>1. Len(queue) + 1 \in DOMAIN queue' /\ i < Len(queue) + 1 /\ Len(queue) + 1 <= j
        BY <1>2, <1>8
    <2>2. queue'[Len(queue) + 1].kind = "continuity"
        BY <1>2
    <2> QED BY <1>8, <2>1, <2>2 DEF NoSave
<1>9. ASSUME NEW i \in Nat, NEW j \in Nat, NoSave(i, j)' PROVE NoSave(i, j)
    BY <1>2, <1>9 DEF NoSave
<1>10. ASSUME NEW i \in Nat, NEW j \in Nat, NoSave(i, j)', j > Len(queue) PROVE NoSave(i, Len(queue))
    <2> SUFFICES ASSUME NEW x \in DOMAIN queue, i < x PROVE queue[x].kind # "continuity"
        BY DEF NoSave
    <2>1. x \in DOMAIN queue' /\ x <= j /\ queue'[x] = queue[x]
        BY <1>2, <1>10
    <2> QED BY <1>10, <2>1 DEF NoSave
\* The same up to the end of the queue.
<1>11. ASSUME NEW i \in Nat, i <= Len(queue), NoSave(i, Len(queue))'
       PROVE  NoSave(i, Len(queue)) /\ c # 1
    <2> DEFINE n == Len(queue')
    <2>1. n \in Nat /\ n >= Len(queue) /\ (c = 1 => n > Len(queue)) /\ n = Len(queue) + c + Len(ks)
        BY <1>2, <1>5
    <2>2. \A x \in DOMAIN queue' : i < x => queue'[x].kind # "continuity"
        BY <1>2, <1>11, <2>1 DEF NoSave
    <2>3. NoSave(i, Len(queue))
        BY <1>2, <2>2 DEF NoSave
    <2>4. ASSUME c = 1 PROVE FALSE
        <3>1. Len(queue) + 1 \in DOMAIN queue' /\ i < Len(queue) + 1
            BY <1>2, <1>11, <2>4
        <3>2. queue'[Len(queue) + 1].kind = "continuity"
            BY <1>2, <2>4
        <3> QED BY <2>2, <3>1, <3>2
    <2> QED BY <2>3, <2>4
<1>12. SameScopeBetween'
    <2> SUFFICES ASSUME NEW i \in DOMAIN queue', NEW j \in DOMAIN queue', i < j, Scoped(i)',
                        Enqueues(queue', j), NoSave(i, j)'
                 PROVE  ScopeOf(j)' = ScopeOf(i)'
        BY DEF SameScopeBetween, Enqueues
    <2>0. i \in Nat /\ j \in Nat
        BY <1>2
    <2>1. CASE j \in DOMAIN queue
        <3>1. i \in DOMAIN queue
            BY <1>2, <2>0, <2>1
        <3> QED BY <1>1, <1>6, <1>9, <2>0, <2>1, <3>1 DEF ScopesAgree, SameScopeBetween
    <2>2. CASE i \in DOMAIN queue /\ j \notin DOMAIN queue
        <3>1. j > Len(queue) /\ i <= Len(queue) /\ ScopeOf(j)' = s
            BY <1>2, <1>7, <2>2
        <3>2. requested = s
            BY <1>2, <1>3, <1>8, <2>0, <3>1
        <3>3. ScopeOf(i) = requested
            BY <1>1, <1>6, <1>10, <2>0, <2>2, <3>1 DEF ScopesAgree, LastScopeIsRequested
        <3> QED BY <1>6, <2>2, <3>1, <3>2, <3>3
    <2>3. CASE i \notin DOMAIN queue /\ j \notin DOMAIN queue
        BY <1>7, <2>3
    <2>4. CASE i \notin DOMAIN queue /\ j \in DOMAIN queue
        BY <1>2, <1>7, <2>0, <2>4
    <2> QED BY <2>1, <2>2, <2>3
<1>13. LastScopeIsRequested'
    <2> SUFFICES ASSUME NEW i \in DOMAIN queue', Scoped(i)', NoSave(i, Len(queue))'
                 PROVE  ScopeOf(i)' = s
        BY <1>1 DEF LastScopeIsRequested
    <2>1. CASE i \in DOMAIN queue
        <3>1. i \in Nat /\ i <= Len(queue)
            BY <1>2, <2>1
        <3>2. NoSave(i, Len(queue)) /\ requested = s
            BY <1>2, <1>3, <1>11, <3>1
        <3> QED BY <1>1, <1>6, <2>1, <3>2 DEF ScopesAgree, LastScopeIsRequested
    <2>2. CASE i \notin DOMAIN queue
        BY <1>7, <2>2
    <2> QED BY <2>1, <2>2
<1>14. NothingRequestedNothingQueued'
    BY <1>1 DEF NothingRequestedNothingQueued
<1>15. RecordsHaveTheirScope'
    <2> SUFFICES ASSUME HasRecords
                 PROVE  /\ \A i \in DOMAIN queue' :
                              Enqueues(queue', i) /\ NoSave(0, i)' => mem.continuity = ScopeOf(i)'
                        /\ NoSave(0, Len(queue))' => mem.continuity = s
        BY <1>1 DEF RecordsHaveTheirScope, Enqueues, HasRecords
    <2>1. ASSUME NEW i \in DOMAIN queue', Enqueues(queue', i), NoSave(0, i)'
          PROVE  mem.continuity = ScopeOf(i)'
        <3>0. i \in Nat
            BY <1>2
        <3>1. CASE i \in DOMAIN queue
            <4>1. Enqueues(queue, i) /\ Scoped(i) /\ NoSave(0, i) /\ ScopeOf(i)' = ScopeOf(i)
                BY <1>6, <1>9, <2>1, <3>0, <3>1
            <4> QED BY <1>1, <3>1, <4>1
                    DEF ScopesAgree, RecordsHaveTheirScope, NothingRequestedNothingQueued
        <3>2. CASE i \notin DOMAIN queue
            <4>1. i > Len(queue) /\ ScopeOf(i)' = s /\ 0 <= Len(queue)
                BY <1>2, <1>7, <2>1, <3>2
            <4>2. requested = s /\ NoSave(0, Len(queue))
                BY <1>2, <1>3, <1>8, <1>10, <2>1, <3>0, <4>1
            <4> QED BY <1>1, <4>1, <4>2 DEF ScopesAgree, RecordsHaveTheirScope
        <3> QED BY <3>1, <3>2
    <2>2. ASSUME NoSave(0, Len(queue))' PROVE mem.continuity = s
        <3>1. NoSave(0, Len(queue)) /\ requested = s
            BY <1>2, <1>3, <1>11, <2>2
        <3> QED BY <1>1, <3>1 DEF ScopesAgree, RecordsHaveTheirScope
    <2> QED BY <2>1, <2>2
<1> QED BY <1>12, <1>13, <1>14, <1>15 DEF ScopesAgree

\* A job that ends without a document leaves the memory; only a request to save
\* does so without an effect, and then there is no record.
LEMMA FinishCInv ==
    ASSUME IInv, CInv, queue # <<>>, Finish, UNCHANGED <<mem, event, requested, up, failures>>,
           Head(queue).kind = "continuity" => ~HasRecords
    PROVE  CInv'
<1> SUFFICES ASSUME ScopesAgree PROVE ScopesAgree'
    BY DEF CInv
<1>1. queue \in Seq(Job)
    BY DEF IInv, TypeOK
<1>2. queue[1] = Head(queue) /\ queue' = Tail(queue)
    BY <1>1, TailIndex DEF Finish
<1>3. HasRecords' = HasRecords
    BY DEF HasRecords
<1> QED BY <1>2, <1>3, TailCInv

LEMMA InstallCInv == ASSUME IInv, DInv, CInv, Install PROVE CInv'
<1> SUFFICES ASSUME ScopesAgree PROVE ScopesAgree'
    BY DEF CInv, Install, service
<1>1. queue \in Seq(Job) /\ queue # <<>> /\ pc = "install"
    BY DEF IInv, TypeOK, JobShape, Install
<1>2. queue[1] = Head(queue) /\ queue' = Tail(queue) /\ mem' = file
      /\ UNCHANGED <<event, requested>>
    BY <1>1, TailIndex DEF Install, Finish, service
<1>3. \/ Scoped(1) /\ mem'.continuity = ScopeOf(1)
      \/ queue[1].kind # "continuity" /\ HasRecords /\ mem'.continuity = mem.continuity
    BY <1>1, <1>2 DEF DInv, DocumentOfJob, RunningIs, Scoped, ScopeOf
<1> QED BY <1>1, <1>2, <1>3, TailCInv

LEMMA JobStartsCInv ==
    ASSUME IInv, DInv, CInv, StartContinuity \/ StartEnqueue \/ WalkEnds PROVE CInv'
<1>0. /\ UNCHANGED <<mem, event, requested, up, failures>> /\ queue # <<>>
    BY DEF StartContinuity, StartEnqueue, WalkEnds, service, history, IInv, JobShape
<1>1. CASE queue' = queue
    BY <1>0, <1>1, FrameCInv
<1>2. CASE Finish
    <2>1. Head(queue).kind = "continuity" => ~HasRecords
        <3> SUFFICES ASSUME Head(queue).kind = "continuity", HasRecords PROVE FALSE
            OBVIOUS
        <3>1. StartContinuity /\ queue' = queue
            BY DEF StartContinuity, StartEnqueue, WalkEnds, IInv, JobShape, CommitStarts
        <3>2. queue' = Tail(queue) /\ queue \in Seq(Job)
            BY <1>2 DEF Finish, IInv, TypeOK
        <3>3. Len(Tail(queue)) # Len(queue)
            BY <1>0, <3>2
        <3> QED BY <3>1, <3>2, <3>3
    <2> QED BY <1>0, <1>2, <2>1, FinishCInv
<1> QED BY <1>1, <1>2 DEF StartContinuity, StartEnqueue, WalkEnds, CommitStarts

LEMMA NextCInv ==
    ASSUME IInv, DeadHoldsNothing, DInv, CInv, [Next]_vars PROVE CInv'
<1>1. CASE Service
    <2>1. ASSUME NEW p \in Places, ContextChanges(p) PROVE CInv'
        BY <2>1, FrameCInv DEF ContextChanges, outbox, history
    <2> QED BY <1>1, <2>1, MutationCInv, RetryTimerCInv DEF Service
<1>2. CASE StartContinuity \/ StartEnqueue \/ WalkEnds
    BY <1>2, JobStartsCInv
<1>3. CASE StartWalk \/ WalkStep \/ Replace \/ ReceiverHandles \/ Tick \/ UNCHANGED vars
    BY <1>3, FrameCInv DEF StartWalk, WalkStep, WalkRetires, WalkKeeps, WalkSends, SinkAnswers,
                           SinkFails, Replace, ReceiverHandles, Tick, vars, outbox, service, history
<1>4. CASE Install
    BY <1>4, InstallCInv
<1>5. CASE ReplaceFails
    <2>1. failures \in Nat /\ failures' = failures + 1
        BY <1>5 DEF ReplaceFails, IInv, TypeOK
    <2> QED BY <2>1 DEF CInv
<1>6. CASE Crash
    BY <1>6 DEF Crash, CInv
<1>7. CASE Restart
    <2>1. queue' = <<>> /\ requested' = NoScope
        BY <1>7 DEF Restart, DeadHoldsNothing
    <2> QED BY <2>1 DEF CInv, ScopesAgree, SameScopeBetween, LastScopeIsRequested,
                        NothingRequestedNothingQueued, RecordsHaveTheirScope
<1> QED BY <1>1, <1>2, <1>3, <1>4, <1>5, <1>6, <1>7 DEF Next, Jobs, Walk, WalkStep

THEOREM CInvInductive == Init /\ [][Next]_vars => [](IInv /\ DInv /\ CInv)
<1>1. IInv /\ DeadHoldsNothing /\ DInv /\ CInv /\ [Next]_vars => CInv'
    BY NextCInv
<1> QED BY <1>1, InitCInv, DInvInductive, PTL

\* An acknowledged event is in the file until it is settled there, and an idle outbox whose
\* writes succeeded keeps its records under the scope that was asked for last
\* (reliable-outbox.ts enqueue, trim, updateContinuity).
THEOREM OutboxForgetsNothing == Spec => []NothingIsForgotten
<1>1. IInv /\ DInv /\ CInv => NothingIsForgotten
    <2> SUFFICES ASSUME IInv, DInv, CInv PROVE CheckpointIsLatest
        BY DEF NothingIsForgotten, DInv
    <2> SUFFICES ASSUME up, queue = <<>>, failures = 0, requested # NoScope,
                        disk.pending # <<>> \/ disk.terminal # <<>>
                 PROVE  disk.continuity = requested
        BY DEF CheckpointIsLatest
    <2>1. mem = disk /\ HasRecords
        BY DEF IInv, JobShape, DInv, DiskIsMemory, HasRecords
    <2>2. NoSave(0, Len(queue))
        BY DEF NoSave
    <2> QED BY <2>1, <2>2 DEF CInv, ScopesAgree, RecordsHaveTheirScope
<1> QED BY <1>1, CInvInductive, PTL DEF Spec

-----------------------------------------------------------------------------
(* The attempts *)

Once(s) == \A i, j \in DOMAIN s : s[i].key = s[j].key => i = j

Slack == crashes + failures

\* From some entry on, the attempts of a list account for what was sent, but for extra.
Counted(s, from, extra) ==
    \A i \in DOMAIN s : i >= from => sends[s[i].key] <= s[i].attempts + Slack + extra

\* What the file's attempts are behind by while a walk has not been written.
Unwritten == IF pc \in {"loop", "sending", "replace"} THEN 1 ELSE 0

EveryEventOnce == Once(mem.pending) /\ Once(disk.pending) /\ Once(kept)

EverySendCounted ==
    /\ Counted(disk.pending, 1, Unwritten)
    /\ Counted(kept, 1, 0)
    /\ pc = "loop" => Counted(mem.pending, Position, 0)
    /\ pc = "sending" => Counted(mem.pending, Position + 1, 0)
    /\ pc \in {"replace", "install"} => Counted(file.pending, 1, 0)

SInv == EveryEventOnce /\ EverySendCounted

LEMMA InitSInv == Init => SInv
BY DEF Init, EmptyFile, SInv, EveryEventOnce, EverySendCounted, Once, Counted

LEMMA OnceAppend ==
    ASSUME NEW S, NEW s \in Seq(S), NEW r, Once(s), r.key \notin Keys(s)
    PROVE  Once(Append(s, r))
<1>1. /\ DOMAIN Append(s, r) = 1..(Len(s) + 1) /\ DOMAIN s = 1..Len(s) /\ Len(s) \in Nat
      /\ Append(s, r)[Len(s) + 1] = r
      /\ \A i \in 1..Len(s) : Append(s, r)[i] = s[i]
    OBVIOUS
<1>2. \A i \in 1..Len(s) : s[i].key # r.key
    BY <1>1 DEF Keys
<1> QED BY <1>1, <1>2 DEF Once

LEMMA CountedAppend ==
    ASSUME NEW S, NEW s \in Seq(S), NEW r, NEW n \in Int, NEW e \in Nat, Counted(s, n, e),
           sends[r.key] <= r.attempts + Slack + e
    PROVE  Counted(Append(s, r), n, e)
<1>1. /\ DOMAIN Append(s, r) = 1..(Len(s) + 1) /\ DOMAIN s = 1..Len(s) /\ Len(s) \in Nat
      /\ Append(s, r)[Len(s) + 1] = r
      /\ \A i \in 1..Len(s) : Append(s, r)[i] = s[i]
    OBVIOUS
<1> QED BY <1>1 DEF Counted

\* The document being written has every event once, and all its sends counted.
LEMMA DocumentOnce ==
    ASSUME IInv, DInv, SInv, pc \in {"replace", "install"} PROVE Once(file.pending)
<1>1. mem.pending \in Seq(PendingRecord)
    BY DEF IInv, TypeOK, File
<1> QED BY <1>1, OnceAppend DEF DInv, DocumentOfJob, SInv, EveryEventOnce

LEMMA CountTypes ==
    ASSUME IInv, NEW s \in Seq(PendingRecord), NEW i \in DOMAIN s
    PROVE  s[i].attempts \in Nat /\ s[i].key \in Events /\ sends[s[i].key] \in Nat /\ Slack \in Nat
<1>1. s[i] \in PendingRecord
    OBVIOUS
<1> QED BY <1>1 DEF PendingRecord, IInv, TypeOK, Slack

\* A step that neither sends nor touches a list, whatever job it is part of.
LEMMA FrameSInv ==
    ASSUME SInv, UNCHANGED <<disk, mem, kept, settled, file, pc, sends, crashes, failures>>
    PROVE  SInv'
BY DEF SInv, EveryEventOnce, EverySendCounted, Once, Counted, Slack, Unwritten, Position

LEMMA JobStartsSInv ==
    ASSUME IInv, DInv, SInv, StartContinuity \/ StartEnqueue \/ StartWalk \/ WalkEnds
    PROVE  SInv'
<1>1. /\ UNCHANGED <<disk, mem, sends, crashes, failures>> /\ pc \in {"idle", "loop"} /\ mem = disk
      /\ queue # <<>> /\ up
    BY DEF StartContinuity, StartEnqueue, StartWalk, WalkEnds, service, history, IInv, JobShape,
           DInv, DiskIsMemory
<1>2. CASE Finish
    <2>1. pc = "loop" => Counted(disk.pending, 1, 0)
        <3> SUFFICES ASSUME pc = "loop" PROVE Counted(disk.pending, 1, 0)
            OBVIOUS
        <3>1. WalkEnds /\ queue' = Tail(queue) /\ queue \in Seq(Job)
            BY <1>2 DEF StartContinuity, StartEnqueue, StartWalk, Finish, IInv, TypeOK
        <3>2. queue' # queue
            <4>1. Len(Tail(queue)) # Len(queue)
                BY <1>1, <3>1
            <4> QED BY <3>1, <4>1
        <3>3. kept = disk.pending
            BY <1>1, <3>1, <3>2 DEF WalkEnds, CommitStarts
        <3> QED BY <3>3 DEF SInv, EverySendCounted
    <2>2. Counted(disk.pending, 1, 0)
        BY <1>1, <2>1 DEF SInv, EverySendCounted, Unwritten
    <2>3. kept' = <<>> /\ pc' = "idle"
        BY <1>2 DEF Finish
    <2> QED BY <1>1, <2>2, <2>3 DEF SInv, EveryEventOnce, EverySendCounted, Once, Counted, Slack, Unwritten
<1>3. CASE StartWalk
    <2>1. Counted(disk.pending, 1, 0)
        BY <1>1, <1>3 DEF SInv, EverySendCounted, Unwritten, StartWalk
    <2>2. kept' = <<>> /\ settled' = <<>> /\ pc' = "loop" /\ Position' = 1
        BY <1>3 DEF StartWalk, Position
    <2>3. Counted(disk.pending, 1, 1)
        <3>1. disk.pending \in Seq(PendingRecord)
            BY DEF IInv, TypeOK, File
        <3> QED BY <2>1, <3>1, CountTypes DEF Counted
    <2> QED BY <1>1, <2>1, <2>2, <2>3
            DEF SInv, EveryEventOnce, EverySendCounted, Once, Counted, Slack, Unwritten
<1>4. CASE \E f : CommitStarts(f)
    <2>1. pc' = "replace" /\ UNCHANGED <<kept, settled, queue>>
        BY <1>4 DEF CommitStarts
    <2>2. DInv' /\ ~StartWalk
        BY <2>1, StartContinuityDInv, StartEnqueueDInv, StartWalkDInv, WalkEndsDInv
           DEF StartWalk
    <2>3. disk.pending \in Seq(PendingRecord) /\ Slack \in Nat
        BY DEF IInv, TypeOK, File, Slack
    <2>4. Counted(disk.pending, 1, 1)
        <3>1. CASE pc = "loop"
            BY <3>1 DEF SInv, EverySendCounted, Unwritten
        <3>2. CASE pc = "idle"
            <4>1. Counted(disk.pending, 1, 0)
                BY <3>2 DEF SInv, EverySendCounted, Unwritten
            <4> QED BY <2>3, <4>1, CountTypes DEF Counted
        <3> QED BY <1>1, <3>1, <3>2
    <2>5. Counted(file'.pending, 1, 0)
        <3>1. CASE WalkEnds
            <4>1. RunningIs({"flush", "sweep"})
                BY <1>1, <3>1 DEF WalkEnds, RunningIs, IInv, JobShape
            <4>2. file'.pending = kept
                BY <2>1, <2>2, <4>1 DEF DInv, DocumentOfJob, RunningIs
            <4> QED BY <4>2 DEF SInv, EverySendCounted
        <3>2. CASE StartContinuity
            <4>1. RunningIs({"continuity"}) /\ pc = "idle"
                BY <1>1, <3>2 DEF StartContinuity, RunningIs
            <4>2. file'.pending = mem.pending
                BY <1>1, <2>1, <2>2, <4>1 DEF DInv, DocumentOfJob, RunningIs
            <4> QED BY <1>1, <4>1, <4>2 DEF SInv, EverySendCounted, Unwritten
        <3>3. CASE StartEnqueue
            <4> DEFINE r == [key |-> Head(queue).key, attempts |-> 0,
                             nextAt |-> event[Head(queue).key].at]
            <4>1. RunningIs({"enqueue"}) /\ pc = "idle" /\ event' = event
                BY <1>1, <3>3 DEF StartEnqueue, RunningIs, service
            <4>2. file'.pending = Append(mem.pending, r)
                BY <1>1, <2>1, <2>2, <4>1 DEF DInv, DocumentOfJob, RunningIs
            <4>3. sends[r.key] <= r.attempts + Slack + 0
                BY <2>3, <4>1, HeadIsFresh
            <4>4. Counted(mem.pending, 1, 0)
                BY <1>1, <4>1 DEF SInv, EverySendCounted, Unwritten
            <4> HIDE DEF r
            <4> QED BY <1>1, <2>3, <4>2, <4>3, <4>4, CountedAppend
        <3> QED BY <2>2, <3>1, <3>2, <3>3
    <2> QED BY <1>1, <2>1, <2>4, <2>5
            DEF SInv, EveryEventOnce, EverySendCounted, Once, Counted, Slack, Unwritten
<1> QED BY <1>2, <1>3, <1>4 DEF StartContinuity, StartEnqueue, WalkEnds

\* The record the walk is at occurs once, is in neither list, and its sends are counted.
LEMMA CurrentCounts ==
    ASSUME IInv, DInv, SInv, pc \in {"loop", "sending"}, Position <= Len(mem.pending)
    PROVE  /\ Current.key \notin Keys(kept)
           /\ \A i \in DOMAIN mem.pending : mem.pending[i].key = Current.key => i = Position
           /\ sends[Current.key] \in Nat /\ Current.attempts \in Nat /\ Slack \in Nat
           /\ pc = "loop" => sends[Current.key] <= Current.attempts + Slack
           /\ pc = "sending" => sends[Current.key] <= Current.attempts + Slack + 1
<1>1. /\ mem.pending \in Seq(PendingRecord) /\ DOMAIN mem.pending = 1..Len(mem.pending)
    BY DEF IInv, TypeOK, File
<1>2. /\ Position \in DOMAIN mem.pending /\ Current = mem.pending[Position] /\ mem = disk
      /\ Position = Len(kept) + Len(settled) + 1 /\ Len(kept) \in Nat /\ Len(settled) \in Nat
    BY <1>1, CurrentIsKnown
<1>3. /\ sends[Current.key] \in Nat /\ Current.attempts \in Nat /\ Slack \in Nat
    BY <1>1, <1>2, CountTypes
<1>4. \A i \in DOMAIN mem.pending : mem.pending[i].key = Current.key => i = Position
    BY <1>2 DEF SInv, EveryEventOnce, Once
<1>5. Current.key \notin Keys(kept)
    <2> SUFFICES ASSUME Current.key \in Keys(kept) PROVE FALSE
        OBVIOUS
    <2>1. Current.key \in WalkedKeys
        BY DEF DInv, WalkCovers
    <2>2. PICK i \in 1..(Len(kept) + Len(settled)) : mem.pending[i].key = Current.key
        BY <2>1 DEF WalkedKeys
    <2>3. i \in DOMAIN mem.pending /\ i # Position
        BY <1>1, <1>2
    <2> QED BY <1>4, <2>2, <2>3
<1>6. pc = "loop" => sends[Current.key] <= Current.attempts + Slack
    <2> SUFFICES ASSUME pc = "loop" PROVE sends[Current.key] <= Current.attempts + Slack
        OBVIOUS
    <2>1. Counted(mem.pending, Position, 0)
        BY DEF SInv, EverySendCounted
    <2> QED BY <1>1, <1>2, <1>3, <2>1 DEF Counted
<1>7. pc = "sending" => sends[Current.key] <= Current.attempts + Slack + 1
    <2> SUFFICES ASSUME pc = "sending" PROVE sends[Current.key] <= Current.attempts + Slack + 1
        OBVIOUS
    <2>1. Counted(mem.pending, 1, 1)
        BY <1>2 DEF SInv, EverySendCounted, Unwritten
    <2> QED BY <1>1, <1>2, <1>3, <2>1 DEF Counted
<1> QED BY <1>3, <1>4, <1>5, <1>6, <1>7

\* The walk passes a record: what was sent for it is in the entry it leaves.
LEMMA PassesSInv ==
    ASSUME IInv, DInv, SInv, pc \in {"loop", "sending"}, Position <= Len(mem.pending), NEW r,
           \/ settled' = Append(settled, r) /\ kept' = kept
           \/ /\ kept' = Append(kept, r) /\ settled' = settled
              /\ r.key = Current.key /\ r.attempts \in Nat /\ sends[r.key] <= r.attempts + Slack,
           pc' = "loop", UNCHANGED <<disk, mem, sends, crashes, failures>>
    PROVE  SInv'
<1>1. /\ kept \in Seq(PendingRecord) /\ settled \in Seq(TerminalRecord)
      /\ mem.pending \in Seq(PendingRecord) /\ Slack \in Nat
    BY DEF IInv, TypeOK, File, Slack
<1>2. Position' = Position + 1 /\ Position \in 1..Len(mem.pending)
    <2>1. /\ Len(kept) \in Nat /\ Len(settled) \in Nat
          /\ Len(Append(kept, r)) = Len(kept) + 1 /\ Len(Append(settled, r)) = Len(settled) + 1
        BY <1>1
    <2>2. CASE settled' = Append(settled, r) /\ kept' = kept
        BY <2>1, <2>2, CurrentIsKnown DEF Position
    <2>3. CASE kept' = Append(kept, r) /\ settled' = settled
        BY <2>1, <2>3, CurrentIsKnown DEF Position
    <2> QED BY <2>2, <2>3
<1>3. Counted(mem.pending, Position', 0)
    <2>1. CASE pc = "loop"
        BY <1>1, <1>2, <2>1 DEF SInv, EverySendCounted, Counted
    <2>2. CASE pc = "sending"
        BY <1>2, <2>2 DEF SInv, EverySendCounted
    <2> QED BY <2>1, <2>2
<1>4. Once(kept') /\ Counted(kept', 1, 0)
    <2>1. CASE kept' = kept
        BY <2>1 DEF SInv, EveryEventOnce, EverySendCounted
    <2>2. CASE /\ kept' = Append(kept, r) /\ r.key = Current.key /\ r.attempts \in Nat
               /\ sends[r.key] <= r.attempts + Slack
        <3>1. r.key \notin Keys(kept)
            BY <2>2, CurrentCounts
        <3>2. sends[r.key] <= r.attempts + Slack + 0
            BY <2>2, <1>1, CurrentCounts
        <3> QED BY <1>1, <2>2, <3>1, <3>2, OnceAppend, CountedAppend
                DEF SInv, EveryEventOnce, EverySendCounted
    <2> QED BY <2>1, <2>2
<1>5. Unwritten' = Unwritten /\ Slack' = Slack
    BY DEF Unwritten, Slack
<1> QED BY <1>3, <1>4, <1>5
        DEF SInv, EveryEventOnce, EverySendCounted, Once, Counted

LEMMA WalkSendsSInv == ASSUME IInv, DInv, SInv, WalkSends PROVE SInv'
<1>1. /\ UNCHANGED <<disk, mem, kept, settled, crashes, failures>> /\ pc = "loop"
      /\ pc' = "sending" /\ Position <= Len(mem.pending)
      /\ sends' = [sends EXCEPT ![Current.key] = @ + 1]
    BY DEF WalkSends, Walking
<1>2. /\ mem.pending \in Seq(PendingRecord) /\ kept \in Seq(PendingRecord) /\ mem = disk
      /\ Position \in 1..Len(mem.pending) /\ Current = mem.pending[Position]
      /\ Current.key \in Events /\ sends \in [Events -> Nat]
    BY <1>1, CurrentIsKnown DEF IInv, TypeOK, File
<1>3. /\ sends'[Current.key] = sends[Current.key] + 1
      /\ \A k \in Events : k # Current.key => sends'[k] = sends[k]
    BY <1>1, <1>2
<1>4. Counted(mem.pending, 1, 1)'
    <2> SUFFICES ASSUME NEW i \in DOMAIN mem.pending
                 PROVE  sends'[mem.pending[i].key] <= mem.pending[i].attempts + Slack + 1
        BY <1>1 DEF Counted, Slack
    <2>1. CASE i = Position
        BY <1>1, <1>2, <1>3, <2>1, CurrentCounts
    <2>2. CASE i # Position
        <3>1. mem.pending[i].key # Current.key /\ mem.pending[i].key \in Events
            BY <1>1, <1>2, <2>2, CurrentCounts, CountTypes
        <3>2. sends[mem.pending[i].key] <= mem.pending[i].attempts + Slack + 1
            <4>1. Counted(mem.pending, 1, 1) /\ i >= 1
                BY <1>1, <1>2 DEF SInv, EverySendCounted, Unwritten
            <4> QED BY <4>1 DEF Counted
        <3> QED BY <1>3, <3>1, <3>2
    <2> QED BY <2>1, <2>2
<1>5. Counted(mem.pending, Position + 1, 0)'
    <2> SUFFICES ASSUME NEW i \in DOMAIN mem.pending, i >= Position + 1
                 PROVE  sends'[mem.pending[i].key] <= mem.pending[i].attempts + Slack + 0
        BY <1>1 DEF Counted, Slack, Position
    <2>1. i >= Position /\ i # Position
        BY <1>2
    <2>2. mem.pending[i].key # Current.key /\ mem.pending[i].key \in Events
        BY <1>1, <1>2, <2>1, CurrentCounts, CountTypes
    <2>3. sends[mem.pending[i].key] <= mem.pending[i].attempts + Slack + 0
        BY <1>1, <2>1 DEF SInv, EverySendCounted, Counted
    <2> QED BY <1>3, <2>2, <2>3
<1>6. Counted(kept, 1, 0)'
    <2> SUFFICES ASSUME NEW i \in DOMAIN kept, i >= 1
                 PROVE  sends'[kept[i].key] <= kept[i].attempts + Slack + 0
        BY <1>1 DEF Counted, Slack
    <2>1. kept[i].key \in Keys(kept) /\ kept[i].key \in Events
        BY <1>2, CountTypes DEF Keys
    <2>2. kept[i].key # Current.key
        BY <1>1, <2>1, CurrentCounts
    <2>3. sends[kept[i].key] <= kept[i].attempts + Slack + 0
        BY DEF SInv, EverySendCounted, Counted
    <2> QED BY <1>3, <2>1, <2>2, <2>3
<1>7. Counted(disk.pending, 1, Unwritten)' /\ Position' = Position
    BY <1>1, <1>2, <1>4 DEF Counted, Unwritten, Position
<1> QED BY <1>1, <1>5, <1>6, <1>7 DEF SInv, EveryEventOnce, EverySendCounted, Once

LEMMA WalkStepSInv == ASSUME IInv, DInv, SInv, WalkStep PROVE SInv'
<1>1. pc \in {"loop", "sending"} /\ Position <= Len(mem.pending)
    BY DEF WalkStep, WalkRetires, WalkKeeps, WalkSends, SinkAnswers, SinkFails, Walking,
           GivesUp, Position, IInv, JobShape, TypeOK, File
<1>2. CASE WalkRetires \/ SinkAnswers
    <2>1. PICK x : Settle(x)
        BY <1>2 DEF WalkRetires, SinkAnswers
    <2>2. pc' = "loop" /\ UNCHANGED <<disk, mem, kept, sends, crashes, failures>>
        BY <1>2 DEF WalkRetires, SinkAnswers, Walking, history
    <2> DEFINE r == [key |-> Current.key, status |-> x]
    <2>3. settled' = Append(settled, r)
        BY <2>1 DEF Settle
    <2> HIDE DEF r
    <2> QED BY <1>1, <2>2, <2>3, PassesSInv
<1>3. CASE WalkKeeps
    <2>1. pc = "loop" /\ pc' = "loop" /\ kept' = Append(kept, Current)
          /\ UNCHANGED <<disk, mem, settled, sends, crashes, failures>>
        BY <1>3 DEF WalkKeeps, Walking, history
    <2> QED BY <1>1, <2>1, CurrentCounts, PassesSInv
<1>4. CASE SinkFails
    <2> DEFINE r == Retried(Current)
    <2>1. pc = "sending" /\ pc' = "loop" /\ kept' = Append(kept, r)
          /\ UNCHANGED <<disk, mem, settled, sends, crashes, failures>>
        BY <1>4 DEF SinkFails, GivesUp, history
    <2>2. r.key = Current.key /\ r.attempts = Current.attempts + 1
        BY DEF Retried
    <2> HIDE DEF r
    <2>3. r.attempts \in Nat /\ sends[r.key] <= r.attempts + Slack
        BY <1>1, <2>1, <2>2, CurrentCounts
    <2> QED BY <1>1, <2>1, <2>2, <2>3, PassesSInv
<1> QED BY <1>2, <1>3, <1>4, WalkSendsSInv DEF WalkStep

LEMMA ReplaceSInv == ASSUME IInv, DInv, SInv, Replace PROVE SInv'
<1>1. /\ UNCHANGED <<mem, kept, settled, file, sends, crashes, failures>> /\ disk' = file
      /\ pc = "replace" /\ pc' = "install"
    BY DEF Replace
<1>2. Once(file.pending)
    BY <1>1, DocumentOnce
<1> QED BY <1>1, <1>2 DEF SInv, EveryEventOnce, EverySendCounted, Once, Counted, Slack, Unwritten

LEMMA InstallSInv == ASSUME IInv, DInv, SInv, Install PROVE SInv'
<1>1. /\ UNCHANGED <<disk, sends, crashes, failures>> /\ mem' = file /\ kept' = <<>>
      /\ pc = "install" /\ pc' = "idle"
    BY DEF Install, Finish
<1>2. Once(file.pending)
    BY <1>1, DocumentOnce
<1> QED BY <1>1, <1>2 DEF SInv, EveryEventOnce, EverySendCounted, Once, Counted, Slack, Unwritten

\* A write that fails, or a process that dies, leaves the attempts of the walk behind.
LEMMA LossSInv ==
    ASSUME IInv, SInv, UNCHANGED <<disk, sends>>, Slack' = Slack + 1, pc' = "idle",
           kept' = <<>>, mem' = mem \/ mem' = EmptyFile
    PROVE  SInv'
<1>1. disk.pending \in Seq(PendingRecord)
    BY DEF IInv, TypeOK, File
<1>2. ASSUME NEW i \in DOMAIN disk.pending
      PROVE  sends[disk.pending[i].key] <= disk.pending[i].attempts + (Slack + 1) + 0
    <2>1. sends[disk.pending[i].key] <= disk.pending[i].attempts + Slack + Unwritten
        BY <1>1 DEF SInv, EverySendCounted, Counted
    <2>2. Unwritten \in {0, 1} /\ Slack \in Nat /\ disk.pending[i].attempts \in Nat
          /\ sends[disk.pending[i].key] \in Nat
        BY <1>1, CountTypes DEF Unwritten
    <2> QED BY <2>1, <2>2
<1>3. Counted(disk.pending, 1, Unwritten)'
    BY <1>2 DEF Counted, Unwritten
<1>4. EveryEventOnce'
    BY DEF SInv, EveryEventOnce, Once, EmptyFile
<1> QED BY <1>3, <1>4 DEF SInv, EverySendCounted, Counted

LEMMA NextSInv ==
    ASSUME IInv, DeadHoldsNothing, DInv, SInv, [Next]_vars PROVE SInv'
<1>1. CASE Service \/ ReceiverHandles \/ Tick \/ UNCHANGED vars
    BY <1>1, FrameSInv DEF Service, RuntimeMutation, ContextChanges, RetryTimer, ReceiverHandles,
                           Tick, vars, outbox, history
<1>2. CASE StartContinuity \/ StartEnqueue \/ StartWalk \/ WalkEnds
    BY <1>2, JobStartsSInv
<1>3. CASE WalkStep
    BY <1>3, WalkStepSInv
<1>4. CASE ReplaceFails
    <2>1. Slack' = Slack + 1
        BY <1>4 DEF ReplaceFails, Slack, IInv, TypeOK
    <2> QED BY <1>4, <2>1, LossSInv DEF ReplaceFails, Finish
<1>5. CASE Crash
    <2>1. Slack' = Slack + 1
        BY <1>5 DEF Crash, Slack, IInv, TypeOK
    <2> QED BY <1>5, <2>1, LossSInv DEF Crash
<1>6. CASE Restart
    <2>1. UNCHANGED <<disk, kept, file, pc, sends, crashes, failures>> /\ mem' = disk /\ pc = "idle"
        BY <1>6 DEF Restart, history, IInv, JobShape
    <2> QED BY <2>1 DEF SInv, EveryEventOnce, EverySendCounted, Once, Counted, Slack, Unwritten
<1> QED BY <1>1, <1>2, <1>3, <1>4, <1>5, <1>6, ReplaceSInv, InstallSInv DEF Next, Jobs, Walk, WalkStep

\* The attempts in the file account for every request sent, but for those of a walk
\* that runs, died, or could not be written (reliable-outbox.ts flush).
THEOREM OutboxCountsSends == Spec => []SendsAreCounted
<1>1. IInv /\ DeadHoldsNothing /\ DInv /\ SInv /\ [Next]_vars => SInv'
    BY NextSInv
<1>2. IInv /\ SInv => SendsAreCounted
    <2> SUFFICES ASSUME IInv, SInv, NEW i \in DOMAIN disk.pending
                 PROVE  sends[disk.pending[i].key] <= disk.pending[i].attempts + crashes + failures
                            + (IF up /\ queue # <<>> /\ pc # "idle" THEN 1 ELSE 0)
        BY DEF SendsAreCounted
    <2>1. disk.pending \in Seq(PendingRecord) /\ (pc # "idle" => up /\ queue # <<>>)
        BY DEF IInv, TypeOK, File, JobShape
    <2>2. sends[disk.pending[i].key] <= disk.pending[i].attempts + Slack + Unwritten
        BY <2>1 DEF SInv, EverySendCounted, Counted
    <2>3. /\ crashes \in Nat /\ failures \in Nat /\ disk.pending[i].attempts \in Nat
          /\ sends[disk.pending[i].key] \in Nat
        BY <2>1, CountTypes DEF IInv, TypeOK
    <2>4. Unwritten \in {0, 1} /\ (Unwritten = 1 => pc # "idle")
        BY DEF Unwritten
    <2> QED BY <2>1, <2>2, <2>3, <2>4 DEF Slack
<1> QED BY <1>1, <1>2, InitSInv, DInvInductive, PTL DEF Spec
=============================================================================
