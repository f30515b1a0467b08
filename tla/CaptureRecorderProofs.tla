------------------------ MODULE CaptureRecorderProofs ------------------------
(***************************************************************************)
(* Proofs about CaptureRecorder for every queue limit: no frame leaves the *)
(* accounts, finalize and the pump never share the file, and a published   *)
(* capture is whole.                                                       *)
(***************************************************************************)
EXTENDS CaptureRecorder, TLAPS

\* TypeOK by sort of variable: Zenon deals with the flags, SMT with the rest.
Flags ==
    /\ failed \in BOOLEAN /\ complete \in BOOLEAN /\ chainFailed \in BOOLEAN
    /\ tail \in BOOLEAN /\ synced \in BOOLEAN /\ open \in BOOLEAN
    /\ safe \in BOOLEAN /\ published \in BOOLEAN

Data ==
    /\ lifecycle \in {"accepting", "finalizing", "abandoned", "closed"}
    /\ queue \in Seq(Nat \ {NoFrame}) /\ active \in Nat
    /\ pending \in Nat /\ dropped \in Nat
    /\ recorded \in Seq(Nat \ {NoFrame})
    /\ tidying \in {"no", "truncate", "close"}
    /\ chain \in Seq(Nat) /\ journal \in Seq(Nat)
    /\ stage \in Stage
    /\ manifest \in Manifest \cup {NoManifest}
    /\ offered \in Nat /\ accepted \in Nat

\* Where finalize and the pump may be at the same time.
Phases ==
    /\ (lifecycle = "accepting") = (stage = "none")
    /\ stage # "returned" => lifecycle \in {"accepting", "finalizing"}
    /\ lifecycle = "abandoned" => queue = <<>> /\ ~published
    /\ tidying # "no" => lifecycle = "abandoned" /\ active = NoFrame
    /\ published => stage = "returned" /\ lifecycle = "closed" /\ active = NoFrame

\* Without a drop the frames lie in the order they were offered: confirmed, being
\* written, queued.  A pump that is not running has left nothing behind.
Ordered ==
    /\ active = NoFrame => queue = <<>>
    /\ dropped = 0 =>
         /\ \A i \in 1 .. Len(recorded) : recorded[i] = i
         /\ active # NoFrame => active = Len(recorded) + 1
         /\ \A i \in 1 .. Len(queue) : queue[i] = Len(recorded) + 1 + i

\* Without a failure the references lie in the order they were accepted.
JournalOrdered ==
    ~chainFailed =>
        /\ accepted = Len(journal) + Len(chain)
        /\ \A i \in 1 .. Len(journal) : journal[i] = i
        /\ \A i \in 1 .. Len(chain) : chain[i] = Len(journal) + i

\* A loss is remembered.
LossesMarked == complete => dropped = 0 /\ ~chainFailed

\* What each step of the closing has established for the next one.
Closing ==
    /\ stage \notin {"none", "references"} => chain = <<>>
    /\ stage = "sync" /\ safe => ~tail
    /\ stage = "close" /\ safe => ~tail /\ synced
    /\ stage \in {"manifest", "rename"} \/ published =>
         /\ ~tail /\ synced
         /\ manifest.frames = Len(recorded)
         /\ manifest.frames + manifest.dropped = manifest.offered
         /\ manifest.complete =>
              /\ recorded = [i \in 1 .. manifest.offered |-> i]
              /\ journal = [i \in 1 .. accepted |-> i]

IInv ==
    /\ Flags /\ Data
    /\ Phases
    /\ FramesAccounted
    /\ Ordered
    /\ OneUserOfTheHandle
    /\ JournalOrdered
    /\ LossesMarked
    /\ Closing

-----------------------------------------------------------------------------
(* The invariant is inductive: two facts about sequences, then one lemma for *)
(* each action.                                                              *)

\* What Array.push leaves at each place.
LEMMA Pushed ==
    ASSUME NEW S, NEW s \in Seq(S), NEW e \in S
    PROVE  /\ Append(s, e) \in Seq(S)
           /\ Len(Append(s, e)) = Len(s) + 1
           /\ \A i \in 1 .. Len(s) : Append(s, e)[i] = s[i]
           /\ Append(s, e)[Len(s) + 1] = e
OBVIOUS

\* What Array.shift takes, and what it leaves at each place.
LEMMA Shifted ==
    ASSUME NEW S, NEW s \in Seq(S), s # <<>>
    PROVE  /\ Head(s) \in S /\ Head(s) = s[1]
           /\ Tail(s) \in Seq(S)
           /\ Len(s) \in Nat \ {0}
           /\ Len(Tail(s)) = Len(s) - 1
           /\ \A i \in 1 .. Len(s) - 1 : Tail(s)[i] = s[i + 1]
OBVIOUS

\* A recorder that has been created satisfies the invariant.
LEMMA InitInv == Init => IInv
<1> SUFFICES ASSUME Init PROVE IInv
  OBVIOUS
<1> USE DEF IInv, Init
<1>1. Flags
  BY Zenon DEF Flags
<1>2. Data /\ Phases /\ FramesAccounted /\ Ordered /\ OneUserOfTheHandle
      /\ JournalOrdered /\ LossesMarked /\ Closing
  BY LimitAssumption DEF Flags, Data, Stage, Phases, FramesAccounted, Active, NoFrame, Ordered,
     OneUserOfTheHandle, JournalOrdered, LossesMarked, Closing
<1> QED BY <1>1, <1>2

\* A frame taken by an idle pump finds an empty queue, so it is the next one;
\* a frame queued behind others keeps the order.
LEMMA AcceptFrameStep == IInv /\ AcceptFrame => IInv'
<1> SUFFICES ASSUME IInv, AcceptFrame PROVE IInv'
  OBVIOUS
<1> USE DEF IInv, frameVars, referenceVars, closingVars, AcceptFrame
<1>1. Flags'
  BY Zenon DEF Flags
<1>2. offered + 1 \in Nat \ {NoFrame} /\ Len(queue) \in Nat /\ Len(recorded) \in Nat
  BY DEF Data, NoFrame
<1>3. (Data /\ FramesAccounted /\ Ordered)'
  <2>1. CASE active = NoFrame
    BY <1>2, <2>1 DEF Data, FramesAccounted, Ordered, Active, NoFrame
  <2>2. CASE active # NoFrame
    <3>0. queue' = Append(queue, offered + 1) /\ queue \in Seq(Nat \ {NoFrame})
      BY <2>2 DEF Data
    <3>1. /\ queue' \in Seq(Nat \ {NoFrame})
          /\ Len(queue') = Len(queue) + 1
          /\ \A i \in 1 .. Len(queue) : queue'[i] = queue[i]
          /\ queue'[Len(queue) + 1] = offered + 1
      <4> HIDE DEF IInv, AcceptFrame
      <4> QED BY <1>2, <3>0, Pushed
    <3>2. Data'
      BY <2>2, <3>1 DEF Data
    <3>3. FramesAccounted'
      BY <1>2, <2>2, <3>1, LimitAssumption DEF FramesAccounted, Data, Active
    <3>4. dropped = 0 => offered = Len(recorded) + 1 + Len(queue)
      BY <1>2, <2>2 DEF FramesAccounted, Active
    <3>5. dropped = 0 =>
              \A i \in 1 .. Len(queue') : queue'[i] = Len(recorded) + 1 + i
      <4> SUFFICES ASSUME dropped = 0, NEW i \in 1 .. Len(queue')
                   PROVE  queue'[i] = Len(recorded) + 1 + i
        OBVIOUS
      <4>1. CASE i = Len(queue) + 1
        BY <1>2, <3>1, <3>4, <4>1
      <4>2. CASE i # Len(queue) + 1
        <5>1. i \in 1 .. Len(queue)
          BY <1>2, <3>1, <4>2
        <5> QED BY <3>1, <5>1 DEF Ordered
      <4> QED BY <4>1, <4>2
    <3>6. Ordered'
      BY <2>2, <3>1, <3>5 DEF Ordered
    <3> QED BY <3>2, <3>3, <3>6
  <2> QED BY <2>1, <2>2
<1>4. (Phases /\ OneUserOfTheHandle /\ JournalOrdered /\ LossesMarked /\ Closing)'
  BY DEF Phases, Flags, Data, OneUserOfTheHandle, JournalOrdered, LossesMarked, Closing
<1> QED BY <1>1, <1>3, <1>4

\* A dropped frame is counted, and nothing else moves.
LEMMA DropFrameStep == IInv /\ DropFrame => IInv'
<1> SUFFICES ASSUME IInv, DropFrame PROVE IInv'
  OBVIOUS
<1> USE DEF IInv, vars, frameVars, referenceVars, closingVars, DropFrame
<1>1. Flags'
  BY Zenon DEF Flags
<1>2. (Data /\ Phases /\ FramesAccounted /\ Ordered /\ OneUserOfTheHandle
       /\ JournalOrdered /\ LossesMarked /\ Closing)'
  BY DEF Flags, Data, Stage, Phases, FramesAccounted, Active, NoFrame, Ordered,
     OneUserOfTheHandle, JournalOrdered, LossesMarked, Closing
<1> QED BY <1>1, <1>2

\* Only the pump writes, and it does not while the file is closed.
LEMMA ShortWriteStep == IInv /\ ShortWrite => IInv'
<1> SUFFICES ASSUME IInv, ShortWrite PROVE IInv'
  OBVIOUS
<1> USE DEF IInv, vars, frameVars, referenceVars, closingVars, ShortWrite
<1>1. Flags'
  BY Zenon DEF Flags
<1>2. (Data /\ Phases /\ FramesAccounted /\ Ordered /\ OneUserOfTheHandle
       /\ JournalOrdered /\ LossesMarked /\ Closing)'
  BY DEF Flags, Data, Stage, Phases, FramesAccounted, Active, NoFrame, Ordered,
     OneUserOfTheHandle, JournalOrdered, LossesMarked, Closing
<1> QED BY <1>1, <1>2

\* The confirmed frame is the next one in order, and so is the head of the queue
\* the pump goes on with; an abandoned recorder has no queue left.
LEMMA WriteDoneStep == IInv /\ WriteDone => IInv'
<1> SUFFICES ASSUME IInv, WriteDone PROVE IInv'
  OBVIOUS
<1> USE DEF IInv, frameVars, referenceVars, closingVars, WriteDone, EndPump
<1>1. Flags'
  BY Zenon DEF Flags
<1>2. /\ active \in Nat \ {NoFrame}
      /\ pending = Len(queue) + 1
      /\ offered = Len(recorded) + dropped + Len(queue) + 1
      /\ Len(recorded) \in Nat /\ Len(queue) \in Nat
  BY DEF Data, FramesAccounted, Active, NoFrame
<1>3. /\ recorded' \in Seq(Nat \ {NoFrame})
      /\ Len(recorded') = Len(recorded) + 1
      /\ \A i \in 1 .. Len(recorded) : recorded'[i] = recorded[i]
      /\ recorded'[Len(recorded) + 1] = active
  BY <1>2, Pushed DEF Data
<1>4. dropped = 0 => \A i \in 1 .. Len(recorded') : recorded'[i] = i
  BY <1>2, <1>3 DEF Ordered
<1>5. (Data /\ FramesAccounted /\ Ordered)'
  <2>1. CASE queue # <<>> /\ lifecycle # "abandoned"
    <3>1. /\ Head(queue) \in Nat \ {NoFrame} /\ Head(queue) = queue[1]
          /\ Tail(queue) \in Seq(Nat \ {NoFrame})
          /\ Len(queue) \in Nat \ {0}
          /\ Len(Tail(queue)) = Len(queue) - 1
          /\ \A i \in 1 .. Len(queue) - 1 : Tail(queue)[i] = queue[i + 1]
      BY <2>1, Shifted DEF Data
    <3>2. active' = Head(queue) /\ queue' = Tail(queue) /\ tidying' = tidying
      BY <2>1
    <3>3. pending' \in Nat /\ pending' = Len(queue') + 1
      BY <1>2, <3>1, <3>2
    <3>4. Data'
      BY <1>3, <3>1, <3>2, <3>3 DEF Data
    <3>5. FramesAccounted'
      <4>1. pending' <= MaxPendingFrames
        BY <1>2, LimitAssumption DEF FramesAccounted, Data
      <4>2. Len(queue') = Len(queue) - 1 /\ active' # NoFrame
        BY <3>1, <3>2
      <4>3. offered' = Len(recorded') + dropped' + Len(queue') + 1
        BY <1>2, <1>3, <4>2 DEF Data
      <4> QED BY <3>3, <4>1, <4>2, <4>3 DEF FramesAccounted, Active
    <3>6. dropped = 0 => /\ active' = Len(recorded') + 1
                         /\ \A i \in 1 .. Len(queue') : queue'[i] = Len(recorded') + 1 + i
      <4> SUFFICES ASSUME dropped = 0
                   PROVE  /\ active' = Len(recorded') + 1
                          /\ \A i \in 1 .. Len(queue') : queue'[i] = Len(recorded') + 1 + i
        OBVIOUS
      <4>1. \A i \in 1 .. Len(queue) : queue[i] = Len(recorded) + 1 + i
        BY DEF Ordered
      <4>2. active' = Len(recorded) + 1 + 1
        BY <1>2, <3>1, <3>2, <4>1
      <4>3. ASSUME NEW i \in 1 .. Len(queue') PROVE queue'[i] = Len(recorded) + 1 + 1 + i
        <5>1. i \in 1 .. Len(queue) - 1
          BY <3>1, <3>2
        <5>2. queue'[i] = queue[i + 1]
          BY <3>1, <3>2, <5>1
        <5>3. queue[i + 1] = Len(recorded) + 1 + (i + 1)
          BY <1>2, <4>1, <5>1
        <5> QED BY <1>2, <5>1, <5>2, <5>3
      <4> QED BY <1>2, <1>3, <4>2, <4>3
    <3>7. Ordered'
      BY <1>4, <3>1, <3>2, <3>6 DEF Ordered
    <3> QED BY <3>4, <3>5, <3>7
  <2>2. CASE ~(queue # <<>> /\ lifecycle # "abandoned")
    <3>1. queue = <<>> /\ queue' = <<>> /\ active' = NoFrame
      BY <2>2 DEF Phases
    <3>2. Data'
      BY <1>2, <1>3, <2>2, <3>1 DEF Data, NoFrame
    <3>3. FramesAccounted'
      BY <1>2, <1>3, <3>1, LimitAssumption DEF FramesAccounted, Data, Active, NoFrame
    <3>4. Ordered'
      BY <1>4, <3>1 DEF Ordered
    <3> QED BY <3>2, <3>3, <3>4
  <2> QED BY <2>1, <2>2
<1>6. (Phases /\ OneUserOfTheHandle /\ JournalOrdered /\ LossesMarked /\ Closing)'
  BY <1>2 DEF Phases, Flags, Data, OneUserOfTheHandle, JournalOrdered, LossesMarked, Closing, NoFrame
<1> QED BY <1>1, <1>5, <1>6

\* The frame being written and those behind it are counted as dropped.
LEMMA WriteFailsStep == IInv /\ WriteFails => IInv'
<1> SUFFICES ASSUME IInv, WriteFails PROVE IInv'
  OBVIOUS
<1> USE DEF IInv, vars, frameVars, referenceVars, closingVars, WriteFails, EndPump
<1>1. Flags'
  BY Zenon DEF Flags
<1>2. (Data /\ Phases /\ FramesAccounted /\ Ordered /\ OneUserOfTheHandle
       /\ JournalOrdered /\ LossesMarked /\ Closing)'
  BY LimitAssumption DEF Flags, Data, Stage, Phases, FramesAccounted, Active, NoFrame, Ordered,
     OneUserOfTheHandle, JournalOrdered, LossesMarked, Closing
<1> QED BY <1>1, <1>2

\* The pump tidies an abandoned file after finalize has returned.
LEMMA TidyTruncateStep == IInv /\ TidyTruncate => IInv'
<1> SUFFICES ASSUME IInv, TidyTruncate PROVE IInv'
  OBVIOUS
<1> USE DEF IInv, vars, frameVars, referenceVars, closingVars, TidyTruncate
<1>1. Flags'
  BY Zenon DEF Flags
<1>2. (Data /\ Phases /\ FramesAccounted /\ Ordered /\ OneUserOfTheHandle
       /\ JournalOrdered /\ LossesMarked /\ Closing)'
  BY DEF Flags, Data, Stage, Phases, FramesAccounted, Active, NoFrame, Ordered,
     OneUserOfTheHandle, JournalOrdered, LossesMarked, Closing
<1> QED BY <1>1, <1>2

\* An abandoned capture was never published, and is closed now.
LEMMA TidyCloseStep == IInv /\ TidyClose => IInv'
<1> SUFFICES ASSUME IInv, TidyClose PROVE IInv'
  OBVIOUS
<1> USE DEF IInv, vars, frameVars, referenceVars, closingVars, TidyClose
<1>1. Flags'
  BY Zenon DEF Flags
<1>2. (Data /\ Phases /\ FramesAccounted /\ Ordered /\ OneUserOfTheHandle
       /\ JournalOrdered /\ LossesMarked /\ Closing)'
  BY DEF Flags, Data, Stage, Phases, FramesAccounted, Active, NoFrame, Ordered,
     OneUserOfTheHandle, JournalOrdered, LossesMarked, Closing
<1> QED BY <1>1, <1>2

\* A reference is accepted behind those the chain still has.
LEMMA AcceptReferenceStep == IInv /\ AcceptReference => IInv'
<1> SUFFICES ASSUME IInv, AcceptReference PROVE IInv'
  OBVIOUS
<1> USE DEF IInv, frameVars, referenceVars, closingVars, AcceptReference
<1>1. Flags'
  BY Zenon DEF Flags
<1>2. accepted + 1 \in Nat /\ Len(chain) \in Nat /\ Len(journal) \in Nat
  BY DEF Data
<1>3. /\ chain' \in Seq(Nat)
      /\ Len(chain') = Len(chain) + 1
      /\ \A i \in 1 .. Len(chain) : chain'[i] = chain[i]
      /\ chain'[Len(chain) + 1] = accepted + 1
  BY <1>2, Pushed DEF Data
<1>4. Data'
  BY <1>2, <1>3 DEF Data
<1>5. JournalOrdered'
  <2>1. /\ accepted = Len(journal) + Len(chain)
        /\ \A i \in 1 .. Len(chain) : chain[i] = Len(journal) + i
    BY DEF JournalOrdered
  <2>2. \A i \in 1 .. Len(chain') : chain'[i] = Len(journal) + i
    <3> TAKE i \in 1 .. Len(chain')
    <3>1. CASE i = Len(chain) + 1
      BY <1>2, <1>3, <2>1, <3>1
    <3>2. CASE i # Len(chain) + 1
      <4>1. i \in 1 .. Len(chain)
        BY <1>2, <1>3, <3>2
      <4> QED BY <1>3, <2>1, <4>1
    <3> QED BY <3>1, <3>2
  <2>3. accepted' = Len(journal) + Len(chain')
    BY <1>2, <1>3, <2>1
  <2> QED BY <2>2, <2>3 DEF JournalOrdered
<1>6. (Phases /\ FramesAccounted /\ Ordered /\ OneUserOfTheHandle /\ LossesMarked /\ Closing)'
  BY DEF Phases, Flags, Data, FramesAccounted, Active, Ordered, OneUserOfTheHandle,
     LossesMarked, Closing
<1> QED BY <1>1, <1>4, <1>5, <1>6

\* The chain writes its references in the order they were accepted.
LEMMA ReferenceWrittenStep == IInv /\ ReferenceWritten => IInv'
<1> SUFFICES ASSUME IInv, ReferenceWritten PROVE IInv'
  OBVIOUS
<1> USE DEF IInv, frameVars, referenceVars, closingVars, ReferenceWritten
<1>1. Flags'
  BY Zenon DEF Flags
<1>2. /\ Head(chain) \in Nat /\ Head(chain) = chain[1]
      /\ Tail(chain) \in Seq(Nat)
      /\ Len(chain) \in Nat \ {0}
      /\ Len(Tail(chain)) = Len(chain) - 1
      /\ \A i \in 1 .. Len(chain) - 1 : Tail(chain)[i] = chain[i + 1]
  BY Shifted DEF Data
<1>3. /\ journal' \in Seq(Nat)
      /\ Len(journal) \in Nat
      /\ Len(journal') = Len(journal) + 1
      /\ \A i \in 1 .. Len(journal) : journal'[i] = journal[i]
      /\ journal'[Len(journal) + 1] = Head(chain)
  BY <1>2, Pushed DEF Data
<1>4. Data'
  BY <1>2, <1>3 DEF Data
<1>5. JournalOrdered'
  <2> SUFFICES ASSUME ~chainFailed PROVE JournalOrdered'
    BY DEF JournalOrdered
  <2>1. accepted' = Len(journal') + Len(chain')
    BY <1>2, <1>3 DEF JournalOrdered, Data
  <2>2. \A i \in 1 .. Len(journal') : journal'[i] = i
    BY <1>2, <1>3 DEF JournalOrdered
  <2>3. \A i \in 1 .. Len(chain') : chain'[i] = Len(journal') + i
    BY <1>2, <1>3 DEF JournalOrdered
  <2> QED BY <2>1, <2>2, <2>3 DEF JournalOrdered
<1>6. (Phases /\ FramesAccounted /\ Ordered /\ OneUserOfTheHandle /\ LossesMarked)'
  BY DEF Phases, Flags, Data, FramesAccounted, Active, Ordered, OneUserOfTheHandle, LossesMarked
<1>7. stage \in {"none", "references"} /\ ~published
  BY DEF Closing, Phases
<1>8. Closing'
  BY <1>7 DEF Closing
<1> QED BY <1>1, <1>4, <1>5, <1>6, <1>8

\* A reference that could not be written is remembered.
LEMMA ReferenceFailsStep == IInv /\ ReferenceFails => IInv'
<1> SUFFICES ASSUME IInv, ReferenceFails PROVE IInv'
  OBVIOUS
<1> USE DEF IInv, vars, frameVars, referenceVars, closingVars, ReferenceFails
<1>1. Flags'
  BY Zenon DEF Flags
<1>2. (Data /\ Phases /\ FramesAccounted /\ Ordered /\ OneUserOfTheHandle
       /\ JournalOrdered /\ LossesMarked /\ Closing)'
  BY DEF Flags, Data, Stage, Phases, FramesAccounted, Active, NoFrame, Ordered,
     OneUserOfTheHandle, JournalOrdered, LossesMarked, Closing
<1> QED BY <1>1, <1>2

\* No reference and no frame is accepted from here on.
LEMMA FinalizeStep == IInv /\ Finalize => IInv'
<1> SUFFICES ASSUME IInv, Finalize PROVE IInv'
  OBVIOUS
<1> USE DEF IInv, vars, frameVars, referenceVars, closingVars, Finalize, Goto
<1>1. Flags'
  BY Zenon DEF Flags
<1>2. (Data /\ Phases /\ FramesAccounted /\ Ordered /\ OneUserOfTheHandle
       /\ JournalOrdered /\ LossesMarked /\ Closing)'
  BY DEF Flags, Data, Stage, Phases, FramesAccounted, Active, NoFrame, Ordered,
     OneUserOfTheHandle, JournalOrdered, LossesMarked, Closing
<1> QED BY <1>1, <1>2

\* The chain is empty, and stays empty.
LEMMA ReferencesSettledStep == IInv /\ ReferencesSettled => IInv'
<1> SUFFICES ASSUME IInv, ReferencesSettled PROVE IInv'
  OBVIOUS
<1> USE DEF IInv, vars, frameVars, referenceVars, closingVars, ReferencesSettled, Goto
<1>1. Flags'
  BY Zenon DEF Flags
<1>2. (Data /\ Phases /\ FramesAccounted /\ Ordered /\ OneUserOfTheHandle
       /\ JournalOrdered /\ LossesMarked /\ Closing)'
  BY DEF Flags, Data, Stage, Phases, FramesAccounted, Active, NoFrame, Ordered,
     OneUserOfTheHandle, JournalOrdered, LossesMarked, Closing
<1> QED BY <1>1, <1>2

\* The pump has ended, and does not start again.
LEMMA DrainedStep == IInv /\ Drained => IInv'
<1> SUFFICES ASSUME IInv, Drained PROVE IInv'
  OBVIOUS
<1> USE DEF IInv, vars, frameVars, referenceVars, closingVars, Drained, Goto, Pumping
<1>1. Flags'
  BY Zenon DEF Flags
<1>2. (Data /\ Phases /\ FramesAccounted /\ Ordered /\ OneUserOfTheHandle
       /\ JournalOrdered /\ LossesMarked /\ Closing)'
  BY DEF Flags, Data, Stage, Phases, FramesAccounted, Active, NoFrame, Ordered,
     OneUserOfTheHandle, JournalOrdered, LossesMarked, Closing
<1> QED BY <1>1, <1>2

\* The queue is counted as dropped; the frame being written stays the pump's.
LEMMA DrainTimesOutStep == IInv /\ DrainTimesOut => IInv'
<1> SUFFICES ASSUME IInv, DrainTimesOut PROVE IInv'
  OBVIOUS
<1> USE DEF IInv, vars, frameVars, referenceVars, closingVars, DrainTimesOut, Pumping
<1>1. Flags'
  BY Zenon DEF Flags
<1>2. (Data /\ Phases /\ FramesAccounted /\ Ordered /\ OneUserOfTheHandle
       /\ JournalOrdered /\ LossesMarked /\ Closing)'
  BY LimitAssumption DEF Flags, Data, Stage, Phases, FramesAccounted, Active, NoFrame, Ordered,
     OneUserOfTheHandle, JournalOrdered, LossesMarked, Closing
<1> QED BY <1>1, <1>2

\* A successful truncate removes the tail.
LEMMA TruncateStep == IInv /\ Truncate => IInv'
<1> SUFFICES ASSUME IInv, Truncate PROVE IInv'
  OBVIOUS
<1> USE DEF IInv, vars, frameVars, referenceVars, closingVars, Truncate, Goto
<1>1. Flags'
  BY Zenon DEF Flags
<1>2. (Data /\ Phases /\ FramesAccounted /\ Ordered /\ OneUserOfTheHandle
       /\ JournalOrdered /\ LossesMarked /\ Closing)'
  BY DEF Flags, Data, Stage, Phases, FramesAccounted, Active, NoFrame, Ordered,
     OneUserOfTheHandle, JournalOrdered, LossesMarked, Closing
<1> QED BY <1>1, <1>2

\* A successful sync makes the file durable.
LEMMA SyncStep == IInv /\ Sync => IInv'
<1> SUFFICES ASSUME IInv, Sync PROVE IInv'
  OBVIOUS
<1> USE DEF IInv, vars, frameVars, referenceVars, closingVars, Sync, Goto
<1>1. Flags'
  BY Zenon DEF Flags
<1>2. (Data /\ Phases /\ FramesAccounted /\ Ordered /\ OneUserOfTheHandle
       /\ JournalOrdered /\ LossesMarked /\ Closing)'
  BY DEF Flags, Data, Stage, Phases, FramesAccounted, Active, NoFrame, Ordered,
     OneUserOfTheHandle, JournalOrdered, LossesMarked, Closing
<1> QED BY <1>1, <1>2

\* The manifest is computed from a file that is whole, synced and at rest.
LEMMA CloseFileStep == IInv /\ CloseFile => IInv'
<1> SUFFICES ASSUME IInv, CloseFile PROVE IInv'
  OBVIOUS
<1> USE DEF IInv, frameVars, referenceVars, CloseFile, Close
<1>1. Flags'
  BY Zenon DEF Flags
<1>2. active = NoFrame /\ queue = <<>> /\ chain = <<>> /\ ~published
  BY DEF OneUserOfTheHandle, Ordered, Closing, Phases
<1>3. Len(recorded) \in Nat /\ dropped \in Nat /\ offered = Len(recorded) + dropped
  BY <1>2 DEF Data, FramesAccounted, Active
<1>4. PICK whole \in BOOLEAN : whole = (complete /\ dropped = 0)
  BY Zenon
<1>5. manifest' \in Manifest \cup {NoManifest}
  <2>1. CASE safe'
    <3>1. manifest' = [complete |-> whole, frames |-> Len(recorded),
                       dropped |-> dropped, offered |-> offered]
      BY Zenon, <1>4, <2>1
    <3>2. offered \in Nat
      BY DEF Data
    <3>3. [complete |-> whole, frames |-> Len(recorded),
           dropped |-> dropped, offered |-> offered] \in Manifest
      BY <1>3, <3>2 DEF Manifest
    <3> QED BY <3>1, <3>3
  <2>2. CASE ~safe'
    BY <2>2 DEF Data
  <2> QED BY <2>1, <2>2
<1>6. Data'
  BY <1>5 DEF Data, Stage
<1>7. (Phases /\ FramesAccounted /\ Ordered /\ OneUserOfTheHandle /\ JournalOrdered /\ LossesMarked)'
  BY <1>2 DEF Phases, Data, FramesAccounted, Active, Ordered, OneUserOfTheHandle,
     JournalOrdered, LossesMarked
<1>8. Closing'
  <2>1. CASE safe'
    <3>1. /\ manifest'.complete = (complete /\ dropped = 0)
          /\ manifest'.frames = Len(recorded)
          /\ manifest'.dropped = dropped
          /\ manifest'.offered = offered
      BY <2>1
    <3>2. ~tail /\ synced
      BY <2>1 DEF Closing, Flags
    <3>3. complete /\ dropped = 0 => recorded = [i \in 1 .. offered |-> i]
      BY <1>3 DEF Ordered, Data
    <3>4. complete => journal = [i \in 1 .. accepted |-> i]
      BY <1>2 DEF LossesMarked, JournalOrdered, Data
    <3> QED BY <1>2, <1>3, <2>1, <3>1, <3>2, <3>3, <3>4 DEF Closing
  <2>2. CASE ~safe'
    BY <1>2, <2>2 DEF Closing
  <2> QED BY <2>1, <2>2
<1> QED BY <1>1, <1>6, <1>7, <1>8

\* Nothing the manifest speaks of moves while it is written.
LEMMA WriteManifestStep == IInv /\ WriteManifest => IInv'
<1> SUFFICES ASSUME IInv, WriteManifest PROVE IInv'
  OBVIOUS
<1> USE DEF IInv, vars, frameVars, referenceVars, closingVars, WriteManifest, Close
<1>1. Flags'
  BY Zenon DEF Flags
<1>2. (Data /\ Phases /\ FramesAccounted /\ Ordered /\ OneUserOfTheHandle
       /\ JournalOrdered /\ LossesMarked /\ Closing)'
  BY DEF Flags, Data, Stage, Phases, FramesAccounted, Active, NoFrame, Ordered,
     OneUserOfTheHandle, JournalOrdered, LossesMarked, Closing
<1> QED BY <1>1, <1>2

\* What is published is what the manifest was computed from.
LEMMA RenameStep == IInv /\ Rename => IInv'
<1> SUFFICES ASSUME IInv, Rename PROVE IInv'
  OBVIOUS
<1> USE DEF IInv, vars, frameVars, referenceVars, closingVars, Rename, Close
<1>1. Flags'
  BY Zenon DEF Flags
<1>2. (Data /\ Phases /\ FramesAccounted /\ Ordered /\ OneUserOfTheHandle
       /\ JournalOrdered /\ LossesMarked /\ Closing)'
  BY DEF Flags, Data, Stage, Phases, FramesAccounted, Active, NoFrame, Ordered,
     OneUserOfTheHandle, JournalOrdered, LossesMarked, Closing
<1> QED BY <1>1, <1>2

-----------------------------------------------------------------------------
(* The theorems *)

\* Every step of the recorder preserves the invariant.
THEOREM IInvInductive == IInv /\ [Next]_vars => IInv'
<1>1. IInv /\ TryRecord => IInv'
  BY AcceptFrameStep, DropFrameStep DEF TryRecord
<1>2. IInv /\ Pump => IInv'
  BY ShortWriteStep, WriteDoneStep, WriteFailsStep, TidyTruncateStep, TidyCloseStep DEF Pump
<1>3. IInv /\ References => IInv'
  BY AcceptReferenceStep, ReferenceWrittenStep, ReferenceFailsStep DEF References
<1>4. IInv /\ Finalizing => IInv'
  BY FinalizeStep, ReferencesSettledStep, DrainedStep, DrainTimesOutStep, TruncateStep,
     SyncStep, CloseFileStep, WriteManifestStep, RenameStep DEF Finalizing
<1>5. IInv /\ UNCHANGED vars => IInv'
  <2> SUFFICES ASSUME IInv, UNCHANGED vars PROVE IInv'
    OBVIOUS
  <2> USE DEF IInv, vars, frameVars, referenceVars, closingVars
  <2>1. Flags'
    BY Zenon DEF Flags
  <2>2. (Data /\ Phases /\ FramesAccounted /\ Ordered /\ OneUserOfTheHandle
         /\ JournalOrdered /\ LossesMarked /\ Closing)'
    BY DEF Flags, Data, Stage, Phases, FramesAccounted, Active, NoFrame, Ordered,
       OneUserOfTheHandle, JournalOrdered, LossesMarked, Closing
  <2> QED BY <2>1, <2>2
<1> QED BY <1>1, <1>2, <1>3, <1>4, <1>5 DEF Next

\* Every state the recorder reaches satisfies the invariant.
LEMMA Invariant == Spec => []IInv
BY InitInv, IInvInductive, PTL DEF Spec

\* The recorder's state has the declared shape.
THEOREM TypeCorrect == Spec => []TypeOK
<1>1. IInv => TypeOK
  BY DEF IInv, Flags, Data, TypeOK
<1> QED BY <1>1, Invariant, PTL

\* tryRecord, the pump, its failure and the drain timeout lose no frame from the
\* accounts, and never let more frames wait than the limit allows.
THEOREM NoFrameUnaccounted == Spec => []FramesAccounted
<1>1. IInv => FramesAccounted
  BY DEF IInv
<1> QED BY <1>1, Invariant, PTL

\* finalize works on the file only while the pump is not writing or tidying it.
THEOREM HandleExclusive == Spec => []OneUserOfTheHandle
<1>1. IInv => OneUserOfTheHandle
  BY DEF IInv
<1> QED BY <1>1, Invariant, PTL

\* A published directory is synced, described to the end by its manifest, and
\* complete only when it holds every frame and every reference in order.
THEOREM PublicationSound == Spec => []PublishedIsWhole
<1>1. IInv => PublishedIsWhole
  BY DEF IInv, Closing, PublishedIsWhole
<1> QED BY <1>1, Invariant, PTL

\* No step turns a capture that was given up into one that reads as complete.
LEMMA GivenUpStays == UnpublishedIsIncomplete /\ [Next]_vars => UnpublishedIsIncomplete'
<1> SUFFICES ASSUME UnpublishedIsIncomplete, [Next]_vars PROVE UnpublishedIsIncomplete'
  OBVIOUS
<1> USE DEF UnpublishedIsIncomplete, frameVars, referenceVars, closingVars, Goto, Close
<1>1. CASE TryRecord
  BY <1>1 DEF TryRecord, AcceptFrame, DropFrame
<1>2. CASE Pump
  BY <1>2 DEF Pump, ShortWrite, WriteDone, WriteFails, EndPump, TidyTruncate, TidyClose
<1>3. CASE References
  BY <1>3 DEF References, AcceptReference, ReferenceWritten, ReferenceFails
<1>4. CASE Finalizing
  BY <1>4 DEF Finalizing, Finalize, ReferencesSettled, Drained, DrainTimesOut, Truncate, Sync,
     CloseFile, WriteManifest, Rename
<1>5. CASE UNCHANGED vars
  BY <1>5 DEF vars
<1> QED BY <1>1, <1>2, <1>3, <1>4, <1>5 DEF Next

\* A capture keeps its accounts, its handle and its word at all times, for every queue limit
\* (capture-recorder.ts tryRecord, runPump, finalizeInternal).
THEOREM CaptureSound == Spec => []CaptureInv
<1>1. Init => UnpublishedIsIncomplete
  BY DEF Init, UnpublishedIsIncomplete
<1>2. Spec => []UnpublishedIsIncomplete
  BY <1>1, GivenUpStays, PTL DEF Spec
<1>3. TypeOK /\ FramesAccounted /\ OneUserOfTheHandle /\ PublishedIsWhole
      /\ UnpublishedIsIncomplete => CaptureInv
  BY DEF CaptureInv
<1> QED BY <1>2, <1>3, TypeCorrect, NoFrameUnaccounted, HandleExclusive, PublicationSound, PTL

=============================================================================
