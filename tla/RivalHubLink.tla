------------------------------ MODULE RivalHubLink ------------------------------
(***************************************************************************)
(* The companion's connection to RivalHub: which of several production     *)
(* devices is the source of a match, seen from one of them                 *)
(* (match-context/rivalhub-connection.ts).  Every operation waits for an   *)
(* answer over the network, and no two exclude each other.                 *)
(*                                                                         *)
(* RivalHub itself is external: it grants the match to one device under a  *)
(* revision that grows with every claim, and refuses uploads of any other  *)
(* revision with 403.  Left out: a second match (an upload of another      *)
(* match is refused before it is sent), the pairing up to its              *)
(* authorisation, the validation of answers, the connection file, and a    *)
(* release inside another operation that is served after its time limit.   *)
(***************************************************************************)
EXTENDS Integers

CONSTANTS
    MaxPairings,        \* bounds: authorised pairings,
    MaxLinkCalls,       \* operations of the operator,
    MaxRivalClaims,     \* claims of the other device,
    MaxLinkFaults       \* calls that fail or time out

ASSUME LinkBounds ==
    {MaxPairings, MaxLinkCalls, MaxRivalClaims, MaxLinkFaults} \subseteq Nat /\ MaxPairings # 0

VARIABLES
    installation,       \* 0, or the number of the pairing in force
    pairings,           \* the pairings so far, to tell installations apart
    linkSource,         \* source: NoSource or [rev, claim]; claim tells objects apart
    scheduleAsked,      \* scheduleGeneration
    scheduleCache,      \* [installation, asked], 0 for none
    linkCalls,          \* the operations, by number
    upload,             \* the upload under way, or NoUpload
    authority,          \* RivalHub: [owner, rev]
    rivalClaims, linkFaults     \* for the bounds

link == <<installation, pairings, linkSource, scheduleAsked, scheduleCache>>
linkVars == <<link, linkCalls, upload, authority, rivalClaims, linkFaults>>

NoSource == [claim |-> 0]
NoUpload == [stage |-> "none"]
NoSchedule == [installation |-> 0, asked |-> 0]
NotCalled == [stage |-> "not called"]
Nobody == 0
OtherDevice == -1

LinkCallNumbers == 1..MaxLinkCalls

\* load: the companion was paired by an earlier process; disconnect leads to the unpaired start.
LinkInit ==
    /\ installation = 1 /\ pairings = 1
    /\ linkSource = NoSource
    /\ scheduleAsked = 0 /\ scheduleCache = NoSchedule
    /\ linkCalls = [c \in LinkCallNumbers |-> NotCalled]
    /\ upload = NoUpload
    /\ authority = [owner |-> Nobody, rev |-> 0]
    /\ rivalClaims = 0 /\ linkFaults = 0

-----------------------------------------------------------------------------
(* RivalHub *)

\* The operations that begin with release.
Releasing == {"release", "re-pair", "release and disconnect"}

Grants(i, source) == source # NoSource /\ authority = [owner |-> i, rev |-> source.rev]

GrantTo(device) == authority' = [owner |-> device, rev |-> authority.rev + 1]

FreedFrom(i) == IF authority.owner = i THEN [authority EXCEPT !.owner = Nobody] ELSE authority

\* What RivalHub makes of a request that reached it.
Served(call, answer) ==
    CASE call.op = "claim" ->
           IF authority.owner \in {Nobody, call.installation} \/ call.takeover
           THEN GrantTo(call.installation) /\ answer = "granted"
           ELSE UNCHANGED authority /\ answer = "refused"
      [] call.op \in Releasing ->
           IF Grants(call.installation, call.source)
           THEN authority' = [authority EXCEPT !.owner = Nobody] /\ answer = "ok"
           ELSE UNCHANGED authority /\ answer \in {"ok", "refused"}
      [] call.op = "disconnect" -> authority' = FreedFrom(call.installation) /\ answer = "ok"
      [] call.op = "schedule" -> UNCHANGED authority /\ answer = "ok"

RivalHubServes(c) ==
    /\ linkCalls[c].stage \in {"sent", "given up"}
    /\ \E answer \in {"granted", "refused", "ok"} :
         /\ Served(linkCalls[c], answer)
         /\ linkCalls' = [linkCalls EXCEPT ![c] =
                IF @.stage = "sent"
                THEN [@ EXCEPT !.stage = "answered", !.answer = answer, !.takeover = FALSE,
                               !.rev = IF answer = "granted" THEN authority'.rev ELSE 0]
                ELSE [stage |-> "over"]]
    /\ UNCHANGED <<link, upload, rivalClaims, linkFaults>>

RivalHubServesUpload ==
    /\ upload.stage = "sent"
    /\ upload' = [upload EXCEPT !.stage = IF authority = upload.under THEN "ok" ELSE "forbidden"]
    /\ UNCHANGED <<link, linkCalls, authority, rivalClaims, linkFaults>>

\* The other device claims the match, over us if its operator wants it.
OtherDeviceClaims ==
    /\ rivalClaims < MaxRivalClaims
    /\ rivalClaims' = rivalClaims + 1
    /\ GrantTo(OtherDevice)
    /\ UNCHANGED <<link, linkCalls, upload, linkFaults>>

OtherDeviceReleases ==
    /\ authority.owner = OtherDevice
    /\ authority' = FreedFrom(OtherDevice)
    /\ UNCHANGED <<link, linkCalls, upload, rivalClaims, linkFaults>>

-----------------------------------------------------------------------------
(* Operations begin *)

\* number: of the schedule asked for, or of the new pairing.
Call(op, takeover, number) ==
    \E c \in LinkCallNumbers :
        /\ linkCalls[c] = NotCalled
        /\ \A d \in LinkCallNumbers : linkCalls[d] = NotCalled => c <= d
        /\ linkCalls' = [linkCalls EXCEPT ![c] =
              [op |-> op, stage |-> "sent", installation |-> installation,
               source |-> IF op \in Releasing THEN linkSource ELSE NoSource,
               takeover |-> takeover, number |-> number,
               answer |-> "none", rev |-> 0]]

\* claim: takeover is the operator's explicit choice.
Claim(takeover) ==
    /\ installation # 0
    /\ Call("claim", takeover, 0)
    /\ UNCHANGED <<link, upload, authority, rivalClaims, linkFaults>>

\* release returns at once when there is no source.
Release ==
    /\ installation # 0 /\ linkSource # NoSource
    /\ Call("release", FALSE, 0)
    /\ UNCHANGED <<link, upload, authority, rivalClaims, linkFaults>>

\* disconnect releases first, if there is something to release.
Disconnect ==
    /\ installation # 0
    /\ Call(IF linkSource = NoSource THEN "disconnect" ELSE "release and disconnect",
            FALSE, 0)
    /\ UNCHANGED <<link, upload, authority, rivalClaims, linkFaults>>

\* schedule
AskSchedule ==
    /\ installation # 0
    /\ scheduleAsked' = scheduleAsked + 1
    /\ Call("schedule", FALSE, scheduleAsked + 1)
    /\ UNCHANGED <<installation, pairings, linkSource, scheduleCache>>
    /\ UNCHANGED <<upload, authority, rivalClaims, linkFaults>>

\* The new installation, without a source; the cached schedule stays.
PairedAs(number) ==
    /\ installation' = number
    /\ linkSource' = NoSource
    /\ UNCHANGED <<scheduleAsked, scheduleCache>>

\* pollPairing learns that the pairing is authorised: the old source is released first.
PairingIsAuthorised ==
    /\ pairings < MaxPairings
    /\ pairings' = pairings + 1
    /\ IF linkSource = NoSource \/ installation = 0
       THEN PairedAs(pairings + 1) /\ UNCHANGED linkCalls
       ELSE /\ Call("re-pair", FALSE, pairings + 1)
            /\ UNCHANGED <<installation, linkSource, scheduleAsked, scheduleCache>>
    /\ UNCHANGED <<upload, authority, rivalClaims, linkFaults>>

\* upload of a live snapshot or a reliable event of the match, under the source of now.
UploadBegins ==
    /\ installation # 0 /\ linkSource # NoSource
    /\ upload = NoUpload
    /\ upload' = [stage |-> "sent", under |-> [owner |-> installation, rev |-> linkSource.rev]]
    /\ UNCHANGED <<link, linkCalls, authority, rivalClaims, linkFaults>>

-----------------------------------------------------------------------------
(* Answers *)

CallIsOver(c) == linkCalls' = [linkCalls EXCEPT ![c] = [stage |-> "over"]]

Answered(c, op) == linkCalls[c].stage = "answered" /\ linkCalls[c].op = op

SourceOfClaim(c) ==
    IF linkCalls[c].answer = "granted" THEN [rev |-> linkCalls[c].rev, claim |-> c] ELSE NoSource

\* A claim installs its source, or learns that another device is active.
ClaimIsAnswered(c) ==
    /\ Answered(c, "claim")
    /\ linkSource' = SourceOfClaim(c)
    /\ CallIsOver(c)
    /\ UNCHANGED <<installation, pairings, scheduleAsked, scheduleCache>>
    /\ UNCHANGED <<upload, authority, rivalClaims, linkFaults>>

\* Mutant: what is released is whatever is the source when the answer arrives.
AnySourceGone(c) == linkCalls[c].answer = "ok"

\* release clears the source it released, and no newer one.
SourceIsGone(c) == linkCalls[c].answer = "ok" /\ linkSource = linkCalls[c].source

ReleaseIsAnswered(c) ==
    /\ Answered(c, "release")
    /\ linkSource' = IF SourceIsGone(c) THEN NoSource ELSE linkSource
    /\ CallIsOver(c)
    /\ UNCHANGED <<installation, pairings, scheduleAsked, scheduleCache>>
    /\ UNCHANGED <<upload, authority, rivalClaims, linkFaults>>

\* The new pairing takes effect, whatever became of the release.
PairingTakesEffect(c) ==
    /\ PairedAs(linkCalls[c].number)
    /\ CallIsOver(c)
    /\ UNCHANGED pairings

RePairIsReleased(c) ==
    /\ Answered(c, "re-pair")
    /\ PairingTakesEffect(c)
    /\ UNCHANGED <<upload, authority, rivalClaims, linkFaults>>

\* The second request of disconnect, whatever became of the first, under the installation of
\* now.  Without one, request throws.
ThenDisconnects(c) ==
    IF installation = 0 THEN CallIsOver(c)
    ELSE linkCalls' = [linkCalls EXCEPT ![c].op = "disconnect", ![c].stage = "sent",
                                        ![c].installation = installation,
                                        ![c].answer = "none"]

GoesOnToDisconnect(c) ==
    /\ linkSource' = IF SourceIsGone(c) THEN NoSource ELSE linkSource
    /\ ThenDisconnects(c)
    /\ UNCHANGED <<installation, pairings, scheduleAsked, scheduleCache>>

DisconnectIsReleased(c) ==
    /\ Answered(c, "release and disconnect")
    /\ GoesOnToDisconnect(c)
    /\ UNCHANGED <<upload, authority, rivalClaims, linkFaults>>

DisconnectIsAnswered(c) ==
    /\ Answered(c, "disconnect")
    /\ installation' = 0 /\ linkSource' = NoSource /\ scheduleCache' = NoSchedule
    /\ CallIsOver(c)
    /\ UNCHANGED <<pairings, scheduleAsked, upload, authority, rivalClaims, linkFaults>>

\* Only the newest request, made under the installation of now, fills the cache.
ScheduleIsWanted(c) ==
    /\ linkCalls[c].installation = installation
    /\ linkCalls[c].number = scheduleAsked

ScheduleIsAnswered(c) ==
    /\ Answered(c, "schedule")
    /\ scheduleCache' = IF ScheduleIsWanted(c)
                        THEN [installation |-> installation, asked |-> linkCalls[c].number]
                        ELSE scheduleCache
    /\ CallIsOver(c)
    /\ UNCHANGED <<installation, pairings, linkSource, scheduleAsked>>
    /\ UNCHANGED <<upload, authority, rivalClaims, linkFaults>>

\* Mutant: a refusal is taken for a passing failure.
ForbiddenIsRetried ==
    /\ upload.stage \in {"ok", "forbidden"}
    /\ upload' = NoUpload
    /\ UNCHANGED <<link, linkCalls, authority, rivalClaims, linkFaults>>

\* 403 means that another device is the source now.
UploadIsAnswered ==
    /\ upload.stage \in {"ok", "forbidden"}
    /\ upload' = NoUpload
    /\ linkSource' = IF upload.stage = "forbidden" THEN NoSource ELSE linkSource
    /\ UNCHANGED <<installation, pairings, scheduleAsked, scheduleCache>>
    /\ UNCHANGED <<linkCalls, authority, rivalClaims, linkFaults>>

LinkFault == linkFaults < MaxLinkFaults /\ linkFaults' = linkFaults + 1

\* The time limit: the request was lost, or is served later, or its answer is lost.  The release
\* with which another operation begins was lost or served by then: that operation goes on.
CallTimesOut(c) ==
    /\ LinkFault
    /\ linkCalls[c].stage \in {"sent", "answered"}
    /\ CASE linkCalls[c].op = "re-pair" -> PairingTakesEffect(c)
         [] linkCalls[c].op = "release and disconnect" -> ThenDisconnects(c) /\ UNCHANGED link
         [] OTHER -> /\ IF linkCalls[c].stage = "sent" /\ linkCalls[c].op # "schedule"
                        THEN linkCalls' = [linkCalls EXCEPT ![c].stage = "given up"]
                        ELSE CallIsOver(c)
                     /\ UNCHANGED link
    /\ UNCHANGED <<upload, authority, rivalClaims>>

UploadTimesOut ==
    /\ LinkFault
    /\ upload # NoUpload
    /\ upload' = NoUpload
    /\ UNCHANGED <<link, linkCalls, authority, rivalClaims>>

CallIsAnswered(c) ==
    \/ ClaimIsAnswered(c) \/ ReleaseIsAnswered(c) \/ RePairIsReleased(c)
    \/ DisconnectIsReleased(c) \/ DisconnectIsAnswered(c) \/ ScheduleIsAnswered(c)

LinkNext ==
    \/ \E takeover \in BOOLEAN : Claim(takeover)
    \/ Release \/ Disconnect \/ AskSchedule \/ PairingIsAuthorised
    \/ UploadBegins \/ RivalHubServesUpload \/ UploadIsAnswered \/ UploadTimesOut
    \/ OtherDeviceClaims \/ OtherDeviceReleases
    \/ \E c \in LinkCallNumbers :
         RivalHubServes(c) \/ CallIsAnswered(c) \/ CallTimesOut(c)

\* Snapshots keep coming, RivalHub answers within the time limit.
LinkFairness ==
    /\ WF_linkVars(UploadBegins)
    /\ WF_linkVars(RivalHubServesUpload)
    /\ WF_linkVars(UploadIsAnswered)

LinkSpec == LinkInit /\ [][LinkNext]_linkVars /\ LinkFairness

-----------------------------------------------------------------------------
(* Properties *)

\* Types, and: a source was granted by RivalHub, and the cache holds an answer of the
\* installation in force or of an earlier one.
LinkTypeOK ==
    /\ installation \in 0..MaxPairings
    /\ authority.owner \in OtherDevice..MaxPairings /\ authority.rev \in Nat
    /\ linkSource # NoSource =>
         /\ linkSource.rev \in 1..authority.rev
         /\ linkCalls[linkSource.claim].stage = "over"
    /\ scheduleCache.asked \in 0..scheduleAsked
    /\ scheduleCache.installation \in 0..MaxPairings
    /\ upload # NoUpload => upload.under.rev \in 1..authority.rev
    /\ \A c \in LinkCallNumbers : linkCalls[c].stage \in
         {"not called", "sent", "answered", "given up", "over"}

\* A release that is answered late does not take the match from a claim granted meanwhile:
\* it clears a source only when RivalHub holds it no longer (rivalhub-connection.ts:336-338).
ReleaseSparesNewerClaim ==
    [][\A c \in LinkCallNumbers :
         ReleaseIsAnswered(c) /\ linkSource' # linkSource
            => ~Grants(installation, linkSource)]_linkVars

\* The schedule on show only gets newer, and an answer to an earlier pairing is not taken
\* (rivalhub-connection.ts:250-255).
ScheduleOnlyGetsNewer ==
    [][scheduleCache' # scheduleCache /\ scheduleCache'.asked > 0
         => /\ scheduleCache'.asked > scheduleCache.asked
            /\ scheduleCache'.installation = installation]_linkVars

\* A device that lost the match does not go on believing to be its source: the next upload
\* tells it (rivalhub-connection.ts:359).
LostAuthorityIsNoticed ==
    (linkSource # NoSource /\ installation # 0 /\ ~Grants(installation, linkSource))
        ~> (linkSource = NoSource \/ installation = 0 \/ Grants(installation, linkSource))

\* A source was granted to this device, a release that is answered late spares the source of a
\* newer claim, and a late schedule replaces no newer one and none of another pairing
\* (rivalhub-connection.ts:250-255, 304-338).  Nothing more is claimed of late answers: a claim
\* refused late (313) and a late 403 (359-361) do clear the source of a newer claim.
LinkSound == []LinkTypeOK /\ ReleaseSparesNewerClaim /\ ScheduleOnlyGetsNewer
=============================================================================
