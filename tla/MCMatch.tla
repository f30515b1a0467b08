------------------------------ MODULE MCMatch ------------------------------
(***************************************************************************)
(* What the companion makes of the match, in one run: the progress of the  *)
(* series and who the players on the server are.  The two share no         *)
(* variable, so the one in focus moves and the other stays as it was.      *)
(***************************************************************************)
EXTENDS SeriesProgress, IdentityLineup, TLC

CONSTANTS mapA, mapB, mapC

VARIABLE focus

-----------------------------------------------------------------------------
(* Values of the constants *)

BestOfThree == <<mapA, mapB, mapC>>
EntrantSymmetry == Permutations(Entrants)

\* Two players a side, and a stand-in "s" of entrant a.
MCPlayers == {"a1", "a2", "b1", "b2", "s"}

\* The match, the same with a player on both rosters, and another match.
MCContexts == {[match |-> "m1", a |-> {"a1", "a2", "s"}, b |-> {"b1", "b2"}],
               [match |-> "m1", a |-> {"a1", "a2"}, b |-> {"a2", "b1", "b2"}],
               [match |-> "m2", a |-> {"b1", "b2"}, b |-> {"a1", "a2"}]}

Other(side) == IF side = "CT" THEN "T" ELSE "CT"

\* Entrant a on this side and b on the other, but for those who are not listed.
Without(out, side) ==
    [p \in MCPlayers |-> IF p \in out \cup {"s"} THEN "gone"
                         ELSE IF p \in {"a1", "a2"} THEN side ELSE Other(side)]

Full == Without({}, "CT")

ListedAs(coverage, entry) ==
    [coverage |-> coverage, readable |-> TRUE, entry |-> entry, ctName |-> "none", otherMap |-> FALSE]

Unreadable(coverage) == [ListedAs(coverage, Without(MCPlayers, "CT")) EXCEPT !.readable = FALSE]

\* Both halves in full and torn, no list, and full lists with a stand-in, an observer, a player
\* on the other side, half of the players, and another map.
MCFrames ==
    {ListedAs("present", Without({}, side)) : side \in {"CT", "T"}}
        \cup {ListedAs("degraded", Without(out, side)) :
                 side \in {"CT", "T"}, out \in {{"a1", "a2"}, {"b2"}}}
        \cup {Unreadable("absent"), Unreadable("degraded"),
              ListedAs("present", [Full EXCEPT !["a2"] = "gone", !["s"] = "CT"]),
              ListedAs("present", [Full EXCEPT !["s"] = "aside"]),
              ListedAs("present", [Full EXCEPT !["a2"] = "T"]),
              ListedAs("present", Without({"a1", "a2"}, "T")),
              [ListedAs("present", Without({"a1", "a2"}, "T")) EXCEPT !.ctName = "b"],
              [ListedAs("present", Full) EXCEPT !.ctName = "b", !.otherMap = TRUE]}

-----------------------------------------------------------------------------
(* The composition *)

matchVars == <<focus, vars, identityVars>>

MatchInit == focus \in {"series", "identity"} /\ Init /\ IdentityInit

MatchNext ==
    /\ UNCHANGED focus
    /\ \/ focus = "series" /\ Next /\ UNCHANGED identityVars
       \/ focus = "identity" /\ IdentityNext /\ UNCHANGED vars

MatchSpec == MatchInit /\ [][MatchNext]_matchVars
=============================================================================
