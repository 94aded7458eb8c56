--------------------------- MODULE MCEventIndexer ---------------------------
(***************************************************************************)
(* Instances of EventIndexer for TLC.                                      *)
(***************************************************************************)
EXTENDS EventIndexer

CONSTANT u

Ev(type) == [type |-> type, event |-> 1, match |-> 1, user |-> u, outcome |-> "TEAM_A",
             score |-> <<2, 1>>, multiplier |-> 2, board |-> <<u>>]

\* A match from its creation to its result.
MCMatch == <<Ev("EventCreated"), Ev("MatchAdded"), Ev("PredictionSubmitted"), Ev("MatchResultSubmitted")>>

\* An event from its creation to its payouts.
MCPayout == <<Ev("EventCreated"), Ev("UserJoinedEvent"), Ev("EventFinalized")>>

\* Two events of one creator at the same time.
MCOverlap == <<Ev("EventCreated"), [Ev("EventCreated") EXCEPT !.event = 2], Ev("EventCancelled")>>

MCAddress == <<Ev("AddressVerified"), Ev("AddressUnverified")>>

\* An index missing from the RPC's answers matters where a batch spans ledgers.
MCSetups == {<<MCMatch, TRUE>>, <<MCMatch, FALSE>>, <<MCOverlap, FALSE>>,
             <<MCPayout, TRUE>>, <<MCAddress, TRUE>>}
MCOverlapping == {<<1, 2>>, <<2, 1>>}
MCOffchain == {[Ev("submitResult") EXCEPT !.outcome = "TEAM_B", !.score = <<0, 1>>]}
=============================================================================
