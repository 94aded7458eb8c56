---------------------------- MODULE MCPredictions ----------------------------
(***************************************************************************)
(* Instances of Predictions for TLC: three API calls at a time, chosen so  *)
(* that they meet on the same rows.                                        *)
(***************************************************************************)
EXTENDS Predictions

CONSTANTS u1, u2, m1, m2, win, lose

Item(m, o, key) == [market |-> m, outcome |-> o, key |-> key, stake |-> 1, bounded |-> FALSE]
Bounded(item) == [item EXCEPT !.bounded = TRUE, !.stake = 2]

Call(kind, u, items) == [kind |-> kind, user |-> u, items |-> items, atomic |-> FALSE]
Atomic(call) == [call EXCEPT !.atomic = TRUE]

Submit(u, m, o, key) == Call("submit", u, <<Item(m, o, key)>>)
Claim(u, m) == Call("claim", u, <<Item(m, win, "none")>>)
Note(u, m) == Call("note", u, <<Item(m, win, "none")>>)
ResolveMarket(m) == Call("resolve", u2, <<Item(m, win, "none")>>)

Idle == Call("none", u1, <<>>)

\* A retry with the same key next to a second user and a resolution, a note and
\* two claims of the same payout, slips next to a submission on one of their
\* markets.
MCPlans ==
  {<<Call("submit", u1, <<Bounded(Item(m1, win, "a"))>>), Submit(u1, m1, win, "a"), Submit(u2, m1, lose, "b")>>,
   <<Submit(u1, m1, win, "a"), Submit(u1, m1, win, "c"), ResolveMarket(m1)>>,
   <<Submit(u1, m1, win, "a"), Note(u1, m1), Claim(u1, m1)>>,
   <<Submit(u1, m1, win, "a"), Call("claimAll", u1, <<>>), Claim(u1, m1)>>,
   <<Atomic(Call("slip", u1, <<Item(m1, win, "a"), Bounded(Item(m2, win, "b"))>>)),
     Submit(u1, m2, lose, "c"), Idle>>,
   <<Call("slip", u1, <<Item(m1, win, "a"), Item(m2, win, "b")>>), Call("claimAll", u1, <<>>), Idle>>,
   <<Call("slip", u1, <<Item(m1, "other", "a"), Item(m2, win, "b"), Bounded(Item(m2, lose, "c"))>>),
     Submit(u1, m2, win, "b"), Idle>>,
   <<Call("slip", u1, <<Bounded(Item(m1, win, "a")), Item(m2, win, "b")>>),
     Submit(u2, m1, win, "d"), Idle>>}

\* A claim meets a position, its resolution and its payout; claimAll after a slip
\* two resolutions; the other plans one event, of any kind that can be the first.
MCMaxEvents ==
  [p \in MCPlans |-> CASE p[3].kind = "claim" -> 3 [] p[2].kind = "claimAll" -> 2 [] OTHER -> 1]
=============================================================================
