----------------------------- MODULE MCDisputes -----------------------------
(* Instances of Disputes for TLC: up to four API calls at a time. *)
EXTENDS Disputes, TLC

CONSTANTS v1, v2

Call(op) == [op |-> op]
Resolution(verdict) == [op |-> "resolve", verdict |-> verdict]
Vote(v, outcome) == [op |-> "vote", voter |-> v, outcome |-> outcome]

MCWeight == (v1 :> 2) @@ (v2 :> 1)

\* Two creations and a verdict; a tier that is voted on, decided and escalated,
\* in every order; an arbiter named meanwhile.
MCPlans ==
  {<<Call("create"), Call("create"), Resolution("upheld")>>,
   <<Vote(v1, "overturned"), Vote(v2, "upheld"), Resolution("upheld")>>,
   <<Vote(v1, "overturned"), Call("escalate"), Vote(v2, "upheld")>>,
   <<Call("assign"), Resolution("overturned"), Call("escalate")>>}

\* One address votes twice while another decides the tier and it is escalated.
MCTwoVotes ==
  {<<Vote(v1, "overturned"), Call("escalate"), Vote(v2, "upheld"), Vote(v2, "upheld")>>}
=============================================================================
