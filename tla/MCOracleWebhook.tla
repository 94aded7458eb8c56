-------------------------- MODULE MCOracleWebhook --------------------------
(* Instances of OracleWebhook for TLC: three API calls at a time. *)
EXTENDS OracleWebhook, TLC

CONSTANTS k1, k2, a, b

Deliver(key, winner, anomaly) ==
  [op |-> "deliver", key |-> key, winner |-> winner, anomaly |-> anomaly]
ReviewOf(key, approve) == [op |-> "review", key |-> key, approve |-> approve]

NoCall == [op |-> "none"]

\* A key that is delivered with two results; two oracles that disagree; a result
\* that is held and reviewed twice.
MCPlans ==
  {<<Deliver(k1, a, FALSE), Deliver(k1, b, FALSE), NoCall>>,
   <<Deliver(k1, a, FALSE), Deliver(k2, b, FALSE), NoCall>>,
   <<Deliver(k1, a, TRUE), ReviewOf(k1, TRUE), ReviewOf(k1, FALSE)>>}
=============================================================================
