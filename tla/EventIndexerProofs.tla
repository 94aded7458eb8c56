------------------------ MODULE EventIndexerProofs ------------------------
(***************************************************************************)
(* Theorems about EventIndexer, for every script, batch size, chain,       *)
(* number of faults, reorganizations and jobs.                             *)
(***************************************************************************)
EXTENDS EventIndexer, SumLemmas, SequenceTheorems

-----------------------------------------------------------------------------
(* Types. *)

Statuses == {"pending", "processed", "failed", "dlq"}
Teams == {"TEAM_A", "TEAM_B", "DRAW", "null"}
Scores == {NoScore} \cup (Nat \X Nat)

\* Everything a handler may be given, and everybody a leaderboard may name.
Emittable == UNION {ToSet(s[1]) : s \in Setups}
Addresses == UNION {ToSet(ev.board) : ev \in Emittable \cup OffchainResults}

EventRow ==
  [exists : BOOLEAN, match_count : Nat, participant_count : Nat, prize_pool : Nat,
   total_entry_fees : Nat, is_finalized : BOOLEAN, is_cancelled : BOOLEAN]
MatchRow ==
  [exists : BOOLEAN, winning_team : Teams, score : Scores, points_multiplier : Nat]
PredictionRow ==
  [exists : BOOLEAN, outcome : Teams, score : Scores, is_correct : {"null", "true", "false"},
   points_earned : Nat]
Mirror ==
  [event : [EventIds -> EventRow], match : [MatchIds -> MatchRow],
   prediction : [MatchIds \X Users -> PredictionRow],
   entries : SUBSET (EventIds \X Addresses), payouts : SUBSET (EventIds \X Addresses),
   reputation : [Users -> Nat], fee_history : Nat]

WriteNames == {"event", "match", "match_count", "join", "prediction", "result", "grade", "score",
               "finalize", "fees", "cancel", "fee", "verify", "unverify", "notify"}
Writes == {<<n>> : n \in WriteNames} \cup {<<"payout", a>> : a \in Addresses}

Hashes == (Nat \X Nat) \cup {NoHash}
LedgerRecord == [hash : Hashes, evs : Seq(Nat)]
Checkpoint == [ledger : Nat, hash : Hashes]

RowIds == Nat \X Nat \X Workers
Row == [ledger : Nat, log : Nat, idx : Nat, status : Statuses, retry : Nat]
Item == [ledger : Nat, log : Nat, idx : Nat, id : RowIds \cup {NoRow}, retry : Nat]

Places == {"idle", "rewind", "fetch", "loop", "store", "do", "sync"}
Kinds == {"poll", "backfill", "retry", "result", "reconcile"}

Job ==
  [pc : Places, kind : Kinds,
   top : Nat, batch : Seq(Item), id : RowIds \cup {NoRow}, status : Statuses, retry : Nat,
   ev : Emittable \cup OffchainResults \cup {[type |-> "none"]}, todo : Seq(Writes),
   read : Mirror \cup {NoRow}, sync : Checkpoint \cup {NoHash}]

-----------------------------------------------------------------------------
(* The first layer of the invariant: types, and what every row, batch and    *)
(* list of writes has in common.                                              *)

ScriptInv == \E s \in Setups : script = s[1] /\ reported = s[2]

\* A ledger holds consecutive events of the script.
ChainInv ==
  /\ chain \in Seq(LedgerRecord) /\ reorgs \in Nat
  /\ \A l \in DOMAIN chain : \A i \in DOMAIN chain[l].evs :
       /\ chain[l].evs[i] \in DOMAIN script
       /\ chain[l].evs[i] = chain[l].evs[1] + i - 1

\* An item or a row with its position is the event the ledger has there.
InPlace(i) ==
  /\ i.idx \in DOMAIN script
  /\ reported /\ reorgs = 0 =>
       /\ i.ledger \in DOMAIN chain /\ i.log + 1 \in DOMAIN chain[i.ledger].evs
       /\ i.idx = chain[i.ledger].evs[i.log + 1]

\* A dead letter is what failed often enough.
Failures(status, retry) ==
  /\ status = "dlq" => retry >= DLQ_THRESHOLD
  /\ status = "failed" => retry < DLQ_THRESHOLD

RowFits(r) ==
  /\ r \in Row /\ InPlace(r) /\ Failures(r.status, r.retry)
  /\ r.status = "processed" /\ reported /\ reorgs = 0 => r.idx \in handled

RowsInv ==
  /\ IsFiniteSet(DOMAIN rows) /\ DOMAIN rows \subseteq RowIds
  /\ rows = [i \in DOMAIN rows |-> rows[i]]
  /\ \A i \in DOMAIN rows : RowFits(rows[i])

CheckpointInv == cursor \in Nat /\ sync \in Checkpoint /\ listened \in 0..Len(chain)

\* The writes that are left, in the order the handlers decide on them.
TodoFits(todo, ev, rd) ==
  \A p \in DOMAIN todo :
    LET n == todo[p][1]
    IN  /\ n = "match" => p = 1
        /\ n = "match_count" => p = 1 \/ (p = 2 /\ todo[1][1] = "match")
        /\ n = "result" => /\ p = 1 /\ rd.match[ev.match].exists
                           /\ ev.type \in {"MatchResultSubmitted", "submitResult"}
        /\ n = "grade" => /\ ev.type = "MatchResultSubmitted"
                          /\ p = 1 \/ (p = 2 /\ todo[1][1] = "result")
        /\ n = "score" => ev.type = "submitResult"
        /\ n \in {"prediction", "verify", "unverify"} => ev.user \in Users
        /\ n = "unverify" => rd.reputation[ev.user] > 0

\* What a job holds, by where it is.
BatchFits(j) ==
  \A p \in DOMAIN j.batch : InPlace(j.batch[p]) /\ (j.kind = "retry" => j.batch[p].id \in RowIds)
HandlerFits(j) ==
  /\ j.read \in Mirror /\ TodoFits(j.todo, j.ev, j.read)
  /\ IF j.kind = "result" THEN j.ev \in OffchainResults /\ offchain ELSE j.ev \in ToSet(script)
JobFits(j) ==
  /\ BatchFits(j)
  /\ j.pc \in {"store", "do"} /\ j.kind # "result" => j.batch # <<>> /\ j.id \in RowIds
  /\ j.pc \in {"loop", "store"} =>
       j.kind # "result" /\ j.status # "processed" /\ Failures(j.status, j.retry)
  /\ j.pc = "do" => HandlerFits(j)
  /\ j.pc = "sync" => j.sync \in Checkpoint
JobsInv == job \in [Workers -> Job] /\ \A w \in Workers : JobFits(job[w])

TInv == /\ ScriptInv /\ ChainInv /\ RowsInv /\ CheckpointInv /\ JobsInv
        /\ mirror \in Mirror /\ offchain \in BOOLEAN

-----------------------------------------------------------------------------
(* The second layer: nothing is skipped. *)

\* Ledger l has been read: all of its events were handled or wait in the batch b.
Read(l, b) ==
  \/ l \in gaps
  \/ /\ l \in DOMAIN chain
     /\ \A i \in DOMAIN chain[l].evs :
          \/ chain[l].evs[i] \in handled
          \/ \E p \in DOMAIN b : b[p].ledger = l /\ b[p].idx = chain[l].evs[i]

\* Up to the highest ledger that was processed or is in the batch.
LoopCovers(j) ==
  /\ \A l \in 1..j.top : Read(l, j.batch)
  /\ \A p \in DOMAIN j.batch : \A l \in 1..j.batch[p].ledger : Read(l, j.batch)

CInv ==
  /\ \A l \in 1..cursor : Read(l, <<>>)
  /\ job[Poller].pc \in {"loop", "store", "do"} => LoopCovers(job[Poller])

-----------------------------------------------------------------------------
(* The third layer: every count belongs to matches of its own. *)

CountFits(own, j) ==
  j.pc = "do" =>
    /\ \A e \in EventIds : j.read.event[e].match_count <= Cardinality(own[e])
    /\ j.todo # <<>> /\ j.todo[1][1] = "match_count" =>
         j.read.event[j.ev.event].match_count + 1 <= Cardinality(own[j.ev.event])

Owns(own) ==
  /\ \A e, f \in EventIds : e # f => own[e] \cap own[f] = {}
  /\ \A e \in EventIds : /\ \A m \in own[e] : mirror.match[m].exists
                         /\ mirror.event[e].match_count <= Cardinality(own[e])
  /\ \A w \in Workers : CountFits(own, job[w])

OInv == \E own \in [EventIds -> SUBSET MatchIds] : Owns(own)

-----------------------------------------------------------------------------
(* The fourth layer: one result per match, shown before it is graded by. *)

IsResult(m, o) ==
  \E i \in DOMAIN script : /\ script[i].type = "MatchResultSubmitted"
                           /\ script[i].match = m /\ script[i].outcome = o

\* The match shows the result its event announced.
Shows(mt, m) == mt.winning_team # "null" => mt.exists /\ IsResult(m, mt.winning_team)

\* A graded prediction belongs to a match that shows its result, and agrees with it.
GradedAs(p, mt) ==
  p.is_correct # "null" =>
    /\ mt.winning_team # "null"
    /\ (p.is_correct = "true") = (p.outcome = mt.winning_team)

\* The handler of a result is about to grade, and its match shows that result.
Grading(j) == j.pc = "do" /\ j.todo # <<>> /\ j.todo[1][1] = "grade"
GradesBy(j) == Grading(j) => mirror.match[j.ev.match].winning_team = j.ev.outcome

GInv ==
  ~offchain =>
    /\ \A m \in MatchIds : Shows(mirror.match[m], m)
    /\ \A k \in MatchIds \X Users : GradedAs(mirror.prediction[k], mirror.match[k[1]])
    /\ \A w \in Workers : GradesBy(job[w])

-----------------------------------------------------------------------------
(* What FlattenSeq computes, for blocks of items that each carry the number   *)
(* of their block.                                                            *)

FlatBody(g, i, seqs) == IF i = 1 THEN seqs[i] ELSE g[i - 1] \o seqs[i]
IsFlat(g, seqs) == g = [i \in 1..Len(seqs) |-> FlatBody(g, i, seqs)]
FlatUpTo(g, n, seqs) == \A i \in 1..Len(seqs) : i <= n => g[i] = FlatBody(g, i, seqs)

LEMMA FlattenUnfold ==
  ASSUME NEW seqs, Len(seqs) # 0
  PROVE  FlattenSeq(seqs) = (CHOOSE g : IsFlat(g, seqs))[Len(seqs)]
BY DEF FlattenSeq, IsFlat, FlatBody

\* The recursive function exists: built block by block.
LEMMA FlatExists ==
  ASSUME NEW S, NEW seqs \in Seq(Seq(S))
  PROVE  \E g \in [1..Len(seqs) -> Seq(S)] : IsFlat(g, seqs)
<1> DEFINE N == Len(seqs)
           F == [1..N -> Seq(S)]
           B == {n \in Nat : n <= N /\ ~\E g \in F : FlatUpTo(g, n, seqs)}
<1>0. N \in Nat /\ \A i \in 1..N : seqs[i] \in Seq(S)
  OBVIOUS
<1> HIDE DEF N
<1>1. B = {}
  <2> SUFFICES ASSUME B # {} PROVE FALSE
    OBVIOUS
  <2>1. B \subseteq Nat
    OBVIOUS
  <2>2. PICK n \in B : \A j \in B : n <= j
    <3> HIDE DEF B
    <3> QED  BY <2>1, NatMin
  <2>3. n \in Nat /\ n <= N /\ ~\E g \in F : FlatUpTo(g, n, seqs)
    OBVIOUS
  <2>4. n # 0
    <3> SUFFICES ASSUME n = 0 PROVE FALSE
      OBVIOUS
    <3> DEFINE g == [i \in 1..N |-> <<>>]
    <3>1. g \in F
      OBVIOUS
    <3>2. FlatUpTo(g, n, seqs)
      BY DEF FlatUpTo, N
    <3> QED  BY <2>3, <3>1, <3>2
  <2>5. n - 1 \in Nat /\ n - 1 <= N /\ n - 1 \notin B
    <3>1. n - 1 \in Nat /\ n - 1 <= N /\ ~(n <= n - 1)
      BY <1>0, <2>3, <2>4
    <3> HIDE DEF B
    <3> QED  BY <2>2, <3>1
  <2>6. PICK g \in F : FlatUpTo(g, n - 1, seqs)
    BY <2>5
  <2> DEFINE x == FlatBody(g, n, seqs)
             h == [g EXCEPT ![n] = x]
  <2>7. n \in 1..N /\ (n # 1 => n - 1 \in 1..N)
    BY <1>0, <2>3, <2>4
  <2>8. x \in Seq(S)
    <3>1. CASE n = 1
      BY <1>0, <2>7, <3>1 DEF FlatBody
    <3>2. CASE n # 1
      <4>1. g[n - 1] \in Seq(S) /\ seqs[n] \in Seq(S)
        BY <1>0, <2>7, <3>2
      <4>2. x = g[n - 1] \o seqs[n]
        BY <3>2 DEF FlatBody
      <4> HIDE DEF x
      <4> QED  BY <4>1, <4>2, ConcatProperties
    <3> QED  BY <3>1, <3>2
  <2>9. h \in F /\ h[n] = x /\ \A i \in 1..N : i # n => h[i] = g[i]
    <3> HIDE DEF x
    <3> QED  BY <2>7, <2>8
  <2>10. FlatUpTo(h, n, seqs)
    <3> SUFFICES ASSUME NEW i \in 1..N, i <= n
                 PROVE  h[i] = FlatBody(h, i, seqs)
      BY DEF FlatUpTo, N
    <3>0. i # 1 => i - 1 \in 1..N /\ i - 1 # n
      BY <1>0, <2>3
    <3>1. i # 1 => h[i - 1] = g[i - 1]
      <4> HIDE DEF h
      <4> QED  BY <2>9, <3>0
    <3>2. FlatBody(h, i, seqs) = FlatBody(g, i, seqs)
      <4> HIDE DEF h
      <4> QED  BY <3>1 DEF FlatBody
    <3>3. CASE i = n
      <4> HIDE DEF h
      <4> QED  BY <2>9, <3>2, <3>3
    <3>4. CASE i # n
      <4>1. i <= n - 1
        BY <1>0, <2>3, <3>4
      <4>2. g[i] = FlatBody(g, i, seqs)
        BY <2>6, <4>1 DEF FlatUpTo, N
      <4> HIDE DEF h
      <4> QED  BY <2>9, <3>2, <3>4, <4>2
    <3> QED  BY <3>3, <3>4
  <2> HIDE DEF h
  <2> QED  BY <2>3, <2>9, <2>10
<1>2. N \notin B
  BY <1>1
<1>3. PICK g \in F : FlatUpTo(g, N, seqs)
  BY <1>0, <1>2
<1>4. \A i \in 1..N : g[i] = FlatBody(g, i, seqs)
  BY <1>0, <1>3 DEF FlatUpTo, N
<1>5. IsFlat(g, seqs)
  BY <1>3, <1>4 DEF IsFlat, N
<1> QED  BY <1>3, <1>5 DEF N

\* Every item of a block carries the number of the block.
Numbered(seqs) == \A k \in 1..Len(seqs) : \A i \in DOMAIN seqs[k] : seqs[k][i].ledger = k

\* s is the first n blocks one after the other.
FlatFits(s, n, seqs, S) ==
  /\ s \in Seq(S)
  /\ \A p \in DOMAIN s : /\ s[p].ledger \in 1..n
                         /\ \E i \in DOMAIN seqs[s[p].ledger] : s[p] = seqs[s[p].ledger][i]
  /\ \A p, q \in DOMAIN s : p <= q => s[p].ledger <= s[q].ledger
  /\ \A k \in 1..n : \A i \in DOMAIN seqs[k] : \E p \in DOMAIN s : s[p] = seqs[k][i]

LEMMA FlatAppend ==
  ASSUME NEW S, NEW seqs \in Seq(Seq(S)), Numbered(seqs), NEW n \in 1..Len(seqs), n # 1,
         NEW s, FlatFits(s, n - 1, seqs, S)
  PROVE  FlatFits(s \o seqs[n], n, seqs, S)
<1> DEFINE t == seqs[n]
           c == s \o t
<1>1. s \in Seq(S) /\ t \in Seq(S) /\ n \in Nat /\ n - 1 \in Nat
  BY DEF FlatFits
<1>2. \A i \in DOMAIN t : t[i].ledger = n
  BY DEF Numbered
<1> HIDE DEF t, c
<1>3. /\ c \in Seq(S) /\ Len(c) = Len(s) + Len(t)
      /\ \A i \in 1..Len(c) : c[i] = IF i <= Len(s) THEN s[i] ELSE t[i - Len(s)]
  BY <1>1, ConcatProperties DEF c
<1>4. DOMAIN s = 1..Len(s) /\ DOMAIN t = 1..Len(t) /\ DOMAIN c = 1..Len(c)
      /\ Len(s) \in Nat /\ Len(t) \in Nat
  BY <1>1, <1>3
<1>5. ASSUME NEW p \in DOMAIN c
      PROVE  \/ p \in DOMAIN s /\ c[p] = s[p]
             \/ p - Len(s) \in DOMAIN t /\ c[p] = t[p - Len(s)] /\ p > Len(s)
  BY <1>3, <1>4
<1>6. \A p \in DOMAIN s : p \in DOMAIN c /\ c[p] = s[p]
  BY <1>3, <1>4
<1>7. \A i \in DOMAIN t : i + Len(s) \in DOMAIN c /\ c[i + Len(s)] = t[i]
  <2> SUFFICES ASSUME NEW i \in DOMAIN t PROVE i + Len(s) \in DOMAIN c /\ c[i + Len(s)] = t[i]
    OBVIOUS
  <2>1. i + Len(s) \in 1..Len(c) /\ ~(i + Len(s) <= Len(s)) /\ (i + Len(s)) - Len(s) = i
    BY <1>3, <1>4
  <2> QED  BY <1>3, <1>4, <2>1
<1>8. ASSUME NEW p \in DOMAIN c
      PROVE  /\ c[p].ledger \in 1..n
             /\ \E i \in DOMAIN seqs[c[p].ledger] : c[p] = seqs[c[p].ledger][i]
  <2>1. CASE p \in DOMAIN s /\ c[p] = s[p]
    <3>1. s[p].ledger \in 1..(n - 1) /\ \E i \in DOMAIN seqs[s[p].ledger] : s[p] = seqs[s[p].ledger][i]
      BY <2>1 DEF FlatFits
    <3>2. s[p].ledger \in 1..n
      BY <1>1, <3>1
    <3> QED  BY <2>1, <3>1, <3>2
  <2>2. CASE p - Len(s) \in DOMAIN t /\ c[p] = t[p - Len(s)]
    <3>1. c[p].ledger = n
      BY <1>2, <2>2
    <3> QED  BY <1>1, <2>2, <3>1 DEF t
  <2> QED  BY <1>5, <2>1, <2>2
<1>9. ASSUME NEW p \in DOMAIN c, NEW q \in DOMAIN c, p <= q PROVE c[p].ledger <= c[q].ledger
  <2>0. p \in Int /\ q \in Int
    BY <1>4
  <2>1. CASE q \in DOMAIN s /\ c[q] = s[q]
    <3>1. p \in DOMAIN s /\ c[p] = s[p]
      BY <1>4, <1>6, <1>9, <2>0, <2>1
    <3>2. s[p].ledger <= s[q].ledger
      BY <1>9, <2>1, <3>1 DEF FlatFits
    <3> QED  BY <2>1, <3>1, <3>2
  <2>2. CASE q - Len(s) \in DOMAIN t /\ c[q] = t[q - Len(s)]
    <3>1. c[q].ledger = n
      BY <1>2, <2>2
    <3>2. c[p].ledger \in 1..n
      BY <1>8
    <3> QED  BY <1>1, <3>1, <3>2
  <2> QED  BY <1>5, <2>1, <2>2
<1>10. ASSUME NEW k \in 1..n, NEW i \in DOMAIN seqs[k] PROVE \E p \in DOMAIN c : c[p] = seqs[k][i]
  <2>1. CASE k = n
    <3>1. i \in DOMAIN t /\ seqs[k][i] = t[i]
      BY <2>1 DEF t
    <3> QED  BY <1>7, <3>1
  <2>2. CASE k # n
    <3>1. k \in 1..(n - 1)
      BY <1>1, <2>2
    <3>2. \E p \in DOMAIN s : s[p] = seqs[k][i]
      BY <3>1 DEF FlatFits
    <3> QED  BY <1>6, <3>2
  <2> QED  BY <2>1, <2>2
<1>11. FlatFits(c, n, seqs, S)
  BY <1>3, <1>8, <1>9, <1>10 DEF FlatFits
<1> QED  BY <1>11 DEF c, t

LEMMA FlattenFits ==
  ASSUME NEW S, NEW seqs \in Seq(Seq(S)), Numbered(seqs)
  PROVE  FlatFits(FlattenSeq(seqs), Len(seqs), seqs, S)
<1> DEFINE N == Len(seqs)
<1>0. N \in Nat /\ \A i \in 1..N : seqs[i] \in Seq(S)
  OBVIOUS
<1>1. CASE N = 0
  <2>1. FlattenSeq(seqs) = seqs /\ seqs = <<>>
    BY <1>1 DEF FlattenSeq
  <2>2. <<>> \in Seq(S) /\ DOMAIN <<>> = {} /\ 1..0 = {}
    OBVIOUS
  <2>3. FlatFits(<<>>, 0, seqs, S)
    <3> HIDE DEF N
    <3> QED  BY <2>2 DEF FlatFits
  <2> QED  BY <1>1, <2>1, <2>3
<1>2. CASE N # 0
  <2> DEFINE g == CHOOSE g : IsFlat(g, seqs)
             B == {n \in Nat : n \in 1..N /\ ~FlatFits(g[n], n, seqs, S)}
  <2>1. IsFlat(g, seqs)
    BY FlatExists
  <2>2. FlattenSeq(seqs) = g[N]
    BY <1>2, FlattenUnfold
  <2> HIDE DEF g
  <2>3. \A i \in 1..N : g[i] = FlatBody(g, i, seqs)
    BY <2>1 DEF IsFlat
  <2>4. B = {}
    <3> SUFFICES ASSUME B # {} PROVE FALSE
      OBVIOUS
    <3>1. B \subseteq Nat
      OBVIOUS
    <3>2. PICK n \in B : \A j \in B : n <= j
      <4> HIDE DEF B
      <4> QED  BY <3>1, NatMin
    <3>3. n \in 1..N /\ ~FlatFits(g[n], n, seqs, S)
      OBVIOUS
    <3>4. CASE n = 1
      <4>1. g[n] = seqs[1]
        BY <2>3, <3>3, <3>4 DEF FlatBody
      <4> DEFINE s == seqs[1]
      <4>2. s \in Seq(S) /\ \A i \in DOMAIN s : s[i].ledger = 1
        BY <1>0, <3>3, <3>4 DEF Numbered
      <4>3. \A k \in 1..1 : k = 1 /\ k \in 1..1 /\ k <= k
        OBVIOUS
      <4>4. \A p \in DOMAIN s : /\ s[p].ledger \in 1..1
                               /\ \E i \in DOMAIN seqs[s[p].ledger] : s[p] = seqs[s[p].ledger][i]
        BY <4>2
      <4>5. \A p, q \in DOMAIN s : p <= q => s[p].ledger <= s[q].ledger
        <5> HIDE DEF s
        <5> QED  BY <4>2
      <4>6. \A k \in 1..1 : \A i \in DOMAIN seqs[k] : \E p \in DOMAIN s : s[p] = seqs[k][i]
        BY <4>3
      <4>7. FlatFits(s, 1, seqs, S)
        <5> HIDE DEF s
        <5> QED  BY <4>2, <4>4, <4>5, <4>6 DEF FlatFits
      <4> QED  BY <3>3, <3>4, <4>1, <4>7
    <3>5. CASE n # 1
      <4>1. n - 1 \in 1..N /\ n - 1 \in Nat /\ ~(n <= n - 1)
        BY <1>0, <3>3, <3>5
      <4>2. n - 1 \notin B
        <5> HIDE DEF B
        <5> QED  BY <3>2, <4>1
      <4>3. FlatFits(g[n - 1], n - 1, seqs, S)
        BY <4>1, <4>2
      <4>4. g[n] = g[n - 1] \o seqs[n]
        BY <2>3, <3>3, <3>5 DEF FlatBody
      <4>5. FlatFits(g[n - 1] \o seqs[n], n, seqs, S)
        BY <3>3, <3>5, <4>3, FlatAppend
      <4> QED  BY <3>3, <4>4, <4>5
    <3> QED  BY <3>4, <3>5
  <2>5. N \in 1..N
    BY <1>0, <1>2
  <2> QED  BY <1>0, <2>2, <2>4, <2>5
<1> QED  BY <1>1, <1>2

-----------------------------------------------------------------------------
(* The script, and what the RPC answers. *)

LEMMA ScriptFacts ==
  ASSUME ScriptInv
  PROVE  /\ script \in Seq(ToSet(script)) /\ reported \in BOOLEAN
         /\ Len(script) \in Nat /\ DOMAIN script = 1..Len(script)
         /\ \A i \in DOMAIN script : /\ WellFormed(script[i]) /\ script[i].type # "submitResult"
                                     /\ script[i] \in Emittable
BY SetupsAssumption DEF ScriptInv, Emittable, ToSet

LEMMA OneResult ==
  ASSUME ScriptInv, NEW i \in DOMAIN script, NEW k \in DOMAIN script,
         script[i].type = "MatchResultSubmitted", script[k].type = "MatchResultSubmitted",
         script[i].match = script[k].match
  PROVE  script[i].outcome = script[k].outcome
BY SetupsAssumption DEF ScriptInv

LEMMA ScriptMembers ==
  ASSUME ScriptInv, NEW ev \in ToSet(script)
  PROVE  WellFormed(ev) /\ ev.type # "submitResult" /\ ev \in Emittable
BY ScriptFacts DEF ToSet

LEMMA ChainFacts ==
  ASSUME ChainInv
  PROVE  /\ Len(chain) \in Nat /\ DOMAIN chain = 1..Len(chain)
         /\ \A l \in DOMAIN chain :
              /\ chain[l] \in LedgerRecord /\ chain[l].evs \in Seq(Nat)
              /\ Len(chain[l].evs) \in Nat /\ DOMAIN chain[l].evs = 1..Len(chain[l].evs)
<1>1. chain \in Seq(LedgerRecord)
  BY DEF ChainInv
<1>2. Len(chain) \in Nat /\ DOMAIN chain = 1..Len(chain) /\ \A l \in DOMAIN chain : chain[l] \in LedgerRecord
  BY <1>1
<1>3. \A r \in LedgerRecord : r.evs \in Seq(Nat)
  BY DEF LedgerRecord
<1>4. \A e \in Seq(Nat) : Len(e) \in Nat /\ DOMAIN e = 1..Len(e)
  OBVIOUS
<1> QED  BY <1>2, <1>3, <1>4

\* What an answer from a ledger on consists of.
FromLedger(i) ==
  \E n \in DOMAIN chain[i.ledger].evs :
     i.idx = chain[i.ledger].evs[n] /\ (reported => i.log = n - 1)

Sorted(s) == \A p, q \in DOMAIN s : p <= q => s[p].ledger <= s[q].ledger

AnswerFits(s, from) ==
  /\ s \in Seq(Item)
  /\ \A p \in DOMAIN s : s[p].ledger \in DOMAIN chain /\ from <= s[p].ledger /\ FromLedger(s[p])
  /\ Sorted(s)
  /\ \A l \in DOMAIN chain : from <= l =>
       \A n \in DOMAIN chain[l].evs :
         \E p \in DOMAIN s : s[p].ledger = l /\ s[p].idx = chain[l].evs[n]

AsItem(k, i) ==
  [ledger |-> k, log |-> i - 1, idx |-> chain[k].evs[i], id |-> NoRow, retry |-> 0]
Block(k, from) == IF k < from THEN <<>> ELSE [i \in 1..Len(chain[k].evs) |-> AsItem(k, i)]
Blocks(from) == [k \in 1..Len(chain) |-> Block(k, from)]
Positioned(all) == [i \in 1..Len(all) |-> IF reported THEN all[i] ELSE [all[i] EXCEPT !.log = i - 1]]

LEMMA EventsUnfold ==
  ASSUME NEW from PROVE Events(from) = Positioned(FlattenSeq(Blocks(from)))
BY DEF Events, Positioned, Blocks, Block, AsItem

LEMMA ItemFits ==
  ASSUME ChainInv, NEW k \in DOMAIN chain, NEW i \in DOMAIN chain[k].evs
  PROVE  /\ AsItem(k, i) \in Item /\ AsItem(k, i).ledger = k
         /\ AsItem(k, i).idx = chain[k].evs[i] /\ AsItem(k, i).log = i - 1
<1>1. chain[k].evs[i] \in Nat /\ i - 1 \in Nat /\ k \in Nat
  BY ChainFacts
<1> QED  BY <1>1 DEF AsItem, Item

LEMMA BlockFits ==
  ASSUME ChainInv, NEW from \in Nat, NEW k \in DOMAIN chain
  PROVE  /\ Block(k, from) \in Seq(Item)
         /\ DOMAIN Block(k, from) = IF k < from THEN {} ELSE DOMAIN chain[k].evs
         /\ \A i \in DOMAIN Block(k, from) : Block(k, from)[i] = AsItem(k, i)
<1>1. Len(chain[k].evs) \in Nat /\ DOMAIN chain[k].evs = 1..Len(chain[k].evs)
  BY ChainFacts
<1>2. CASE k < from
  BY <1>2 DEF Block
<1>3. CASE ~(k < from)
  <2> DEFINE n == Len(chain[k].evs)
             b == [i \in 1..n |-> AsItem(k, i)]
  <2>1. Block(k, from) = b
    BY <1>3 DEF Block
  <2>2. \A i \in 1..n : AsItem(k, i) \in Item
    BY <1>1, ItemFits
  <2>3. b \in [1..n -> Item]
    BY <2>2
  <2>4. b \in Seq(Item)
    <3> HIDE DEF b, n
    <3>1. n \in Nat
      BY <1>1 DEF n
    <3> QED  BY <2>3, <3>1, SeqDef
  <2>5. DOMAIN b = 1..n /\ \A i \in 1..n : b[i] = AsItem(k, i)
    OBVIOUS
  <2> HIDE DEF b
  <2> QED  BY <1>1, <1>3, <2>1, <2>4, <2>5
<1> QED  BY <1>2, <1>3

LEMMA BlocksFit ==
  ASSUME ChainInv, NEW from \in Nat
  PROVE  /\ Blocks(from) \in Seq(Seq(Item)) /\ Len(Blocks(from)) = Len(chain)
         /\ Numbered(Blocks(from))
         /\ \A k \in DOMAIN chain : Blocks(from)[k] = Block(k, from)
<1> DEFINE n == Len(chain)
           b == Blocks(from)
<1>1. n \in Nat /\ DOMAIN chain = 1..n
  BY ChainFacts
<1>2. \A k \in 1..n : Block(k, from) \in Seq(Item)
  BY <1>1, BlockFits
<1>3. b = [k \in 1..n |-> Block(k, from)]
  BY DEF Blocks
<1> HIDE DEF b, n
<1>4. b \in [1..n -> Seq(Item)] /\ \A k \in 1..n : b[k] = Block(k, from)
  BY <1>2, <1>3
<1>5. b \in Seq(Seq(Item)) /\ Len(b) = n
  <2>1. b \in Seq(Seq(Item))
    BY <1>1, <1>4, SeqDef
  <2> QED  BY <1>1, <1>4, <2>1
<1>6. Numbered(b)
  <2> SUFFICES ASSUME NEW k \in 1..n, NEW i \in DOMAIN b[k] PROVE b[k][i].ledger = k
    BY <1>5 DEF Numbered
  <2>1. i \in DOMAIN Block(k, from) /\ b[k][i] = Block(k, from)[i]
    BY <1>4
  <2>2. b[k][i] = AsItem(k, i) /\ i \in DOMAIN chain[k].evs
    BY <1>1, <2>1, BlockFits
  <2> QED  BY <1>1, <2>2, ItemFits
<1> QED  BY <1>1, <1>4, <1>5, <1>6 DEF b, n

\* Without log_index an item only gets another position.
LEMMA PositionedFits ==
  ASSUME NEW s \in Seq(Item)
  PROVE  /\ Positioned(s) \in Seq(Item) /\ DOMAIN Positioned(s) = DOMAIN s
         /\ \A p \in DOMAIN s : /\ Positioned(s)[p].ledger = s[p].ledger
                                /\ Positioned(s)[p].idx = s[p].idx
                                /\ reported => Positioned(s)[p].log = s[p].log
<1> DEFINE n == Len(s)
           x(i) == IF reported THEN s[i] ELSE [s[i] EXCEPT !.log = i - 1]
           t == [i \in 1..n |-> x(i)]
<1>1. n \in Nat /\ DOMAIN s = 1..n /\ \A i \in 1..n : s[i] \in Item
  OBVIOUS
<1>2. ASSUME NEW i \in 1..n
      PROVE  /\ x(i) \in Item /\ x(i).ledger = s[i].ledger /\ x(i).idx = s[i].idx
             /\ reported => x(i).log = s[i].log
  <2>1. s[i] \in Item /\ i - 1 \in Nat
    BY <1>1
  <2> QED  BY <2>1 DEF Item
<1>3. Positioned(s) = t
  BY DEF Positioned
<1> HIDE DEF n, x
<1>4. t \in [1..n -> Item] /\ \A i \in 1..n : t[i] = x(i)
  BY <1>2
<1> HIDE DEF t
<1>5. t \in Seq(Item) /\ DOMAIN t = 1..n
  BY <1>1, <1>4, SeqDef
<1> QED  BY <1>1, <1>2, <1>3, <1>4, <1>5

\* getEvents answers with every event from the ledger on, in their order.
LEMMA EventsFit ==
  ASSUME ChainInv, NEW from \in Nat
  PROVE  AnswerFits(Events(from), from)
<1> DEFINE b == Blocks(from)
           s == FlattenSeq(b)
           t == Positioned(s)
<1>1. /\ b \in Seq(Seq(Item)) /\ Len(b) = Len(chain) /\ Numbered(b)
      /\ \A k \in DOMAIN chain : b[k] = Block(k, from)
  BY BlocksFit
<1> HIDE DEF b
<1>2. FlatFits(s, Len(b), b, Item)
  BY <1>1, FlattenFits
<1> HIDE DEF s
<1>3. Events(from) = t
  BY EventsUnfold DEF b, s
<1>4. s \in Seq(Item)
  BY <1>2 DEF FlatFits
<1>5. /\ t \in Seq(Item) /\ DOMAIN t = DOMAIN s
      /\ \A p \in DOMAIN s : /\ t[p].ledger = s[p].ledger /\ t[p].idx = s[p].idx
                             /\ reported => t[p].log = s[p].log
  BY <1>4, PositionedFits
<1> HIDE DEF t
<1>6. DOMAIN chain = 1..Len(b)
  BY <1>1, ChainFacts
<1>7. ASSUME NEW p \in DOMAIN t
      PROVE  t[p].ledger \in DOMAIN chain /\ from <= t[p].ledger /\ FromLedger(t[p])
  <2> DEFINE k == s[p].ledger
  <2>1. k \in DOMAIN chain
    BY <1>2, <1>5, <1>6 DEF FlatFits
  <2>2. PICK i \in DOMAIN b[k] : s[p] = b[k][i]
    BY <1>2, <1>5 DEF FlatFits
  <2> HIDE DEF k
  <2>3. i \in DOMAIN Block(k, from) /\ s[p] = Block(k, from)[i]
    BY <1>1, <2>1, <2>2
  <2>4. ~(k < from) /\ i \in DOMAIN chain[k].evs /\ s[p] = AsItem(k, i)
    BY <2>1, <2>3, BlockFits
  <2>5. s[p].idx = chain[k].evs[i] /\ s[p].log = i - 1
    BY <2>1, <2>4, ItemFits
  <2>6. k \in Nat
    BY <2>1, ChainFacts
  <2>7. t[p].ledger = k
    BY <1>5 DEF k
  <2>8. t[p].idx = chain[k].evs[i] /\ (reported => t[p].log = i - 1)
    BY <1>5, <2>5
  <2>9. FromLedger(t[p])
    BY <2>4, <2>7, <2>8 DEF FromLedger
  <2>10. from <= k
    BY <2>4, <2>6
  <2> QED  BY <2>1, <2>7, <2>9, <2>10
<1>8. Sorted(t)
  BY <1>2, <1>5 DEF FlatFits, Sorted
<1>9. ASSUME NEW l \in DOMAIN chain, from <= l, NEW n \in DOMAIN chain[l].evs
      PROVE  \E p \in DOMAIN t : t[p].ledger = l /\ t[p].idx = chain[l].evs[n]
  <2>1. l \in Nat /\ ~(l < from)
    BY <1>9, ChainFacts
  <2>2. n \in DOMAIN Block(l, from) /\ Block(l, from)[n] = AsItem(l, n)
    BY <2>1, BlockFits
  <2>3. n \in DOMAIN b[l] /\ b[l][n] = AsItem(l, n)
    BY <1>1, <2>2
  <2>4. PICK p \in DOMAIN s : s[p] = b[l][n]
    BY <1>2, <1>6, <2>3 DEF FlatFits
  <2>5. s[p].ledger = l /\ s[p].idx = chain[l].evs[n]
    BY <2>3, <2>4, ItemFits
  <2> QED  BY <1>5, <2>5
<1>10. AnswerFits(t, from)
  BY <1>5, <1>7, <1>8, <1>9 DEF AnswerFits
<1> QED  BY <1>3, <1>10

LEMMA PrefixFits ==
  ASSUME NEW S, NEW s \in Seq(S), NEW n \in 0..Len(s)
  PROVE  /\ SubSeq(s, 1, n) \in Seq(S) /\ DOMAIN SubSeq(s, 1, n) = 1..n
         /\ \A p \in 1..n : p \in DOMAIN s /\ SubSeq(s, 1, n)[p] = s[p]
<1>1. Len(s) \in Nat /\ DOMAIN s = 1..Len(s) /\ \A i \in 1..n : i \in DOMAIN s /\ s[i] \in S
  OBVIOUS
<1> DEFINE t == SubSeq(s, 1, n)
<1>2. t \in Seq(S) /\ Len(t) = (IF 1 <= n THEN n - 1 + 1 ELSE 0) /\ \A i \in 1..(n - 1 + 1) : t[i] = s[1 + i - 1]
  BY <1>1, SubSeqProperties
<1>3. n - 1 + 1 = n /\ \A i \in 1..n : 1 + i - 1 = i
  OBVIOUS
<1> HIDE DEF t
<1>4. \A i \in 1..n : t[i] = s[i]
  BY <1>2, <1>3
<1>5. Len(t) = n
  BY <1>2, <1>3
<1>6. DOMAIN t = 1..n
  BY <1>2, <1>5
<1> QED  BY <1>1, <1>2, <1>4, <1>6 DEF t

LEMMA LimitedFits ==
  ASSUME NEW S, NEW s \in Seq(S)
  PROVE  \E n \in 0..Len(s) : /\ Limited(s) = SubSeq(s, 1, n)
                              /\ n < Len(s) => n = BATCH_SIZE
BY IndexerAssumption DEF Limited

LEMMA IntervalSize ==
  ASSUME NEW n \in Nat
  PROVE  IsFiniteSet(1..n) /\ Cardinality(1..n) = n
<1>1. 1 \in Int /\ n \in Int
  OBVIOUS
<1>2. IsFiniteSet(1..n) /\ Cardinality(1..n) = IF 1 > n THEN 0 ELSE n - 1 + 1
  BY <1>1, FS_Interval, Zenon
<1> QED  BY <1>2

LEMMA UpToFits ==
  ASSUME NEW S, NEW s \in Seq(S), NEW to
  PROVE  \E n \in 0..Len(s) : UpTo(s, to) = SubSeq(s, 1, n)
<1> DEFINE D == {i \in DOMAIN s : s[i].ledger <= to}
<1>1. Len(s) \in Nat /\ D \subseteq 1..Len(s)
  OBVIOUS
<1> DEFINE n == Len(s)
<1>2. n \in Nat
  BY <1>1
<1> HIDE DEF D, n
<1>3. IsFiniteSet(1..n) /\ Cardinality(1..n) = n
  BY <1>2, IntervalSize
<1>4. D \in SUBSET (1..n)
  BY <1>1 DEF n
<1>5. IsFiniteSet(D) /\ Cardinality(D) <= n
  BY <1>3, <1>4, FS_Subset
<1>6. Cardinality(D) \in Nat
  BY <1>5, FS_CardinalityType
<1>7. UpTo(s, to) = SubSeq(s, 1, Cardinality(D))
  BY DEF UpTo, D
<1>8. Cardinality(D) \in 0..Len(s)
  BY <1>2, <1>5, <1>6 DEF n
<1> QED  BY <1>7, <1>8

\* An item of an answer is where it says.
LEMMA AnswerInPlace ==
  ASSUME ChainInv, NEW i, i.ledger \in DOMAIN chain, FromLedger(i)
  PROVE  InPlace(i)
<1>1. PICK n \in DOMAIN chain[i.ledger].evs :
        i.idx = chain[i.ledger].evs[n] /\ (reported => i.log = n - 1)
  BY DEF FromLedger
<1>2. n \in Nat
  BY ChainFacts
<1>3. reported => i.log + 1 = n
  BY <1>1, <1>2
<1> QED  BY <1>1, <1>3 DEF InPlace, ChainInv

-----------------------------------------------------------------------------
(* The writes a handler decides on. *)

LEMMA RowTypes ==
  /\ NoEvent \in EventRow /\ NoMatch \in MatchRow /\ NoPrediction \in PredictionRow
  /\ NoEvent.match_count = 0 /\ NoMatch.winning_team = "null" /\ NoPrediction.is_correct = "null"
BY DEF NoEvent, EventRow, NoMatch, MatchRow, NoPrediction, PredictionRow, NoScore, Scores, Teams

LEMMA EmptyMirrorType == EmptyMirror \in Mirror
<1>1. /\ [e \in EventIds |-> NoEvent] \in [EventIds -> EventRow]
      /\ [m \in MatchIds |-> NoMatch] \in [MatchIds -> MatchRow]
      /\ [p \in MatchIds \X Users |-> NoPrediction] \in [MatchIds \X Users -> PredictionRow]
      /\ [u \in Users |-> 0] \in [Users -> Nat]
  BY RowTypes
<1> QED  BY <1>1 DEF EmptyMirror, Mirror

LEMMA MirrorFields ==
  ASSUME NEW mi \in Mirror
  PROVE  /\ mi.event \in [EventIds -> EventRow] /\ mi.match \in [MatchIds -> MatchRow]
         /\ mi.prediction \in [MatchIds \X Users -> PredictionRow]
         /\ mi.reputation \in [Users -> Nat] /\ mi.fee_history \in Nat
         /\ mi.entries \subseteq EventIds \X Addresses /\ mi.payouts \subseteq EventIds \X Addresses
BY DEF Mirror

\* Writes whose place in the list does not matter.
Plain == {<<n>> : n \in {"event", "join", "finalize", "fees", "cancel", "fee", "notify"}}
           \cup {<<"payout", a>> : a \in Addresses}

LEMMA PlainNames ==
  ASSUME NEW w \in Plain
  PROVE  /\ w \in Writes
         /\ w[1] \notin {"match", "match_count", "result", "grade", "score", "prediction", "verify", "unverify"}
BY DEF Plain, Writes, WriteNames

\* A list of writes as the handler leaves it.
TodoFresh(todo, ev, mr) ==
  /\ todo \in Seq(Writes) /\ TodoFits(todo, ev, mr)
  /\ todo # <<>> => todo[1][1] \notin {"match_count", "grade"}

LEMMA PlainFresh ==
  ASSUME NEW todo \in Seq(Plain), NEW ev, NEW mr
  PROVE  TodoFresh(todo, ev, mr)
<1>1. DOMAIN todo = 1..Len(todo) /\ Len(todo) \in Nat /\ \A p \in DOMAIN todo : todo[p] \in Plain
  OBVIOUS
<1>2. \A p \in DOMAIN todo :
        todo[p][1] \notin {"match", "match_count", "result", "grade", "score", "prediction", "verify", "unverify"}
  BY <1>1, PlainNames
<1>3. todo \in Seq(Writes)
  BY PlainNames
<1>4. TodoFits(todo, ev, mr)
  BY <1>2 DEF TodoFits
<1>5. todo # <<>> => 1 \in DOMAIN todo
  BY <1>1
<1> QED  BY <1>2, <1>3, <1>4, <1>5 DEF TodoFresh

LEMMA OnePlain ==
  ASSUME NEW a \in Plain PROVE <<a>> \in Seq(Plain)
OBVIOUS

LEMMA TwoPlain ==
  ASSUME NEW a \in Plain, NEW b \in Plain PROVE <<a, b>> \in Seq(Plain)
OBVIOUS

\* A list of one, two or three writes.
LEMMA SingleFresh ==
  ASSUME NEW a \in Writes, NEW ev, NEW mr,
         a[1] \notin {"match_count", "grade"},
         a[1] = "result" => /\ mr.match[ev.match].exists
                            /\ ev.type \in {"MatchResultSubmitted", "submitResult"},
         a[1] = "score" => ev.type = "submitResult",
         a[1] \in {"prediction", "verify", "unverify"} => ev.user \in Users,
         a[1] = "unverify" => mr.reputation[ev.user] > 0
  PROVE  TodoFresh(<<a>>, ev, mr)
<1> DEFINE todo == <<a>>
<1>1. todo \in Seq(Writes) /\ DOMAIN todo = {1} /\ todo[1] = a
  OBVIOUS
<1> HIDE DEF todo
<1>2. TodoFits(todo, ev, mr)
  BY <1>1 DEF TodoFits
<1>3. TodoFresh(todo, ev, mr)
  BY <1>1, <1>2 DEF TodoFresh
<1> QED  BY <1>3 DEF todo

LEMMA PairFresh ==
  ASSUME NEW a \in Writes, NEW b \in Writes, NEW ev, NEW mr,
         TodoFresh(<<a>>, ev, mr),
         b[1] \in {"notify", "score", "match_count", "grade"},
         b[1] = "match_count" => a[1] = "match",
         b[1] = "grade" => a[1] = "result" /\ ev.type = "MatchResultSubmitted",
         b[1] = "score" => ev.type = "submitResult"
  PROVE  TodoFresh(<<a, b>>, ev, mr)
<1> DEFINE one == <<a>>
           todo == <<a, b>>
<1>1. /\ todo \in Seq(Writes) /\ DOMAIN todo = {1, 2} /\ todo[1] = a /\ todo[2] = b
      /\ DOMAIN one = {1} /\ one[1] = a /\ one # <<>>
  OBVIOUS
<1>2. TodoFresh(one, ev, mr)
  OBVIOUS
<1> HIDE DEF todo, one
<1>3. TodoFits(one, ev, mr) /\ a[1] \notin {"match_count", "grade"}
  BY <1>1, <1>2 DEF TodoFresh
<1>4. TodoFits(todo, ev, mr)
  BY <1>1, <1>3 DEF TodoFits
<1>5. TodoFresh(todo, ev, mr)
  BY <1>1, <1>3, <1>4 DEF TodoFresh
<1> QED  BY <1>5 DEF todo

LEMMA TripleFresh ==
  ASSUME NEW a \in Writes, NEW b \in Writes, NEW c \in Writes, NEW ev, NEW mr,
         TodoFresh(<<a, b>>, ev, mr), c[1] = "notify"
  PROVE  TodoFresh(<<a, b, c>>, ev, mr)
<1> DEFINE two == <<a, b>>
           todo == <<a, b, c>>
<1>1. /\ todo \in Seq(Writes) /\ DOMAIN todo = {1, 2, 3} /\ todo[1] = a /\ todo[2] = b /\ todo[3] = c
      /\ DOMAIN two = {1, 2} /\ two[1] = a /\ two[2] = b /\ two # <<>>
  OBVIOUS
<1>2. TodoFresh(two, ev, mr)
  OBVIOUS
<1> HIDE DEF todo, two
<1>3. TodoFits(two, ev, mr) /\ a[1] \notin {"match_count", "grade"}
  BY <1>1, <1>2 DEF TodoFresh
<1>4. TodoFits(todo, ev, mr)
  BY <1>1, <1>3 DEF TodoFits
<1>5. TodoFresh(todo, ev, mr)
  BY <1>1, <1>3, <1>4 DEF TodoFresh
<1> QED  BY <1>5 DEF todo

LEMMA NothingFresh ==
  ASSUME NEW ev, NEW mr PROVE TodoFresh(<<>>, ev, mr)
<1>1. <<>> \in Seq(Plain)
  OBVIOUS
<1> QED  BY <1>1, PlainFresh, Zenon

Named(n) == <<n>>
LEMMA NamedWrites ==
  /\ \A n \in WriteNames : Named(n) \in Writes /\ Named(n)[1] = n
  /\ \A n \in {"event", "join", "finalize", "fees", "cancel", "fee", "notify"} : Named(n) \in Plain
<1>1. \A n : Named(n)[1] = n
  BY DEF Named
<1>2. \A n \in WriteNames : Named(n) \in Writes
  BY DEF Named, Writes
<1>3. \A n \in {"event", "join", "finalize", "fees", "cancel", "fee", "notify"} : Named(n) \in Plain
  BY DEF Named, Plain
<1> QED  BY <1>1, <1>2, <1>3

LEMMA FinalizedFresh ==
  ASSUME NEW mr, NEW ev \in Emittable \cup OffchainResults, WellFormed(ev)
  PROVE  TodoFresh(EventFinalized(ev, mr), ev, mr)
<1> DEFINE first == IF mr.event[ev.event].is_finalized THEN <<>> ELSE <<Named("finalize")>>
           fees == <<Named("fees")>>
           paid == [i \in 1..Len(ev.board) |-> <<"payout", ev.board[i]>>]
<1>1. first \in Seq(Plain) /\ fees \in Seq(Plain)
  BY NamedWrites, OnePlain
<1>2. paid \in Seq(Plain)
  <2> DEFINE n == Len(ev.board)
  <2>1. n \in Nat /\ \A i \in 1..n : ev.board[i] \in ToSet(ev.board)
    BY DEF WellFormed
  <2>2. \A i \in 1..n : ev.board[i] \in Addresses
    BY <2>1 DEF Addresses
  <2>3. \A i \in 1..n : <<"payout", ev.board[i]>> \in Plain
    BY <2>2 DEF Plain
  <2>4. paid \in [1..n -> Plain]
    BY <2>3
  <2> HIDE DEF paid, n
  <2> QED  BY <2>1, <2>4, SeqDef
<1>3. \/ EventFinalized(ev, mr) = <<>>
      \/ EventFinalized(ev, mr) = first \o fees \o paid
  BY DEF EventFinalized, Named
<1> HIDE DEF first, fees, paid
<1>4. first \o fees \o paid \in Seq(Plain)
  BY <1>1, <1>2, ConcatProperties
<1> QED  BY <1>3, <1>4, PlainFresh, NothingFresh

\* Every handler's list is well-formed.
LEMMA TodoIsFresh ==
  ASSUME NEW mr \in Mirror, NEW ev \in Emittable \cup OffchainResults, WellFormed(ev)
  PROVE  TodoFresh(Todo(ev, mr), ev, mr)
<1> DEFINE W(n) == Named(n)
           Ok(t) == TodoFresh(t, ev, mr)
<1>0. \A n \in WriteNames : W(n) \in Writes /\ W(n)[1] = n
  BY NamedWrites
<1>e. Ok(<<>>)
  BY NothingFresh
<1>p. \A n \in {"event", "join", "finalize", "fees", "cancel", "fee", "notify"} : W(n) \in Plain
  BY NamedWrites
<1>1. CASE ev.type = "EventCreated"
  <2>1. Ok(<<W("event"), W("notify")>>)
    BY <1>p, TwoPlain, PlainFresh
  <2>2. Todo(ev, mr) = EventCreated(ev, mr)
    BY <1>1 DEF Todo
  <2>3. EventCreated(ev, mr) \in {<<>>, <<W("event"), W("notify")>>}
    BY DEF EventCreated, Named
  <2> QED  BY <1>e, <2>1, <2>2, <2>3
<1>2. CASE ev.type = "MatchAdded"
  <2>1. Ok(<<W("match")>>)
    <3>1. W("match") \in Writes /\ W("match")[1] = "match"
      BY <1>0 DEF WriteNames
    <3> HIDE DEF W
    <3> QED  BY <3>1, SingleFresh
  <2>2. Ok(<<W("match"), W("match_count")>>)
    <3>1. /\ W("match") \in Writes /\ W("match")[1] = "match"
          /\ W("match_count") \in Writes /\ W("match_count")[1] = "match_count"
      BY <1>0 DEF WriteNames
    <3> HIDE DEF W
    <3> QED  BY <2>1, <3>1, PairFresh
  <2>3. Ok(<<W("match"), W("match_count"), W("notify")>>)
    <3>1. /\ W("match") \in Writes /\ W("match_count") \in Writes
          /\ W("notify") \in Writes /\ W("notify")[1] = "notify"
      BY <1>0 DEF WriteNames
    <3> HIDE DEF W
    <3> QED  BY <2>2, <3>1, TripleFresh
  <2>4. Todo(ev, mr) = MatchAdded(ev, mr)
    BY <1>2 DEF Todo
  <2>5. MatchAdded(ev, mr) \in {<<>>, <<W("match"), W("match_count"), W("notify")>>}
    BY DEF MatchAdded, Named
  <2> QED  BY <1>e, <2>3, <2>4, <2>5
<1>3. CASE ev.type = "UserJoinedEvent"
  <2>1. Ok(<<W("join"), W("notify")>>)
    BY <1>p, TwoPlain, PlainFresh
  <2>2. Todo(ev, mr) = UserJoinedEvent(ev, mr)
    BY <1>3 DEF Todo
  <2>3. UserJoinedEvent(ev, mr) \in {<<>>, <<W("join"), W("notify")>>}
    BY DEF UserJoinedEvent, Named
  <2> QED  BY <1>e, <2>1, <2>2, <2>3
<1>4. CASE ev.type = "PredictionSubmitted"
  <2>1. ASSUME ev.user \in Users PROVE Ok(<<W("prediction"), W("notify")>>)
    <3>1. /\ W("prediction") \in Writes /\ W("prediction")[1] = "prediction"
          /\ W("notify") \in Writes /\ W("notify")[1] = "notify"
      BY <1>0 DEF WriteNames
    <3> HIDE DEF W
    <3>2. Ok(<<W("prediction")>>)
      BY <2>1, <3>1, SingleFresh
    <3> QED  BY <3>1, <3>2, PairFresh
  <2>2. Todo(ev, mr) = PredictionSubmitted(ev, mr)
    BY <1>4 DEF Todo
  <2>3. \/ PredictionSubmitted(ev, mr) = <<>>
        \/ ev.user \in Users /\ PredictionSubmitted(ev, mr) = <<W("prediction"), W("notify")>>
    BY DEF PredictionSubmitted, Named
  <2> QED  BY <1>e, <2>1, <2>2, <2>3
<1>5. CASE ev.type = "MatchResultSubmitted"
  <2>1. ASSUME mr.match[ev.match].exists PROVE Ok(<<W("result"), W("grade"), W("notify")>>)
    <3>1. /\ W("result") \in Writes /\ W("result")[1] = "result"
          /\ W("grade") \in Writes /\ W("grade")[1] = "grade"
          /\ W("notify") \in Writes /\ W("notify")[1] = "notify"
      BY <1>0 DEF WriteNames
    <3> HIDE DEF W
    <3>2. Ok(<<W("result")>>)
      BY <1>5, <2>1, <3>1, SingleFresh
    <3>3. Ok(<<W("result"), W("grade")>>)
      BY <1>5, <3>1, <3>2, PairFresh
    <3> QED  BY <3>1, <3>3, TripleFresh
  <2>2. Todo(ev, mr) = MatchResultSubmitted(ev, mr)
    BY <1>5 DEF Todo
  <2>3. \/ MatchResultSubmitted(ev, mr) = <<>>
        \/ mr.match[ev.match].exists /\ MatchResultSubmitted(ev, mr) = <<W("result"), W("grade"), W("notify")>>
    BY DEF MatchResultSubmitted, Named
  <2> QED  BY <1>e, <2>1, <2>2, <2>3
<1>6. CASE ev.type = "EventFinalized"
  <2>1. Todo(ev, mr) = EventFinalized(ev, mr)
    BY <1>6 DEF Todo
  <2> QED  BY <2>1, FinalizedFresh
<1>7. CASE ev.type = "EventCancelled"
  <2>1. Ok(<<W("cancel"), W("notify")>>)
    BY <1>p, TwoPlain, PlainFresh
  <2>2. Todo(ev, mr) = EventCancelled(ev, mr)
    BY <1>7 DEF Todo
  <2>3. EventCancelled(ev, mr) \in {<<>>, <<W("cancel"), W("notify")>>}
    BY DEF EventCancelled, Named
  <2> QED  BY <1>e, <2>1, <2>2, <2>3
<1>8. CASE ev.type = "FeeUpdated"
  <2>1. Ok(<<W("fee")>>)
    BY <1>p, OnePlain, PlainFresh
  <2>2. Todo(ev, mr) = <<W("fee")>>
    BY <1>8 DEF Todo, FeeUpdated, Named
  <2> QED  BY <2>1, <2>2
<1>9. CASE ev.type = "AddressVerified"
  <2>1. ASSUME ev.user \in Users PROVE Ok(<<W("verify")>>)
    <3>1. W("verify") \in Writes /\ W("verify")[1] = "verify"
      BY <1>0 DEF WriteNames
    <3> HIDE DEF W
    <3> QED  BY <2>1, <3>1, SingleFresh
  <2>2. Todo(ev, mr) = AddressVerified(ev, mr)
    BY <1>9 DEF Todo
  <2>3. \/ AddressVerified(ev, mr) = <<>>
        \/ ev.user \in Users /\ AddressVerified(ev, mr) = <<W("verify")>>
    BY DEF AddressVerified, Named
  <2> QED  BY <1>e, <2>1, <2>2, <2>3
<1>10. CASE ev.type = "AddressUnverified"
  <2>1. ASSUME ev.user \in Users, mr.reputation[ev.user] > 0 PROVE Ok(<<W("unverify")>>)
    <3>1. W("unverify") \in Writes /\ W("unverify")[1] = "unverify"
      BY <1>0 DEF WriteNames
    <3> HIDE DEF W
    <3> QED  BY <2>1, <3>1, SingleFresh
  <2>2. Todo(ev, mr) = AddressUnverified(ev, mr)
    BY <1>10 DEF Todo
  <2>3. \/ AddressUnverified(ev, mr) = <<>>
        \/ /\ ev.user \in Users /\ mr.reputation[ev.user] > 0
           /\ AddressUnverified(ev, mr) = <<W("unverify")>>
    BY DEF AddressUnverified, Named
  <2> QED  BY <1>e, <2>1, <2>2, <2>3
<1>11. CASE ev.type = "submitResult"
  <2>1. ASSUME mr.match[ev.match].exists PROVE Ok(<<W("result"), W("score")>>)
    <3>1. /\ W("result") \in Writes /\ W("result")[1] = "result"
          /\ W("score") \in Writes /\ W("score")[1] = "score"
      BY <1>0 DEF WriteNames
    <3> HIDE DEF W
    <3>2. Ok(<<W("result")>>)
      BY <1>11, <2>1, <3>1, SingleFresh
    <3> QED  BY <1>11, <3>1, <3>2, PairFresh
  <2>2. Todo(ev, mr) = SubmitResult(ev, mr)
    BY <1>11 DEF Todo
  <2>3. \/ SubmitResult(ev, mr) = <<>>
        \/ mr.match[ev.match].exists /\ SubmitResult(ev, mr) = <<W("result"), W("score")>>
    BY DEF SubmitResult, Named
  <2> QED  BY <1>e, <2>1, <2>2, <2>3
<1>12. CASE ev.type \notin {"EventCreated", "MatchAdded", "UserJoinedEvent", "PredictionSubmitted",
              "MatchResultSubmitted", "EventFinalized", "EventCancelled", "FeeUpdated",
              "AddressVerified", "AddressUnverified", "submitResult"}
  <2>1. Todo(ev, mr) = <<>>
    BY <1>12 DEF Todo
  <2> QED  BY <1>e, <2>1
<1> QED  BY <1>1, <1>2, <1>3, <1>4, <1>5, <1>6, <1>7, <1>8, <1>9, <1>10, <1>11, <1>12

\* What is left after the first write still fits.
LEMMA TailFits ==
  ASSUME NEW todo \in Seq(Writes), todo # <<>>, NEW ev, NEW rd, TodoFits(todo, ev, rd)
  PROVE  /\ Tail(todo) \in Seq(Writes) /\ TodoFits(Tail(todo), ev, rd)
         /\ Tail(todo) # <<>> /\ Tail(todo)[1][1] = "match_count" => todo[1][1] = "match"
         /\ Tail(todo) # <<>> /\ Tail(todo)[1][1] = "grade" => todo[1][1] = "result"
<1> DEFINE t == Tail(todo)
<1>1. /\ t \in Seq(Writes) /\ \A p \in DOMAIN t : p \in Nat \ {0} /\ p + 1 \in DOMAIN todo /\ t[p] = todo[p + 1]
      /\ t # <<>> => 1 \in DOMAIN t
  OBVIOUS
<1> HIDE DEF t
<1>2. ASSUME NEW p \in DOMAIN t
      PROVE  /\ t[p][1] \notin {"match", "result"}
             /\ t[p][1] = "match_count" => p = 1 /\ todo[1][1] = "match"
             /\ t[p][1] = "grade" => p = 1 /\ todo[1][1] = "result" /\ ev.type = "MatchResultSubmitted"
  <2>1. p + 1 \in DOMAIN todo /\ t[p] = todo[p + 1] /\ p + 1 # 1 /\ (p + 1 = 2 => p = 1)
    BY <1>1
  <2> QED  BY <2>1 DEF TodoFits
<1>3. ASSUME NEW p \in DOMAIN t
      PROVE  /\ t[p][1] = "score" => ev.type = "submitResult"
             /\ t[p][1] \in {"prediction", "verify", "unverify"} => ev.user \in Users
             /\ t[p][1] = "unverify" => rd.reputation[ev.user] > 0
  <2>1. p + 1 \in DOMAIN todo /\ t[p] = todo[p + 1]
    BY <1>1
  <2> QED  BY <2>1 DEF TodoFits
<1>4. TodoFits(t, ev, rd)
  BY <1>2, <1>3 DEF TodoFits
<1>5. /\ t # <<>> /\ t[1][1] = "match_count" => todo[1][1] = "match"
      /\ t # <<>> /\ t[1][1] = "grade" => todo[1][1] = "result"
  BY <1>1, <1>2
<1> QED  BY <1>1, <1>4, <1>5 DEF t

-----------------------------------------------------------------------------
(* What one write does to the mirror. *)

LEMMA SetEvent ==
  ASSUME NEW mi \in Mirror, NEW e \in EventIds, NEW r \in EventRow
  PROVE  LET x == [mi EXCEPT !.event[e] = r]
         IN  /\ x \in Mirror /\ x.match = mi.match /\ x.prediction = mi.prediction
             /\ \A f \in EventIds : x.event[f] = IF f = e THEN r ELSE mi.event[f]
BY DEF Mirror

LEMMA SetMatch ==
  ASSUME NEW mi \in Mirror, NEW m \in MatchIds, NEW r \in MatchRow
  PROVE  LET x == [mi EXCEPT !.match[m] = r]
         IN  /\ x \in Mirror /\ x.event = mi.event /\ x.prediction = mi.prediction
             /\ \A n \in MatchIds : x.match[n] = IF n = m THEN r ELSE mi.match[n]
BY DEF Mirror

LEMMA SetPrediction ==
  ASSUME NEW mi \in Mirror, NEW k \in MatchIds \X Users, NEW r \in PredictionRow
  PROVE  LET x == [mi EXCEPT !.prediction[k] = r]
         IN  /\ x \in Mirror /\ x.event = mi.event /\ x.match = mi.match
             /\ \A n \in MatchIds \X Users : x.prediction[n] = IF n = k THEN r ELSE mi.prediction[n]
BY DEF Mirror

LEMMA SetPredictions ==
  ASSUME NEW mi \in Mirror, NEW f \in [MatchIds \X Users -> PredictionRow]
  PROVE  LET x == [mi EXCEPT !.prediction = f]
         IN  x \in Mirror /\ x.event = mi.event /\ x.match = mi.match /\ x.prediction = f
BY DEF Mirror

LEMMA SetReputation ==
  ASSUME NEW mi \in Mirror, NEW u \in Users, NEW r \in Nat
  PROVE  LET x == [mi EXCEPT !.reputation[u] = r]
         IN  x \in Mirror /\ x.event = mi.event /\ x.match = mi.match /\ x.prediction = mi.prediction
BY DEF Mirror

LEMMA SetFees ==
  ASSUME NEW mi \in Mirror
  PROVE  LET x == [mi EXCEPT !.fee_history = @ + 1]
         IN  x \in Mirror /\ x.event = mi.event /\ x.match = mi.match /\ x.prediction = mi.prediction
BY DEF Mirror

LEMMA SetPaid ==
  ASSUME NEW mi \in Mirror, NEW e \in EventIds, NEW u \in Addresses
  PROVE  LET x == Paid(e, u, mi)
         IN  x \in Mirror /\ x.event = mi.event /\ x.match = mi.match /\ x.prediction = mi.prediction
<1> DEFINE a == mi.entries \cup {<<e, u>>}
           b == mi.payouts \cup {<<e, u>>}
<1>1. a \subseteq EventIds \X Addresses /\ b \subseteq EventIds \X Addresses
  BY MirrorFields
<1>2. Paid(e, u, mi) = [mi EXCEPT !.entries = a, !.payouts = b]
  BY DEF Paid
<1> HIDE DEF a, b
<1>3. LET x == [mi EXCEPT !.entries = a, !.payouts = b]
      IN  x \in Mirror /\ x.event = mi.event /\ x.match = mi.match /\ x.prediction = mi.prediction
  BY <1>1 DEF Mirror
<1> QED  BY <1>2, <1>3

\* A row of the events table only gets back an old copy, or counts one match more.
CountOf(name, ev, rd, mi, x) ==
  \A e \in EventIds :
    \/ x.event[e].match_count \in {0, mi.event[e].match_count, rd.event[e].match_count}
    \/ /\ name = "match_count" /\ e = ev.event
       /\ x.event[e].match_count = rd.event[e].match_count + 1

MatchOf(name, ev, rd, mi, x) ==
  IF name \in {"match", "result"}
  THEN /\ \A m \in MatchIds : m # ev.match => x.match[m] = mi.match[m]
       /\ x.match[ev.match].exists
       /\ x.match[ev.match].winning_team = IF name = "match" THEN "null" ELSE ev.outcome
  ELSE x.match = mi.match

GradedBy(ev, p, q) ==
  q.outcome = p.outcome /\ q.is_correct = IF p.outcome = ev.outcome THEN "true" ELSE "false"

PredictionOf(name, ev, mi, x) ==
  \A k \in MatchIds \X Users :
    \/ x.prediction[k] = mi.prediction[k]
    \/ name = "prediction" /\ x.prediction[k].is_correct = "null"
    \/ /\ name \in {"grade", "score"} /\ k[1] = ev.match
       /\ GradedBy(ev, mi.prediction[k], x.prediction[k])

Effect(name, ev, rd, mi, x) ==
  /\ x \in Mirror /\ CountOf(name, ev, rd, mi, x)
  /\ MatchOf(name, ev, rd, mi, x) /\ PredictionOf(name, ev, mi, x)

\* Nothing but the events table, and nothing the other layers look at.
LEMMA EffectOnEvent ==
  ASSUME NEW name, NEW ev, NEW rd, NEW mi, NEW x \in Mirror,
         name \notin {"match", "result"}, x.match = mi.match, x.prediction = mi.prediction,
         \A e \in EventIds :
           \/ x.event[e].match_count \in {0, mi.event[e].match_count, rd.event[e].match_count}
           \/ /\ name = "match_count" /\ e = ev.event
              /\ x.event[e].match_count = rd.event[e].match_count + 1
  PROVE  Effect(name, ev, rd, mi, x)
BY DEF Effect, CountOf, MatchOf, PredictionOf

LEMMA EffectElsewhere ==
  ASSUME NEW name, NEW ev, NEW rd, NEW mi, NEW x \in Mirror,
         name \notin {"match", "result"},
         x.event = mi.event, x.match = mi.match, x.prediction = mi.prediction
  PROVE  Effect(name, ev, rd, mi, x)
BY EffectOnEvent

LEMMA EventRows ==
  ASSUME NEW r \in EventRow
  PROVE  /\ [r EXCEPT !.match_count = @ + 1] \in EventRow
         /\ [r EXCEPT !.match_count = @ + 1].match_count = r.match_count + 1
         /\ [r EXCEPT !.is_finalized = TRUE] \in EventRow
         /\ [r EXCEPT !.is_finalized = TRUE].match_count = r.match_count
         /\ [r EXCEPT !.is_cancelled = TRUE] \in EventRow
         /\ [r EXCEPT !.is_cancelled = TRUE].match_count = r.match_count
<1>1. \A n \in Nat : /\ [r EXCEPT !.match_count = n] \in EventRow
                     /\ [r EXCEPT !.match_count = n].match_count = n
  BY DEF EventRow
<1>2. r.match_count + 1 \in Nat
  BY DEF EventRow
<1>3. /\ [r EXCEPT !.match_count = @ + 1] \in EventRow
      /\ [r EXCEPT !.match_count = @ + 1].match_count = r.match_count + 1
  BY <1>1, <1>2
<1>4. /\ [r EXCEPT !.is_finalized = TRUE] \in EventRow
      /\ [r EXCEPT !.is_finalized = TRUE].match_count = r.match_count
  BY DEF EventRow
<1>5. /\ [r EXCEPT !.is_cancelled = TRUE] \in EventRow
      /\ [r EXCEPT !.is_cancelled = TRUE].match_count = r.match_count
  BY DEF EventRow
<1> QED  BY <1>3, <1>4, <1>5

LEMMA NewEventRow ==
  [NoEvent EXCEPT !.exists = TRUE] \in EventRow /\ [NoEvent EXCEPT !.exists = TRUE].match_count = 0
<1>1. \A r \in EventRow : /\ [r EXCEPT !.exists = TRUE] \in EventRow
                          /\ [r EXCEPT !.exists = TRUE].match_count = r.match_count
  BY DEF EventRow
<1> QED  BY <1>1, RowTypes

LEMMA NewMatchRow ==
  ASSUME NEW n \in Nat
  PROVE  LET r == [NoMatch EXCEPT !.exists = TRUE, !.points_multiplier = n]
         IN  r \in MatchRow /\ r.exists /\ r.winning_team = "null"
<1>1. \A q \in MatchRow : LET r == [q EXCEPT !.exists = TRUE, !.points_multiplier = n]
                          IN  r \in MatchRow /\ r.exists /\ r.winning_team = q.winning_team
  BY DEF MatchRow
<1> QED  BY <1>1, RowTypes

LEMMA WellFormedFields ==
  ASSUME NEW ev, WellFormed(ev)
  PROVE  /\ ev.event \in EventIds /\ ev.match \in MatchIds /\ ev.outcome \in Teams
         /\ ev.outcome # "null" /\ ev.score \in Scores /\ ev.multiplier \in Nat
BY DEF WellFormed, Teams, Scores

LEMMA ResolvedRow ==
  ASSUME NEW rd \in Mirror, NEW ev, WellFormed(ev)
  PROVE  /\ Resolved(ev, rd) \in MatchRow /\ Resolved(ev, rd).winning_team = ev.outcome
         /\ Resolved(ev, rd).exists = rd.match[ev.match].exists
<1>1. rd.match[ev.match] \in MatchRow
  BY WellFormedFields, MirrorFields
<1>2. ev.outcome \in Teams /\ ev.score \in Scores
  BY WellFormedFields
<1> QED  BY <1>1, <1>2 DEF Resolved, MatchRow

LEMMA EffectOfEvent ==
  ASSUME NEW rd \in Mirror, NEW mi \in Mirror, NEW ev, WellFormed(ev)
  PROVE  Effect("event", ev, rd, mi, [mi EXCEPT !.event[ev.event] = [NoEvent EXCEPT !.exists = TRUE]])
<1> DEFINE r == [NoEvent EXCEPT !.exists = TRUE]
           x == [mi EXCEPT !.event[ev.event] = r]
<1>1. r \in EventRow /\ r.match_count = 0
  BY NewEventRow
<1> HIDE DEF r
<1>2. /\ x \in Mirror /\ x.match = mi.match /\ x.prediction = mi.prediction
      /\ \A f \in EventIds : x.event[f] = IF f = ev.event THEN r ELSE mi.event[f]
  BY <1>1, WellFormedFields, SetEvent
<1> HIDE DEF x
<1>3. Effect("event", ev, rd, mi, x)
  BY <1>1, <1>2, EffectOnEvent
<1> QED  BY <1>3 DEF x, r

\* The row as the handler read it, with one field set.
LEMMA EffectOfCopy ==
  ASSUME NEW rd \in Mirror, NEW mi \in Mirror, NEW ev, WellFormed(ev),
         NEW name \in {"match_count", "finalize", "cancel"}, NEW r \in EventRow,
         r.match_count = IF name = "match_count" THEN rd.event[ev.event].match_count + 1
                         ELSE rd.event[ev.event].match_count
  PROVE  Effect(name, ev, rd, mi, [mi EXCEPT !.event[ev.event] = r])
<1> DEFINE x == [mi EXCEPT !.event[ev.event] = r]
<1>1. /\ x \in Mirror /\ x.match = mi.match /\ x.prediction = mi.prediction
      /\ \A f \in EventIds : x.event[f] = IF f = ev.event THEN r ELSE mi.event[f]
  BY WellFormedFields, SetEvent
<1> HIDE DEF x
<1>2. Effect(name, ev, rd, mi, x)
  BY <1>1, EffectOnEvent
<1> QED  BY <1>2 DEF x

LEMMA EffectOfJoin ==
  ASSUME NEW rd \in Mirror, NEW mi \in Mirror, NEW ev, WellFormed(ev)
  PROVE  Effect("join", ev, rd, mi, [mi EXCEPT !.event[ev.event].participant_count = @ + 1,
                                               !.event[ev.event].prize_pool = @ + ENTRY_FEE,
                                               !.event[ev.event].total_entry_fees = @ + ENTRY_FEE])
<1> DEFINE e == ev.event
           q == mi.event[e]
           r == [q EXCEPT !.participant_count = @ + 1, !.prize_pool = @ + ENTRY_FEE,
                          !.total_entry_fees = @ + ENTRY_FEE]
           x == [mi EXCEPT !.event[e].participant_count = @ + 1,
                           !.event[e].prize_pool = @ + ENTRY_FEE,
                           !.event[e].total_entry_fees = @ + ENTRY_FEE]
           y == [mi EXCEPT !.event[e] = r]
<1>0. e \in EventIds /\ q \in EventRow /\ ENTRY_FEE \in Nat
  BY WellFormedFields, MirrorFields, MirrorAssumption
<1>1. r \in EventRow /\ r.match_count = q.match_count
  <2>1. \A a, b, c \in Nat :
          LET z == [q EXCEPT !.participant_count = a, !.prize_pool = b, !.total_entry_fees = c]
          IN  z \in EventRow /\ z.match_count = q.match_count
    <3> HIDE DEF q
    <3> QED  BY <1>0 DEF EventRow
  <2>2. /\ q.participant_count + 1 \in Nat /\ q.prize_pool + ENTRY_FEE \in Nat
        /\ q.total_entry_fees + ENTRY_FEE \in Nat
    <3> HIDE DEF q
    <3> QED  BY <1>0 DEF EventRow
  <2> HIDE DEF q
  <2> QED  BY <2>1, <2>2
<1>2. x = y
  <2> HIDE DEF e
  <2> QED  BY <1>0 DEF Mirror, EventRow
<1> HIDE DEF e, r, x
<1>3. /\ y \in Mirror /\ y.match = mi.match /\ y.prediction = mi.prediction
      /\ \A f \in EventIds : y.event[f] = IF f = e THEN r ELSE mi.event[f]
  BY <1>0, <1>1, SetEvent
<1> HIDE DEF y
<1>4. Effect("join", ev, rd, mi, y)
  BY <1>1, <1>3, EffectOnEvent
<1> QED  BY <1>2, <1>4 DEF x, e

LEMMA EffectOfFees ==
  ASSUME NEW rd \in Mirror, NEW mi \in Mirror, NEW ev, WellFormed(ev)
  PROVE  Effect("fees", ev, rd, mi, FeesRecomputed(ev.event, mi))
<1> DEFINE e == ev.event
           q == mi.event[e]
           n == ENTRY_FEE * q.participant_count
           r == [q EXCEPT !.total_entry_fees = n]
           x == [mi EXCEPT !.event[e].total_entry_fees = n]
           y == [mi EXCEPT !.event[e] = r]
<1>0. e \in EventIds /\ q \in EventRow
  BY WellFormedFields, MirrorFields
<1>1. n \in Nat
  <2>1. q.participant_count \in Nat /\ ENTRY_FEE \in Nat
    BY <1>0, MirrorAssumption DEF EventRow
  <2>2. \A a, b \in Nat : a * b \in Nat
    OBVIOUS
  <2> QED  BY <2>1, <2>2
<1>2. FeesRecomputed(e, mi) = x
  BY DEF FeesRecomputed
<1> HIDE DEF n
<1>3. r \in EventRow /\ r.match_count = q.match_count
  <2> HIDE DEF q
  <2> QED  BY <1>0, <1>1 DEF EventRow
<1>4. x = y
  <2> HIDE DEF e
  <2> QED  BY <1>0 DEF Mirror, EventRow
<1> HIDE DEF e, r, x
<1>5. /\ y \in Mirror /\ y.match = mi.match /\ y.prediction = mi.prediction
      /\ \A f \in EventIds : y.event[f] = IF f = e THEN r ELSE mi.event[f]
  BY <1>0, <1>3, SetEvent
<1> HIDE DEF y
<1>6. Effect("fees", ev, rd, mi, y)
  BY <1>3, <1>5, EffectOnEvent
<1> QED  BY <1>2, <1>4, <1>6 DEF e

LEMMA EffectOfMatch ==
  ASSUME NEW rd \in Mirror, NEW mi \in Mirror, NEW ev, WellFormed(ev), NEW name \in {"match", "result"},
         NEW r \in MatchRow, r.exists, r.winning_team = IF name = "match" THEN "null" ELSE ev.outcome
  PROVE  Effect(name, ev, rd, mi, [mi EXCEPT !.match[ev.match] = r])
<1> DEFINE x == [mi EXCEPT !.match[ev.match] = r]
<1>0. ev.match \in MatchIds
  BY WellFormedFields
<1>1. /\ x \in Mirror /\ x.event = mi.event /\ x.prediction = mi.prediction
      /\ \A n \in MatchIds : x.match[n] = IF n = ev.match THEN r ELSE mi.match[n]
  BY <1>0, SetMatch
<1> HIDE DEF x
<1>2. CountOf(name, ev, rd, mi, x) /\ PredictionOf(name, ev, mi, x)
  BY <1>1 DEF CountOf, PredictionOf
<1>3. MatchOf(name, ev, rd, mi, x)
  BY <1>0, <1>1 DEF MatchOf
<1>4. Effect(name, ev, rd, mi, x)
  BY <1>1, <1>2, <1>3 DEF Effect
<1> QED  BY <1>4 DEF x

LEMMA EffectOfPrediction ==
  ASSUME NEW rd \in Mirror, NEW mi \in Mirror, NEW ev, WellFormed(ev), ev.user \in Users
  PROVE  Effect("prediction", ev, rd, mi,
                [mi EXCEPT !.prediction[<<ev.match, ev.user>>] =
                   [NoPrediction EXCEPT !.exists = TRUE, !.score = ev.score,
                      !.outcome = IF ev.score = NoScore THEN ev.outcome ELSE Winner(ev.score)]])
<1> DEFINE k == <<ev.match, ev.user>>
           o == IF ev.score = NoScore THEN ev.outcome ELSE Winner(ev.score)
           r == [NoPrediction EXCEPT !.exists = TRUE, !.score = ev.score, !.outcome = o]
           x == [mi EXCEPT !.prediction[k] = r]
<1>0. k \in MatchIds \X Users /\ ev.score \in Scores /\ ev.outcome \in Teams
  BY WellFormedFields
<1>1. o \in Teams
  BY <1>0 DEF Winner, Teams
<1>2. \A s \in Scores, t \in Teams, p \in PredictionRow :
        LET q == [p EXCEPT !.exists = TRUE, !.score = s, !.outcome = t]
        IN  q \in PredictionRow /\ q.is_correct = p.is_correct
  BY DEF PredictionRow
<1>3. r \in PredictionRow /\ r.is_correct = "null"
  <2> HIDE DEF o
  <2> QED  BY <1>0, <1>1, <1>2, RowTypes
<1> HIDE DEF k, o, r
<1>4. /\ x \in Mirror /\ x.event = mi.event /\ x.match = mi.match
      /\ \A n \in MatchIds \X Users : x.prediction[n] = IF n = k THEN r ELSE mi.prediction[n]
  BY <1>0, <1>3, SetPrediction
<1> HIDE DEF x
<1>5. Effect("prediction", ev, rd, mi, x)
  BY <1>3, <1>4 DEF Effect, CountOf, MatchOf, PredictionOf
<1> QED  BY <1>5 DEF x, r, o, k

LEMMA Multiplied ==
  ASSUME NEW p \in {0, 1, 3, 4}, NEW n \in Nat PROVE p * n \in Nat
OBVIOUS

LEMMA GradedRow ==
  ASSUME NEW p \in PredictionRow, NEW mt \in MatchRow, NEW ev, mt.winning_team = ev.outcome
  PROVE  Graded(p, mt) \in PredictionRow /\ GradedBy(ev, p, Graded(p, mt))
<1> DEFINE correct == p.outcome = mt.winning_team
           scored  == mt.score # NoScore /\ p.score # NoScore
           points  == IF ~correct THEN 0
                      ELSE IF scored /\ p.score = mt.score THEN 4
                      ELSE IF scored /\ p.score[1] - p.score[2] = mt.score[1] - mt.score[2] THEN 3
                      ELSE 1
           n == points * mt.points_multiplier
           c == IF correct THEN "true" ELSE "false"
<1>1. points \in {0, 1, 3, 4}
  OBVIOUS
<1>2. n \in Nat
  <2>1. mt.points_multiplier \in Nat
    BY DEF MatchRow
  <2> HIDE DEF points
  <2> QED  BY <1>1, <2>1, Multiplied
<1>3. Graded(p, mt) = [p EXCEPT !.is_correct = c, !.points_earned = n]
  BY DEF Graded
<1>4. c \in {"true", "false"} /\ c = IF p.outcome = ev.outcome THEN "true" ELSE "false"
  OBVIOUS
<1> HIDE DEF n, c
<1>5. LET q == [p EXCEPT !.is_correct = c, !.points_earned = n]
      IN  q \in PredictionRow /\ q.outcome = p.outcome /\ q.is_correct = c
  BY <1>2, <1>4 DEF PredictionRow
<1> QED  BY <1>3, <1>4, <1>5 DEF GradedBy

LEMMA ScoredRow ==
  ASSUME NEW p \in PredictionRow, NEW mt \in MatchRow, NEW ev, mt.winning_team = ev.outcome
  PROVE  Scored(p, mt) \in PredictionRow /\ GradedBy(ev, p, Scored(p, mt))
<1> DEFINE correct == p.outcome = mt.winning_team
           n == IF correct THEN mt.points_multiplier ELSE 0
           c == IF correct THEN "true" ELSE "false"
<1>1. n \in Nat
  BY DEF MatchRow
<1>2. Scored(p, mt) = [p EXCEPT !.is_correct = c, !.points_earned = n]
  BY DEF Scored
<1>3. c \in {"true", "false"} /\ c = IF p.outcome = ev.outcome THEN "true" ELSE "false"
  OBVIOUS
<1> HIDE DEF n, c
<1>4. LET q == [p EXCEPT !.is_correct = c, !.points_earned = n]
      IN  q \in PredictionRow /\ q.outcome = p.outcome /\ q.is_correct = c
  BY <1>1, <1>3 DEF PredictionRow
<1> QED  BY <1>2, <1>3, <1>4 DEF GradedBy

LEMMA EffectOfGrading ==
  ASSUME NEW rd \in Mirror, NEW mi \in Mirror, NEW ev, NEW name \in {"grade", "score"},
         NEW f \in [MatchIds \X Users -> PredictionRow],
         \A k \in MatchIds \X Users :
           f[k] = mi.prediction[k] \/ (k[1] = ev.match /\ GradedBy(ev, mi.prediction[k], f[k]))
  PROVE  Effect(name, ev, rd, mi, [mi EXCEPT !.prediction = f])
<1> DEFINE x == [mi EXCEPT !.prediction = f]
<1>1. x \in Mirror /\ x.event = mi.event /\ x.match = mi.match /\ x.prediction = f
  BY SetPredictions
<1> HIDE DEF x
<1>2. PredictionOf(name, ev, mi, x)
  BY <1>1 DEF PredictionOf
<1>3. CountOf(name, ev, rd, mi, x) /\ MatchOf(name, ev, rd, mi, x)
  BY <1>1 DEF CountOf, MatchOf
<1>4. Effect(name, ev, rd, mi, x)
  BY <1>1, <1>2, <1>3 DEF Effect
<1> QED  BY <1>4 DEF x

LEMMA EffectOfGrade ==
  ASSUME NEW rd \in Mirror, NEW mi \in Mirror, NEW ev, WellFormed(ev)
  PROVE  Effect("grade", ev, rd, mi, [mi EXCEPT !.prediction = [k \in DOMAIN mi.prediction |->
           IF k[1] = ev.match /\ mi.prediction[k].exists
           THEN Graded(mi.prediction[k], Resolved(ev, rd)) ELSE mi.prediction[k]]])
<1> DEFINE mt == Resolved(ev, rd)
           h(k) == IF k[1] = ev.match /\ mi.prediction[k].exists
                   THEN Graded(mi.prediction[k], mt) ELSE mi.prediction[k]
           f == [k \in DOMAIN mi.prediction |-> h(k)]
<1>1. mt \in MatchRow /\ mt.winning_team = ev.outcome
  BY ResolvedRow
<1> HIDE DEF mt
<1>2. DOMAIN mi.prediction = MatchIds \X Users /\ \A k \in MatchIds \X Users : mi.prediction[k] \in PredictionRow
  BY MirrorFields
<1>3. \A k \in MatchIds \X Users :
        /\ h(k) \in PredictionRow
        /\ h(k) = mi.prediction[k] \/ (k[1] = ev.match /\ GradedBy(ev, mi.prediction[k], h(k)))
  BY <1>1, <1>2, GradedRow
<1> HIDE DEF h
<1>4. f \in [MatchIds \X Users -> PredictionRow] /\ \A k \in MatchIds \X Users : f[k] = h(k)
  BY <1>2, <1>3
<1> HIDE DEF f
<1>5. Effect("grade", ev, rd, mi, [mi EXCEPT !.prediction = f])
  BY <1>3, <1>4, EffectOfGrading
<1> QED  BY <1>5 DEF f, h, mt

LEMMA EffectOfScore ==
  ASSUME NEW rd \in Mirror, NEW mi \in Mirror, NEW ev, WellFormed(ev)
  PROVE  Effect("score", ev, rd, mi, [mi EXCEPT !.prediction = [k \in DOMAIN mi.prediction |->
           IF k[1] = ev.match /\ mi.prediction[k].exists
           THEN Scored(mi.prediction[k], Resolved(ev, rd)) ELSE mi.prediction[k]]])
<1> DEFINE mt == Resolved(ev, rd)
           h(k) == IF k[1] = ev.match /\ mi.prediction[k].exists
                   THEN Scored(mi.prediction[k], mt) ELSE mi.prediction[k]
           f == [k \in DOMAIN mi.prediction |-> h(k)]
<1>1. mt \in MatchRow /\ mt.winning_team = ev.outcome
  BY ResolvedRow
<1> HIDE DEF mt
<1>2. DOMAIN mi.prediction = MatchIds \X Users /\ \A k \in MatchIds \X Users : mi.prediction[k] \in PredictionRow
  BY MirrorFields
<1>3. \A k \in MatchIds \X Users :
        /\ h(k) \in PredictionRow
        /\ h(k) = mi.prediction[k] \/ (k[1] = ev.match /\ GradedBy(ev, mi.prediction[k], h(k)))
  BY <1>1, <1>2, ScoredRow
<1> HIDE DEF h
<1>4. f \in [MatchIds \X Users -> PredictionRow] /\ \A k \in MatchIds \X Users : f[k] = h(k)
  BY <1>2, <1>3
<1> HIDE DEF f
<1>5. Effect("score", ev, rd, mi, [mi EXCEPT !.prediction = f])
  BY <1>3, <1>4, EffectOfGrading
<1> QED  BY <1>5 DEF f, h, mt

\* What a write the handler decided on does, whatever happened since it read.
LEMMA AppliedFits ==
  ASSUME NEW rd \in Mirror, NEW mi \in Mirror, NEW ev, WellFormed(ev), NEW todo \in Seq(Writes),
         todo # <<>>, TodoFits(todo, ev, rd)
  PROVE  Effect(Head(todo)[1], ev, rd, mi, Applied(Head(todo), ev, rd, mi))
<1> DEFINE w == Head(todo)
           Goal == Effect(w[1], ev, rd, mi, Applied(w, ev, rd, mi))
<1>1. w \in Writes /\ 1 \in DOMAIN todo /\ w = todo[1]
  OBVIOUS
<1>2. /\ w[1] = "result" => rd.match[ev.match].exists
      /\ w[1] \in {"prediction", "verify", "unverify"} => ev.user \in Users
      /\ w[1] = "unverify" => rd.reputation[ev.user] > 0
  BY <1>1 DEF TodoFits
<1>3. w[1] \in WriteNames \/ \E a \in Addresses : w = <<"payout", a>>
  BY <1>1 DEF Writes
<1> SUFFICES Goal
  OBVIOUS
<1> HIDE DEF w
<1>0. ev.event \in EventIds /\ ev.match \in MatchIds /\ ev.multiplier \in Nat
  BY WellFormedFields
<1>e. rd.event[ev.event] \in EventRow
  BY <1>0, MirrorFields
<1>4. CASE w[1] = "event"
  <2>1. Applied(w, ev, rd, mi) = [mi EXCEPT !.event[ev.event] = [NoEvent EXCEPT !.exists = TRUE]]
    BY <1>4 DEF Applied
  <2>2. Effect("event", ev, rd, mi, [mi EXCEPT !.event[ev.event] = [NoEvent EXCEPT !.exists = TRUE]])
    BY EffectOfEvent
  <2> QED  BY <1>4, <2>1, <2>2
<1>5. CASE w[1] = "match"
  <2> DEFINE r == [NoMatch EXCEPT !.exists = TRUE, !.points_multiplier = ev.multiplier]
  <2>1. Applied(w, ev, rd, mi) = [mi EXCEPT !.match[ev.match] = r]
    BY <1>5 DEF Applied
  <2>2. r \in MatchRow /\ r.exists /\ r.winning_team = "null"
    BY <1>0, NewMatchRow
  <2> HIDE DEF r
  <2>3. Effect("match", ev, rd, mi, [mi EXCEPT !.match[ev.match] = r])
    BY <2>2, EffectOfMatch
  <2> QED  BY <1>5, <2>1, <2>3
<1>6. CASE w[1] = "match_count"
  <2> DEFINE r == [rd.event[ev.event] EXCEPT !.match_count = @ + 1]
  <2>1. Applied(w, ev, rd, mi) = [mi EXCEPT !.event[ev.event] = r]
    BY <1>6 DEF Applied
  <2>2. r \in EventRow /\ r.match_count = rd.event[ev.event].match_count + 1
    BY <1>e, EventRows
  <2> HIDE DEF r
  <2>3. Effect("match_count", ev, rd, mi, [mi EXCEPT !.event[ev.event] = r])
    BY <2>2, EffectOfCopy
  <2> QED  BY <1>6, <2>1, <2>3
<1>7. CASE w[1] = "join"
  <2>1. Applied(w, ev, rd, mi) = [mi EXCEPT !.event[ev.event].participant_count = @ + 1,
                                            !.event[ev.event].prize_pool = @ + ENTRY_FEE,
                                            !.event[ev.event].total_entry_fees = @ + ENTRY_FEE]
    BY <1>7 DEF Applied
  <2>2. Effect("join", ev, rd, mi, [mi EXCEPT !.event[ev.event].participant_count = @ + 1,
                                             !.event[ev.event].prize_pool = @ + ENTRY_FEE,
                                             !.event[ev.event].total_entry_fees = @ + ENTRY_FEE])
    BY EffectOfJoin
  <2> QED  BY <1>7, <2>1, <2>2
<1>8. CASE w[1] = "prediction"
  <2>1. Applied(w, ev, rd, mi) =
          [mi EXCEPT !.prediction[<<ev.match, ev.user>>] =
             [NoPrediction EXCEPT !.exists = TRUE, !.score = ev.score,
                !.outcome = IF ev.score = NoScore THEN ev.outcome ELSE Winner(ev.score)]]
    BY <1>8 DEF Applied
  <2>2. Effect("prediction", ev, rd, mi,
          [mi EXCEPT !.prediction[<<ev.match, ev.user>>] =
             [NoPrediction EXCEPT !.exists = TRUE, !.score = ev.score,
                !.outcome = IF ev.score = NoScore THEN ev.outcome ELSE Winner(ev.score)]])
    BY <1>2, <1>8, EffectOfPrediction
  <2> QED  BY <1>8, <2>1, <2>2
<1>9. CASE w[1] = "result"
  <2>1. Applied(w, ev, rd, mi) = [mi EXCEPT !.match[ev.match] = Resolved(ev, rd)]
    BY <1>9 DEF Applied
  <2>2. /\ Resolved(ev, rd) \in MatchRow /\ Resolved(ev, rd).winning_team = ev.outcome
        /\ Resolved(ev, rd).exists
    BY <1>2, <1>9, ResolvedRow
  <2>3. Effect("result", ev, rd, mi, [mi EXCEPT !.match[ev.match] = Resolved(ev, rd)])
    BY <2>2, EffectOfMatch
  <2> QED  BY <1>9, <2>1, <2>3
<1>10. CASE w[1] = "grade"
  <2>1. Applied(w, ev, rd, mi) = [mi EXCEPT !.prediction = [k \in DOMAIN mi.prediction |->
          IF k[1] = ev.match /\ mi.prediction[k].exists
          THEN Graded(mi.prediction[k], Resolved(ev, rd)) ELSE mi.prediction[k]]]
    BY <1>10 DEF Applied, EachPrediction
  <2>2. Effect("grade", ev, rd, mi, [mi EXCEPT !.prediction = [k \in DOMAIN mi.prediction |->
          IF k[1] = ev.match /\ mi.prediction[k].exists
          THEN Graded(mi.prediction[k], Resolved(ev, rd)) ELSE mi.prediction[k]]])
    BY EffectOfGrade
  <2> QED  BY <1>10, <2>1, <2>2
<1>11. CASE w[1] = "score"
  <2>1. Applied(w, ev, rd, mi) = [mi EXCEPT !.prediction = [k \in DOMAIN mi.prediction |->
          IF k[1] = ev.match /\ mi.prediction[k].exists
          THEN Scored(mi.prediction[k], Resolved(ev, rd)) ELSE mi.prediction[k]]]
    BY <1>11 DEF Applied, EachPrediction
  <2>2. Effect("score", ev, rd, mi, [mi EXCEPT !.prediction = [k \in DOMAIN mi.prediction |->
          IF k[1] = ev.match /\ mi.prediction[k].exists
          THEN Scored(mi.prediction[k], Resolved(ev, rd)) ELSE mi.prediction[k]]])
    BY EffectOfScore
  <2> QED  BY <1>11, <2>1, <2>2
<1>12. CASE w[1] = "finalize"
  <2> DEFINE r == [rd.event[ev.event] EXCEPT !.is_finalized = TRUE]
  <2>1. Applied(w, ev, rd, mi) = [mi EXCEPT !.event[ev.event] = r]
    BY <1>12 DEF Applied
  <2>2. r \in EventRow /\ r.match_count = rd.event[ev.event].match_count
    BY <1>e, EventRows
  <2> HIDE DEF r
  <2>3. Effect("finalize", ev, rd, mi, [mi EXCEPT !.event[ev.event] = r])
    BY <2>2, EffectOfCopy
  <2> QED  BY <1>12, <2>1, <2>3
<1>13. CASE w[1] = "fees"
  <2>1. Applied(w, ev, rd, mi) = FeesRecomputed(ev.event, mi)
    BY <1>13 DEF Applied
  <2> QED  BY <1>13, <2>1, EffectOfFees
<1>14. CASE w[1] = "cancel"
  <2> DEFINE r == [rd.event[ev.event] EXCEPT !.is_cancelled = TRUE]
  <2>1. Applied(w, ev, rd, mi) = [mi EXCEPT !.event[ev.event] = r]
    BY <1>14 DEF Applied
  <2>2. r \in EventRow /\ r.match_count = rd.event[ev.event].match_count
    BY <1>e, EventRows
  <2> HIDE DEF r
  <2>3. Effect("cancel", ev, rd, mi, [mi EXCEPT !.event[ev.event] = r])
    BY <2>2, EffectOfCopy
  <2> QED  BY <1>14, <2>1, <2>3
<1>15. CASE w[1] = "fee"
  <2> DEFINE x == [mi EXCEPT !.fee_history = @ + 1]
  <2>1. Applied(w, ev, rd, mi) = x
    BY <1>15 DEF Applied
  <2>2. x \in Mirror /\ x.event = mi.event /\ x.match = mi.match /\ x.prediction = mi.prediction
    BY SetFees
  <2> HIDE DEF x
  <2> QED  BY <1>15, <2>1, <2>2, EffectElsewhere
<1>16. CASE w[1] \in {"verify", "unverify"}
  <2> DEFINE n == IF w[1] = "verify" THEN rd.reputation[ev.user] + 1 ELSE rd.reputation[ev.user] - 1
             x == [mi EXCEPT !.reputation[ev.user] = n]
  <2>1. Applied(w, ev, rd, mi) = x
    BY <1>16 DEF Applied
  <2>2. rd.reputation[ev.user] \in Nat
    BY <1>2, <1>16, MirrorFields
  <2>3. n \in Nat
    BY <1>2, <1>16, <2>2
  <2> HIDE DEF n
  <2>4. x \in Mirror /\ x.event = mi.event /\ x.match = mi.match /\ x.prediction = mi.prediction
    BY <1>2, <1>16, <2>3, SetReputation
  <2> HIDE DEF x
  <2> QED  BY <1>16, <2>1, <2>4, EffectElsewhere
<1>17. CASE w[1] = "notify"
  <2>1. Applied(w, ev, rd, mi) = mi
    BY <1>17 DEF Applied
  <2> QED  BY <1>17, <2>1, EffectElsewhere
<1>18. CASE \E a \in Addresses : w = <<"payout", a>>
  <2>1. PICK a \in Addresses : w = <<"payout", a>>
    BY <1>18
  <2>2. w[1] = "payout" /\ w[2] = a
    BY <2>1
  <2> DEFINE x == Paid(ev.event, a, mi)
  <2>3. Applied(w, ev, rd, mi) = x
    BY <2>2 DEF Applied
  <2>4. x \in Mirror /\ x.event = mi.event /\ x.match = mi.match /\ x.prediction = mi.prediction
    BY <1>0, SetPaid
  <2> HIDE DEF x
  <2> QED  BY <2>2, <2>3, <2>4, EffectElsewhere
<1> HIDE DEF Goal
<1> QED  BY <1>3, <1>4, <1>5, <1>6, <1>7, <1>8, <1>9, <1>10, <1>11, <1>12, <1>13, <1>14, <1>15,
            <1>16, <1>17, <1>18 DEF WriteNames

-----------------------------------------------------------------------------
(* The first layer is inductive. *)

\* What rows and jobs rely on keeps holding.
Keeps ==
  /\ \A i : InPlace(i) => InPlace(i)'
  /\ UNCHANGED <<script, reported>> /\ handled \subseteq handled'
  /\ offchain => offchain'
  /\ reorgs' = 0 => reorgs = 0

LEMMA StillKeeps ==
  ASSUME UNCHANGED <<script, reported, chain, reorgs>>, handled \subseteq handled', offchain => offchain'
  PROVE  Keeps
BY DEF Keeps, InPlace

LEMMA KeepsRow ==
  ASSUME Keeps, NEW r, RowFits(r)
  PROVE  RowFits(r)'
<1>1. InPlace(r)'
  BY DEF Keeps, RowFits
<1> HIDE DEF InPlace
<1> QED  BY <1>1 DEF Keeps, RowFits

LEMMA KeepsJob ==
  ASSUME Keeps, NEW j, JobFits(j)
  PROVE  JobFits(j)'
<1>1. BatchFits(j)'
  BY DEF Keeps, JobFits, BatchFits
<1>2. HandlerFits(j) => HandlerFits(j)'
  BY DEF Keeps, HandlerFits
<1> QED  BY <1>1, <1>2 DEF JobFits

LEMMA JobsKept ==
  ASSUME JobsInv, Keeps, job' = job
  PROVE  JobsInv'
<1>1. job' \in [Workers -> Job]
  BY DEF JobsInv
<1>2. \A w \in Workers : JobFits(job[w])'
  BY KeepsJob DEF JobsInv
<1> QED  BY <1>1, <1>2 DEF JobsInv

LEMMA JobsSet ==
  ASSUME JobsInv, Keeps, NEW w \in Workers, NEW j \in Job, JobFits(j), job' = [job EXCEPT ![w] = j]
  PROVE  JobsInv'
<1>1. job' \in [Workers -> Job] /\ \A v \in Workers : job'[v] = IF v = w THEN j ELSE job[v]
  BY DEF JobsInv
<1>2. ASSUME NEW v \in Workers PROVE JobFits(job[v])'
  <2>1. JobFits(j)'
    BY KeepsJob
  <2>2. JobFits(job[v]) /\ (job'[v] = j \/ job'[v] = job[v])
    BY <1>1 DEF JobsInv
  <2>3. CASE job'[v] = j
    BY <2>1, <2>3
  <2>4. CASE job'[v] = job[v]
    BY <2>2, <2>4, KeepsJob
  <2> QED  BY <2>2, <2>3, <2>4
<1> QED  BY <1>1, <1>2 DEF JobsInv

LEMMA RowsKept ==
  ASSUME RowsInv, Keeps, rows' = rows
  PROVE  RowsInv'
<1>1. \A i \in DOMAIN rows : RowFits(rows[i])'
  BY KeepsRow DEF RowsInv
<1> QED  BY <1>1 DEF RowsInv

LEMMA RowsRestricted ==
  ASSUME RowsInv, Keeps, NEW D, D \subseteq DOMAIN rows, rows' = [i \in D |-> rows[i]]
  PROVE  RowsInv'
<1>1. DOMAIN rows' = D /\ \A i \in D : rows'[i] = rows[i]
  OBVIOUS
<1>2. ASSUME NEW i \in D PROVE RowFits(rows[i])'
  BY <1>1, KeepsRow DEF RowsInv
<1>3. IsFiniteSet(D) /\ D \subseteq RowIds
  BY FS_Subset DEF RowsInv
<1>4. rows' = [i \in DOMAIN rows' |-> rows'[i]]
  BY <1>1
<1> QED  BY <1>1, <1>2, <1>3, <1>4 DEF RowsInv

\* One row more, or another one in its place.
LEMMA NewRowFits ==
  ASSUME Keeps, NEW r \in Row, InPlace(r), Failures(r.status, r.retry),
         r.status = "processed" => r.idx \in handled'
  PROVE  RowFits(r)'
<1>1. InPlace(r)'
  BY DEF Keeps
<1> HIDE DEF InPlace
<1> QED  BY <1>1 DEF RowFits

LEMMA RowsSaved ==
  ASSUME RowsInv, Keeps, NEW id \in RowIds, NEW r \in Row, InPlace(r), Failures(r.status, r.retry),
         r.status = "processed" => r.idx \in handled',
         rows' = [i \in DOMAIN rows \cup {id} |-> IF i = id THEN r ELSE rows[i]]
  PROVE  RowsInv'
<1>1. DOMAIN rows' = DOMAIN rows \cup {id} /\ \A i \in DOMAIN rows' : rows'[i] = IF i = id THEN r ELSE rows[i]
  OBVIOUS
<1>2. RowFits(r)'
  BY NewRowFits
<1>3. ASSUME NEW i \in DOMAIN rows' PROVE RowFits(rows[i])'
  <2>1. CASE rows'[i] = r
    BY <1>2, <2>1
  <2>2. CASE i \in DOMAIN rows /\ rows'[i] = rows[i]
    BY <2>2, KeepsRow DEF RowsInv
  <2> QED  BY <1>1, <2>1, <2>2
<1>4. IsFiniteSet(DOMAIN rows') /\ DOMAIN rows' \subseteq RowIds
  BY <1>1, FS_AddElement DEF RowsInv
<1>5. rows' = [i \in DOMAIN rows' |-> rows'[i]]
  BY <1>1
<1> QED  BY <1>3, <1>4, <1>5 DEF RowsInv

LEMMA IdleFits ==
  /\ Idle \in Job /\ JobFits(Idle)
  /\ Idle.pc = "idle" /\ Idle.kind = "poll" /\ Idle.top = 0 /\ Idle.batch = <<>>
  /\ Idle.status = "pending" /\ Idle.retry = 0
<1>1. Idle \in Job
  BY DEF Idle, Job, Statuses, Places, Kinds
<1>2. /\ Idle.pc = "idle" /\ Idle.kind = "poll" /\ Idle.top = 0 /\ Idle.batch = <<>>
      /\ Idle.status = "pending" /\ Idle.retry = 0
  BY DEF Idle
<1>3. JobFits(Idle)
  BY <1>2 DEF JobFits, BatchFits
<1> QED  BY <1>1, <1>2, <1>3

LEMMA RestFits ==
  ASSUME NEW j \in Job, BatchFits(j), j.pc \in {"idle", "rewind", "fetch", "loop"}, j.kind # "result",
         j.status = "pending"
  PROVE  JobFits(j)
BY DEF JobFits, Failures

LEMMA JobFields ==
  ASSUME NEW j \in Job
  PROVE  /\ j.top \in Nat /\ j.batch \in Seq(Item) /\ j.status \in Statuses /\ j.retry \in Nat
         /\ j.todo \in Seq(Writes) /\ j.id \in RowIds \cup {NoRow}
         /\ j.kind \in Kinds
         /\ j.pc \in Places
BY DEF Job

LEMMA ItemFields ==
  ASSUME NEW i \in Item
  PROVE  i.ledger \in Nat /\ i.log \in Nat /\ i.idx \in Nat /\ i.retry \in Nat /\ i.id \in RowIds \cup {NoRow}
BY DEF Item

LEMMA HeadTail ==
  ASSUME NEW S, NEW s \in Seq(S), s # <<>>
  PROVE  /\ Head(s) \in S /\ 1 \in DOMAIN s /\ Head(s) = s[1] /\ Tail(s) \in Seq(S)
         /\ \A p \in DOMAIN Tail(s) : p + 1 \in DOMAIN s /\ Tail(s)[p] = s[p + 1]
         /\ \A p \in DOMAIN s : p # 1 => p - 1 \in DOMAIN Tail(s) /\ Tail(s)[p - 1] = s[p]
OBVIOUS

LEMMA HeadFits ==
  ASSUME NEW j \in Job, JobFits(j), j.batch # <<>>
  PROVE  /\ Head(j.batch) \in Item /\ InPlace(Head(j.batch))
         /\ j.kind = "retry" => Head(j.batch).id \in RowIds
<1>1. j.batch \in Seq(Item)
  BY JobFields
<1>2. Head(j.batch) \in Item /\ 1 \in DOMAIN j.batch /\ Head(j.batch) = j.batch[1]
  BY <1>1, HeadTail
<1> QED  BY <1>2 DEF JobFits, BatchFits

\* A job in its loop.
LoopOf(k, b, tp) == [Idle EXCEPT !.pc = "loop", !.kind = k, !.batch = b, !.top = tp]

LEMMA LoopJob ==
  ASSUME NEW k \in Kinds, NEW b \in Seq(Item), NEW tp \in Nat
  PROVE  /\ LoopOf(k, b, tp) \in Job /\ LoopOf(k, b, tp).pc = "loop" /\ LoopOf(k, b, tp).kind = k
         /\ LoopOf(k, b, tp).batch = b /\ LoopOf(k, b, tp).top = tp
         /\ LoopOf(k, b, tp).status = "pending"
<1>1. Idle \in Job /\ Idle.status = "pending" /\ "loop" \in Places
  BY IdleFits DEF Places
<1> QED  BY <1>1 DEF Job, LoopOf

LEMMA Next1Fits ==
  ASSUME NEW j \in Job, JobFits(j), j.batch # <<>>, j.kind # "result"
  PROVE  /\ Next1(j) \in Job /\ JobFits(Next1(j))
         /\ Next1(j).pc = "loop" /\ Next1(j).kind = j.kind
         /\ Next1(j).batch = Tail(j.batch) /\ Next1(j).top = Higher(j.top, Head(j.batch).ledger)
<1> DEFINE t == Tail(j.batch)
           h == Higher(j.top, Head(j.batch).ledger)
           n == LoopOf(j.kind, t, h)
<1>0. j.batch \in Seq(Item) /\ j.top \in Nat /\ j.kind \in Kinds
  BY JobFields
<1>1. t \in Seq(Item) /\ \A p \in DOMAIN t : p + 1 \in DOMAIN j.batch /\ t[p] = j.batch[p + 1]
  BY <1>0, HeadTail
<1>2. h \in Nat
  BY <1>0, HeadFits, ItemFields DEF Higher
<1>3. Next1(j) = n
  BY DEF Next1, LoopOf
<1> HIDE DEF t, h
<1>4. n \in Job /\ n.pc = "loop" /\ n.kind = j.kind /\ n.batch = t /\ n.top = h /\ n.status = "pending"
  BY <1>0, <1>1, <1>2, LoopJob
<1> HIDE DEF n
<1>5. BatchFits(n)
  BY <1>1, <1>4 DEF JobFits, BatchFits
<1>6. JobFits(n)
  BY <1>4, <1>5, RestFits
<1> QED  BY <1>3, <1>4, <1>6 DEF t, h

\* The handler of an event starts.
LEMMA HandlingFits ==
  ASSUME ScriptInv, mirror \in Mirror, NEW j \in Job, BatchFits(j), j.kind # "result", j.batch # <<>>,
         NEW idx \in DOMAIN script, NEW id \in RowIds, NEW retry \in Nat, NEW h,
         h = [j EXCEPT !.pc = "do", !.ev = script[idx], !.todo = Todo(script[idx], mirror),
                       !.read = mirror, !.id = id, !.retry = retry]
  PROVE  h \in Job /\ JobFits(h)
<1> DEFINE ev == script[idx]
           t == Todo(ev, mirror)
<1>1. ev \in Emittable /\ WellFormed(ev) /\ ev \in ToSet(script)
  BY ScriptFacts DEF ToSet
<1> HIDE DEF ev
<1>2. TodoFresh(t, ev, mirror)
  BY <1>1, TodoIsFresh
<1>3. t \in Seq(Writes) /\ TodoFits(t, ev, mirror)
  BY <1>2 DEF TodoFresh
<1>4. h = [j EXCEPT !.pc = "do", !.ev = ev, !.todo = t, !.read = mirror, !.id = id, !.retry = retry]
  BY DEF ev
<1> HIDE DEF t
<1>5. /\ h \in Job /\ h.pc = "do" /\ h.kind = j.kind /\ h.batch = j.batch /\ h.id = id
      /\ h.ev = ev /\ h.todo = t /\ h.read = mirror
  BY <1>1, <1>3, <1>4 DEF Job, Places
<1>6. BatchFits(h)
  BY <1>5 DEF BatchFits
<1>7. HandlerFits(h)
  BY <1>1, <1>3, <1>5 DEF HandlerFits
<1> QED  BY <1>5, <1>6, <1>7 DEF JobFits

\* The records the actions leave in a job.
RewindOf(k, tp) == [Idle EXCEPT !.pc = "rewind", !.kind = k, !.top = tp]
FetchOf == [Idle EXCEPT !.pc = "fetch"]
PollOf(tp, b) == [Idle EXCEPT !.pc = "loop", !.top = tp, !.batch = b]
FailedOf(tp) == [Idle EXCEPT !.pc = "loop", !.top = tp]
BatchOf(k, b) == [Idle EXCEPT !.pc = "loop", !.kind = k, !.batch = b]
SyncOf(s) == [Idle EXCEPT !.pc = "sync", !.kind = "reconcile", !.sync = s]
InsertOf(j, id) == [j EXCEPT !.pc = "store", !.id = id]
UpdateOf(j, id, s, n) == [j EXCEPT !.pc = "store", !.id = id, !.status = s, !.retry = n]
ResultOf(ev, mr, t) == [Idle EXCEPT !.pc = "do", !.kind = "result", !.ev = ev, !.read = mr, !.todo = t]
LeftOf(j, t) == [j EXCEPT !.todo = t]
SkipOf(j, tp) == [j EXCEPT !.top = tp]

LEMMA RewindJob ==
  ASSUME NEW k \in Kinds, NEW tp \in Nat, k # "result"
  PROVE  RewindOf(k, tp) \in Job /\ JobFits(RewindOf(k, tp)) /\ RewindOf(k, tp).pc = "rewind"
<1>1. Idle \in Job /\ Idle.status = "pending" /\ "rewind" \in Places /\ Idle.batch = <<>>
  BY IdleFits DEF Places
<1> DEFINE n == RewindOf(k, tp)
<1>2. n \in Job /\ n.status = Idle.status /\ n.pc = "rewind" /\ n.kind = k /\ n.batch = Idle.batch
  BY <1>1 DEF Job, RewindOf
<1> HIDE DEF n
<1>3. JobFits(n)
  BY <1>1, <1>2, RestFits DEF BatchFits
<1> QED  BY <1>2, <1>3 DEF n

LEMMA FetchJob ==
  FetchOf \in Job /\ JobFits(FetchOf) /\ FetchOf.pc = "fetch"
<1>1. Idle \in Job /\ Idle.status = "pending" /\ "fetch" \in Places /\ Idle.batch = <<>> /\ Idle.kind = "poll"
  BY IdleFits DEF Places
<1> DEFINE n == FetchOf
<1>2. n \in Job /\ n.status = Idle.status /\ n.pc = "fetch" /\ n.kind = Idle.kind /\ n.batch = Idle.batch
  BY <1>1 DEF Job, FetchOf
<1> HIDE DEF n
<1>3. JobFits(n)
  BY <1>1, <1>2, RestFits DEF BatchFits
<1> QED  BY <1>2, <1>3 DEF n

LEMMA PollJob ==
  ASSUME NEW tp \in Nat, NEW b \in Seq(Item), \A p \in DOMAIN b : InPlace(b[p])
  PROVE  /\ PollOf(tp, b) \in Job /\ JobFits(PollOf(tp, b))
         /\ PollOf(tp, b).pc = "loop" /\ PollOf(tp, b).top = tp /\ PollOf(tp, b).batch = b
<1>1. Idle \in Job /\ Idle.status = "pending" /\ "loop" \in Places /\ Idle.kind = "poll"
  BY IdleFits DEF Places
<1> DEFINE n == PollOf(tp, b)
<1>2. n \in Job /\ n.status = Idle.status /\ n.pc = "loop" /\ n.top = tp /\ n.batch = b /\ n.kind = Idle.kind
  BY <1>1 DEF Job, PollOf
<1> HIDE DEF n
<1>3. JobFits(n)
  BY <1>1, <1>2, RestFits DEF BatchFits
<1> QED  BY <1>2, <1>3 DEF n

LEMMA FailedJob ==
  ASSUME NEW tp \in Nat
  PROVE  /\ FailedOf(tp) \in Job /\ JobFits(FailedOf(tp))
         /\ FailedOf(tp).pc = "loop" /\ FailedOf(tp).top = tp /\ FailedOf(tp).batch = <<>>
<1>1. Idle \in Job /\ Idle.status = "pending" /\ "loop" \in Places /\ Idle.kind = "poll" /\ Idle.batch = <<>>
  BY IdleFits DEF Places
<1> DEFINE n == FailedOf(tp)
<1>2. n \in Job /\ n.status = Idle.status /\ n.pc = "loop" /\ n.top = tp /\ n.batch = Idle.batch /\ n.kind = Idle.kind
  BY <1>1 DEF Job, FailedOf
<1> HIDE DEF n
<1>3. JobFits(n)
  BY <1>1, <1>2, RestFits DEF BatchFits
<1> QED  BY <1>1, <1>2, <1>3 DEF n

LEMMA BatchJob ==
  ASSUME NEW k \in Kinds, k # "result", NEW b \in Seq(Item),
         \A p \in DOMAIN b : InPlace(b[p]) /\ (k = "retry" => b[p].id \in RowIds)
  PROVE  BatchOf(k, b) \in Job /\ JobFits(BatchOf(k, b)) /\ BatchOf(k, b).pc = "loop"
<1>1. Idle \in Job /\ Idle.status = "pending" /\ "loop" \in Places
  BY IdleFits DEF Places
<1> DEFINE n == BatchOf(k, b)
<1>2. n \in Job /\ n.status = Idle.status /\ n.pc = "loop" /\ n.batch = b /\ n.kind = k
  BY <1>1 DEF Job, BatchOf
<1> HIDE DEF n
<1>3. JobFits(n)
  BY <1>1, <1>2, RestFits DEF BatchFits
<1> QED  BY <1>2, <1>3 DEF n

LEMMA SyncJob ==
  ASSUME NEW s \in Checkpoint
  PROVE  SyncOf(s) \in Job /\ JobFits(SyncOf(s)) /\ SyncOf(s).pc = "sync"
<1>1. Idle \in Job /\ Idle.status = "pending" /\ "sync" \in Places /\ "reconcile" \in Kinds /\ Idle.batch = <<>>
  BY IdleFits DEF Places, Kinds
<1> DEFINE n == SyncOf(s)
<1>2. n \in Job /\ n.status = Idle.status /\ n.pc = "sync" /\ n.batch = Idle.batch /\ n.kind = "reconcile" /\ n.sync = s
  BY <1>1 DEF Job, SyncOf
<1> HIDE DEF n
<1>3. JobFits(n)
  BY <1>1, <1>2 DEF JobFits, BatchFits
<1> QED  BY <1>2, <1>3 DEF n

LEMMA InsertJob ==
  ASSUME NEW j \in Job, JobFits(j), j.batch # <<>>, j.pc = "loop", NEW id \in RowIds
  PROVE  /\ InsertOf(j, id) \in Job /\ JobFits(InsertOf(j, id)) /\ InsertOf(j, id).pc = "store"
         /\ InsertOf(j, id).top = j.top /\ InsertOf(j, id).batch = j.batch
<1>1. "store" \in Places
  BY DEF Places
<1> DEFINE n == InsertOf(j, id)
<1>2. /\ n \in Job /\ n.pc = "store" /\ n.id = id /\ n.batch = j.batch /\ n.kind = j.kind
      /\ n.status = j.status /\ n.retry = j.retry /\ n.top = j.top
  BY <1>1 DEF Job, InsertOf
<1> HIDE DEF n
<1>3. JobFits(n)
  BY <1>2 DEF JobFits, BatchFits
<1> QED  BY <1>2, <1>3 DEF n

LEMMA UpdateJob ==
  ASSUME NEW j \in Job, JobFits(j), j.batch # <<>>, j.kind # "result", NEW id \in RowIds,
         NEW s \in Statuses, NEW r \in Nat, s # "processed", Failures(s, r)
  PROVE  /\ UpdateOf(j, id, s, r) \in Job /\ JobFits(UpdateOf(j, id, s, r))
         /\ UpdateOf(j, id, s, r).pc = "store"
         /\ UpdateOf(j, id, s, r).top = j.top /\ UpdateOf(j, id, s, r).batch = j.batch
<1>1. "store" \in Places
  BY DEF Places
<1> DEFINE n == UpdateOf(j, id, s, r)
<1>2. /\ n \in Job /\ n.pc = "store" /\ n.id = id /\ n.batch = j.batch /\ n.kind = j.kind
      /\ n.status = s /\ n.retry = r /\ n.top = j.top
  BY <1>1 DEF Job, UpdateOf
<1> HIDE DEF n
<1>3. JobFits(n)
  BY <1>2 DEF JobFits, BatchFits
<1> QED  BY <1>2, <1>3 DEF n

\* A write is done, or an entry of the leaderboard skipped.
LEMMA LeftJob ==
  ASSUME NEW j \in Job, JobFits(j), j.pc = "do", NEW t \in Seq(Writes), TodoFits(t, j.ev, j.read)
  PROVE  /\ LeftOf(j, t) \in Job /\ JobFits(LeftOf(j, t))
         /\ LeftOf(j, t).pc = j.pc /\ LeftOf(j, t).batch = j.batch /\ LeftOf(j, t).top = j.top
         /\ LeftOf(j, t).ev = j.ev /\ LeftOf(j, t).read = j.read /\ LeftOf(j, t).todo = t
<1> DEFINE n == LeftOf(j, t)
<1>1. /\ n \in Job /\ n.pc = j.pc /\ n.id = j.id /\ n.batch = j.batch /\ n.kind = j.kind
      /\ n.top = j.top /\ n.ev = j.ev /\ n.read = j.read /\ n.todo = t
  BY DEF Job, LeftOf
<1> HIDE DEF n
<1>2. HandlerFits(n) /\ BatchFits(n)
  BY <1>1 DEF JobFits, BatchFits, HandlerFits
<1>3. JobFits(n)
  BY <1>1, <1>2 DEF JobFits
<1> QED  BY <1>1, <1>3 DEF n

LEMMA SkipJob ==
  ASSUME NEW j \in Job, JobFits(j), j.pc = "loop", NEW tp \in Nat
  PROVE  /\ SkipOf(j, tp) \in Job /\ JobFits(SkipOf(j, tp)) /\ SkipOf(j, tp).pc = "loop"
         /\ SkipOf(j, tp).top = tp /\ SkipOf(j, tp).batch = j.batch
<1> DEFINE n == SkipOf(j, tp)
<1>1. n \in Job /\ n.pc = j.pc /\ n.batch = j.batch /\ n.kind = j.kind /\ n.top = tp /\ n.status = j.status /\ n.retry = j.retry
  BY DEF Job, SkipOf
<1> HIDE DEF n
<1>2. JobFits(n)
  BY <1>1 DEF JobFits, BatchFits
<1> QED  BY <1>1, <1>2 DEF n

\* The job of submitResult: offchain becomes true in the same step.
LEMMA ResultJob ==
  ASSUME NEW ev \in OffchainResults, NEW mr \in Mirror, NEW t \in Seq(Writes), TodoFits(t, ev, mr)
  PROVE  /\ ResultOf(ev, mr, t) \in Job /\ BatchFits(ResultOf(ev, mr, t))
         /\ ResultOf(ev, mr, t).pc = "do" /\ ResultOf(ev, mr, t).kind = "result"
         /\ ResultOf(ev, mr, t).ev = ev /\ ResultOf(ev, mr, t).read = mr /\ ResultOf(ev, mr, t).todo = t
<1>1. Idle \in Job /\ "do" \in Places /\ "result" \in Kinds /\ Idle.batch = <<>>
  BY IdleFits DEF Places, Kinds
<1> DEFINE n == ResultOf(ev, mr, t)
<1>2. /\ n \in Job /\ n.pc = "do" /\ n.batch = Idle.batch /\ n.kind = "result"
      /\ n.ev = ev /\ n.read = mr /\ n.todo = t
  BY <1>1 DEF Job, ResultOf
<1> HIDE DEF n
<1>3. BatchFits(n)
  BY <1>1, <1>2 DEF BatchFits
<1> QED  BY <1>2, <1>3 DEF n

-----------------------------------------------------------------------------
(* The first layer, action by action. *)

LEMMA Assemble ==
  ASSUME TInv, UNCHANGED <<script, reported, chain, reorgs>>, offchain' \in BOOLEAN,
         RowsInv', CheckpointInv', JobsInv', mirror' \in Mirror
  PROVE  TInv'
<1>1. ScriptInv'
  BY DEF TInv, ScriptInv
<1>2. ChainInv'
  BY DEF TInv, ChainInv
<1> QED  BY <1>1, <1>2 DEF TInv

LEMMA HashType ==
  ASSUME ChainInv, NEW l PROVE HashOf(l) \in Hashes
<1>1. \A k \in DOMAIN chain : chain[k].hash \in Hashes
  BY ChainFacts DEF LedgerRecord
<1> QED  BY <1>1 DEF HashOf, Hashes

LEMMA CheckpointType ==
  /\ \A l \in Nat, h \in Hashes : [ledger |-> l, hash |-> h] \in Checkpoint
  /\ \A s \in Checkpoint : s.ledger \in Nat /\ s.hash \in Hashes
  /\ \A s \in Checkpoint, l \in Nat : [s EXCEPT !.ledger = l] \in Checkpoint
  /\ \A s \in Checkpoint, h \in Hashes : [s EXCEPT !.hash = h] \in Checkpoint
BY DEF Checkpoint

LEMMA HigherFits ==
  ASSUME NEW a \in Nat, NEW b \in Nat
  PROVE  Higher(a, b) \in Nat /\ a <= Higher(a, b) /\ b <= Higher(a, b) /\ Higher(a, b) \in {a, b}
BY DEF Higher

LEMMA OnChainSize ==
  ASSUME ScriptInv, ChainInv
  PROVE  /\ Cardinality(OnChain) \in Nat
         /\ \A l \in DOMAIN chain : Len(chain[l].evs) <= Cardinality(OnChain)
<1>0. Len(script) \in Nat /\ DOMAIN script = 1..Len(script)
  BY ScriptFacts
<1>1. OnChain \subseteq 1..Len(script)
  BY <1>0 DEF OnChain, ChainInv, ToSet
<1>2. IsFiniteSet(OnChain)
  BY <1>0, <1>1, IntervalSize, FS_Subset
<1>3. Cardinality(OnChain) \in Nat
  BY <1>2, FS_CardinalityType
<1>4. ASSUME NEW l \in DOMAIN chain PROVE Len(chain[l].evs) <= Cardinality(OnChain)
  <2> DEFINE s == chain[l].evs
             n == Len(s)
             a == s[1]
             b == a + n - 1
  <2>1. n \in Nat /\ DOMAIN s = 1..n /\ \A i \in 1..n : s[i] \in Nat
    BY ChainFacts
  <2>2. CASE n = 0
    BY <1>3, <2>2
  <2>3. CASE n # 0
    <3>1. a \in Int /\ b \in Int /\ ~(a > b) /\ b - a + 1 = n
      BY <2>1, <2>3
    <3>2. \A i \in 1..n : s[i] = a + i - 1
      BY <2>1 DEF ChainInv
    <3>3. a..b \subseteq OnChain
      <4> SUFFICES ASSUME NEW x \in a..b PROVE x \in OnChain
        OBVIOUS
      <4>1. x - a + 1 \in 1..n /\ a + (x - a + 1) - 1 = x
        <5>1. n \in Nat
          BY <2>1
        <5> HIDE DEF a, b, n
        <5> QED  BY <3>1, <5>1
      <4>2. s[x - a + 1] = x
        BY <3>2, <4>1
      <4>3. x \in ToSet(s)
        BY <2>1, <4>1, <4>2 DEF ToSet
      <4> QED  BY <4>3 DEF OnChain
    <3> HIDE DEF a, b, n
    <3>4. Cardinality(a..b) = n
      <4>1. Cardinality(a..b) = IF a > b THEN 0 ELSE b - a + 1
        BY <3>1, FS_Interval, Zenon
      <4> QED  BY <3>1, <4>1
    <3>5. Cardinality(a..b) <= Cardinality(OnChain)
      BY <1>2, <3>3, FS_Subset
    <3> QED  BY <3>4, <3>5 DEF n
  <2> QED  BY <2>2, <2>3
<1> QED  BY <1>3, <1>4

LEMMA LedgerFits ==
  ASSUME ScriptInv, reorgs' \in Nat, NEW height \in Nat, NEW first \in Nat, first # 0, NEW n \in Nat,
         first + n - 1 <= Len(script)
  PROVE  /\ Ledger(height, first, n) \in LedgerRecord
         /\ \A i \in DOMAIN Ledger(height, first, n).evs :
              /\ Ledger(height, first, n).evs[i] \in DOMAIN script
              /\ Ledger(height, first, n).evs[i] = Ledger(height, first, n).evs[1] + i - 1
<1> DEFINE e == [i \in 1..n |-> first + i - 1]
           h == <<height, reorgs'>>
           r == [hash |-> h, evs |-> e]
<1>0. Len(script) \in Nat /\ DOMAIN script = 1..Len(script)
  BY ScriptFacts
<1>1. e \in [1..n -> Nat] /\ DOMAIN e = 1..n /\ \A i \in 1..n : e[i] = first + i - 1
  OBVIOUS
<1>2. Ledger(height, first, n) = r
  BY DEF Ledger
<1>3. h \in Hashes
  BY DEF Hashes
<1> HIDE DEF e, h
<1>4. e \in Seq(Nat)
  BY <1>1, SeqDef
<1>5. r \in LedgerRecord /\ r.evs = e
  BY <1>3, <1>4 DEF LedgerRecord
<1> HIDE DEF r
<1>6. ASSUME NEW i \in 1..n PROVE first + i - 1 \in 1..Len(script) /\ 1 \in 1..n /\ first + i - 1 = (first + 1 - 1) + i - 1
  BY <1>0
<1>7. \A i \in DOMAIN e : e[i] \in DOMAIN script /\ e[i] = e[1] + i - 1
  BY <1>0, <1>1, <1>6
<1> QED  BY <1>2, <1>5, <1>7

\* Every ledger is an old one or consists of consecutive events.
LEMMA ChainSet ==
  ASSUME ChainInv, script' = script, reorgs' \in Nat, chain' \in Seq(LedgerRecord),
         \A l \in DOMAIN chain' :
           \/ l \in DOMAIN chain /\ chain'[l] = chain[l]
           \/ \A i \in DOMAIN chain'[l].evs :
                /\ chain'[l].evs[i] \in DOMAIN script
                /\ chain'[l].evs[i] = chain'[l].evs[1] + i - 1
  PROVE  ChainInv'
BY DEF ChainInv

LEMMA ChainGrows ==
  ASSUME TInv, Keeps, ChainInv', Len(chain) <= Len(chain'),
         UNCHANGED <<script, reported, rows, cursor, sync, listened, mirror, job, offchain>>
  PROVE  TInv'
<1>0. ScriptInv /\ RowsInv /\ CheckpointInv /\ JobsInv /\ ChainInv
  BY DEF TInv
<1>1. ScriptInv'
  BY <1>0 DEF ScriptInv
<1>2. RowsInv' /\ JobsInv'
  BY <1>0, RowsKept, JobsKept
<1>3. Len(chain) \in Nat /\ Len(chain') \in Nat
  BY <1>0 DEF ChainInv
<1>4. CheckpointInv'
  BY <1>0, <1>3 DEF CheckpointInv
<1> QED  BY <1>1, <1>2, <1>4 DEF TInv

LEMMA T_Produce ==
  ASSUME TInv, NEW n \in Nat, Produce(n)
  PROVE  TInv' /\ Keeps
<1> DEFINE c == Cardinality(OnChain)
           L == Ledger(Len(chain) + 1, c + 1, n)
<1>0. ScriptInv /\ ChainInv
  BY DEF TInv
<1>1. c \in Nat /\ Len(chain) \in Nat /\ DOMAIN chain = 1..Len(chain) /\ Len(script) \in Nat
  BY <1>0, OnChainSize, ChainFacts, ScriptFacts
<1>2. /\ c + n <= Len(script) /\ reorgs' = reorgs /\ chain' = Append(chain, L)
      /\ UNCHANGED <<script, reported, rows, cursor, sync, listened, mirror, job, handled, offchain>>
  BY DEF Produce
<1>3. reorgs' \in Nat
  BY <1>0, <1>2 DEF ChainInv
<1> HIDE DEF c
<1>4. c + 1 \in Nat /\ c + 1 # 0 /\ (c + 1) + n - 1 <= Len(script) /\ Len(chain) + 1 \in Nat
  BY <1>1, <1>2
<1>5. /\ L \in LedgerRecord
      /\ \A i \in DOMAIN L.evs : L.evs[i] \in DOMAIN script /\ L.evs[i] = L.evs[1] + i - 1
  BY <1>0, <1>3, <1>4, LedgerFits
<1> HIDE DEF L
<1>6. /\ chain' \in Seq(LedgerRecord) /\ Len(chain') = Len(chain) + 1
      /\ \A l \in 1..Len(chain) : chain'[l] = chain[l]
      /\ chain'[Len(chain) + 1] = L
  <2>1. chain \in Seq(LedgerRecord)
    BY <1>0 DEF ChainInv
  <2> QED  BY <1>2, <1>5, <2>1, AppendProperties
<1>7. DOMAIN chain' = 1..(Len(chain) + 1)
  BY <1>6
<1>8. \A l \in DOMAIN chain' : (l \in DOMAIN chain /\ chain'[l] = chain[l]) \/ chain'[l] = L
  BY <1>1, <1>6, <1>7
<1>9. ChainInv'
  BY <1>0, <1>2, <1>3, <1>5, <1>6, <1>8, ChainSet
<1>10. \A l \in DOMAIN chain : l \in DOMAIN chain' /\ chain'[l] = chain[l]
  BY <1>1, <1>6, <1>7
<1>11. Keeps
  BY <1>2, <1>10 DEF Keeps, InPlace
<1>12. Len(chain) <= Len(chain')
  BY <1>1, <1>6
<1> QED  BY <1>2, <1>9, <1>11, <1>12, ChainGrows

LEMMA T_Reorg ==
  ASSUME TInv, NEW n \in Nat, Reorg(n)
  PROVE  TInv' /\ Keeps
<1> DEFINE c == Cardinality(OnChain)
           l == Len(chain)
           m0 == Len(chain[l].evs)
           k == c - m0
           L == Ledger(l, k + 1, n)
<1>0. ScriptInv /\ ChainInv /\ reorgs \in Nat
  BY DEF TInv, ChainInv
<1>1. c \in Nat /\ l \in Nat /\ DOMAIN chain = 1..l /\ Len(script) \in Nat
  BY <1>0, OnChainSize, ChainFacts, ScriptFacts
<1>2. /\ l > 0 /\ k + n <= Len(script) /\ reorgs' = reorgs + 1 /\ chain' = [chain EXCEPT ![l] = L]
      /\ UNCHANGED <<script, reported, rows, cursor, sync, listened, mirror, job, handled, offchain>>
  BY DEF Reorg
<1>3. l \in DOMAIN chain /\ Len(chain[l].evs) \in Nat /\ Len(chain[l].evs) <= c
  BY <1>0, <1>1, <1>2, OnChainSize, ChainFacts
<1>4. reorgs' \in Nat /\ reorgs' # 0
  BY <1>0, <1>2
<1> HIDE DEF c, l
<1>5. k + 1 \in Nat /\ k + 1 # 0 /\ (k + 1) + n - 1 <= Len(script)
  <2>1. c \in Nat /\ m0 \in Nat /\ m0 <= c /\ Len(script) \in Nat
    BY <1>1, <1>3
  <2>2. k + n <= Len(script)
    BY <1>2
  <2> HIDE DEF m0
  <2> QED  BY <2>1, <2>2
<1> HIDE DEF k
<1>6. /\ L \in LedgerRecord
      /\ \A i \in DOMAIN L.evs : L.evs[i] \in DOMAIN script /\ L.evs[i] = L.evs[1] + i - 1
  BY <1>0, <1>1, <1>4, <1>5, LedgerFits
<1> HIDE DEF L
<1>7. /\ chain' \in Seq(LedgerRecord) /\ Len(chain') = Len(chain) /\ DOMAIN chain' = DOMAIN chain
      /\ \A m \in DOMAIN chain : chain'[m] = IF m = l THEN L ELSE chain[m]
  <2>1. chain \in Seq(LedgerRecord)
    BY <1>0 DEF ChainInv
  <2> QED  BY <1>2, <1>3, <1>6, <2>1, ExceptSeq
<1>8. ChainInv'
  <2>1. \A m \in DOMAIN chain' : (m \in DOMAIN chain /\ chain'[m] = chain[m]) \/ chain'[m] = L
    BY <1>7
  <2> QED  BY <1>0, <1>2, <1>4, <1>6, <1>7, <2>1, ChainSet
<1>9. Keeps
  <2>1. \A i : InPlace(i) => InPlace(i)'
    BY <1>2, <1>4 DEF InPlace
  <2> QED  BY <1>2, <1>4, <2>1 DEF Keeps
<1>10. Len(chain) <= Len(chain')
  BY <1>1, <1>7 DEF l
<1> QED  BY <1>2, <1>8, <1>9, <1>10, ChainGrows

LEMMA CheckpointsKept ==
  ASSUME CheckpointInv, UNCHANGED <<chain, listened>>, cursor' \in Nat, sync' \in Checkpoint
  PROVE  CheckpointInv'
BY DEF CheckpointInv

\* A step of one job that changes no row and no mirrored table.
LEMMA JobStep ==
  ASSUME TInv, UNCHANGED <<script, reported, chain, reorgs, rows, mirror, handled, offchain>>,
         CheckpointInv', NEW w \in Workers, NEW j \in Job, JobFits(j), job' = [job EXCEPT ![w] = j]
  PROVE  TInv'
<1>0. RowsInv /\ JobsInv /\ mirror \in Mirror /\ offchain \in BOOLEAN
  BY DEF TInv
<1>1. Keeps
  BY StillKeeps
<1>2. RowsInv'
  BY <1>0, <1>1, RowsKept
<1>3. JobsInv'
  BY <1>0, <1>1, JobsSet
<1> QED  BY <1>0, <1>2, <1>3, Assemble

\* A step that changes no job either.
LEMMA CheckpointStep ==
  ASSUME TInv, UNCHANGED <<script, reported, chain, reorgs, rows, mirror, handled, offchain, job>>,
         CheckpointInv'
  PROVE  TInv'
<1>0. RowsInv /\ JobsInv /\ mirror \in Mirror /\ offchain \in BOOLEAN
  BY DEF TInv
<1>1. Keeps
  BY StillKeeps
<1>2. RowsInv'
  BY <1>0, <1>1, RowsKept
<1>3. JobsInv'
  BY <1>0, <1>1, JobsKept
<1> QED  BY <1>0, <1>2, <1>3, Assemble

\* A step of one job that changes rows.
LEMMA RowStep ==
  ASSUME TInv, Keeps, UNCHANGED <<script, reported, chain, reorgs, mirror, offchain>>,
         RowsInv', CheckpointInv', NEW w \in Workers, NEW j \in Job, JobFits(j), job' = [job EXCEPT ![w] = j]
  PROVE  TInv'
<1>0. JobsInv /\ mirror \in Mirror /\ offchain \in BOOLEAN
  BY DEF TInv
<1>1. JobsInv'
  BY <1>0, JobsSet
<1> QED  BY <1>0, <1>1, Assemble

\* The parts of the first layer, for a job.
LEMMA Parts ==
  ASSUME TInv, NEW w \in Workers
  PROVE  /\ ScriptInv /\ ChainInv /\ RowsInv /\ CheckpointInv /\ JobsInv /\ mirror \in Mirror
         /\ offchain \in BOOLEAN
         /\ cursor \in Nat /\ sync \in Checkpoint /\ sync.ledger \in Nat /\ sync.hash \in Hashes
         /\ job[w] \in Job /\ JobFits(job[w])
         /\ DOMAIN job = Workers
<1>1. /\ ScriptInv /\ ChainInv /\ RowsInv /\ CheckpointInv /\ JobsInv /\ mirror \in Mirror
      /\ offchain \in BOOLEAN
  BY DEF TInv
<1>2. cursor \in Nat /\ sync \in Checkpoint
  BY <1>1 DEF CheckpointInv
<1>3. job[w] \in Job /\ JobFits(job[w]) /\ DOMAIN job = Workers
  BY <1>1 DEF JobsInv
<1> QED  BY <1>1, <1>2, <1>3, CheckpointType

LEMMA ForkType ==
  ASSUME TInv PROVE Fork \in Nat
<1>1. sync.ledger \in Nat
  BY Parts DEF Workers
<1>2. ROLLBACK_DEPTH \in Nat
  BY IndexerAssumption
<1> QED  BY <1>1, <1>2 DEF Fork

LEMMA T_RollBack ==
  ASSUME TInv, NEW w \in Workers, NEW k \in {"poll", "reconcile"}, RollBack(w, k)
  PROVE  TInv'
<1> DEFINE D == {i \in DOMAIN rows : rows[i].ledger <= Fork}
           r == RewindOf(k, Fork)
<1>1. /\ rows' = RowsUpTo(Fork) /\ sync' = [ledger |-> Fork, hash |-> HashOf(Fork)]
      /\ job' = [job EXCEPT ![w] = r]
      /\ UNCHANGED <<script, reported, chain, cursor, listened, mirror, reorgs, handled, offchain>>
  BY DEF RollBack, RewindOf
<1>2. Keeps
  BY <1>1, StillKeeps
<1>3. rows' = [i \in D |-> rows[i]] /\ D \subseteq DOMAIN rows
  BY <1>1 DEF RowsUpTo
<1> HIDE DEF D
<1>4. RowsInv'
  BY <1>2, <1>3, Parts, RowsRestricted
<1>5. k \in Kinds /\ k # "result"
  BY DEF Kinds
<1>6. r \in Job /\ JobFits(r)
  BY <1>5, ForkType, RewindJob
<1> HIDE DEF r
<1>7. sync' \in Checkpoint
  BY <1>1, ForkType, Parts, HashType, CheckpointType
<1>8. CheckpointInv'
  BY <1>1, <1>7, Parts, CheckpointsKept
<1> QED  BY <1>1, <1>2, <1>4, <1>6, <1>8, RowStep

LEMMA T_Rewind ==
  ASSUME TInv, NEW w \in Workers, Rewind(w)
  PROVE  TInv'
<1> DEFINE r == IF job[w].kind = "poll" THEN FetchOf ELSE Idle
<1>1. /\ cursor' = job[w].top /\ job' = [job EXCEPT ![w] = r]
      /\ UNCHANGED <<script, reported, chain, rows, sync, listened, mirror, reorgs, handled, offchain>>
  BY Parts DEF Rewind, FetchOf
<1>2. r \in Job /\ JobFits(r)
  BY FetchJob, IdleFits
<1> HIDE DEF r
<1>3. cursor' \in Nat /\ sync' \in Checkpoint
  BY <1>1, Parts, JobFields
<1>4. CheckpointInv'
  BY <1>1, <1>3, Parts, CheckpointsKept
<1> QED  BY <1>1, <1>2, <1>4, JobStep

\* A limited answer is a sequence of items that are in place.
LEMMA PrefixInPlace ==
  ASSUME ChainInv, NEW from \in Nat, NEW s, NEW n \in 0..Len(s), AnswerFits(s, from)
  PROVE  SubSeq(s, 1, n) \in Seq(Item) /\ \A p \in DOMAIN SubSeq(s, 1, n) : InPlace(SubSeq(s, 1, n)[p])
<1>1. s \in Seq(Item) /\ \A p \in DOMAIN s : s[p].ledger \in DOMAIN chain /\ FromLedger(s[p])
  BY DEF AnswerFits
<1>2. \A p \in DOMAIN s : InPlace(s[p])
  BY <1>1, AnswerInPlace
<1> QED  BY <1>1, <1>2, PrefixFits

LEMMA LimitedInPlace ==
  ASSUME ChainInv, NEW from \in Nat
  PROVE  /\ Limited(Events(from)) \in Seq(Item)
         /\ \A p \in DOMAIN Limited(Events(from)) : InPlace(Limited(Events(from))[p])
<1> DEFINE s == Events(from)
<1>1. AnswerFits(s, from)
  BY EventsFit
<1> HIDE DEF s
<1>2. s \in Seq(Item)
  BY <1>1 DEF AnswerFits
<1>3. PICK n \in 0..Len(s) : Limited(s) = SubSeq(s, 1, n)
  BY <1>2, LimitedFits
<1>4. Limited(s) \in Seq(Item) /\ \A p \in DOMAIN Limited(s) : InPlace(Limited(s)[p])
  BY <1>1, <1>3, PrefixInPlace
<1> QED  BY <1>4 DEF s

LEMMA T_PollFetch ==
  ASSUME TInv, PollFetch
  PROVE  TInv'
<1> DEFINE all == Events(cursor + 1)
           tp == IF all = <<>> THEN Len(chain) ELSE cursor
           b == Limited(all)
           r == IF all = <<>> /\ Len(chain) <= cursor THEN Idle ELSE PollOf(tp, b)
<1>0. Poller \in Workers
  BY DEF Workers
<1>1. /\ job' = [job EXCEPT ![Poller] = r]
      /\ UNCHANGED <<script, reported, chain, rows, cursor, sync, listened, mirror, reorgs, handled, offchain>>
  BY DEF PollFetch, PollOf
<1>2. cursor + 1 \in Nat
  BY <1>0, Parts
<1>3. b \in Seq(Item) /\ \A p \in DOMAIN b : InPlace(b[p])
  BY <1>0, <1>2, Parts, LimitedInPlace
<1>4. tp \in Nat
  BY <1>0, Parts, ChainFacts
<1> HIDE DEF all, tp, b
<1>5. r \in Job /\ JobFits(r)
  BY <1>3, <1>4, IdleFits, PollJob
<1> HIDE DEF r
<1>6. cursor' \in Nat /\ sync' \in Checkpoint
  BY <1>0, <1>1, Parts
<1>7. CheckpointInv'
  BY <1>0, <1>1, <1>6, Parts, CheckpointsKept
<1> QED  BY <1>0, <1>1, <1>5, <1>7, JobStep

LEMMA T_FetchFails ==
  ASSUME TInv, FetchFails
  PROVE  TInv'
<1> DEFINE r == FailedOf(cursor + 1)
<1>0. Poller \in Workers
  BY DEF Workers
<1>1. /\ job' = [job EXCEPT ![Poller] = r]
      /\ UNCHANGED <<script, reported, chain, rows, cursor, sync, listened, mirror, reorgs, handled, offchain>>
  BY DEF FetchFails, FailedOf
<1>2. cursor + 1 \in Nat
  BY <1>0, Parts
<1>3. r \in Job /\ JobFits(r)
  BY <1>2, FailedJob
<1> HIDE DEF r
<1>4. cursor' \in Nat /\ sync' \in Checkpoint
  BY <1>0, <1>1, Parts
<1>5. CheckpointInv'
  BY <1>0, <1>1, <1>4, Parts, CheckpointsKept
<1> QED  BY <1>0, <1>1, <1>3, <1>5, JobStep

LEMMA RowFields ==
  ASSUME RowsInv, NEW i \in DOMAIN rows
  PROVE  /\ i \in RowIds /\ rows[i] \in Row /\ InPlace(rows[i]) /\ Failures(rows[i].status, rows[i].retry)
         /\ rows[i].ledger \in Nat /\ rows[i].log \in Nat /\ rows[i].idx \in Nat /\ rows[i].retry \in Nat
         /\ rows[i].status \in Statuses
<1>1. i \in RowIds /\ rows[i] \in Row /\ InPlace(rows[i]) /\ Failures(rows[i].status, rows[i].retry)
  BY DEF RowsInv, RowFits
<1> QED  BY <1>1 DEF Row

\* The three outcomes of a lookup.
LEMMA LookupCases ==
  ASSUME NEW w \in Workers, Lookup(w)
  PROVE  /\ job[w].pc = "loop" /\ job[w].batch # <<>> /\ job[w].kind # "retry"
         /\ UNCHANGED <<script, reported, chain, rows, cursor, sync, listened, mirror, reorgs, handled, offchain>>
         /\ \/ /\ gaps' = gaps
               /\ job' = [job EXCEPT ![w] =
                    InsertOf(job[w], <<Head(job[w].batch).ledger, Head(job[w].batch).log, w>>)]
            \/ \E i \in Found(Head(job[w].batch)) :
                 /\ rows[i].status # "processed" /\ gaps' = gaps
                 /\ job' = [job EXCEPT ![w] = UpdateOf(job[w], i, rows[i].status, rows[i].retry)]
            \/ \E i \in Found(Head(job[w].batch)) :
                 /\ rows[i].status = "processed"
                 /\ job' = [job EXCEPT ![w] = Next1(job[w])]
                 /\ gaps' = IF Head(job[w].batch).idx \in handled \/ (reported /\ reorgs = 0) THEN gaps
                            ELSE gaps \cup {Head(job[w].batch).ledger}
BY DEF Lookup, InsertOf, UpdateOf

LEMMA T_Lookup ==
  ASSUME TInv, NEW w \in Workers, Lookup(w)
  PROVE  TInv'
<1> DEFINE j == job[w]
           item == Head(j.batch)
<1>0. /\ j \in Job /\ JobFits(j) /\ RowsInv /\ CheckpointInv /\ j.pc = "loop" /\ j.batch # <<>>
      /\ cursor \in Nat /\ sync \in Checkpoint
  BY Parts, LookupCases
<1>1. UNCHANGED <<script, reported, chain, rows, cursor, sync, listened, mirror, reorgs, handled, offchain>>
  BY LookupCases
<1>2. item \in Item /\ item.ledger \in Nat /\ item.log \in Nat /\ j.kind # "result"
  BY <1>0, HeadFits, ItemFields DEF JobFits
<1>3. CheckpointInv'
  <2>1. cursor' \in Nat /\ sync' \in Checkpoint
    BY <1>0, <1>1
  <2> QED  BY <1>0, <1>1, <2>1, CheckpointsKept
<1>4. \E n \in Job : JobFits(n) /\ job' = [job EXCEPT ![w] = n]
  <2>1. CASE job' = [job EXCEPT ![w] = InsertOf(j, <<item.ledger, item.log, w>>)]
    <3> DEFINE id == <<item.ledger, item.log, w>>
    <3>1. id \in RowIds
      BY <1>2 DEF RowIds
    <3> HIDE DEF id, j
    <3>2. InsertOf(j, id) \in Job /\ JobFits(InsertOf(j, id))
      BY <1>0, <1>2, <3>1, InsertJob
    <3> QED  BY <2>1, <3>2 DEF id
  <2>2. ASSUME NEW i \in Found(item), rows[i].status # "processed",
               job' = [job EXCEPT ![w] = UpdateOf(j, i, rows[i].status, rows[i].retry)]
        PROVE  \E n \in Job : JobFits(n) /\ job' = [job EXCEPT ![w] = n]
    <3>1. i \in DOMAIN rows
      BY DEF Found
    <3>2. i \in RowIds /\ rows[i].status \in Statuses /\ rows[i].retry \in Nat /\ Failures(rows[i].status, rows[i].retry)
      BY <1>0, <3>1, RowFields
    <3> HIDE DEF j
    <3>3. /\ UpdateOf(j, i, rows[i].status, rows[i].retry) \in Job
          /\ JobFits(UpdateOf(j, i, rows[i].status, rows[i].retry))
      BY <1>0, <1>2, <2>2, <3>2, UpdateJob
    <3> QED  BY <2>2, <3>3
  <2>3. CASE job' = [job EXCEPT ![w] = Next1(j)]
    <3> HIDE DEF j
    <3>1. Next1(j) \in Job /\ JobFits(Next1(j))
      BY <1>0, <1>2, Next1Fits
    <3> QED  BY <2>3, <3>1
  <2> HIDE DEF item, j
  <2>4. \/ job' = [job EXCEPT ![w] = InsertOf(j, <<item.ledger, item.log, w>>)]
        \/ \E i \in Found(item) :
             rows[i].status # "processed" /\ job' = [job EXCEPT ![w] = UpdateOf(j, i, rows[i].status, rows[i].retry)]
        \/ job' = [job EXCEPT ![w] = Next1(j)]
    BY LookupCases DEF item, j
  <2> QED  BY <2>1, <2>2, <2>3, <2>4
<1> QED  BY <1>1, <1>3, <1>4, JobStep

\* A row is saved from an item of the batch.
SavedRow(item, status, retry) ==
  [ledger |-> item.ledger, log |-> item.log, idx |-> item.idx, status |-> status, retry |-> retry]

LEMMA SavedRowFits ==
  ASSUME NEW item \in Item, InPlace(item), NEW s \in Statuses, NEW n \in Nat
  PROVE  /\ SavedRow(item, s, n) \in Row /\ InPlace(SavedRow(item, s, n))
         /\ SavedRow(item, s, n).status = s /\ SavedRow(item, s, n).retry = n
         /\ SavedRow(item, s, n).idx = item.idx
<1> DEFINE r == SavedRow(item, s, n)
<1>1. r \in Row
  BY ItemFields DEF Row, SavedRow
<1>2. r.status = s /\ r.retry = n /\ r.idx = item.idx /\ r.ledger = item.ledger /\ r.log = item.log
  BY DEF SavedRow
<1> HIDE DEF r
<1>3. InPlace(r)
  BY <1>2 DEF InPlace
<1> QED  BY <1>1, <1>2, <1>3 DEF r

LEMMA SaveFits ==
  ASSUME RowsInv, Keeps, NEW j \in Job, JobFits(j), j.batch # <<>>, j.id \in RowIds,
         NEW s \in Statuses, NEW n \in Nat, Failures(s, n),
         s = "processed" => Head(j.batch).idx \in handled',
         rows' = Saved(Head(j.batch), j, s, n)
  PROVE  RowsInv'
<1> DEFINE item == Head(j.batch)
           r == SavedRow(item, s, n)
           id == j.id
<1>1. item \in Item /\ InPlace(item)
  BY HeadFits
<1>2. rows' = [i \in DOMAIN rows \cup {id} |-> IF i = id THEN r ELSE rows[i]]
  BY DEF Saved, SavedRow
<1>3. s = "processed" => item.idx \in handled'
  OBVIOUS
<1> HIDE DEF item
<1>4. r \in Row /\ InPlace(r) /\ r.status = s /\ r.retry = n /\ r.idx = item.idx
  BY <1>1, SavedRowFits
<1> HIDE DEF r
<1>5. Failures(r.status, r.retry) /\ (r.status = "processed" => r.idx \in handled') /\ id \in RowIds
  BY <1>3, <1>4
<1> HIDE DEF id
<1> QED  BY <1>2, <1>4, <1>5, RowsSaved

LEMMA T_Store ==
  ASSUME TInv, NEW w \in Workers, Store(w)
  PROVE  TInv'
<1> DEFINE j == job[w]
           item == Head(j.batch)
           h == Handling(j, item.idx)
<1>0. /\ j \in Job /\ JobFits(j) /\ RowsInv /\ CheckpointInv /\ ScriptInv /\ mirror \in Mirror
      /\ cursor \in Nat /\ sync \in Checkpoint
  BY Parts
<1>1. /\ j.pc = "store" /\ rows' = Saved(item, j, j.status, j.retry) /\ job' = [job EXCEPT ![w] = h]
      /\ UNCHANGED <<script, reported, chain, cursor, sync, listened, mirror, reorgs, handled, offchain>>
  BY DEF Store
<1>2. /\ j.kind # "result" /\ j.status # "processed" /\ Failures(j.status, j.retry)
      /\ j.batch # <<>> /\ j.id \in RowIds /\ BatchFits(j)
  BY <1>0, <1>1 DEF JobFits
<1>3. j.status \in Statuses /\ j.retry \in Nat
  BY <1>0, JobFields
<1>4. Keeps
  BY <1>1, StillKeeps
<1>5. RowsInv'
  <2> HIDE DEF j
  <2> QED  BY <1>0, <1>1, <1>2, <1>3, <1>4, SaveFits
<1>6. item.idx \in DOMAIN script
  BY <1>0, <1>2, HeadFits DEF InPlace
<1>7. h \in Job /\ JobFits(h)
  <2> HIDE DEF j
  <2>1. h = [j EXCEPT !.pc = "do", !.ev = script[item.idx], !.todo = Todo(script[item.idx], mirror),
                       !.read = mirror, !.id = j.id, !.retry = j.retry]
    <3>1. j = [j EXCEPT !.id = j.id, !.retry = j.retry]
      BY <1>0 DEF Job
    <3> QED  BY <1>0, <3>1 DEF Handling, Job
  <2> HIDE DEF h, item
  <2> QED  BY <1>0, <1>2, <1>3, <1>6, <2>1, HandlingFits
<1>8. CheckpointInv'
  <2>1. cursor' \in Nat /\ sync' \in Checkpoint
    BY <1>0, <1>1
  <2> QED  BY <1>0, <1>1, <2>1, CheckpointsKept
<1> HIDE DEF h
<1> QED  BY <1>1, <1>4, <1>5, <1>7, <1>8, RowStep

LEMMA T_StoreFails ==
  ASSUME TInv, NEW w \in Workers, StoreFails(w)
  PROVE  TInv'
<1> DEFINE j == job[w]
           n == Next1(j)
           r == SkipOf(n, j.top)
<1>0. j \in Job /\ JobFits(j) /\ CheckpointInv /\ cursor \in Nat /\ sync \in Checkpoint
  BY Parts
<1>1. /\ j.pc = "store" /\ job' = [job EXCEPT ![w] = r]
      /\ UNCHANGED <<script, reported, chain, rows, cursor, sync, listened, mirror, reorgs, handled, offchain>>
  BY DEF StoreFails, SkipOf
<1>2. j.kind # "result" /\ j.batch # <<>> /\ j.top \in Nat
  BY <1>0, <1>1, JobFields DEF JobFits
<1> HIDE DEF j
<1>3. n \in Job /\ JobFits(n) /\ n.pc = "loop"
  BY <1>0, <1>2, Next1Fits
<1> HIDE DEF n
<1>4. r \in Job /\ JobFits(r)
  BY <1>2, <1>3, SkipJob
<1>5. CheckpointInv'
  <2>1. cursor' \in Nat /\ sync' \in Checkpoint
    BY <1>0, <1>1
  <2> QED  BY <1>0, <1>1, <2>1, CheckpointsKept
<1> HIDE DEF r
<1> QED  BY <1>1, <1>4, <1>5, JobStep

LEMMA HandlerFacts ==
  ASSUME ScriptInv, NEW j \in Job, JobFits(j), j.pc = "do"
  PROVE  /\ WellFormed(j.ev) /\ j.read \in Mirror /\ j.todo \in Seq(Writes)
         /\ TodoFits(j.todo, j.ev, j.read)
         /\ IF j.kind = "result" THEN j.ev \in OffchainResults /\ offchain ELSE j.ev \in ToSet(script)
         /\ j.kind # "result" => j.batch # <<>> /\ j.id \in RowIds
<1>1. HandlerFits(j) /\ (j.kind # "result" => j.batch # <<>> /\ j.id \in RowIds)
  BY DEF JobFits
<1>2. /\ j.read \in Mirror /\ TodoFits(j.todo, j.ev, j.read)
      /\ IF j.kind = "result" THEN j.ev \in OffchainResults /\ offchain ELSE j.ev \in ToSet(script)
  BY <1>1 DEF HandlerFits
<1>3. WellFormed(j.ev)
  BY <1>2, SetupsAssumption, ScriptMembers
<1> QED  BY <1>1, <1>2, <1>3, JobFields

LEMMA T_Write ==
  ASSUME TInv, NEW w \in Workers, Write(w)
  PROVE  TInv'
<1> DEFINE j == job[w]
           t == Tail(j.todo)
           r == LeftOf(j, t)
           x == Applied(Head(j.todo), j.ev, j.read, mirror)
<1>0. /\ j \in Job /\ JobFits(j) /\ CheckpointInv /\ cursor \in Nat /\ sync \in Checkpoint
      /\ RowsInv /\ JobsInv /\ ScriptInv /\ mirror \in Mirror /\ offchain \in BOOLEAN /\ DOMAIN job = Workers
  BY Parts
<1>1. /\ j.pc = "do" /\ j.todo # <<>> /\ mirror' = x
      /\ UNCHANGED <<script, reported, chain, rows, cursor, sync, listened, reorgs, handled, offchain>>
  BY DEF Write
<1>2. job' = [job EXCEPT ![w] = r]
  BY <1>0 DEF Write, LeftOf
<1>3. WellFormed(j.ev) /\ j.read \in Mirror /\ j.todo \in Seq(Writes) /\ TodoFits(j.todo, j.ev, j.read)
  BY <1>0, <1>1, HandlerFacts
<1>4. t \in Seq(Writes) /\ TodoFits(t, j.ev, j.read)
  BY <1>1, <1>3, TailFits
<1>5. x \in Mirror
  BY <1>0, <1>1, <1>3, AppliedFits DEF Effect
<1> HIDE DEF x, j, t
<1>6. r \in Job /\ JobFits(r)
  BY <1>0, <1>1, <1>4, LeftJob
<1> HIDE DEF r
<1>7. Keeps
  BY <1>1, StillKeeps
<1>8. RowsInv' /\ JobsInv'
  BY <1>0, <1>1, <1>2, <1>6, <1>7, RowsKept, JobsSet
<1>9. CheckpointInv'
  <2>1. cursor' \in Nat /\ sync' \in Checkpoint
    BY <1>0, <1>1
  <2> QED  BY <1>0, <1>1, <2>1, CheckpointsKept
<1>10. mirror' \in Mirror /\ offchain' \in BOOLEAN
  BY <1>0, <1>1, <1>5
<1> QED  BY <1>1, <1>8, <1>9, <1>10, Assemble

LEMMA T_Close ==
  ASSUME TInv, NEW w \in Workers, Close(w)
  PROVE  TInv'
<1> DEFINE j == job[w]
<1>0. /\ j \in Job /\ JobFits(j) /\ CheckpointInv /\ cursor \in Nat /\ sync \in Checkpoint
      /\ RowsInv /\ ScriptInv
  BY Parts
<1>1. /\ j.pc = "do" /\ UNCHANGED <<script, reported, chain, cursor, sync, listened, mirror, reorgs, offchain>>
  BY DEF Close
<1>2. j.kind # "result" => j.batch # <<>> /\ j.id \in RowIds
  BY <1>0, <1>1, HandlerFacts
<1>3. CheckpointInv'
  <2>1. cursor' \in Nat /\ sync' \in Checkpoint
    BY <1>0, <1>1
  <2> QED  BY <1>0, <1>1, <2>1, CheckpointsKept
<1>4. CASE j.kind = "result"
  <2>1. job' = [job EXCEPT ![w] = Idle] /\ UNCHANGED <<rows, handled>>
    BY <1>4 DEF Close
  <2> QED  BY <1>1, <1>3, <2>1, IdleFits, JobStep
<1>5. CASE j.kind # "result"
  <2>1. /\ rows' = Saved(Head(j.batch), j, "processed", j.retry)
        /\ handled' = handled \cup {Head(j.batch).idx} /\ job' = [job EXCEPT ![w] = Next1(j)]
    BY <1>5 DEF Close
  <2>2. Keeps
    BY <1>1, <2>1, StillKeeps
  <2>3. "processed" \in Statuses /\ j.retry \in Nat /\ Failures("processed", j.retry)
    BY <1>0, JobFields DEF Statuses, Failures
  <2>4. Head(j.batch).idx \in handled'
    BY <2>1
  <2> HIDE DEF j
  <2>5. RowsInv'
    BY <1>0, <1>2, <1>5, <2>1, <2>2, <2>3, <2>4, SaveFits
  <2>6. Next1(j) \in Job /\ JobFits(Next1(j))
    BY <1>0, <1>2, <1>5, Next1Fits
  <2> QED  BY <1>1, <1>3, <2>1, <2>2, <2>5, <2>6, RowStep
<1> QED  BY <1>4, <1>5

\* What a throwing handler leaves.
LEMMA ThrowsCases ==
  ASSUME NEW w \in Workers, DOMAIN job = Workers, Throws(w)
  PROVE  /\ job[w].pc = "do"
         /\ UNCHANGED <<script, reported, chain, cursor, sync, listened, mirror, reorgs, gaps, offchain>>
         /\ \/ /\ job[w].todo # <<>> /\ Head(job[w].todo)[1] = "payout"
               /\ job' = [job EXCEPT ![w] = LeftOf(job[w], Tail(job[w].todo))]
               /\ UNCHANGED <<rows, handled>>
            \/ /\ job[w].kind = "result" /\ job' = [job EXCEPT ![w] = Idle] /\ UNCHANGED <<rows, handled>>
            \/ /\ job[w].kind # "result" /\ job' = [job EXCEPT ![w] = Next1(job[w])]
               /\ handled' = handled \cup {Head(job[w].batch).idx}
               /\ \/ rows' = rows
                  \/ /\ job[w].retry + 1 >= DLQ_THRESHOLD
                     /\ rows' = Saved(Head(job[w].batch), job[w], "dlq", job[w].retry + 1)
                  \/ /\ ~(job[w].retry + 1 >= DLQ_THRESHOLD)
                     /\ rows' = Saved(Head(job[w].batch), job[w], "failed", job[w].retry + 1)
<1>1. /\ job[w].pc = "do"
      /\ UNCHANGED <<script, reported, chain, cursor, sync, listened, mirror, reorgs, gaps, offchain>>
  BY DEF Throws
<1>2. CASE job[w].todo # <<>> /\ Head(job[w].todo)[1] = "payout"
  <2>1. job' = [job EXCEPT ![w].todo = Tail(@)] /\ UNCHANGED <<rows, handled>>
    BY <1>2 DEF Throws
  <2>2. job' = [job EXCEPT ![w] = LeftOf(job[w], Tail(job[w].todo))]
    BY <2>1 DEF LeftOf
  <2> QED  BY <1>1, <1>2, <2>1, <2>2
<1>3. CASE ~(job[w].todo # <<>> /\ Head(job[w].todo)[1] = "payout") /\ job[w].kind = "result"
  <2>1. job' = [job EXCEPT ![w] = Idle] /\ UNCHANGED <<rows, handled>>
    BY <1>3 DEF Throws
  <2> QED  BY <1>1, <1>3, <2>1
<1>4. CASE ~(job[w].todo # <<>> /\ Head(job[w].todo)[1] = "payout") /\ job[w].kind # "result"
  <2>1. /\ job' = [job EXCEPT ![w] = Next1(job[w])] /\ handled' = handled \cup {Head(job[w].batch).idx}
        /\ rows' = IF job[w].kind = "retry" THEN rows
                   ELSE Saved(Head(job[w].batch), job[w],
                              IF job[w].retry + 1 >= DLQ_THRESHOLD THEN "dlq" ELSE "failed", job[w].retry + 1)
    BY <1>4 DEF Throws
  <2> QED  BY <1>1, <1>4, <2>1
<1> QED  BY <1>2, <1>3, <1>4

LEMMA T_Throws ==
  ASSUME TInv, NEW w \in Workers, Throws(w)
  PROVE  TInv'
<1> DEFINE j == job[w]
           n == j.retry + 1
<1>0. /\ j \in Job /\ JobFits(j) /\ CheckpointInv /\ cursor \in Nat /\ sync \in Checkpoint
      /\ RowsInv /\ ScriptInv /\ DOMAIN job = Workers
  BY Parts
<1>1. /\ j.pc = "do" /\ UNCHANGED <<script, reported, chain, cursor, sync, listened, mirror, reorgs, offchain>>
  BY <1>0, ThrowsCases
<1>2. /\ j.todo \in Seq(Writes) /\ TodoFits(j.todo, j.ev, j.read)
      /\ j.kind # "result" => j.batch # <<>> /\ j.id \in RowIds
  BY <1>0, <1>1, HandlerFacts
<1>3. CheckpointInv'
  <2>1. cursor' \in Nat /\ sync' \in Checkpoint
    BY <1>0, <1>1
  <2> QED  BY <1>0, <1>1, <2>1, CheckpointsKept
<1>4. ASSUME j.todo # <<>>, job' = [job EXCEPT ![w] = LeftOf(j, Tail(j.todo))], UNCHANGED <<rows, handled>>
      PROVE  TInv'
  <2> DEFINE t == Tail(j.todo)
  <2>1. t \in Seq(Writes) /\ TodoFits(t, j.ev, j.read)
    BY <1>2, <1>4, TailFits
  <2>2. job' = [job EXCEPT ![w] = LeftOf(j, t)]
    BY <1>4
  <2> HIDE DEF t, j
  <2>3. LeftOf(j, t) \in Job /\ JobFits(LeftOf(j, t))
    BY <1>0, <1>1, <2>1, LeftJob
  <2> QED  BY <1>1, <1>3, <1>4, <2>2, <2>3, JobStep
<1>5. ASSUME job' = [job EXCEPT ![w] = Idle], UNCHANGED <<rows, handled>>
      PROVE  TInv'
  BY <1>1, <1>3, <1>5, IdleFits, JobStep
<1>6. ASSUME j.kind # "result", job' = [job EXCEPT ![w] = Next1(j)],
             handled' = handled \cup {Head(j.batch).idx},
             \/ rows' = rows
             \/ n >= DLQ_THRESHOLD /\ rows' = Saved(Head(j.batch), j, "dlq", n)
             \/ ~(n >= DLQ_THRESHOLD) /\ rows' = Saved(Head(j.batch), j, "failed", n)
      PROVE  TInv'
  <2>1. Keeps
    BY <1>1, <1>6, StillKeeps
  <2>2. n \in Nat
    BY <1>0, JobFields
  <2>3. DLQ_THRESHOLD \in Nat
    BY IndexerAssumption
  <2> HIDE DEF n, j
  <2>4. n >= DLQ_THRESHOLD => Failures("dlq", n)
    BY DEF Failures
  <2>5. ~(n >= DLQ_THRESHOLD) => Failures("failed", n)
    BY <2>2, <2>3 DEF Failures
  <2>6. "dlq" \in Statuses /\ "failed" \in Statuses
    BY DEF Statuses
  <2>7. RowsInv'
    <3>1. CASE rows' = rows
      BY <1>0, <2>1, <3>1, RowsKept
    <3>2. CASE n >= DLQ_THRESHOLD /\ rows' = Saved(Head(j.batch), j, "dlq", n)
      BY <1>0, <1>2, <1>6, <2>1, <2>2, <2>4, <2>6, <3>2, SaveFits
    <3>3. CASE ~(n >= DLQ_THRESHOLD) /\ rows' = Saved(Head(j.batch), j, "failed", n)
      BY <1>0, <1>2, <1>6, <2>1, <2>2, <2>5, <2>6, <3>3, SaveFits
    <3> QED  BY <1>6, <3>1, <3>2, <3>3
  <2>8. Next1(j) \in Job /\ JobFits(Next1(j))
    BY <1>0, <1>2, <1>6, Next1Fits
  <2> QED  BY <1>1, <1>3, <1>6, <2>1, <2>7, <2>8, RowStep
<1> HIDE DEF n
<1>7. \/ /\ j.todo # <<>> /\ job' = [job EXCEPT ![w] = LeftOf(j, Tail(j.todo))] /\ UNCHANGED <<rows, handled>>
      \/ job' = [job EXCEPT ![w] = Idle] /\ UNCHANGED <<rows, handled>>
      \/ /\ j.kind # "result" /\ job' = [job EXCEPT ![w] = Next1(j)]
         /\ handled' = handled \cup {Head(j.batch).idx}
         /\ \/ rows' = rows
            \/ n >= DLQ_THRESHOLD /\ rows' = Saved(Head(j.batch), j, "dlq", n)
            \/ ~(n >= DLQ_THRESHOLD) /\ rows' = Saved(Head(j.batch), j, "failed", n)
  BY <1>0, ThrowsCases DEF n
<1> HIDE DEF j
<1> QED  BY <1>4, <1>5, <1>6, <1>7

LEMMA T_PollEnd ==
  ASSUME TInv, PollEnd
  PROVE  TInv'
<1> DEFINE l == job[Poller].top
<1>0. Poller \in Workers
  BY DEF Workers
<1>1. /\ job[Poller] \in Job /\ ChainInv /\ CheckpointInv /\ sync \in Checkpoint
      /\ sync.ledger \in Nat /\ sync.hash \in Hashes
  BY <1>0, Parts
<1>2. l \in Nat /\ HashOf(l) \in Hashes
  BY <1>1, JobFields, HashType
<1>3. Higher(sync.ledger, l) \in Nat
  BY <1>1, <1>2, HigherFits
<1>4. /\ cursor' = l /\ job' = [job EXCEPT ![Poller] = Idle]
      /\ \/ sync' = [ledger |-> Higher(sync.ledger, l), hash |-> IF HashOf(l) = NoHash THEN sync.hash ELSE HashOf(l)]
         \/ sync' = [sync EXCEPT !.ledger = Higher(sync.ledger, l)]
      /\ UNCHANGED <<script, reported, chain, rows, listened, mirror, reorgs, handled, offchain>>
  BY DEF PollEnd
<1> HIDE DEF l
<1>5. sync' \in Checkpoint
  <2> DEFINE h == IF HashOf(l) = NoHash THEN sync.hash ELSE HashOf(l)
             g == Higher(sync.ledger, l)
  <2>1. h \in Hashes
    BY <1>1, <1>2
  <2>2. sync' = [ledger |-> g, hash |-> h] \/ sync' = [sync EXCEPT !.ledger = g]
    BY <1>4
  <2>3. g \in Nat
    BY <1>3
  <2> HIDE DEF h, g
  <2> QED  BY <1>1, <2>1, <2>2, <2>3, CheckpointType
<1>6. CheckpointInv'
  BY <1>1, <1>2, <1>4, <1>5, CheckpointsKept
<1> QED  BY <1>0, <1>4, <1>6, IdleFits, JobStep

LEMMA T_Backfill ==
  ASSUME TInv, NEW from \in Nat, NEW to, Backfill(from, to)
  PROVE  TInv'
<1> DEFINE s == Limited(Events(from))
           b == UpTo(s, to)
           r == BatchOf("backfill", b)
<1>0. Other \in Workers
  BY DEF Workers
<1>1. ChainInv /\ CheckpointInv /\ cursor \in Nat /\ sync \in Checkpoint
  BY <1>0, Parts
<1>2. /\ job' = [job EXCEPT ![Other] = r]
      /\ UNCHANGED <<script, reported, chain, rows, cursor, sync, listened, mirror, reorgs, handled, offchain>>
  BY DEF Backfill, Starts, BatchOf
<1>3. s \in Seq(Item) /\ \A p \in DOMAIN s : InPlace(s[p])
  BY <1>1, LimitedInPlace
<1> HIDE DEF s
<1>4. PICK n \in 0..Len(s) : b = SubSeq(s, 1, n)
  BY <1>3, UpToFits
<1> HIDE DEF b
<1>5. b \in Seq(Item) /\ \A p \in DOMAIN b : InPlace(b[p])
  BY <1>3, <1>4, PrefixFits
<1>6. r \in Job /\ JobFits(r)
  <2>1. "backfill" \in Kinds
    BY DEF Kinds
  <2> QED  BY <1>5, <2>1, BatchJob
<1> HIDE DEF r
<1>7. CheckpointInv'
  <2>1. cursor' \in Nat /\ sync' \in Checkpoint
    BY <1>1, <1>2
  <2> QED  BY <1>1, <1>2, <2>1, CheckpointsKept
<1> QED  BY <1>0, <1>2, <1>6, <1>7, JobStep

\* A row as retryFailedEvents holds it.
RetryItem(i) ==
  [ledger |-> rows[i].ledger, log |-> rows[i].log, idx |-> rows[i].idx, id |-> i, retry |-> rows[i].retry]

LEMMA RetryItemFits ==
  ASSUME RowsInv, NEW i \in DOMAIN rows
  PROVE  RetryItem(i) \in Item /\ InPlace(RetryItem(i)) /\ RetryItem(i).id \in RowIds
<1> DEFINE n == RetryItem(i)
<1>1. /\ i \in RowIds /\ InPlace(rows[i]) /\ rows[i].ledger \in Nat /\ rows[i].log \in Nat
      /\ rows[i].idx \in Nat /\ rows[i].retry \in Nat
  BY RowFields
<1>2. n \in Item
  BY <1>1 DEF Item, RetryItem
<1>3. n.id = i /\ n.ledger = rows[i].ledger /\ n.log = rows[i].log /\ n.idx = rows[i].idx
  BY DEF RetryItem
<1> HIDE DEF n
<1>4. InPlace(n)
  BY <1>1, <1>3 DEF InPlace
<1> QED  BY <1>1, <1>2, <1>3, <1>4 DEF n

LEMMA T_Retry ==
  ASSUME TInv, Retry
  PROVE  TInv'
<1> DEFINE F == {i \in DOMAIN rows : rows[i].status \in {"failed", "dlq"} /\ rows[i].retry < MAX_RETRIES}
           T == {RetryItem(i) : i \in F}
<1>0. Other \in Workers
  BY DEF Workers
<1>1. RowsInv /\ CheckpointInv /\ cursor \in Nat /\ sync \in Checkpoint
  BY <1>0, Parts
<1>2. /\ \E s \in SetToSeqs(T) : job' = [job EXCEPT ![Other] = BatchOf("retry", s)]
      /\ UNCHANGED <<script, reported, chain, rows, cursor, sync, listened, mirror, reorgs, handled, offchain>>
  BY DEF Retry, Starts, BatchOf, RetryItem
<1>3. IsFiniteSet(F) /\ F \subseteq DOMAIN rows
  BY <1>1, FS_Subset DEF RowsInv
<1>4. IsFiniteSet(T)
  <2> DEFINE f == [i \in F |-> RetryItem(i)]
  <2> HIDE DEF F
  <2>1. f \in Surjection(F, T)
    BY DEF Surjection
  <2> HIDE DEF f, T
  <2> QED  BY <1>3, <2>1, FS_Surjection
<1>5. Cardinality(T) \in Nat
  BY <1>4, FS_CardinalityType
<1>6. \A x \in T : x \in Item /\ InPlace(x) /\ x.id \in RowIds
  BY <1>1, <1>3, RetryItemFits
<1>7. PICK s \in SetToSeqs(T) : job' = [job EXCEPT ![Other] = BatchOf("retry", s)]
  BY <1>2
<1> HIDE DEF T, F
<1>8. s \in [1..Cardinality(T) -> T]
  BY DEF SetToSeqs
<1>9. s \in Seq(Item) /\ DOMAIN s = 1..Cardinality(T)
  <2>1. s \in Seq(T)
    BY <1>5, <1>8, SeqDef
  <2> QED  BY <1>6, <1>8, <2>1
<1>10. \A p \in DOMAIN s : InPlace(s[p]) /\ s[p].id \in RowIds
  BY <1>6, <1>8
<1>11. BatchOf("retry", s) \in Job /\ JobFits(BatchOf("retry", s))
  <2>1. "retry" \in Kinds
    BY DEF Kinds
  <2> QED  BY <1>9, <1>10, <2>1, BatchJob
<1>12. CheckpointInv'
  <2>1. cursor' \in Nat /\ sync' \in Checkpoint
    BY <1>1, <1>2
  <2> QED  BY <1>1, <1>2, <2>1, CheckpointsKept
<1> QED  BY <1>0, <1>2, <1>7, <1>11, <1>12, JobStep

LEMMA T_RetryNext ==
  ASSUME TInv, RetryNext
  PROVE  TInv'
<1> DEFINE j == job[Other]
           item == Head(j.batch)
           h == [Handling(j, item.idx) EXCEPT !.id = item.id, !.retry = item.retry]
<1>0. Other \in Workers
  BY DEF Workers
<1>1. /\ j \in Job /\ JobFits(j) /\ CheckpointInv /\ ScriptInv /\ mirror \in Mirror
      /\ cursor \in Nat /\ sync \in Checkpoint
  BY <1>0, Parts
<1>2. /\ j.pc = "loop" /\ j.kind = "retry" /\ j.batch # <<>> /\ job' = [job EXCEPT ![Other] = h]
      /\ UNCHANGED <<script, reported, chain, rows, cursor, sync, listened, mirror, reorgs, handled, offchain>>
  BY DEF RetryNext
<1>3. item \in Item /\ item.id \in RowIds /\ item.retry \in Nat /\ item.idx \in DOMAIN script /\ BatchFits(j)
  BY <1>1, <1>2, HeadFits, ItemFields DEF InPlace, JobFits
<1>4. h \in Job /\ JobFits(h)
  <2> DEFINE k == item.idx
             id == item.id
             n == item.retry
  <2>1. k \in DOMAIN script /\ id \in RowIds /\ n \in Nat
    BY <1>3
  <2>2. j.kind # "result" /\ j.batch # <<>> /\ BatchFits(j)
    BY <1>2, <1>3
  <2> HIDE DEF j, k, id, n
  <2>3. h = [j EXCEPT !.pc = "do", !.ev = script[k], !.todo = Todo(script[k], mirror),
                       !.read = mirror, !.id = id, !.retry = n]
    BY DEF Handling, k, id, n
  <2> HIDE DEF h
  <2> QED  BY <1>1, <2>1, <2>2, <2>3, HandlingFits
<1>5. CheckpointInv'
  <2>1. cursor' \in Nat /\ sync' \in Checkpoint
    BY <1>1, <1>2
  <2> QED  BY <1>1, <1>2, <2>1, CheckpointsKept
<1> HIDE DEF h
<1> QED  BY <1>0, <1>2, <1>4, <1>5, JobStep

LEMMA T_JobEnd ==
  ASSUME TInv, JobEnd
  PROVE  TInv'
<1>0. Other \in Workers
  BY DEF Workers
<1>1. CheckpointInv /\ cursor \in Nat /\ sync \in Checkpoint
  BY <1>0, Parts
<1>2. /\ job' = [job EXCEPT ![Other] = Idle]
      /\ UNCHANGED <<script, reported, chain, rows, cursor, sync, listened, mirror, reorgs, handled, offchain>>
  BY DEF JobEnd
<1>3. CheckpointInv'
  <2>1. cursor' \in Nat /\ sync' \in Checkpoint
    BY <1>1, <1>2
  <2> QED  BY <1>1, <1>2, <2>1, CheckpointsKept
<1> QED  BY <1>0, <1>2, <1>3, IdleFits, JobStep

LEMMA T_SubmitOffchain ==
  ASSUME TInv, NEW ev \in OffchainResults, SubmitOffchain(ev)
  PROVE  TInv'
<1> DEFINE t == Todo(ev, mirror)
           r == ResultOf(ev, mirror, t)
<1>0. Other \in Workers
  BY DEF Workers
<1>1. RowsInv /\ JobsInv /\ CheckpointInv /\ mirror \in Mirror /\ cursor \in Nat /\ sync \in Checkpoint
  BY <1>0, Parts
<1>2. /\ job' = [job EXCEPT ![Other] = r] /\ offchain' = TRUE
      /\ UNCHANGED <<script, reported, chain, rows, cursor, sync, listened, mirror, reorgs, handled>>
  BY DEF SubmitOffchain, Starts, ResultOf
<1>3. WellFormed(ev)
  BY SetupsAssumption
<1>4. t \in Seq(Writes) /\ TodoFits(t, ev, mirror)
  BY <1>1, <1>3, TodoIsFresh DEF TodoFresh
<1> HIDE DEF t
<1>5. /\ r \in Job /\ BatchFits(r) /\ r.pc = "do" /\ r.kind = "result"
      /\ r.ev = ev /\ r.read = mirror /\ r.todo = t
  BY <1>1, <1>4, ResultJob
<1> HIDE DEF r
<1>6. Keeps
  BY <1>2, StillKeeps
<1>7. ASSUME NEW j, j = r PROVE JobFits(j)'
  <2>1. BatchFits(j)'
    BY <1>5, <1>6, <1>7 DEF BatchFits, Keeps
  <2>2. HandlerFits(j)'
    BY <1>1, <1>2, <1>4, <1>5, <1>7 DEF HandlerFits
  <2> QED  BY <1>5, <1>7, <2>1, <2>2 DEF JobFits
<1>8. job' \in [Workers -> Job] /\ \A v \in Workers : job'[v] = IF v = Other THEN r ELSE job[v]
  BY <1>1, <1>2, <1>5 DEF JobsInv
<1>9. ASSUME NEW v \in Workers PROVE JobFits(job[v])'
  <2>1. JobFits(job[v]) /\ (job'[v] = r \/ job'[v] = job[v])
    BY <1>1, <1>8 DEF JobsInv
  <2>2. CASE job'[v] = r
    BY <1>7, <2>2
  <2>3. CASE job'[v] = job[v]
    BY <1>6, <2>1, <2>3, KeepsJob
  <2> QED  BY <2>1, <2>2, <2>3
<1>10. JobsInv'
  BY <1>8, <1>9 DEF JobsInv
<1>11. RowsInv'
  BY <1>1, <1>2, <1>6, RowsKept
<1>12. CheckpointInv'
  <2>1. cursor' \in Nat /\ sync' \in Checkpoint
    BY <1>1, <1>2
  <2> QED  BY <1>1, <1>2, <2>1, CheckpointsKept
<1>13. mirror' \in Mirror /\ offchain' \in BOOLEAN
  BY <1>1, <1>2
<1> QED  BY <1>2, <1>10, <1>11, <1>12, <1>13, Assemble

LEMMA T_Reindex ==
  ASSUME TInv, NEW from \in Nat, from # 0, Reindex(from)
  PROVE  TInv'
<1>0. Other \in Workers
  BY DEF Workers
<1>1. CheckpointInv /\ cursor \in Nat /\ sync \in Checkpoint
  BY <1>0, Parts
<1>2. /\ cursor' = from - 1
      /\ sync' = [ledger |-> from - 1, hash |-> NoHash] \/ sync' = sync
      /\ UNCHANGED <<script, reported, chain, rows, listened, mirror, reorgs, handled, offchain, job>>
  BY DEF Reindex
<1>3. from - 1 \in Nat /\ NoHash \in Hashes
  BY DEF Hashes
<1>4. CheckpointInv'
  <2>1. cursor' \in Nat /\ sync' \in Checkpoint
    BY <1>1, <1>2, <1>3, CheckpointType
  <2> QED  BY <1>1, <1>2, <2>1, CheckpointsKept
<1> QED  BY <1>2, <1>4, CheckpointStep

LEMMA T_Cleanup ==
  ASSUME TInv, NEW l, Cleanup(l)
  PROVE  TInv'
<1> DEFINE D == {k \in DOMAIN rows : rows[k].ledger > l \/ rows[k].status # "processed"}
<1>0. Other \in Workers
  BY DEF Workers
<1>1. RowsInv /\ JobsInv /\ CheckpointInv /\ mirror \in Mirror /\ cursor \in Nat /\ sync \in Checkpoint
  BY <1>0, Parts
<1>2. /\ rows' = [i \in D |-> rows[i]] /\ D \subseteq DOMAIN rows
      /\ UNCHANGED <<script, reported, chain, cursor, sync, listened, mirror, reorgs, handled, offchain, job>>
  BY DEF Cleanup
<1> HIDE DEF D
<1>3. Keeps
  BY <1>2, StillKeeps
<1>4. RowsInv' /\ JobsInv'
  BY <1>1, <1>2, <1>3, RowsRestricted, JobsKept
<1>5. CheckpointInv'
  <2>1. cursor' \in Nat /\ sync' \in Checkpoint
    BY <1>1, <1>2
  <2> QED  BY <1>1, <1>2, <2>1, CheckpointsKept
<1>6. mirror' \in Mirror /\ offchain' \in BOOLEAN
  BY <1>0, <1>1, <1>2, Parts
<1> QED  BY <1>2, <1>4, <1>5, <1>6, Assemble

LEMMA T_ReconcileIdle ==
  ASSUME TInv, ReconcileIdle
  PROVE  TInv'
<1>0. Other \in Workers
  BY DEF Workers
<1>1. ChainInv /\ CheckpointInv /\ cursor \in Nat /\ sync \in Checkpoint
  BY <1>0, Parts
<1> DEFINE h == HashOf(sync.ledger)
<1>2. /\ sync' = sync \/ sync' = [sync EXCEPT !.hash = h]
      /\ UNCHANGED <<script, reported, chain, rows, cursor, listened, mirror, reorgs, handled, offchain, job>>
  BY DEF ReconcileIdle
<1>3. h \in Hashes
  BY <1>1, HashType
<1> HIDE DEF h
<1>4. CheckpointInv'
  <2>1. cursor' \in Nat /\ sync' \in Checkpoint
    BY <1>1, <1>2, <1>3, CheckpointType
  <2> QED  BY <1>1, <1>2, <2>1, CheckpointsKept
<1> QED  BY <1>2, <1>4, CheckpointStep

LEMMA T_ReconcileSave ==
  ASSUME TInv, ReconcileSave
  PROVE  TInv'
<1>0. Other \in Workers
  BY DEF Workers
<1>1. CheckpointInv /\ cursor \in Nat /\ JobFits(job[Other])
  BY <1>0, Parts
<1>2. /\ job[Other].pc = "sync" /\ sync' = job[Other].sync /\ job' = [job EXCEPT ![Other] = Idle]
      /\ UNCHANGED <<script, reported, chain, rows, cursor, listened, mirror, reorgs, handled, offchain>>
  BY DEF ReconcileSave
<1>3. CheckpointInv'
  <2>1. cursor' \in Nat /\ sync' \in Checkpoint
    BY <1>1, <1>2 DEF JobFits
  <2> QED  BY <1>1, <1>2, <2>1, CheckpointsKept
<1> QED  BY <1>0, <1>2, <1>3, IdleFits, JobStep

LEMMA T_Listen ==
  ASSUME TInv, Listen
  PROVE  TInv'
<1>0. Other \in Workers
  BY DEF Workers
<1>1. ChainInv /\ cursor \in Nat /\ sync \in Checkpoint /\ sync.ledger \in Nat
  BY <1>0, Parts
<1> DEFINE n == Len(chain)
           h == Higher(sync.ledger, n)
<1>2. n \in Nat
  BY <1>1, ChainFacts
<1>3. h \in Nat
  BY <1>1, <1>2, HigherFits
<1>4. /\ sync' = sync \/ sync' = [sync EXCEPT !.ledger = h]
      /\ UNCHANGED <<script, reported, chain, rows, cursor, mirror, reorgs, handled, offchain, job>>
  BY DEF Listen
<1>5. listened' = n
  BY DEF Listen
<1>6. CheckpointInv'
  <2>1. Len(chain') = n /\ n \in 0..n
    BY <1>2, <1>4
  <2> HIDE DEF n, h
  <2>2. cursor' \in Nat /\ sync' \in Checkpoint
    BY <1>1, <1>3, <1>4, CheckpointType
  <2> QED  BY <1>5, <2>1, <2>2 DEF CheckpointInv
<1> QED  BY <1>4, <1>6, CheckpointStep

LEMMA T_Restart ==
  ASSUME TInv, Restart
  PROVE  TInv'
<1>0. Other \in Workers
  BY DEF Workers
<1>1. /\ RowsInv /\ CheckpointInv /\ mirror \in Mirror /\ offchain \in BOOLEAN
      /\ cursor \in Nat /\ sync \in Checkpoint /\ sync.ledger \in Nat
  BY <1>0, Parts
<1>2. /\ cursor' = Higher(cursor, sync.ledger) /\ job' = [w \in Workers |-> Idle]
      /\ UNCHANGED <<script, reported, chain, rows, sync, listened, mirror, reorgs, handled, offchain>>
  BY DEF Restart
<1>3. Keeps
  BY <1>2, StillKeeps
<1>4. RowsInv'
  BY <1>1, <1>2, <1>3, RowsKept
<1>5. JobsInv'
  <2>1. job' \in [Workers -> Job] /\ \A w \in Workers : job'[w] = Idle
    BY <1>2, IdleFits
  <2>2. ASSUME NEW j, j = Idle PROVE JobFits(j)'
    <3>1. JobFits(j)
      BY <2>2, IdleFits
    <3> QED  BY <1>3, <3>1, KeepsJob
  <2>3. \A w \in Workers : JobFits(job[w])'
    BY <2>1, <2>2
  <2> QED  BY <2>1, <2>3 DEF JobsInv
<1>6. CheckpointInv'
  <2>1. cursor' \in Nat /\ sync' \in Checkpoint
    BY <1>1, <1>2, HigherFits
  <2> QED  BY <1>1, <1>2, <2>1, CheckpointsKept
<1>7. mirror' \in Mirror /\ offchain' \in BOOLEAN
  BY <1>1, <1>2
<1> QED  BY <1>2, <1>4, <1>5, <1>6, <1>7, Assemble

\* What the reconciliation makes of the answer s.
LogOf(i) == IF reported THEN i.log ELSE 0
Fresh(s) == {i \in ToSet(s) : Found([i EXCEPT !.log = LogOf(i)]) = {}}
FirstOf(i, F) == \A k \in F : <<k.ledger, LogOf(k)>> = <<i.ledger, LogOf(i)>> => i.idx <= k.idx
IdsOf(F) == {<<i.ledger, LogOf(i), Other>> : i \in F}
Picks(i, k, F) == i \in F /\ FirstOf(i, F) /\ <<i.ledger, LogOf(i)>> = <<k[1], k[2]>>
PickOf(k, F) == CHOOSE i \in F : FirstOf(i, F) /\ <<i.ledger, LogOf(i)>> = <<k[1], k[2]>>
PendingOf(k, F) ==
  [ledger |-> k[1], log |-> k[2], idx |-> PickOf(k, F).idx, status |-> "pending", retry |-> 0]

LEMMA LogType ==
  ASSUME NEW i \in Item PROVE LogOf(i) \in Nat
BY ItemFields DEF LogOf

LEMMA PickExists ==
  ASSUME NEW F, F \subseteq Item, NEW k \in IdsOf(F)
  PROVE  Picks(PickOf(k, F), k, F)
<1>1. PICK e \in F : k = <<e.ledger, LogOf(e), Other>>
  BY DEF IdsOf
<1> DEFINE C == {i \in F : <<i.ledger, LogOf(i)>> = <<k[1], k[2]>>}
           N == {i.idx : i \in C}
<1>2. e \in C
  BY <1>1
<1>3. N \subseteq Nat /\ N # {}
  BY <1>2, ItemFields
<1>4. PICK n \in N : \A m \in N : n <= m
  <2> HIDE DEF N
  <2> QED  BY <1>3, NatMin
<1>5. PICK i \in C : i.idx = n
  BY <1>4
<1>6. \A x \in F : <<x.ledger, LogOf(x)>> = <<i.ledger, LogOf(i)>> => i.idx <= x.idx
  <2> SUFFICES ASSUME NEW x \in F, <<x.ledger, LogOf(x)>> = <<i.ledger, LogOf(i)>> PROVE i.idx <= x.idx
    OBVIOUS
  <2>1. x \in C
    BY <1>5
  <2>2. x.idx \in N
    BY <2>1
  <2> QED  BY <1>4, <1>5, <2>2
<1>7. i \in F /\ FirstOf(i, F) /\ <<i.ledger, LogOf(i)>> = <<k[1], k[2]>>
  BY <1>5, <1>6 DEF FirstOf
<1> HIDE DEF C, N
<1> QED  BY <1>7 DEF Picks, PickOf

LEMMA PendingFits ==
  ASSUME NEW F, F \subseteq Item, \A i \in F : InPlace(i), NEW k \in IdsOf(F)
  PROVE  /\ k \in RowIds /\ PendingOf(k, F) \in Row /\ InPlace(PendingOf(k, F))
         /\ PendingOf(k, F).status = "pending"
<1> DEFINE i == PickOf(k, F)
           r == PendingOf(k, F)
<1>1. i \in F /\ <<i.ledger, LogOf(i)>> = <<k[1], k[2]>>
  BY PickExists DEF Picks
<1>2. i \in Item /\ InPlace(i)
  BY <1>1
<1>3. r = [ledger |-> k[1], log |-> k[2], idx |-> i.idx, status |-> "pending", retry |-> 0]
  BY DEF PendingOf
<1> HIDE DEF i
<1>4. k[1] = i.ledger /\ k[2] = LogOf(i)
  BY <1>1
<1>5. k[1] \in Nat /\ k[2] \in Nat /\ i.idx \in Nat
  BY <1>2, <1>4, ItemFields, LogType
<1>6. k \in RowIds
  <2>1. PICK e \in F : k = <<e.ledger, LogOf(e), Other>>
    BY DEF IdsOf
  <2>2. e.ledger \in Nat /\ LogOf(e) \in Nat
    BY ItemFields, LogType
  <2> QED  BY <2>1, <2>2 DEF RowIds, Workers
<1> HIDE DEF r
<1>7. r \in Row
  BY <1>3, <1>5 DEF Row, Statuses
<1>8. r.ledger = k[1] /\ r.log = k[2] /\ r.idx = i.idx /\ r.status = "pending"
  BY <1>3
<1>9. InPlace(r)
  BY <1>2, <1>4, <1>8 DEF InPlace, LogOf
<1> QED  BY <1>6, <1>7, <1>8, <1>9 DEF r

LEMMA FreshFits ==
  ASSUME NEW s \in Seq(Item)
  PROVE  Fresh(s) \subseteq Item /\ IsFiniteSet(Fresh(s)) /\ IsFiniteSet(IdsOf(Fresh(s)))
<1>1. Len(s) \in Nat /\ DOMAIN s = 1..Len(s) /\ \A p \in DOMAIN s : s[p] \in Item
  OBVIOUS
<1>2. ToSet(s) \subseteq Item /\ Fresh(s) \subseteq ToSet(s)
  BY <1>1 DEF ToSet, Fresh
<1>3. IsFiniteSet(ToSet(s))
  <2> DEFINE f == [p \in DOMAIN s |-> s[p]]
  <2>1. f \in Surjection(DOMAIN s, ToSet(s))
    BY <1>1 DEF Surjection, ToSet
  <2>2. IsFiniteSet(DOMAIN s)
    BY <1>1, IntervalSize
  <2> HIDE DEF f
  <2> QED  BY <2>1, <2>2, FS_Surjection
<1>4. IsFiniteSet(Fresh(s))
  BY <1>2, <1>3, FS_Subset
<1>5. IsFiniteSet(IdsOf(Fresh(s)))
  <2> DEFINE F == Fresh(s)
             f == [i \in F |-> <<i.ledger, LogOf(i), Other>>]
  <2> HIDE DEF F
  <2>1. f \in Surjection(F, IdsOf(F))
    BY DEF Surjection, IdsOf
  <2>2. IsFiniteSet(F)
    BY <1>4 DEF F
  <2> HIDE DEF f
  <2>3. IsFiniteSet(IdsOf(F))
    BY <2>1, <2>2, FS_Surjection
  <2> QED  BY <2>3 DEF F
<1> QED  BY <1>2, <1>4, <1>5

LEMMA PendingSaved ==
  ASSUME RowsInv, Keeps, NEW F, F \subseteq Item, \A i \in F : InPlace(i), IsFiniteSet(IdsOf(F)),
         rows' = [k \in DOMAIN rows \cup IdsOf(F) |-> IF k \in IdsOf(F) THEN PendingOf(k, F) ELSE rows[k]]
  PROVE  RowsInv'
<1> DEFINE I == IdsOf(F)
<1>1. /\ DOMAIN rows' = DOMAIN rows \cup I
      /\ \A k \in DOMAIN rows' : rows'[k] = IF k \in I THEN PendingOf(k, F) ELSE rows[k]
  OBVIOUS
<1>2. \A k \in I : k \in RowIds /\ PendingOf(k, F) \in Row /\ InPlace(PendingOf(k, F)) /\ PendingOf(k, F).status = "pending"
  BY PendingFits
<1>3. IsFiniteSet(I)
  OBVIOUS
<1> HIDE DEF I
<1>4. IsFiniteSet(DOMAIN rows') /\ DOMAIN rows' \subseteq RowIds
  BY <1>1, <1>2, <1>3, FS_Union DEF RowsInv
<1>5. rows' = [k \in DOMAIN rows' |-> rows'[k]]
  BY <1>1 DEF I
<1>6. ASSUME NEW k \in DOMAIN rows' PROVE RowFits(rows[k])'
  <2>1. CASE k \in I
    <3>1. ASSUME NEW r \in Row, InPlace(r), r.status = "pending" PROVE RowFits(r)'
      <4>1. Failures(r.status, r.retry) /\ (r.status = "processed" => r.idx \in handled')
        BY <3>1 DEF Failures
      <4> QED  BY <3>1, <4>1, NewRowFits
    <3>2. rows'[k] \in Row /\ InPlace(rows'[k]) /\ rows'[k].status = "pending"
      BY <1>1, <1>2, <2>1
    <3> QED  BY <3>1, <3>2
  <2>2. CASE k \notin I
    BY <1>1, <2>2, KeepsRow DEF RowsInv
  <2> QED  BY <2>1, <2>2
<1> QED  BY <1>4, <1>5, <1>6 DEF RowsInv

LEMMA T_Reconcile ==
  ASSUME TInv, Reconcile
  PROVE  TInv'
<1> DEFINE s == Limited(Events(sync.ledger + 1))
           F == Fresh(s)
           c == [ledger |-> Len(chain), hash |-> HashOf(Len(chain))]
           r == SyncOf(c)
<1>0. Other \in Workers
  BY DEF Workers
<1>1. ChainInv /\ RowsInv /\ CheckpointInv /\ cursor \in Nat /\ sync \in Checkpoint /\ sync.ledger \in Nat
  BY <1>0, Parts
<1>2. /\ job' = [job EXCEPT ![Other] = r]
      /\ UNCHANGED <<script, reported, chain, cursor, sync, listened, mirror, reorgs, handled, offchain>>
  BY DEF Reconcile, Starts, SyncOf
<1>3. \/ rows' = [k \in DOMAIN rows \cup IdsOf(F) |-> IF k \in IdsOf(F) THEN PendingOf(k, F) ELSE rows[k]]
      \/ rows' = rows
  BY DEF Reconcile, IdsOf, PendingOf, PickOf, FirstOf, LogOf, Fresh
<1>4. s \in Seq(Item) /\ \A p \in DOMAIN s : InPlace(s[p])
  BY <1>1, LimitedInPlace
<1> HIDE DEF s
<1>5. F \subseteq Item /\ IsFiniteSet(IdsOf(F))
  BY <1>4, FreshFits
<1>6. \A i \in F : InPlace(i)
  BY <1>4 DEF Fresh, ToSet
<1>7. Keeps
  BY <1>2, StillKeeps
<1>8. RowsInv'
  <2> HIDE DEF F
  <2>1. CASE rows' = rows
    BY <1>1, <1>7, <2>1, RowsKept
  <2>2. CASE rows' = [k \in DOMAIN rows \cup IdsOf(F) |-> IF k \in IdsOf(F) THEN PendingOf(k, F) ELSE rows[k]]
    BY <1>1, <1>5, <1>6, <1>7, <2>2, PendingSaved
  <2> QED  BY <1>3, <2>1, <2>2
<1>9. c \in Checkpoint
  BY <1>1, ChainFacts, HashType, CheckpointType
<1> HIDE DEF c
<1>10. r \in Job /\ JobFits(r)
  BY <1>9, SyncJob
<1> HIDE DEF r
<1>11. CheckpointInv'
  <2>1. cursor' \in Nat /\ sync' \in Checkpoint
    BY <1>1, <1>2
  <2> QED  BY <1>1, <1>2, <2>1, CheckpointsKept
<1> QED  BY <1>0, <1>2, <1>7, <1>8, <1>10, <1>11, RowStep

LEMMA T_Stutter ==
  ASSUME TInv, UNCHANGED vars
  PROVE  TInv'
<1>1. /\ UNCHANGED <<script, reported, chain, reorgs, rows, mirror, handled, offchain, job>>
      /\ UNCHANGED <<cursor, sync, listened>>
  BY DEF vars
<1>2. CheckpointInv'
  BY <1>1 DEF CheckpointInv, TInv
<1> QED  BY <1>1, <1>2, CheckpointStep

LEMMA T_Init ==
  ASSUME Init
  PROVE  TInv
<1>1. /\ ScriptInv /\ chain = <<>> /\ rows = [i \in {} |-> NoRow] /\ cursor = 0
      /\ sync = [ledger |-> 0, hash |-> NoHash] /\ listened = 0 /\ mirror = EmptyMirror
      /\ job = [w \in Workers |-> Idle] /\ reorgs = 0 /\ offchain = FALSE
  BY DEF Init, ScriptInv
<1>2. ChainInv
  BY <1>1 DEF ChainInv
<1>3. RowsInv
  <2>1. DOMAIN rows = {} /\ rows = [i \in DOMAIN rows |-> rows[i]]
    BY <1>1
  <2> QED  BY <2>1, FS_EmptySet DEF RowsInv
<1>4. CheckpointInv
  <2>1. sync \in Checkpoint
    BY <1>1, CheckpointType DEF Hashes
  <2>2. Len(chain) = 0
    BY <1>1
  <2> QED  BY <1>1, <2>1, <2>2 DEF CheckpointInv
<1>5. JobsInv
  BY <1>1, IdleFits DEF JobsInv
<1> QED  BY <1>1, <1>2, <1>3, <1>4, <1>5, EmptyMirrorType DEF TInv

\* The steps of a worker, and the steps next to them.
LEMMA NextCases ==
  ASSUME [Next]_vars
  PROVE  \/ \E n \in Nat : Produce(n) \/ Reorg(n)
         \/ \E w \in Workers : \/ Rewind(w) \/ Lookup(w) \/ Store(w) \/ StoreFails(w) \/ Write(w)
                               \/ Close(w) \/ Throws(w)
         \/ RollBack(Poller, "poll") \/ PollFetch \/ FetchFails \/ PollEnd
         \/ RetryNext \/ JobEnd \/ Retry \/ Reconcile \/ ReconcileIdle \/ ReconcileSave
         \/ RollBack(Other, "reconcile") \/ Listen \/ Restart
         \/ \E l \in Nat : l # 0 /\ (Reindex(l) \/ Cleanup(l) \/ \E k \in Nat : Backfill(l, k))
         \/ \E ev \in OffchainResults : SubmitOffchain(ev)
         \/ UNCHANGED vars
<1>0. Poller \in Workers /\ Other \in Workers /\ MaxLedgers \in Nat
  BY IndexerAssumption DEF Workers
<1>1. CASE \E n \in 0..2 : Produce(n) \/ Reorg(n)
  BY <1>1
<1>2. CASE Poll
  BY <1>0, <1>2 DEF Poll, PollRollBack
<1>3. CASE \E w \in Workers : StoreFails(w)
  BY <1>3
<1>4. CASE \E l \in 1..MaxLedgers : Reindex(l) \/ Cleanup(l) \/ \E k \in l..MaxLedgers : Backfill(l, k)
  <2>1. PICK l \in 1..MaxLedgers : Reindex(l) \/ Cleanup(l) \/ \E k \in l..MaxLedgers : Backfill(l, k)
    BY <1>4
  <2>2. l \in Nat /\ l # 0 /\ \A k \in l..MaxLedgers : k \in Nat
    BY <1>0
  <2>3. \E k \in Nat : k # 0 /\ (Reindex(k) \/ Cleanup(k) \/ \E m \in Nat : Backfill(k, m))
    BY <2>1, <2>2
  <2> QED  BY <2>3
<1>5. CASE ReconcileRollBack
  BY <1>5 DEF ReconcileRollBack
<1>6. CASE \/ Lookup(Other) \/ Store(Other) \/ Write(Other) \/ Close(Other) \/ Throws(Other) \/ Rewind(Other)
  BY <1>0, <1>6
<1>7. CASE \/ FetchFails \/ RetryNext \/ JobEnd \/ Retry \/ Reconcile \/ ReconcileIdle \/ ReconcileSave
           \/ Listen \/ Restart \/ UNCHANGED vars \/ \E ev \in OffchainResults : SubmitOffchain(ev)
  BY <1>7
<1> QED  BY <1>1, <1>2, <1>3, <1>4, <1>5, <1>6, <1>7 DEF Next

\* The first layer: Init establishes it and every step preserves it.
LEMMA T_Next ==
  ASSUME TInv, [Next]_vars
  PROVE  TInv'
<1>0. Poller \in Workers /\ Other \in Workers
  BY DEF Workers
<1>1. CASE \E n \in Nat : Produce(n) \/ Reorg(n)
  BY <1>1, T_Produce, T_Reorg
<1>2. CASE \E w \in Workers : Rewind(w) \/ Lookup(w) \/ Store(w) \/ StoreFails(w)
  BY <1>2, T_Rewind, T_Lookup, T_Store, T_StoreFails
<1>3. CASE \E w \in Workers : Write(w) \/ Close(w) \/ Throws(w)
  BY <1>3, T_Write, T_Close, T_Throws
<1>4. CASE RollBack(Poller, "poll") \/ RollBack(Other, "reconcile")
  BY <1>0, <1>4, T_RollBack
<1>5. CASE PollFetch \/ FetchFails \/ PollEnd
  BY <1>5, T_PollFetch, T_FetchFails, T_PollEnd
<1>6. CASE RetryNext \/ JobEnd \/ Retry
  BY <1>6, T_RetryNext, T_JobEnd, T_Retry
<1>7. CASE Reconcile \/ ReconcileIdle \/ ReconcileSave
  BY <1>7, T_Reconcile, T_ReconcileIdle, T_ReconcileSave
<1>8. CASE Listen \/ Restart \/ UNCHANGED vars
  BY <1>8, T_Listen, T_Restart, T_Stutter
<1>9. CASE \E l \in Nat : l # 0 /\ (Reindex(l) \/ Cleanup(l) \/ \E k \in Nat : Backfill(l, k))
  BY <1>9, T_Reindex, T_Cleanup, T_Backfill
<1>10. CASE \E ev \in OffchainResults : SubmitOffchain(ev)
  BY <1>10, T_SubmitOffchain
<1> QED  BY <1>1, <1>2, <1>3, <1>4, <1>5, <1>6, <1>7, <1>8, <1>9, <1>10, NextCases

LEMMA Typed == Spec => []TInv
<1>1. Init => TInv
  BY T_Init
<1>2. TInv /\ [Next]_vars => TInv'
  BY T_Next
<1> QED  BY <1>1, <1>2, PTL DEF Spec

LEMMA TypesFollow ==
  ASSUME TInv
  PROVE  TypeOK
<1>1. cursor \in Nat /\ sync.ledger \in Nat /\ listened \in 0..Len(chain) /\ RowsInv /\ mirror \in Mirror
  BY Parts DEF Workers, CheckpointInv
<1>2. ASSUME NEW i \in DOMAIN rows
      PROVE  /\ rows[i].status \in {"pending", "processed", "failed", "dlq"} /\ rows[i].retry \in Nat
             /\ rows[i].status = "dlq" => rows[i].retry >= DLQ_THRESHOLD
             /\ rows[i].status = "failed" => rows[i].retry < DLQ_THRESHOLD
  BY <1>1, RowFields DEF Statuses, Failures
<1>3. ASSUME NEW w \in Workers
      PROVE  /\ job[w].pc \in {"idle", "rewind", "fetch", "loop", "store", "do", "sync"}
             /\ job[w].kind \in {"poll", "backfill", "retry", "result", "reconcile"}
  BY Parts, JobFields DEF Places, Kinds
<1>4. ASSUME NEW e \in EventIds
      PROVE  mirror.event[e].match_count \in Nat /\ mirror.event[e].participant_count \in Nat
  <2>1. mirror.event[e] \in EventRow
    BY <1>1, MirrorFields
  <2> QED  BY <2>1 DEF EventRow
<1>5. \A k \in Users : mirror.reputation[k] \in Nat
  BY <1>1, MirrorFields
<1> QED  BY <1>1, <1>2, <1>3, <1>4, <1>5 DEF TypeOK

-----------------------------------------------------------------------------
\* Checkpoints, rows and counters keep their types, a reputation is never
\* negative, and a row is a dead letter exactly when it failed often enough,
\* whatever the poll and the other job save over each other.
THEOREM TypeCorrect == Spec => []TypeOK
BY Typed, TypesFollow, PTL

-----------------------------------------------------------------------------
(* The second layer, action by action. *)

\* A ledger that was read stays so.
StaysRead ==
  /\ gaps \subseteq gaps' /\ handled \subseteq handled'
  /\ \A k \in DOMAIN chain : k \in gaps' \/ (k \in DOMAIN chain' /\ chain'[k] = chain[k])

LEMMA ReadKept ==
  ASSUME StaysRead, NEW l, NEW b, Read(l, b)
  PROVE  Read(l, b)'
BY DEF StaysRead, Read

LEMMA LoopKept ==
  ASSUME StaysRead, NEW j, LoopCovers(j), NEW n, n.top = j.top, n.batch = j.batch
  PROVE  LoopCovers(n)'
<1>1. \A l, b : Read(l, b) => Read(l, b)'
  BY ReadKept
<1> HIDE DEF StaysRead
<1> QED  BY <1>1 DEF LoopCovers

\* What the second layer needs of a step.
LEMMA C_Step ==
  ASSUME CInv, StaysRead, \A l \in 1..cursor' : l \in 1..cursor \/ l \in gaps',
         job'[Poller].pc \in {"loop", "store", "do"} =>
           \/ LoopCovers(job[Poller])'
           \/ /\ job[Poller].pc \in {"loop", "store", "do"}
              /\ job'[Poller].top = job[Poller].top /\ job'[Poller].batch = job[Poller].batch
  PROVE  CInv'
<1>1. ASSUME NEW l \in 1..cursor' PROVE Read(l, <<>>)'
  <2>1. CASE l \in 1..cursor
    <3>1. Read(l, <<>>)
      BY <2>1 DEF CInv
    <3> QED  BY <3>1, ReadKept
  <2>2. CASE l \in gaps'
    BY <2>2 DEF Read
  <2> QED  BY <2>1, <2>2
<1>2. ASSUME job'[Poller].pc \in {"loop", "store", "do"} PROVE LoopCovers(job[Poller])'
  <2>1. CASE /\ job[Poller].pc \in {"loop", "store", "do"}
             /\ job'[Poller].top = job[Poller].top /\ job'[Poller].batch = job[Poller].batch
    <3>1. LoopCovers(job[Poller])
      BY <2>1 DEF CInv
    <3> QED  BY <2>1, <3>1, LoopKept
  <2> QED  BY <1>2, <2>1
<1> QED  BY <1>1, <1>2 DEF CInv

\* A step of the other job.
LEMMA C_Other ==
  ASSUME CInv, gaps \subseteq gaps', handled \subseteq handled',
         UNCHANGED <<chain, cursor>>, job'[Poller] = job[Poller]
  PROVE  CInv'
<1>1. StaysRead
  BY DEF StaysRead
<1> HIDE DEF StaysRead
<1> QED  BY <1>1, C_Step

LEMMA OtherSet ==
  ASSUME TInv, NEW j, job' = [job EXCEPT ![Other] = j]
  PROVE  job'[Poller] = job[Poller]
<1>1. DOMAIN job = Workers /\ Poller # Other
  BY IndexerAssumption, Parts DEF Workers
<1> QED  BY <1>1 DEF Workers

LEMMA PollerSet ==
  ASSUME TInv, NEW j, job' = [job EXCEPT ![Poller] = j]
  PROVE  job'[Poller] = j
<1>1. DOMAIN job = Workers
  BY Parts DEF Workers
<1> QED  BY <1>1 DEF Workers

\* The head of the batch is handled, or its ledger counts as a gap.
LEMMA PopRead ==
  ASSUME NEW l, NEW b \in Seq(Item), b # <<>>, Read(l, b)',
         Head(b).idx \in handled' \/ Head(b).ledger \in gaps'
  PROVE  Read(l, Tail(b))'
<1>1. /\ 1 \in DOMAIN b /\ Head(b) = b[1]
      /\ \A p \in DOMAIN b : p # 1 => p - 1 \in DOMAIN Tail(b) /\ Tail(b)[p - 1] = b[p]
  BY HeadTail
<1>2. CASE l \in gaps'
  BY <1>2 DEF Read
<1>3. CASE l \notin gaps'
  <2>1. l \in DOMAIN chain'
    BY <1>3 DEF Read
  <2>2. ASSUME NEW i \in DOMAIN chain'[l].evs
        PROVE  \/ chain'[l].evs[i] \in handled'
               \/ \E p \in DOMAIN Tail(b) : Tail(b)[p].ledger = l /\ Tail(b)[p].idx = chain'[l].evs[i]
    <3>1. CASE chain'[l].evs[i] \in handled'
      BY <3>1
    <3>2. CASE chain'[l].evs[i] \notin handled'
      <4>1. PICK p \in DOMAIN b : b[p].ledger = l /\ b[p].idx = chain'[l].evs[i]
        BY <1>3, <3>2 DEF Read
      <4>2. p # 1
        BY <1>1, <1>3, <3>2, <4>1
      <4>3. p - 1 \in DOMAIN Tail(b) /\ Tail(b)[p - 1] = b[p]
        BY <1>1, <4>2
      <4> QED  BY <4>1, <4>3
    <3> QED  BY <3>1, <3>2
  <2> QED  BY <2>1, <2>2 DEF Read
<1> QED  BY <1>2, <1>3

LEMMA PopCovers ==
  ASSUME StaysRead, NEW j \in Job, j.batch # <<>>, LoopCovers(j),
         Head(j.batch).idx \in handled' \/ Head(j.batch).ledger \in gaps',
         NEW n, n.batch = Tail(j.batch), n.top \in {j.top, Higher(j.top, Head(j.batch).ledger)}
  PROVE  LoopCovers(n)'
<1> DEFINE b == j.batch
           t == Tail(b)
<1>0. b \in Seq(Item) /\ j.top \in Nat /\ b # <<>>
  BY JobFields
<1>1. /\ 1 \in DOMAIN b /\ Head(b) = b[1]
      /\ \A p \in DOMAIN t : p + 1 \in DOMAIN b /\ t[p] = b[p + 1]
  BY <1>0, HeadTail
<1>2. ASSUME NEW l, Read(l, b) PROVE Read(l, t)'
  <2>1. Read(l, b)'
    BY <1>2, ReadKept
  <2> QED  BY <1>0, <2>1, PopRead
<1>3. n.top = j.top \/ n.top = b[1].ledger
  BY <1>1 DEF Higher
<1>4. /\ \A l \in 1..j.top : Read(l, b)
      /\ \A p \in DOMAIN b : \A l \in 1..b[p].ledger : Read(l, b)
  BY DEF LoopCovers
<1>5. n.batch = t
  OBVIOUS
<1> HIDE DEF b, t
<1>6. \A l \in 1..n.top : Read(l, t)'
  BY <1>1, <1>2, <1>3, <1>4
<1>7. \A p \in DOMAIN t : \A l \in 1..t[p].ledger : Read(l, t)'
  BY <1>1, <1>2, <1>4
<1> QED  BY <1>5, <1>6, <1>7 DEF LoopCovers

\* A processed row where the item belongs is the item's own, unless the RPC
\* reports no positions or a ledger was replaced.
LEMMA ProcessedHandled ==
  ASSUME RowsInv, NEW item, InPlace(item), reported, reorgs = 0,
         NEW i \in Found(item), rows[i].status = "processed"
  PROVE  item.idx \in handled
<1>1. i \in DOMAIN rows /\ rows[i].ledger = item.ledger /\ rows[i].log = item.log
  BY DEF Found
<1>2. InPlace(rows[i]) /\ rows[i].idx \in handled
  BY <1>1 DEF RowsInv, RowFits
<1>3. rows[i].idx = item.idx
  BY <1>1, <1>2 DEF InPlace
<1> QED  BY <1>2, <1>3

LEMMA C_Produce ==
  ASSUME TInv, CInv, NEW n \in Nat, Produce(n)
  PROVE  CInv'
<1>1. chain \in Seq(LedgerRecord)
  BY Parts DEF Workers, ChainInv
<1>2. /\ \E x : chain' = Append(chain, x)
      /\ UNCHANGED <<cursor, job, handled, gaps>>
  BY DEF Produce
<1>3. \A k \in DOMAIN chain : k \in DOMAIN chain' /\ chain'[k] = chain[k]
  BY <1>1, <1>2
<1>4. StaysRead
  BY <1>2, <1>3 DEF StaysRead
<1> HIDE DEF StaysRead
<1> QED  BY <1>2, <1>4, C_Step

LEMMA C_Reorg ==
  ASSUME TInv, CInv, NEW n \in Nat, Reorg(n)
  PROVE  CInv'
<1>1. /\ \E x : chain' = [chain EXCEPT ![Len(chain)] = x]
      /\ gaps' = gaps \cup {Len(chain)} /\ UNCHANGED <<cursor, job, handled>>
  BY DEF Reorg
<1>2. StaysRead
  BY <1>1 DEF StaysRead
<1> HIDE DEF StaysRead
<1> QED  BY <1>1, <1>2, C_Step

LEMMA C_RollBack ==
  ASSUME TInv, CInv, NEW w \in Workers, NEW k \in {"poll", "reconcile"}, RollBack(w, k)
  PROVE  CInv'
<1> DEFINE r == RewindOf(k, Fork)
<1>1. job' = [job EXCEPT ![w] = r] /\ UNCHANGED <<chain, cursor, handled, gaps>>
  BY DEF RollBack, RewindOf
<1>2. k \in Kinds /\ k # "result"
  BY DEF Kinds
<1>3. r.pc = "rewind"
  BY <1>2, ForkType, RewindJob
<1> HIDE DEF r
<1>4. StaysRead
  BY <1>1 DEF StaysRead
<1>5. CASE w = Other
  BY <1>1, <1>5, OtherSet, C_Other
<1>6. CASE w = Poller
  <2>1. job'[Poller] = r
    BY <1>1, <1>6, PollerSet
  <2> HIDE DEF StaysRead
  <2> QED  BY <1>1, <1>3, <1>4, <2>1, C_Step
<1> QED  BY <1>5, <1>6 DEF Workers

LEMMA C_Rewind ==
  ASSUME TInv, CInv, NEW w \in Workers, Rewind(w)
  PROVE  CInv'
<1> DEFINE r == IF job[w].kind = "poll" THEN FetchOf ELSE Idle
<1>1. /\ cursor' = job[w].top /\ job' = [job EXCEPT ![w] = r]
      /\ gaps' = gaps \cup (cursor + 1 .. job[w].top)
      /\ UNCHANGED <<chain, handled>>
  BY Parts DEF Rewind, FetchOf
<1>2. job[w].pc = "rewind"
  BY DEF Rewind
<1>3. r.pc \in {"fetch", "idle"}
  BY FetchJob, IdleFits
<1> HIDE DEF r
<1>4. StaysRead
  BY <1>1 DEF StaysRead
<1>5. \A l \in 1..cursor' : l \in 1..cursor \/ l \in gaps'
  <2>1. cursor \in Nat /\ job[w].top \in Nat
    BY Parts, JobFields
  <2> DEFINE a == cursor
             b == job[w].top
  <2>2. a \in Nat /\ b \in Nat /\ cursor' = b /\ (a + 1 .. b) \subseteq gaps'
    BY <1>1, <2>1
  <2> HIDE DEF a, b
  <2>3. \A l \in 1..b : l \in 1..a \/ l \in gaps'
    BY <2>2
  <2> QED  BY <2>2, <2>3 DEF a
<1>6. job'[Poller] = r \/ job'[Poller] = job[Poller]
  BY <1>1, OtherSet, PollerSet DEF Workers
<1> HIDE DEF StaysRead
<1> QED  BY <1>3, <1>4, <1>5, <1>6, C_Step

LEMMA C_FetchFails ==
  ASSUME TInv, CInv, FetchFails
  PROVE  CInv'
<1> DEFINE c == cursor + 1
           r == FailedOf(c)
<1>0. cursor \in Nat /\ Poller \in Workers
  BY Parts DEF Workers
<1>1. /\ job' = [job EXCEPT ![Poller] = r] /\ gaps' = gaps \cup {c}
      /\ UNCHANGED <<chain, cursor, handled>>
  BY DEF FetchFails, FailedOf
<1>2. c \in Nat /\ \A l \in 1..c : l \in 1..cursor \/ l = c
  BY <1>0
<1> HIDE DEF c
<1>3. r.top = c /\ r.batch = <<>>
  BY <1>2, FailedJob
<1> HIDE DEF r
<1>4. job'[Poller].top = c /\ job'[Poller].batch = <<>>
  BY <1>1, <1>3, PollerSet
<1>5. StaysRead
  BY <1>1 DEF StaysRead
<1>6. ASSUME NEW l \in 1..c PROVE Read(l, <<>>)'
  <2>1. CASE l \in 1..cursor
    BY <1>5, <2>1, ReadKept DEF CInv
  <2>2. CASE l = c
    BY <1>1, <2>2 DEF Read
  <2> QED  BY <1>2, <2>1, <2>2
<1>7. LoopCovers(job[Poller])'
  BY <1>4, <1>6 DEF LoopCovers
<1> HIDE DEF StaysRead
<1> QED  BY <1>1, <1>5, <1>7, C_Step

LEMMA C_PollEnd ==
  ASSUME TInv, CInv, PollEnd
  PROVE  CInv'
<1>1. /\ job[Poller].pc = "loop" /\ job[Poller].batch = <<>> /\ cursor' = job[Poller].top
      /\ job' = [job EXCEPT ![Poller] = Idle] /\ UNCHANGED <<chain, handled, gaps>>
  BY DEF PollEnd
<1>2. job'[Poller].pc = "idle"
  BY <1>1, PollerSet, IdleFits
<1>3. StaysRead
  BY <1>1 DEF StaysRead
<1>4. LoopCovers(job[Poller])
  BY <1>1 DEF CInv
<1>5. ASSUME NEW l \in 1..cursor' PROVE Read(l, <<>>)'
  <2>1. Read(l, <<>>)
    BY <1>1, <1>4 DEF LoopCovers
  <2> QED  BY <1>3, <2>1, ReadKept
<1> QED  BY <1>2, <1>5 DEF CInv

LEMMA C_Reindex ==
  ASSUME TInv, CInv, NEW from \in Nat, from # 0, Reindex(from)
  PROVE  CInv'
<1> DEFINE a == cursor
           b == from - 1
<1>1. /\ cursor' = b /\ gaps' = gaps \cup (a + 1 .. b) /\ UNCHANGED <<chain, handled, job>>
  BY DEF Reindex
<1>2. a \in Nat /\ b \in Nat
  BY Parts DEF Workers
<1>3. StaysRead
  BY <1>1 DEF StaysRead
<1>4. \A l \in 1..cursor' : l \in 1..cursor \/ l \in gaps'
  <2> HIDE DEF a, b
  <2>1. \A l \in 1..b : l \in 1..a \/ l \in (a + 1 .. b)
    BY <1>2
  <2> QED  BY <1>1, <2>1 DEF a
<1> HIDE DEF StaysRead
<1> QED  BY <1>1, <1>3, <1>4, C_Step

LEMMA C_Restart ==
  ASSUME TInv, CInv, Restart
  PROVE  CInv'
<1> DEFINE a == cursor
           b == sync.ledger
<1>1. /\ cursor' = Higher(a, b) /\ gaps' = gaps \cup (a + 1 .. b) /\ UNCHANGED <<chain, handled>>
      /\ job' = [w \in Workers |-> Idle]
  BY DEF Restart
<1>2. a \in Nat /\ b \in Nat
  BY Parts DEF Workers
<1>3. StaysRead
  BY <1>1 DEF StaysRead
<1>4. \A l \in 1..cursor' : l \in 1..cursor \/ l \in gaps'
  <2> HIDE DEF a, b
  <2>1. \A l \in 1..b : l \in 1..a \/ l \in (a + 1 .. b)
    BY <1>2
  <2>2. Higher(a, b) = a \/ Higher(a, b) = b
    BY DEF Higher
  <2>3. \A l \in 1..cursor' : l \in 1..a \/ l \in gaps'
    BY <1>1, <2>1, <2>2
  <2> QED  BY <2>3 DEF a
<1>5. job'[Poller].pc = "idle"
  BY <1>1, IdleFits DEF Workers
<1> HIDE DEF StaysRead
<1> QED  BY <1>3, <1>4, <1>5, C_Step

\* The handlers, the lookup and the insert, of either worker.
LEMMA C_Worker ==
  ASSUME TInv, CInv, gaps \subseteq gaps', handled \subseteq handled', UNCHANGED <<chain, cursor>>,
         NEW w \in Workers, job[w].pc \in {"loop", "store", "do"}, NEW n, job' = [job EXCEPT ![w] = n],
         \/ n.pc = "idle"
         \/ n.top = job[w].top /\ n.batch = job[w].batch
         \/ /\ job[w].batch # <<>> /\ n.batch = Tail(job[w].batch)
            /\ n.top \in {job[w].top, Higher(job[w].top, Head(job[w].batch).ledger)}
            /\ Head(job[w].batch).idx \in handled' \/ Head(job[w].batch).ledger \in gaps'
  PROVE  CInv'
<1>1. CASE w = Other
  <2>1. job'[Poller] = job[Poller]
    BY <1>1, OtherSet
  <2> QED  BY <2>1, C_Other
<1>2. CASE w = Poller
  <2>1. job'[Poller] = n
    BY <1>2, PollerSet
  <2>2. LoopCovers(job[Poller])
    BY <1>2 DEF CInv
  <2>3. StaysRead
    BY DEF StaysRead
  <2>4. job[Poller] \in Job
    BY Parts DEF Workers
  <2> HIDE DEF StaysRead
  <2>5. CASE n.pc = "idle"
    BY <2>1, <2>3, <2>5, C_Step
  <2>6. CASE n.top = job[w].top /\ n.batch = job[w].batch
    BY <1>2, <2>1, <2>3, <2>6, C_Step
  <2>7. CASE /\ job[w].batch # <<>> /\ n.batch = Tail(job[w].batch)
             /\ n.top \in {job[w].top, Higher(job[w].top, Head(job[w].batch).ledger)}
             /\ Head(job[w].batch).idx \in handled' \/ Head(job[w].batch).ledger \in gaps'
    <3>1. LoopCovers(job[Poller])'
      BY <1>2, <2>1, <2>2, <2>3, <2>4, <2>7, PopCovers
    <3> QED  BY <2>3, <3>1, C_Step
  <2> QED  BY <2>5, <2>6, <2>7
<1> QED  BY <1>1, <1>2 DEF Workers

LEMMA C_Lookup ==
  ASSUME TInv, CInv, NEW w \in Workers, Lookup(w)
  PROVE  CInv'
<1> DEFINE j == job[w]
           item == Head(j.batch)
<1>0. /\ j \in Job /\ JobFits(j) /\ RowsInv /\ j.pc = "loop" /\ j.batch # <<>>
  BY Parts, LookupCases
<1>1. UNCHANGED <<chain, cursor, handled>>
  BY LookupCases
<1>2. item \in Item /\ item.ledger \in Nat /\ item.log \in Nat /\ j.kind # "result" /\ InPlace(item)
  BY <1>0, HeadFits, ItemFields DEF JobFits
<1>3. ASSUME gaps' = gaps, job' = [job EXCEPT ![w] = InsertOf(j, <<item.ledger, item.log, w>>)]
      PROVE  CInv'
  <2> DEFINE id == <<item.ledger, item.log, w>>
             n == InsertOf(j, id)
  <2>1. id \in RowIds
    BY <1>2 DEF RowIds
  <2>2. job' = [job EXCEPT ![w] = n]
    BY <1>3
  <2> HIDE DEF id
  <2>3. n.top = j.top /\ n.batch = j.batch
    <3> HIDE DEF j
    <3> QED  BY <1>0, <1>2, <2>1, InsertJob
  <2> HIDE DEF n
  <2> QED  BY <1>0, <1>1, <1>3, <2>2, <2>3, C_Worker
<1>4. ASSUME gaps' = gaps, NEW i \in Found(item), rows[i].status # "processed",
             job' = [job EXCEPT ![w] = UpdateOf(j, i, rows[i].status, rows[i].retry)]
      PROVE  CInv'
  <2> DEFINE n == UpdateOf(j, i, rows[i].status, rows[i].retry)
  <2>1. i \in DOMAIN rows
    BY DEF Found
  <2>2. i \in RowIds /\ rows[i].status \in Statuses /\ rows[i].retry \in Nat /\ Failures(rows[i].status, rows[i].retry)
    BY <1>0, <2>1, RowFields
  <2>3. job' = [job EXCEPT ![w] = n]
    BY <1>4
  <2>4. n.top = j.top /\ n.batch = j.batch
    <3> HIDE DEF j
    <3> QED  BY <1>0, <1>2, <1>4, <2>2, UpdateJob
  <2> HIDE DEF n
  <2> QED  BY <1>0, <1>1, <1>4, <2>3, <2>4, C_Worker
<1>5. ASSUME NEW i \in Found(item), rows[i].status = "processed", job' = [job EXCEPT ![w] = Next1(j)],
             gaps' = IF item.idx \in handled \/ (reported /\ reorgs = 0) THEN gaps ELSE gaps \cup {item.ledger}
      PROVE  CInv'
  <2> DEFINE n == Next1(j)
  <2>1. n.batch = Tail(j.batch) /\ n.top = Higher(j.top, item.ledger)
    <3> HIDE DEF j
    <3> QED  BY <1>0, <1>2, Next1Fits
  <2>2. job' = [job EXCEPT ![w] = n]
    BY <1>5
  <2>3. item.idx \in handled' \/ item.ledger \in gaps'
    BY <1>0, <1>1, <1>2, <1>5, ProcessedHandled
  <2>4. gaps \subseteq gaps'
    BY <1>5
  <2> HIDE DEF n
  <2> QED  BY <1>0, <1>1, <2>1, <2>2, <2>3, <2>4, C_Worker
<1> HIDE DEF item, j
<1>6. \/ gaps' = gaps /\ job' = [job EXCEPT ![w] = InsertOf(j, <<item.ledger, item.log, w>>)]
      \/ \E i \in Found(item) :
           /\ rows[i].status # "processed" /\ gaps' = gaps
           /\ job' = [job EXCEPT ![w] = UpdateOf(j, i, rows[i].status, rows[i].retry)]
      \/ \E i \in Found(item) :
           /\ rows[i].status = "processed"
           /\ job' = [job EXCEPT ![w] = Next1(j)]
           /\ gaps' = IF item.idx \in handled \/ (reported /\ reorgs = 0) THEN gaps ELSE gaps \cup {item.ledger}
  BY LookupCases DEF item, j
<1> QED  BY <1>3, <1>4, <1>5, <1>6

LEMMA C_Store ==
  ASSUME TInv, CInv, NEW w \in Workers, Store(w)
  PROVE  CInv'
<1> DEFINE j == job[w]
           h == Handling(j, Head(j.batch).idx)
<1>1. /\ j.pc = "store" /\ job' = [job EXCEPT ![w] = h] /\ UNCHANGED <<chain, cursor, handled, gaps>>
  BY DEF Store
<1>2. j \in Job
  BY Parts
<1>3. h.top = j.top /\ h.batch = j.batch
  <2> HIDE DEF j
  <2> QED  BY <1>2 DEF Handling, Job
<1> HIDE DEF h
<1> QED  BY <1>1, <1>3, C_Worker

LEMMA C_StoreFails ==
  ASSUME TInv, CInv, NEW w \in Workers, StoreFails(w)
  PROVE  CInv'
<1> DEFINE j == job[w]
           n == Next1(j)
           r == SkipOf(n, j.top)
<1>0. j \in Job /\ JobFits(j)
  BY Parts
<1>1. /\ j.pc = "store" /\ job' = [job EXCEPT ![w] = r] /\ gaps' = gaps \cup {Head(j.batch).ledger}
      /\ UNCHANGED <<chain, cursor, handled>>
  BY DEF StoreFails, SkipOf
<1>2. j.kind # "result" /\ j.batch # <<>> /\ j.top \in Nat
  BY <1>0, <1>1, JobFields DEF JobFits
<1>3. n \in Job /\ JobFits(n) /\ n.pc = "loop" /\ n.batch = Tail(j.batch)
  <2> HIDE DEF j
  <2> QED  BY <1>0, <1>2, Next1Fits
<1> HIDE DEF n
<1>4. r.top = j.top /\ r.batch = Tail(j.batch)
  BY <1>2, <1>3, SkipJob
<1> HIDE DEF r
<1>5. Head(j.batch).ledger \in gaps' /\ gaps \subseteq gaps'
  BY <1>1
<1> QED  BY <1>1, <1>2, <1>4, <1>5, C_Worker

LEMMA C_Write ==
  ASSUME TInv, CInv, NEW w \in Workers, Write(w)
  PROVE  CInv'
<1> DEFINE j == job[w]
           r == LeftOf(j, Tail(j.todo))
<1>0. j \in Job /\ DOMAIN job = Workers
  BY Parts
<1>1. j.pc = "do" /\ job' = [job EXCEPT ![w] = r] /\ UNCHANGED <<chain, cursor, handled, gaps>>
  BY <1>0 DEF Write, LeftOf
<1>2. r.top = j.top /\ r.batch = j.batch
  <2> HIDE DEF j
  <2> QED  BY <1>0 DEF LeftOf, Job
<1> HIDE DEF r
<1> QED  BY <1>1, <1>2, C_Worker

LEMMA C_Close ==
  ASSUME TInv, CInv, NEW w \in Workers, Close(w)
  PROVE  CInv'
<1> DEFINE j == job[w]
           n == Next1(j)
<1>0. j \in Job /\ JobFits(j) /\ ScriptInv
  BY Parts
<1>1. j.pc = "do" /\ UNCHANGED <<chain, cursor, gaps>>
  BY DEF Close
<1>2. CASE j.kind = "result"
  <2>1. job' = [job EXCEPT ![w] = Idle] /\ handled' = handled
    BY <1>2 DEF Close
  <2> QED  BY <1>1, <2>1, IdleFits, C_Worker
<1>3. CASE j.kind # "result"
  <2>1. job' = [job EXCEPT ![w] = n] /\ handled' = handled \cup {Head(j.batch).idx}
    BY <1>3 DEF Close
  <2>2. j.batch # <<>>
    BY <1>0, <1>1, <1>3, HandlerFacts
  <2>3. n.batch = Tail(j.batch) /\ n.top = Higher(j.top, Head(j.batch).ledger)
    <3> HIDE DEF j
    <3> QED  BY <1>0, <1>3, <2>2, Next1Fits
  <2> HIDE DEF n
  <2>4. Head(j.batch).idx \in handled' /\ handled \subseteq handled'
    BY <2>1
  <2> QED  BY <1>1, <2>1, <2>2, <2>3, <2>4, C_Worker
<1> QED  BY <1>2, <1>3

LEMMA C_Throws ==
  ASSUME TInv, CInv, NEW w \in Workers, Throws(w)
  PROVE  CInv'
<1> DEFINE j == job[w]
           n == Next1(j)
           r == LeftOf(j, Tail(j.todo))
<1>0. j \in Job /\ JobFits(j) /\ ScriptInv /\ DOMAIN job = Workers
  BY Parts
<1>1. j.pc = "do" /\ UNCHANGED <<chain, cursor, gaps>>
  BY <1>0, ThrowsCases
<1>2. \/ job' = [job EXCEPT ![w] = r] /\ handled' = handled
      \/ job' = [job EXCEPT ![w] = Idle] /\ handled' = handled
      \/ j.kind # "result" /\ job' = [job EXCEPT ![w] = n] /\ handled' = handled \cup {Head(j.batch).idx}
  BY <1>0, ThrowsCases
<1>3. r.top = j.top /\ r.batch = j.batch
  <2> HIDE DEF j
  <2> QED  BY <1>0 DEF LeftOf, Job
<1> HIDE DEF r
<1>4. CASE job' = [job EXCEPT ![w] = r] /\ handled' = handled
  BY <1>1, <1>3, <1>4, C_Worker
<1>5. CASE job' = [job EXCEPT ![w] = Idle] /\ handled' = handled
  BY <1>1, <1>5, IdleFits, C_Worker
<1>6. CASE j.kind # "result" /\ job' = [job EXCEPT ![w] = n] /\ handled' = handled \cup {Head(j.batch).idx}
  <2>1. j.batch # <<>>
    BY <1>0, <1>1, <1>6, HandlerFacts
  <2>2. n.batch = Tail(j.batch) /\ n.top = Higher(j.top, Head(j.batch).ledger)
    <3> HIDE DEF j
    <3> QED  BY <1>0, <1>6, <2>1, Next1Fits
  <2> HIDE DEF n
  <2>3. Head(j.batch).idx \in handled' /\ handled \subseteq handled'
    BY <1>6
  <2> QED  BY <1>1, <1>6, <2>1, <2>2, <2>3, C_Worker
<1> QED  BY <1>2, <1>4, <1>5, <1>6

\* The limit tears the ledger apart that the batch ends in, and no other.
LEMMA CutCovers ==
  ASSUME ChainInv, NEW c \in Nat, NEW s, AnswerFits(s, c + 1), NEW n \in 0..Len(s),
         n < Len(s) => n = BATCH_SIZE, NEW p \in 1..n, NEW l \in c + 1 .. s[p].ledger
  PROVE  /\ l \in DOMAIN chain
         /\ \/ l \in Cut(s)
            \/ \A i \in DOMAIN chain[l].evs :
                 \E q \in 1..n : s[q].ledger = l /\ s[q].idx = chain[l].evs[i]
<1>1. s \in Seq(Item) /\ Len(s) \in Nat /\ DOMAIN s = 1..Len(s)
  BY DEF AnswerFits
<1>2. Len(chain) \in Nat /\ DOMAIN chain = 1..Len(chain)
  BY ChainFacts
<1>3. p \in DOMAIN s /\ n \in Nat
  BY <1>1
<1>4. s[p].ledger \in 1..Len(chain)
  BY <1>2, <1>3 DEF AnswerFits
<1>5. l \in Nat /\ l \in DOMAIN chain /\ c + 1 <= l /\ l <= s[p].ledger
  BY <1>2, <1>4
<1>6. ASSUME NEW i \in DOMAIN chain[l].evs,
             ~\E q \in 1..n : s[q].ledger = l /\ s[q].idx = chain[l].evs[i]
      PROVE  l \in Cut(s)
  <2>1. PICK q \in DOMAIN s : s[q].ledger = l /\ s[q].idx = chain[l].evs[i]
    BY <1>5 DEF AnswerFits
  <2>2. q \notin 1..n
    BY <1>6, <2>1
  <2>3. n < Len(s) /\ n + 1 <= q /\ n \in DOMAIN s /\ n + 1 \in DOMAIN s /\ p <= n
    BY <1>1, <1>3, <2>2
  <2>4. n = BATCH_SIZE
    BY <2>3
  <2>5. s[p].ledger <= s[n].ledger /\ s[n].ledger <= s[n + 1].ledger /\ s[n + 1].ledger <= s[q].ledger
    <3>1. Sorted(s)
      BY DEF AnswerFits
    <3>2. n <= n + 1
      BY <1>3
    <3> QED  BY <1>3, <2>3, <3>1, <3>2 DEF Sorted
  <2>6. s[n].ledger \in Nat /\ s[n + 1].ledger \in Nat
    BY <1>1, <2>3, ItemFields
  <2>7. s[n].ledger = l /\ s[n + 1].ledger = l
    <3> DEFINE x == s[n].ledger
               y == s[n + 1].ledger
               z == s[p].ledger
    <3>1. x \in Nat /\ y \in Nat /\ z \in Nat /\ z <= x /\ x <= y /\ y <= l /\ l <= z
      BY <1>4, <1>5, <2>1, <2>5, <2>6
    <3> HIDE DEF x, y, z
    <3>2. x = l /\ y = l
      BY <1>5, <3>1
    <3> QED  BY <3>2 DEF x, y
  <2>8. Len(s) > n
    BY <1>1, <1>3, <2>3
  <2> QED  BY <2>4, <2>7, <2>8 DEF Cut
<1> QED  BY <1>5, <1>6

LEMMA C_PollFetch ==
  ASSUME TInv, CInv, PollFetch
  PROVE  CInv'
<1>0. ChainInv /\ cursor \in Nat
  BY Parts DEF Workers
\* The answer and what is kept of it are those of the state before the step.
<1>a. PICK c, s, tp, b : c = cursor /\ s = Events(c + 1) /\ b = Limited(s) /\ tp = IF s = <<>> THEN Len(chain) ELSE c
  OBVIOUS
<1> DEFINE r == IF s = <<>> /\ Len(chain) <= c THEN Idle ELSE PollOf(tp, b)
<1>1. /\ job' = [job EXCEPT ![Poller] = r]
      /\ gaps' = {l \in gaps : l <= c \/ l > Len(chain)} \cup Cut(s)
      /\ UNCHANGED <<chain, cursor, handled>>
  BY <1>a DEF PollFetch, PollOf
<1>2. c \in Nat /\ c + 1 \in Nat /\ Len(chain) \in Nat /\ DOMAIN chain = 1..Len(chain)
  BY <1>0, <1>a, ChainFacts
<1>3. AnswerFits(s, c + 1)
  BY <1>0, <1>2, <1>a, EventsFit
<1>4. tp \in Nat
  BY <1>2, <1>a
<1>5. b \in Seq(Item) /\ \A p \in DOMAIN b : InPlace(b[p])
  BY <1>0, <1>2, <1>a, LimitedInPlace
<1>6. s \in Seq(Item)
  BY <1>3 DEF AnswerFits
<1>7. PICK n \in 0..Len(s) : b = SubSeq(s, 1, n) /\ (n < Len(s) => n = BATCH_SIZE)
  BY <1>6, <1>a, LimitedFits
<1>8. DOMAIN b = 1..n /\ \A p \in 1..n : p \in DOMAIN s /\ b[p] = s[p]
  BY <1>6, <1>7, PrefixFits
\* What was read before the cursor stays so.
<1>9. ASSUME NEW l \in 1..cursor, NEW x PROVE Read(l, x)'
  <2>1. Read(l, <<>>)
    BY DEF CInv
  <2>2. l <= c
    BY <1>0, <1>a
  <2>3. l \in gaps => l \in gaps'
    BY <1>1, <2>2
  <2> QED  BY <1>1, <2>1, <2>3 DEF Read
\* A ledger of the answer waits in the batch, or is cut.
<1>10. ASSUME NEW p \in 1..n, NEW l \in 1..s[p].ledger PROVE Read(l, b)'
  <2>1. CASE l \in 1..cursor
    BY <1>9, <2>1
  <2>2. CASE l \notin 1..cursor
    <3>1. s[p].ledger \in Nat
      BY <1>6, <1>8, ItemFields
    <3>2. l \in c + 1 .. s[p].ledger
      <4> DEFINE z == s[p].ledger
      <4>1. z \in Nat /\ l \in 1..z /\ l \notin 1..c
        BY <1>a, <2>2, <3>1
      <4>2. c \in Nat
        BY <1>2
      <4> HIDE DEF z
      <4>3. l \in c + 1 .. z
        BY <4>1, <4>2
      <4> QED  BY <4>3 DEF z
    <3>3. /\ l \in DOMAIN chain
          /\ \/ l \in Cut(s)
             \/ \A i \in DOMAIN chain[l].evs :
                  \E q \in 1..n : s[q].ledger = l /\ s[q].idx = chain[l].evs[i]
      BY <1>0, <1>2, <1>3, <1>7, <3>2, CutCovers
    <3>4. CASE l \in Cut(s)
      BY <1>1, <3>4 DEF Read
    <3>5. CASE \A i \in DOMAIN chain[l].evs :
                 \E q \in 1..n : s[q].ledger = l /\ s[q].idx = chain[l].evs[i]
      <4>1. \A i \in DOMAIN chain[l].evs :
              \E q \in DOMAIN b : b[q].ledger = l /\ b[q].idx = chain[l].evs[i]
        BY <1>8, <3>5
      <4> QED  BY <1>1, <3>3, <4>1 DEF Read
    <3> QED  BY <3>3, <3>4, <3>5
  <2> QED  BY <2>1, <2>2
<1>11. ASSUME NEW l \in 1..tp PROVE Read(l, b)'
  <2>1. CASE l \in 1..cursor
    BY <1>9, <2>1
  <2>2. CASE l \notin 1..cursor
    <3>1. s = <<>> /\ l \in 1..Len(chain)
      BY <1>11, <1>a, <2>2
    <3>2. c + 1 <= l /\ l \in DOMAIN chain
      <4> DEFINE z == Len(chain)
      <4>1. z \in Nat /\ l \in 1..z /\ l \notin 1..c /\ c \in Nat
        BY <1>2, <1>a, <2>2, <3>1
      <4> HIDE DEF z
      <4>2. c + 1 <= l
        BY <4>1
      <4> QED  BY <1>2, <3>1, <4>2
    <3>3. DOMAIN s = {}
      BY <3>1
    <3>4. DOMAIN chain[l].evs = {}
      BY <1>3, <3>2, <3>3 DEF AnswerFits
    <3> QED  BY <1>1, <3>2, <3>4 DEF Read
  <2> QED  BY <2>1, <2>2
<1>12. CASE r = Idle
  <2>1. job'[Poller].pc = "idle"
    <3> HIDE DEF r
    <3> QED  BY <1>1, <1>12, PollerSet, IdleFits
  <2>2. \A l \in 1..cursor' : Read(l, <<>>)'
    BY <1>1, <1>9
  <2> QED  BY <2>1, <2>2 DEF CInv
<1>13. CASE r = PollOf(tp, b)
  <2>1. PollOf(tp, b).top = tp /\ PollOf(tp, b).batch = b
    BY <1>4, <1>5, PollJob
  <2>2. job'[Poller].top = tp /\ job'[Poller].batch = b
    <3> HIDE DEF r
    <3> QED  BY <1>1, <1>13, <2>1, PollerSet
  <2>3. \A p \in DOMAIN b : \A l \in 1..b[p].ledger : Read(l, b)'
    BY <1>8, <1>10
  <2>4. LoopCovers(job[Poller])'
    BY <1>11, <2>2, <2>3 DEF LoopCovers
  <2>5. \A l \in 1..cursor' : Read(l, <<>>)'
    BY <1>1, <1>9
  <2> QED  BY <2>4, <2>5 DEF CInv
<1> QED  BY <1>12, <1>13

\* Steps of the other job that say nothing about what was read.
LEMMA C_OtherJobs ==
  ASSUME TInv, CInv,
         \/ RetryNext \/ JobEnd \/ Retry \/ Reconcile \/ ReconcileIdle \/ ReconcileSave \/ Listen
         \/ UNCHANGED vars \/ \E l \in Nat : Cleanup(l) \/ \E k \in Nat : Backfill(l, k)
         \/ \E ev \in OffchainResults : SubmitOffchain(ev)
  PROVE  CInv'
<1>1. UNCHANGED <<chain, cursor, handled, gaps>>
  BY DEF RetryNext, JobEnd, Retry, Reconcile, ReconcileIdle, ReconcileSave, Listen, vars, Cleanup, Backfill,
         SubmitOffchain
<1>2. job' = job \/ \E j : job' = [job EXCEPT ![Other] = j]
  BY DEF RetryNext, JobEnd, Retry, Reconcile, ReconcileIdle, ReconcileSave, Listen, vars, Cleanup, Backfill,
         SubmitOffchain, Starts
<1>3. job'[Poller] = job[Poller]
  BY <1>2, OtherSet
<1> QED  BY <1>1, <1>3, C_Other

LEMMA C_Next ==
  ASSUME TInv, CInv, [Next]_vars
  PROVE  CInv'
<1>0. Poller \in Workers /\ Other \in Workers
  BY DEF Workers
<1>1. CASE \E n \in Nat : Produce(n) \/ Reorg(n)
  BY <1>1, C_Produce, C_Reorg
<1>2. CASE \E w \in Workers : Rewind(w) \/ Lookup(w) \/ Store(w) \/ StoreFails(w)
  BY <1>2, C_Rewind, C_Lookup, C_Store, C_StoreFails
<1>3. CASE \E w \in Workers : Write(w) \/ Close(w) \/ Throws(w)
  BY <1>3, C_Write, C_Close, C_Throws
<1>4. CASE RollBack(Poller, "poll") \/ RollBack(Other, "reconcile")
  BY <1>0, <1>4, C_RollBack
<1>5. CASE PollFetch \/ FetchFails \/ PollEnd \/ Restart
  BY <1>5, C_PollFetch, C_FetchFails, C_PollEnd, C_Restart
<1>6. CASE \/ RetryNext \/ JobEnd \/ Retry \/ Reconcile \/ ReconcileIdle \/ ReconcileSave \/ Listen
           \/ UNCHANGED vars \/ \E ev \in OffchainResults : SubmitOffchain(ev)
  BY <1>6, C_OtherJobs
<1>7. CASE \E l \in Nat : l # 0 /\ (Reindex(l) \/ Cleanup(l) \/ \E k \in Nat : Backfill(l, k))
  BY <1>7, C_Reindex, C_OtherJobs
<1> QED  BY <1>1, <1>2, <1>3, <1>4, <1>5, <1>6, <1>7, NextCases

LEMMA C_Init ==
  ASSUME Init
  PROVE  CInv
<1>1. cursor = 0 /\ job = [w \in Workers |-> Idle]
  BY DEF Init
<1>2. job[Poller].pc = "idle"
  BY <1>1, IdleFits DEF Workers
<1>3. 1..cursor = {}
  BY <1>1
<1> QED  BY <1>2, <1>3 DEF CInv

LEMMA CoverFollows ==
  ASSUME CInv
  PROVE  CursorCovers
<1> SUFFICES ASSUME NEW l \in 1..cursor, l \in DOMAIN chain, l \notin gaps
             PROVE  ToSet(chain[l].evs) \subseteq handled
  BY DEF CursorCovers
<1>1. Read(l, <<>>)
  BY DEF CInv
<1>2. \A i \in DOMAIN chain[l].evs : chain[l].evs[i] \in handled
  BY <1>1 DEF Read
<1> QED  BY <1>2 DEF ToSet

\* Every event in a ledger the cursor has passed was given to its handler, or
\* the ledger is one of the gaps the code is known to leave: no interleaving of
\* the poll, the listener and an administrator's job skips another one.
THEOREM NothingSkipped == Spec => []CursorCovers
<1>1. Init => TInv /\ CInv
  BY T_Init, C_Init
<1>2. TInv /\ CInv /\ [Next]_vars => TInv' /\ CInv'
  BY T_Next, C_Next
<1>3. CInv => CursorCovers
  BY CoverFollows
<1> QED  BY <1>1, <1>2, <1>3, PTL DEF Spec

-----------------------------------------------------------------------------
(* The third layer, action by action. *)

Ownerships == [EventIds -> SUBSET MatchIds]

LEMMA OwnSize ==
  ASSUME NEW own \in Ownerships, NEW e \in EventIds
  PROVE  own[e] \subseteq MatchIds /\ IsFiniteSet(own[e]) /\ Cardinality(own[e]) \in Nat
<1>1. own[e] \subseteq MatchIds
  BY DEF Ownerships
<1>2. IsFiniteSet(own[e])
  BY <1>1, MirrorAssumption, FS_Subset
<1> QED  BY <1>1, <1>2, FS_CardinalityType

LEMMA EventCount ==
  ASSUME NEW mi \in Mirror, NEW e \in EventIds
  PROVE  mi.event[e].match_count \in Nat
<1>1. mi.event[e] \in EventRow
  BY MirrorFields
<1> QED  BY <1>1 DEF EventRow

\* A handler that starts now holds no count yet.
StartsFresh(n) == n.read = mirror /\ (n.todo # <<>> => n.todo[1][1] \notin {"match_count", "grade"})

\* A handler that was running holds the copy it had.
GoesOn(j, n) ==
  j.pc = "do" /\ n.read = j.read /\ (n.todo # <<>> => n.todo[1][1] \notin {"match_count", "grade"})

\* A step that writes no table.
Quiet ==
  /\ mirror' = mirror /\ script' = script /\ (offchain => offchain')
  /\ \A w \in Workers : \/ job'[w] = job[w] \/ job'[w].pc # "do"
                         \/ StartsFresh(job'[w]) \/ GoesOn(job[w], job'[w])

LEMMA O_Quiet ==
  ASSUME OInv, Quiet
  PROVE  OInv'
<1>1. PICK own \in [EventIds -> SUBSET MatchIds] : Owns(own)
  BY DEF OInv
<1>2. ASSUME NEW w \in Workers PROVE CountFits(own, job'[w])
  <2>1. CountFits(own, job[w]) /\ \A e \in EventIds : mirror.event[e].match_count <= Cardinality(own[e])
    BY <1>1 DEF Owns
  <2>2. CASE job'[w] = job[w]
    BY <2>1, <2>2
  <2>3. CASE job'[w].pc # "do"
    BY <2>3 DEF CountFits
  <2>4. CASE StartsFresh(job'[w])
    BY <2>1, <2>4 DEF CountFits, StartsFresh
  <2>5. CASE GoesOn(job[w], job'[w])
    BY <2>1, <2>5 DEF CountFits, GoesOn
  <2> QED  BY <2>2, <2>3, <2>4, <2>5 DEF Quiet
<1>3. /\ \A e, f \in EventIds : e # f => own[e] \cap own[f] = {}
      /\ \A e \in EventIds : /\ \A m \in own[e] : mirror'.match[m].exists
                             /\ mirror'.event[e].match_count <= Cardinality(own[e])
  BY <1>1 DEF Owns, Quiet
<1>4. Owns(own)'
  BY <1>2, <1>3 DEF Owns
<1> QED  BY <1>4 DEF OInv

\* One job changes and the tables do not.
LEMMA QuietJob ==
  ASSUME TInv, UNCHANGED <<mirror, script>>, offchain => offchain', NEW w \in Workers, NEW n,
         job' = [job EXCEPT ![w] = n], n.pc # "do" \/ StartsFresh(n) \/ GoesOn(job[w], n)
  PROVE  Quiet
<1>1. DOMAIN job = Workers
  BY Parts
<1>2. \A v \in Workers : job'[v] = IF v = w THEN n ELSE job[v]
  BY <1>1
<1>3. \A v \in Workers : \/ job'[v] = job[v] \/ job'[v].pc # "do"
                         \/ StartsFresh(job'[v]) \/ GoesOn(job[v], job'[v])
  BY <1>2
<1> QED  BY <1>3 DEF Quiet

LEMMA QuietTables ==
  ASSUME UNCHANGED <<mirror, script, job>>, offchain => offchain'
  PROVE  Quiet
BY DEF Quiet

\* A larger set of matches covers the copies a job holds.
LEMMA CountGrows ==
  ASSUME NEW own \in Ownerships, NEW own2 \in Ownerships,
         \A e \in EventIds : Cardinality(own[e]) <= Cardinality(own2[e]),
         NEW j \in Job, j.pc = "do" => j.read \in Mirror /\ j.ev.event \in EventIds, CountFits(own, j)
  PROVE  CountFits(own2, j)
<1> SUFFICES ASSUME j.pc = "do" PROVE CountFits(own2, j)
  BY DEF CountFits
<1>1. j.read \in Mirror /\ j.ev.event \in EventIds
  OBVIOUS
<1>2. ASSUME NEW e \in EventIds
      PROVE  /\ j.read.event[e].match_count \in Nat /\ Cardinality(own[e]) \in Nat /\ Cardinality(own2[e]) \in Nat
             /\ Cardinality(own[e]) <= Cardinality(own2[e])
             /\ j.read.event[e].match_count <= Cardinality(own[e])
  BY <1>1, EventCount, OwnSize DEF CountFits
<1>3. \A e \in EventIds : j.read.event[e].match_count <= Cardinality(own2[e])
  BY <1>2
<1>4. ASSUME j.todo # <<>>, j.todo[1][1] = "match_count"
      PROVE  j.read.event[j.ev.event].match_count + 1 <= Cardinality(own2[j.ev.event])
  <2>1. j.read.event[j.ev.event].match_count + 1 <= Cardinality(own[j.ev.event])
    BY <1>4 DEF CountFits
  <2> QED  BY <1>1, <1>2, <2>1
<1> QED  BY <1>3, <1>4 DEF CountFits

\* The match was not there: no event owns it, and its event may own it now.
LEMMA OwnMore ==
  ASSUME NEW own \in Ownerships, NEW ev, WellFormed(ev),
         \A e, f \in EventIds : e # f => own[e] \cap own[f] = {},
         \A e \in EventIds : ev.match \notin own[e]
  PROVE  \E own2 \in Ownerships :
           /\ \A e, f \in EventIds : e # f => own2[e] \cap own2[f] = {}
           /\ \A e \in EventIds : /\ own2[e] \subseteq own[e] \cup {ev.match}
                                  /\ Cardinality(own[e]) <= Cardinality(own2[e])
           /\ Cardinality(own2[ev.event]) = Cardinality(own[ev.event]) + 1
<1> DEFINE m == ev.match
           g == ev.event
           s == own[g] \cup {m}
           own2 == [own EXCEPT ![g] = s]
<1>0. m \in MatchIds /\ g \in EventIds
  BY DEF WellFormed
<1> HIDE DEF m, g
<1>1. own2 \in Ownerships /\ \A e \in EventIds : own2[e] = IF e = g THEN s ELSE own[e]
  BY <1>0 DEF Ownerships
<1>2. m \notin own[g] /\ \A e \in EventIds : m \notin own[e]
  BY <1>0 DEF m
<1>3. Cardinality(s) = Cardinality(own[g]) + 1
  BY <1>0, <1>2, OwnSize, FS_AddElement
<1>4. \A e \in EventIds : Cardinality(own[e]) \in Nat
  BY OwnSize
<1> HIDE DEF own2
<1>5. \A e, f \in EventIds : e # f => own2[e] \cap own2[f] = {}
  BY <1>1, <1>2
<1>6. \A e \in EventIds : own2[e] \subseteq own[e] \cup {m}
  BY <1>1
<1>7. \A e \in EventIds : Cardinality(own[e]) <= Cardinality(own2[e])
  BY <1>0, <1>1, <1>3, <1>4
<1>8. Cardinality(own2[g]) = Cardinality(own[g]) + 1
  BY <1>0, <1>1, <1>3
<1> QED  BY <1>1, <1>5, <1>6, <1>7, <1>8 DEF m, g

\* What a write of a handler does, for the layers about the tables.
WriteOf(j, n) ==
  /\ j.pc = "do" /\ j.todo # <<>> /\ j.read \in Mirror /\ WellFormed(j.ev) /\ TodoFits(j.todo, j.ev, j.read)
  /\ Effect(j.todo[1][1], j.ev, j.read, mirror, mirror')
  /\ j.todo[1][1] = "match" => ~mirror.match[j.ev.match].exists
  /\ n.pc = "do" /\ n.ev = j.ev /\ n.read = j.read
  /\ n.todo # <<>> /\ n.todo[1][1] = "match_count" => j.todo[1][1] = "match"
  /\ n.todo # <<>> /\ n.todo[1][1] = "grade" => j.todo[1][1] = "result"
  /\ j.todo[1][1] \in {"grade", "result"} \cup {"score"} =>
       j.ev.type \in {"MatchResultSubmitted", "submitResult"}

LEMMA WriteFacts ==
  ASSUME TInv, NEW w \in Workers, Write(w)
  PROVE  /\ WriteOf(job[w], job'[w]) /\ \A v \in Workers : v # w => job'[v] = job[v]
         /\ UNCHANGED <<script, offchain>>
<1> DEFINE j == job[w]
           t == Tail(j.todo)
           r == LeftOf(j, t)
<1>0. j \in Job /\ JobFits(j) /\ ScriptInv /\ mirror \in Mirror /\ DOMAIN job = Workers
  BY Parts
<1>1. /\ j.pc = "do" /\ j.todo # <<>> /\ ~Refused(Head(j.todo), j.ev, mirror)
      /\ mirror' = Applied(Head(j.todo), j.ev, j.read, mirror) /\ UNCHANGED <<script, offchain>>
  BY DEF Write
<1>2. job' = [job EXCEPT ![w] = r]
  BY <1>0 DEF Write, LeftOf
<1>3. WellFormed(j.ev) /\ j.read \in Mirror /\ j.todo \in Seq(Writes) /\ TodoFits(j.todo, j.ev, j.read)
  BY <1>0, <1>1, HandlerFacts
<1>4. /\ t \in Seq(Writes) /\ TodoFits(t, j.ev, j.read)
      /\ t # <<>> /\ t[1][1] = "match_count" => j.todo[1][1] = "match"
      /\ t # <<>> /\ t[1][1] = "grade" => j.todo[1][1] = "result"
  BY <1>1, <1>3, TailFits
<1>5. Head(j.todo) = j.todo[1] /\ 1 \in DOMAIN j.todo
  BY <1>1, <1>3, HeadTail
<1>6. Effect(Head(j.todo)[1], j.ev, j.read, mirror, Applied(Head(j.todo), j.ev, j.read, mirror))
  BY <1>0, <1>1, <1>3, AppliedFits
<1>7. Effect(j.todo[1][1], j.ev, j.read, mirror, mirror')
  BY <1>1, <1>5, <1>6
<1>8. j.todo[1][1] = "match" => ~mirror.match[j.ev.match].exists
  BY <1>1, <1>5 DEF Refused
<1>9. j.todo[1][1] \in {"grade", "result"} \cup {"score"} => j.ev.type \in {"MatchResultSubmitted", "submitResult"}
  BY <1>3, <1>5 DEF TodoFits
<1>10. r.pc = j.pc /\ r.ev = j.ev /\ r.read = j.read /\ r.todo = t
  <2> HIDE DEF j, t
  <2> QED  BY <1>0, <1>1, <1>4, LeftJob
<1> HIDE DEF r
<1>11. job'[w] = r /\ \A v \in Workers : v # w => job'[v] = job[v]
  BY <1>0, <1>2
<1>12. WriteOf(j, r)
  <2> HIDE DEF j, t
  <2> QED  BY <1>1, <1>3, <1>4, <1>7, <1>8, <1>9, <1>10 DEF WriteOf
<1> QED  BY <1>1, <1>11, <1>12

LEMMA HandlerReads ==
  ASSUME TInv, NEW v \in Workers, job[v].pc = "do"
  PROVE  job[v].read \in Mirror /\ job[v].ev.event \in EventIds /\ job[v].ev.match \in MatchIds
<1>1. WellFormed(job[v].ev) /\ job[v].read \in Mirror
  BY Parts, HandlerFacts
<1> QED  BY <1>1 DEF WellFormed

\* Every count is one that was there, one of a copy, or one more for a match just inserted.
LEMMA CountsFit ==
  ASSUME TInv, NEW own \in Ownerships, Owns(own), NEW w \in Workers, WriteOf(job[w], job'[w]), NEW e \in EventIds
  PROVE  mirror'.event[e].match_count <= Cardinality(own[e])
<1> DEFINE j == job[w]
<1>1. CountOf(j.todo[1][1], j.ev, j.read, mirror, mirror') /\ j.pc = "do" /\ j.todo # <<>>
  BY DEF WriteOf, Effect
<1>2. CountFits(own, j) /\ mirror.event[e].match_count <= Cardinality(own[e])
  BY DEF Owns
<1>3. j.read.event[e].match_count <= Cardinality(own[e])
  BY <1>1, <1>2 DEF CountFits
<1>4. j.todo[1][1] = "match_count" => j.read.event[j.ev.event].match_count + 1 <= Cardinality(own[j.ev.event])
  BY <1>1, <1>2 DEF CountFits
<1>5. 0 <= Cardinality(own[e])
  BY OwnSize
<1> HIDE DEF j
<1> QED  BY <1>1, <1>2, <1>3, <1>4, <1>5 DEF CountOf

LEMMA O_WriteMatch ==
  ASSUME TInv, OInv, NEW w \in Workers, Write(w), job[w].todo[1][1] = "match"
  PROVE  OInv'
<1> DEFINE j == job[w]
<1>0. WriteOf(j, job'[w]) /\ \A v \in Workers : v # w => job'[v] = job[v]
  BY WriteFacts
<1>1. PICK own \in Ownerships : Owns(own)
  BY DEF OInv, Ownerships
<1>2. /\ j.pc = "do" /\ WellFormed(j.ev) /\ ~mirror.match[j.ev.match].exists
      /\ j.read \in Mirror /\ j.ev.event \in EventIds
      /\ job'[w].read = j.read /\ job'[w].ev = j.ev
  BY <1>0 DEF WriteOf, WellFormed
<1>3. \A e \in EventIds : j.ev.match \notin own[e]
  BY <1>1, <1>2 DEF Owns
<1>4. \A e, f \in EventIds : e # f => own[e] \cap own[f] = {}
  BY <1>1 DEF Owns
<1>5. PICK own2 \in Ownerships :
         /\ \A e, f \in EventIds : e # f => own2[e] \cap own2[f] = {}
         /\ \A e \in EventIds : /\ own2[e] \subseteq own[e] \cup {j.ev.match}
                                /\ Cardinality(own[e]) <= Cardinality(own2[e])
         /\ Cardinality(own2[j.ev.event]) = Cardinality(own[j.ev.event]) + 1
  <2> HIDE DEF j
  <2> QED  BY <1>2, <1>3, <1>4, OwnMore
<1>6. MatchOf("match", j.ev, j.read, mirror, mirror')
  BY <1>0 DEF WriteOf, Effect
<1>7. ASSUME NEW e \in EventIds
      PROVE  /\ \A m \in own2[e] : mirror'.match[m].exists
             /\ mirror'.event[e].match_count <= Cardinality(own2[e])
  <2>1. \A m \in own[e] : mirror.match[m].exists /\ m \in MatchIds
    BY <1>1, OwnSize DEF Owns
  <2>2. ASSUME NEW m \in own2[e] PROVE mirror'.match[m].exists
    <3>1. CASE m = j.ev.match
      BY <1>6, <3>1 DEF MatchOf
    <3>2. CASE m # j.ev.match
      <4>1. m \in own[e]
        BY <1>5, <3>2
      <4>2. m \in MatchIds /\ mirror.match[m].exists
        BY <2>1, <4>1
      <4>3. mirror'.match[m] = mirror.match[m]
        BY <1>6, <3>2, <4>2 DEF MatchOf
      <4> QED  BY <4>2, <4>3
    <3> QED  BY <3>1, <3>2
  <2>3. mirror'.event[e].match_count <= Cardinality(own[e])
    BY <1>0, <1>1, CountsFit
  <2>4. mirror' \in Mirror
    BY <1>0 DEF WriteOf, Effect
  <2>5. mirror'.event[e].match_count \in Nat /\ Cardinality(own[e]) \in Nat /\ Cardinality(own2[e]) \in Nat
    BY <2>4, EventCount, OwnSize
  <2>6. Cardinality(own[e]) <= Cardinality(own2[e])
    BY <1>5
  <2> QED  BY <2>2, <2>3, <2>5, <2>6
<1>8. ASSUME NEW v \in Workers PROVE CountFits(own2, job'[v])
  <2>1. CountFits(own, job[v])
    BY <1>1 DEF Owns
  <2>2. job[v] \in Job /\ (job[v].pc = "do" => job[v].read \in Mirror /\ job[v].ev.event \in EventIds)
    BY Parts, HandlerReads
  <2>3. CountFits(own2, job[v])
    <3>1. \A e \in EventIds : Cardinality(own[e]) <= Cardinality(own2[e])
      BY <1>5
    <3> QED  BY <2>1, <2>2, <3>1, CountGrows
  <2>4. CASE v # w
    BY <1>0, <2>3, <2>4
  <2>5. CASE v = w
    <3>1. \A e \in EventIds : j.read.event[e].match_count <= Cardinality(own2[e])
      BY <1>2, <2>3, <2>5 DEF CountFits
    <3>2. j.read.event[j.ev.event].match_count <= Cardinality(own[j.ev.event])
      BY <1>2, <2>1, <2>5 DEF CountFits
    <3>3. j.read.event[j.ev.event].match_count \in Nat /\ Cardinality(own[j.ev.event]) \in Nat
      BY <1>2, EventCount, OwnSize
    <3>4. j.read.event[j.ev.event].match_count + 1 <= Cardinality(own2[j.ev.event])
      BY <1>5, <3>2, <3>3
    <3> QED  BY <1>2, <2>5, <3>1, <3>4 DEF CountFits
  <2> QED  BY <2>4, <2>5
<1>9. Owns(own2)'
  BY <1>5, <1>7, <1>8 DEF Owns
<1> QED  BY <1>9 DEF OInv, Ownerships

LEMMA O_WriteElse ==
  ASSUME TInv, OInv, NEW w \in Workers, Write(w), job[w].todo[1][1] # "match"
  PROVE  OInv'
<1> DEFINE j == job[w]
<1>0. WriteOf(j, job'[w]) /\ \A v \in Workers : v # w => job'[v] = job[v]
  BY WriteFacts
<1>1. PICK own \in Ownerships : Owns(own)
  BY DEF OInv, Ownerships
<1>2. /\ MatchOf(j.todo[1][1], j.ev, j.read, mirror, mirror') /\ j.pc = "do"
      /\ job'[w].read = j.read /\ (job'[w].todo # <<>> => job'[w].todo[1][1] # "match_count")
  BY <1>0 DEF WriteOf, Effect
<1>3. ASSUME NEW e \in EventIds
      PROVE  /\ \A m \in own[e] : mirror'.match[m].exists
             /\ mirror'.event[e].match_count <= Cardinality(own[e])
  <2>1. \A m \in own[e] : mirror.match[m].exists /\ m \in MatchIds
    BY <1>1, OwnSize DEF Owns
  <2>2. ASSUME NEW m \in own[e] PROVE mirror'.match[m].exists
    <3>1. CASE mirror'.match = mirror.match
      BY <2>1, <3>1
    <3>2. CASE m = j.ev.match /\ mirror'.match[j.ev.match].exists
      BY <3>2
    <3>3. CASE m # j.ev.match /\ \A x \in MatchIds : x # j.ev.match => mirror'.match[x] = mirror.match[x]
      <4>1. mirror'.match[m] = mirror.match[m]
        BY <2>1, <3>3
      <4> QED  BY <2>1, <4>1
    <3> QED  BY <1>2, <3>1, <3>2, <3>3 DEF MatchOf
  <2>3. mirror'.event[e].match_count <= Cardinality(own[e])
    BY <1>0, <1>1, CountsFit
  <2> QED  BY <2>2, <2>3
<1>4. ASSUME NEW v \in Workers PROVE CountFits(own, job'[v])
  <2>1. CountFits(own, job[v])
    BY <1>1 DEF Owns
  <2>2. CASE v # w
    BY <1>0, <2>1, <2>2
  <2>3. CASE v = w
    BY <1>2, <2>1, <2>3 DEF CountFits
  <2> QED  BY <2>2, <2>3
<1>5. \A e, f \in EventIds : e # f => own[e] \cap own[f] = {}
  BY <1>1 DEF Owns
<1>6. Owns(own)'
  BY <1>3, <1>4, <1>5 DEF Owns
<1> QED  BY <1>6 DEF OInv, Ownerships

\* Where the handlers start: what they read is what is there.
LEMMA HandlingFresh ==
  ASSUME TInv, NEW j \in Job, NEW i \in DOMAIN script
  PROVE  StartsFresh(Handling(j, i))
<1> DEFINE ev == script[i]
           t == Todo(ev, mirror)
           h == Handling(j, i)
<1>0. ScriptInv /\ mirror \in Mirror
  BY Parts DEF Workers
<1>1. ev \in Emittable /\ WellFormed(ev)
  BY <1>0, ScriptFacts
<1>2. h.read = mirror /\ h.todo = t
  BY DEF Handling, Job
<1> HIDE DEF ev
<1>3. TodoFresh(t, ev, mirror)
  BY <1>0, <1>1, TodoIsFresh
<1> HIDE DEF h, t
<1>4. StartsFresh(h)
  BY <1>2, <1>3 DEF StartsFresh, TodoFresh
<1> QED  BY <1>4 DEF h

LEMMA Q_Store ==
  ASSUME TInv, NEW w \in Workers, Store(w)
  PROVE  Quiet
<1> DEFINE j == job[w]
           k == Head(j.batch).idx
           h == Handling(j, k)
<1>1. j.pc = "store" /\ job' = [job EXCEPT ![w] = h] /\ UNCHANGED <<mirror, script, offchain>>
  BY DEF Store
<1>2. j \in Job /\ JobFits(j)
  BY Parts
<1>3. j.batch # <<>>
  BY <1>1, <1>2 DEF JobFits
<1>4. k \in DOMAIN script
  BY <1>2, <1>3, HeadFits DEF InPlace
<1>5. StartsFresh(h)
  <2> HIDE DEF j, k
  <2> QED  BY <1>2, <1>4, HandlingFresh
<1> HIDE DEF h
<1> QED  BY <1>1, <1>5, QuietJob

LEMMA Q_RetryNext ==
  ASSUME TInv, RetryNext
  PROVE  Quiet
<1> DEFINE j == job[Other]
           k == Head(j.batch).idx
           h == Handling(j, k)
           n == [h EXCEPT !.id = Head(j.batch).id, !.retry = Head(j.batch).retry]
<1>0. Other \in Workers
  BY DEF Workers
<1>1. /\ j.pc = "loop" /\ j.batch # <<>> /\ job' = [job EXCEPT ![Other] = n]
      /\ UNCHANGED <<mirror, script, offchain>>
  BY DEF RetryNext
<1>2. j \in Job /\ JobFits(j)
  BY <1>0, Parts
<1>3. k \in DOMAIN script
  BY <1>1, <1>2, HeadFits DEF InPlace
<1>4. StartsFresh(h)
  <2> HIDE DEF j, k
  <2> QED  BY <1>2, <1>3, HandlingFresh
<1>5. n.read = h.read /\ n.todo = h.todo
  <2> DEFINE id == Head(j.batch).id
             y == Head(j.batch).retry
  <2> HIDE DEF j, k, id, y
  <2>1. /\ [h EXCEPT !.id = id, !.retry = y].read = h.read
        /\ [h EXCEPT !.id = id, !.retry = y].todo = h.todo
    BY <1>2 DEF Handling, Job
  <2> QED  BY <2>1 DEF id, y
<1> HIDE DEF h
<1>6. StartsFresh(n)
  <2> HIDE DEF n
  <2> QED  BY <1>4, <1>5 DEF StartsFresh
<1> HIDE DEF n
<1> QED  BY <1>0, <1>1, <1>6, QuietJob

LEMMA Q_SubmitOffchain ==
  ASSUME TInv, NEW ev \in OffchainResults, SubmitOffchain(ev)
  PROVE  Quiet
<1> DEFINE t == Todo(ev, mirror)
           r == ResultOf(ev, mirror, t)
<1>0. Other \in Workers /\ mirror \in Mirror /\ WellFormed(ev)
  BY Parts, SetupsAssumption DEF Workers
<1>1. /\ job' = [job EXCEPT ![Other] = r] /\ offchain' /\ UNCHANGED <<mirror, script>>
  BY DEF SubmitOffchain, Starts, ResultOf
<1>2. TodoFresh(t, ev, mirror)
  BY <1>0, TodoIsFresh
<1> HIDE DEF t
<1>3. t \in Seq(Writes) /\ TodoFits(t, ev, mirror)
  BY <1>2 DEF TodoFresh
<1>4. r.read = mirror /\ r.todo = t
  BY <1>0, <1>3, ResultJob
<1> HIDE DEF r
<1>5. StartsFresh(r)
  BY <1>2, <1>4 DEF StartsFresh, TodoFresh
<1> QED  BY <1>0, <1>1, <1>5, QuietJob

LEMMA Q_Lookup ==
  ASSUME TInv, NEW w \in Workers, Lookup(w)
  PROVE  Quiet
<1> DEFINE j == job[w]
<1>0. j \in Job /\ JobFits(j) /\ RowsInv
  BY Parts
<1>1. j.pc = "loop" /\ j.batch # <<>> /\ UNCHANGED <<mirror, script, offchain>>
  BY LookupCases
<1>2. \E n : job' = [job EXCEPT ![w] = n] /\ n.pc # "do"
  <2>1. \A id : InsertOf(j, id).pc = "store"
    <3> HIDE DEF j
    <3> QED  BY <1>0 DEF InsertOf, Job
  <2>2. \A id, s, r : UpdateOf(j, id, s, r).pc = "store"
    <3> HIDE DEF j
    <3> QED  BY <1>0 DEF UpdateOf, Job
  <2>3. Next1(j).pc = "loop"
    <3>1. j.kind # "result"
      BY <1>0, <1>1 DEF JobFits
    <3> HIDE DEF j
    <3> QED  BY <1>0, <1>1, <3>1, Next1Fits
  <2>4. \/ \E id : job' = [job EXCEPT ![w] = InsertOf(j, id)]
        \/ \E id, s, r : job' = [job EXCEPT ![w] = UpdateOf(j, id, s, r)]
        \/ job' = [job EXCEPT ![w] = Next1(j)]
    <3> DEFINE item == Head(j.batch)
    <3>1. \/ job' = [job EXCEPT ![w] = InsertOf(j, <<item.ledger, item.log, w>>)]
          \/ \E i \in Found(item) : job' = [job EXCEPT ![w] = UpdateOf(j, i, rows[i].status, rows[i].retry)]
          \/ job' = [job EXCEPT ![w] = Next1(j)]
      BY LookupCases
    <3> HIDE DEF item, j
    <3> QED  BY <3>1, Zenon
  <2> QED  BY <2>1, <2>2, <2>3, <2>4
<1> QED  BY <1>1, <1>2, QuietJob

LEMMA Q_StoreFails ==
  ASSUME TInv, NEW w \in Workers, StoreFails(w)
  PROVE  Quiet
<1> DEFINE j == job[w]
           n == Next1(j)
           r == SkipOf(n, j.top)
<1>0. j \in Job /\ JobFits(j)
  BY Parts
<1>1. j.pc = "store" /\ job' = [job EXCEPT ![w] = r] /\ UNCHANGED <<mirror, script, offchain>>
  BY DEF StoreFails, SkipOf
<1>2. j.kind # "result" /\ j.batch # <<>> /\ j.top \in Nat
  BY <1>0, <1>1, JobFields DEF JobFits
<1> HIDE DEF j
<1>3. n \in Job /\ JobFits(n) /\ n.pc = "loop"
  BY <1>0, <1>2, Next1Fits
<1> HIDE DEF n
<1>4. r.pc = "loop"
  BY <1>2, <1>3, SkipJob
<1> HIDE DEF r
<1> QED  BY <1>1, <1>4, QuietJob

LEMMA Q_Close ==
  ASSUME TInv, NEW w \in Workers, Close(w)
  PROVE  Quiet
<1> DEFINE j == job[w]
<1>0. j \in Job /\ JobFits(j) /\ ScriptInv
  BY Parts
<1>1. /\ j.pc = "do" /\ UNCHANGED <<mirror, script, offchain>>
      /\ job' = [job EXCEPT ![w] = IF j.kind = "result" THEN Idle ELSE Next1(j)]
  BY DEF Close
<1>2. j.kind # "result" => Next1(j).pc = "loop"
  <2>1. j.kind # "result" => j.batch # <<>>
    BY <1>0, <1>1, HandlerFacts
  <2> HIDE DEF j
  <2> QED  BY <1>0, <2>1, Next1Fits
<1> DEFINE n == IF j.kind = "result" THEN Idle ELSE Next1(j)
<1>3. n.pc # "do" /\ job' = [job EXCEPT ![w] = n]
  BY <1>1, <1>2, IdleFits
<1> HIDE DEF n
<1> QED  BY <1>1, <1>3, QuietJob

LEMMA Q_Throws ==
  ASSUME TInv, NEW w \in Workers, Throws(w)
  PROVE  Quiet
<1> DEFINE j == job[w]
           t == Tail(j.todo)
           r == LeftOf(j, t)
<1>0. j \in Job /\ JobFits(j) /\ ScriptInv /\ DOMAIN job = Workers
  BY Parts
<1>1. j.pc = "do" /\ UNCHANGED <<mirror, script, offchain>>
  BY <1>0, ThrowsCases
<1>2. /\ j.todo \in Seq(Writes) /\ TodoFits(j.todo, j.ev, j.read) /\ (j.kind # "result" => j.batch # <<>>)
  BY <1>0, <1>1, HandlerFacts
<1>3. ASSUME j.todo # <<>>, Head(j.todo)[1] = "payout", job' = [job EXCEPT ![w] = r] PROVE Quiet
  <2>1. /\ t \in Seq(Writes) /\ TodoFits(t, j.ev, j.read)
        /\ t # <<>> /\ t[1][1] = "match_count" => j.todo[1][1] = "match"
        /\ t # <<>> /\ t[1][1] = "grade" => j.todo[1][1] = "result"
    BY <1>2, <1>3, TailFits
  <2>2. j.todo[1][1] = "payout"
    BY <1>2, <1>3, HeadTail
  <2>3. r.read = j.read /\ r.todo = t
    <3> HIDE DEF j, t
    <3> QED  BY <1>0, <1>1, <2>1, LeftJob
  <2> HIDE DEF r, t
  <2>4. GoesOn(j, r)
    BY <1>1, <2>1, <2>2, <2>3 DEF GoesOn
  <2> QED  BY <1>1, <1>3, <2>4, QuietJob
<1>4. ASSUME job' = [job EXCEPT ![w] = Idle] PROVE Quiet
  <2>1. Idle.pc # "do"
    BY IdleFits
  <2> QED  BY <1>1, <1>4, <2>1, QuietJob
<1>5. ASSUME j.kind # "result", job' = [job EXCEPT ![w] = Next1(j)] PROVE Quiet
  <2>1. Next1(j).pc # "do"
    <3> HIDE DEF j
    <3> QED  BY <1>0, <1>2, <1>5, Next1Fits
  <2> QED  BY <1>1, <1>5, <2>1, QuietJob
<1>6. \/ j.todo # <<>> /\ Head(j.todo)[1] = "payout" /\ job' = [job EXCEPT ![w] = r]
      \/ job' = [job EXCEPT ![w] = Idle]
      \/ j.kind # "result" /\ job' = [job EXCEPT ![w] = Next1(j)]
  BY <1>0, ThrowsCases
<1> HIDE DEF r, j
<1> QED  BY <1>3, <1>4, <1>5, <1>6

\* No job starts a handler here.
LEMMA Q_Rest ==
  ASSUME TInv,
         \/ RollBack(Poller, "poll") \/ RollBack(Other, "reconcile") \/ Rewind(Poller) \/ Rewind(Other)
         \/ PollFetch \/ FetchFails \/ PollEnd \/ JobEnd \/ ReconcileSave
  PROVE  Quiet
<1>0. Poller \in Workers /\ Other \in Workers
  BY DEF Workers
<1>1. ASSUME NEW w \in Workers, NEW k \in {"poll", "reconcile"}, RollBack(w, k) PROVE Quiet
  <2> DEFINE r == RewindOf(k, Fork)
  <2>1. job' = [job EXCEPT ![w] = r] /\ UNCHANGED <<mirror, script, offchain>>
    BY <1>1 DEF RollBack, RewindOf
  <2>2. k \in Kinds /\ k # "result"
    BY <1>1 DEF Kinds
  <2>3. r.pc = "rewind"
    BY <2>2, ForkType, RewindJob
  <2> HIDE DEF r
  <2> QED  BY <2>1, <2>3, QuietJob
<1>2. ASSUME NEW w \in Workers, Rewind(w) PROVE Quiet
  <2> DEFINE r == IF job[w].kind = "poll" THEN FetchOf ELSE Idle
  <2>1. job' = [job EXCEPT ![w] = r] /\ UNCHANGED <<mirror, script, offchain>>
    BY <1>2, Parts DEF Rewind, FetchOf
  <2>2. r.pc # "do"
    BY FetchJob, IdleFits
  <2> HIDE DEF r
  <2> QED  BY <2>1, <2>2, QuietJob
<1>3. ASSUME PollFetch PROVE Quiet
  <2> DEFINE all == Events(cursor + 1)
             tp == IF all = <<>> THEN Len(chain) ELSE cursor
             b == Limited(all)
             r == IF all = <<>> /\ Len(chain) <= cursor THEN Idle ELSE PollOf(tp, b)
  <2>1. job' = [job EXCEPT ![Poller] = r] /\ UNCHANGED <<mirror, script, offchain>>
    BY <1>3 DEF PollFetch, PollOf
  <2>2. ChainInv /\ cursor \in Nat /\ cursor + 1 \in Nat
    BY <1>0, Parts
  <2>3. b \in Seq(Item) /\ \A p \in DOMAIN b : InPlace(b[p])
    BY <2>2, LimitedInPlace
  <2>4. tp \in Nat
    BY <2>2, ChainFacts
  <2> HIDE DEF all, tp, b
  <2>5. r.pc # "do"
    BY <2>3, <2>4, PollJob, IdleFits
  <2> HIDE DEF r
  <2> QED  BY <1>0, <2>1, <2>5, QuietJob
<1>4. ASSUME FetchFails PROVE Quiet
  <2> DEFINE r == FailedOf(cursor + 1)
  <2>1. job' = [job EXCEPT ![Poller] = r] /\ UNCHANGED <<mirror, script, offchain>>
    BY <1>4 DEF FetchFails, FailedOf
  <2>2. cursor + 1 \in Nat
    BY <1>0, Parts
  <2>3. r.pc = "loop"
    BY <2>2, FailedJob
  <2> HIDE DEF r
  <2> QED  BY <1>0, <2>1, <2>3, QuietJob
<1>5. ASSUME NEW w \in Workers, job' = [job EXCEPT ![w] = Idle], UNCHANGED <<mirror, script, offchain>> PROVE Quiet
  BY <1>5, IdleFits, QuietJob
<1>6. CASE PollEnd \/ JobEnd \/ ReconcileSave
  <2>1. UNCHANGED <<mirror, script, offchain>> /\ \E w \in Workers : job' = [job EXCEPT ![w] = Idle]
    BY <1>0, <1>6 DEF PollEnd, JobEnd, ReconcileSave
  <2> QED  BY <1>5, <2>1
<1> QED  BY <1>0, <1>1, <1>2, <1>3, <1>4, <1>6

\* Another job starts, and its first step comes later.
LEMMA Q_Starts ==
  ASSUME TInv, Retry \/ Reconcile \/ \E l \in Nat, k \in Nat : Backfill(l, k)
  PROVE  Quiet
<1>0. Other \in Workers /\ Idle \in Job
  BY IdleFits DEF Workers
<1>1. \A k, b : BatchOf(k, b).pc = "loop"
  BY <1>0 DEF BatchOf, Job
<1>2. \A s : SyncOf(s).pc = "sync"
  BY <1>0 DEF SyncOf, Job
<1>3. CASE Retry
  <2>1. UNCHANGED <<mirror, script, offchain>> /\ \E s : job' = [job EXCEPT ![Other] = BatchOf("retry", s)]
    BY <1>3 DEF Retry, Starts, BatchOf
  <2>2. PICK s : job' = [job EXCEPT ![Other] = BatchOf("retry", s)]
    BY <2>1
  <2>3. BatchOf("retry", s).pc # "do"
    BY <1>1
  <2> QED  BY <1>0, <2>1, <2>2, <2>3, QuietJob
<1>4. ASSUME NEW l \in Nat, NEW k \in Nat, Backfill(l, k) PROVE Quiet
  <2> DEFINE s == UpTo(Limited(Events(l)), k)
  <2>1. UNCHANGED <<mirror, script, offchain>> /\ job' = [job EXCEPT ![Other] = BatchOf("backfill", s)]
    BY <1>4 DEF Backfill, Starts, BatchOf
  <2>2. BatchOf("backfill", s).pc # "do"
    BY <1>1
  <2> QED  BY <1>0, <2>1, <2>2, QuietJob
<1>5. CASE Reconcile
  <2> DEFINE s == [ledger |-> Len(chain), hash |-> HashOf(Len(chain))]
  <2>1. UNCHANGED <<mirror, script, offchain>> /\ job' = [job EXCEPT ![Other] = SyncOf(s)]
    BY <1>5 DEF Reconcile, Starts, SyncOf
  <2>2. SyncOf(s).pc # "do"
    BY <1>2
  <2> QED  BY <1>0, <2>1, <2>2, QuietJob
<1> QED  BY <1>3, <1>4, <1>5

LEMMA Q_Restart ==
  ASSUME TInv, Restart
  PROVE  Quiet
<1>1. job' = [w \in Workers |-> Idle] /\ UNCHANGED <<mirror, script, offchain>>
  BY DEF Restart
<1>2. \A w \in Workers : job'[w].pc # "do"
  BY <1>1, IdleFits
<1> QED  BY <1>1, <1>2 DEF Quiet

LEMMA QuietNext ==
  ASSUME TInv, [Next]_vars
  PROVE  Quiet \/ \E w \in Workers : Write(w)
<1>0. Workers = {Poller, Other}
  BY DEF Workers
<1>1. CASE \E w \in Workers : Lookup(w) \/ Store(w) \/ StoreFails(w)
  BY <1>1, Q_Lookup, Q_Store, Q_StoreFails
<1>2. CASE \E w \in Workers : Close(w) \/ Throws(w)
  BY <1>2, Q_Close, Q_Throws
<1>3. CASE \/ RollBack(Poller, "poll") \/ RollBack(Other, "reconcile") \/ \E w \in Workers : Rewind(w)
           \/ PollFetch \/ FetchFails \/ PollEnd \/ JobEnd \/ ReconcileSave
  BY <1>0, <1>3, Q_Rest
<1>4. CASE Retry \/ Reconcile \/ \E l \in Nat, k \in Nat : Backfill(l, k)
  BY <1>4, Q_Starts
<1>5. CASE Restart
  BY <1>5, Q_Restart
<1>6. CASE RetryNext \/ \E ev \in OffchainResults : SubmitOffchain(ev)
  BY <1>6, Q_RetryNext, Q_SubmitOffchain
<1>7. CASE \/ \E n \in Nat : Produce(n) \/ Reorg(n)
           \/ ReconcileIdle \/ Listen \/ UNCHANGED vars \/ \E l \in Nat : Reindex(l) \/ Cleanup(l)
  <2>1. UNCHANGED <<mirror, script, job, offchain>>
    BY <1>7 DEF Produce, Reorg, ReconcileIdle, Listen, vars, Reindex, Cleanup
  <2> QED  BY <2>1, QuietTables
<1> QED  BY <1>1, <1>2, <1>3, <1>4, <1>5, <1>6, <1>7, NextCases

LEMMA O_Next ==
  ASSUME TInv, OInv, [Next]_vars
  PROVE  OInv'
BY QuietNext, O_Quiet, O_WriteMatch, O_WriteElse

LEMMA O_Init ==
  ASSUME Init
  PROVE  OInv
<1> DEFINE own == [e \in EventIds |-> {}]
<1>1. mirror = EmptyMirror /\ job = [w \in Workers |-> Idle]
  BY DEF Init
<1>2. own \in [EventIds -> SUBSET MatchIds] /\ \A e \in EventIds : own[e] = {}
  OBVIOUS
<1>3. \A e \in EventIds : mirror.event[e].match_count = 0
  BY <1>1, RowTypes DEF EmptyMirror
<1>4. \A w \in Workers : job[w].pc = "idle"
  BY <1>1, IdleFits
<1> HIDE DEF own
<1>5. \A e \in EventIds : Cardinality(own[e]) = 0
  BY <1>2, FS_EmptySet
<1>6. \A w \in Workers : CountFits(own, job[w])
  BY <1>4 DEF CountFits
<1>7. Owns(own)
  BY <1>2, <1>3, <1>5, <1>6 DEF Owns
<1> QED  BY <1>2, <1>7 DEF OInv

\* The members of the sets of T.
Owned(own, T) == UNION {own[x] : x \in T}

\* Sets that do not meet have together as many members as they have one by one.
LEMMA DisjointSum ==
  ASSUME NEW S, IsFiniteSet(S), NEW M, IsFiniteSet(M), NEW own \in [S -> SUBSET M],
         \A x, y \in S : x # y => own[x] \cap own[y] = {},
         NEW f \in [S -> Int], \A x \in S : f[x] = Cardinality(own[x])
  PROVE  SumFunction(f) <= Cardinality(Owned(own, S))
<1>1. PICK g \in [SUBSET S -> Int] : SumFunction(f) = g[S] /\ Sums(f, g, S)
  BY SumRecursion
<1>2. ASSUME NEW T \in SUBSET S
      PROVE  IsFiniteSet(Owned(own, T)) /\ Cardinality(Owned(own, T)) \in Nat
  <2>1. Owned(own, T) \subseteq M
    BY DEF Owned
  <2>2. IsFiniteSet(Owned(own, T))
    BY <2>1, FS_Subset
  <2> QED  BY <2>2, FS_CardinalityType
<1> DEFINE B == {T \in SUBSET S : ~(g[T] <= Cardinality(Owned(own, T)))}
<1>3. B = {}
  <2> SUFFICES ASSUME B # {} PROVE FALSE
    OBVIOUS
  <2>1. PICK T \in B : \A x \in T : T \ {x} \notin B
    <3>1. B \subseteq SUBSET S
      OBVIOUS
    <3> HIDE DEF B
    <3> QED  BY <3>1, SmallestSubset
  <2>2. T # {}
    <3>1. g[{}] = 0
      BY <1>1 DEF Sums
    <3>2. 0 <= Cardinality(Owned(own, {}))
      BY <1>2
    <3>3. {} \notin B
      BY <3>1, <3>2
    <3> QED  BY <3>3
  <2>3. PICK x \in T : TRUE
    BY <2>2
  <2> DEFINE R == T \ {x}
  <2>4. R \in SUBSET S /\ T \in SUBSET S /\ x \in S
    BY <2>3
  <2>5. g[T] = f[x] + g[R]
    BY <1>1, <2>4, SumsAt
  <2>6. g[R] <= Cardinality(Owned(own, R))
    BY <2>1, <2>3, <2>4
  <2>7. Owned(own, T) = own[x] \cup Owned(own, R) /\ own[x] \cap Owned(own, R) = {}
    BY <2>4 DEF Owned
  <2>8. own[x] \subseteq M
    BY <2>4
  <2>9. IsFiniteSet(own[x]) /\ Cardinality(own[x]) \in Nat
    BY <2>8, FS_Subset, FS_CardinalityType
  <2>10. IsFiniteSet(Owned(own, R)) /\ Cardinality(Owned(own, R)) \in Nat
    BY <1>2, <2>4
  <2>11. Cardinality(Owned(own, T)) = Cardinality(own[x]) + Cardinality(Owned(own, R))
    <3>1. Cardinality(own[x] \cup Owned(own, R))
            = Cardinality(own[x]) + Cardinality(Owned(own, R)) - Cardinality(own[x] \cap Owned(own, R))
      BY <2>9, <2>10, FS_Union
    <3>2. Cardinality(own[x] \cap Owned(own, R)) = 0
      BY <2>7, FS_EmptySet
    <3> QED  BY <2>7, <2>9, <2>10, <3>1, <3>2
  <2>12. f[x] = Cardinality(own[x]) /\ g[R] \in Int
    BY <2>4
  <2>13. ~(g[T] <= Cardinality(Owned(own, T)))
    BY <2>1
  <2> HIDE DEF B, R
  <2> QED  BY <2>5, <2>6, <2>9, <2>10, <2>11, <2>12, <2>13
<1>4. S \in SUBSET S
  OBVIOUS
<1> QED  BY <1>1, <1>3, <1>4

LEMMA CountsFollow ==
  ASSUME TInv, OInv
  PROVE  MatchesNotOvercounted
<1>1. PICK own \in Ownerships : Owns(own)
  BY DEF OInv, Ownerships
<1> DEFINE c == [e \in EventIds |-> mirror.event[e].match_count]
           f == [e \in EventIds |-> Cardinality(own[e])]
           stored == {m \in MatchIds : mirror.match[m].exists}
<1>2. mirror \in Mirror
  BY Parts DEF Workers
<1>3. c \in [EventIds -> Int] /\ f \in [EventIds -> Int]
  BY <1>2, EventCount, OwnSize
<1>4. \A e \in EventIds : c[e] <= f[e] /\ f[e] = Cardinality(own[e])
  BY <1>1 DEF Owns
<1>5. Owned(own, EventIds) \subseteq stored
  BY <1>1 DEF Owned, Owns, Ownerships
<1>6. IsFiniteSet(EventIds) /\ IsFiniteSet(MatchIds) /\ IsFiniteSet(stored)
  BY MirrorAssumption, FS_Subset
<1> HIDE DEF c, f, stored
<1>7. SumFunction(c) <= SumFunction(f)
  BY <1>3, <1>4, <1>6, SumMonotone
<1>8. own \in [EventIds -> SUBSET MatchIds] /\ \A e, h \in EventIds : e # h => own[e] \cap own[h] = {}
  BY <1>1 DEF Owns, Ownerships
<1>9. SumFunction(f) <= Cardinality(Owned(own, EventIds))
  BY <1>3, <1>4, <1>6, <1>8, DisjointSum
<1>10. /\ Cardinality(Owned(own, EventIds)) <= Cardinality(stored)
       /\ Cardinality(Owned(own, EventIds)) \in Nat /\ Cardinality(stored) \in Nat
  BY <1>5, <1>6, FS_Subset, FS_CardinalityType
<1>11. SumFunction(c) \in Int /\ SumFunction(f) \in Int
  BY <1>3, <1>6, SumInt
<1>12. SumFunction(c) <= Cardinality(stored)
  BY <1>7, <1>9, <1>10, <1>11
<1> QED  BY <1>12 DEF MatchesNotOvercounted, c, stored

\* match_count never exceeds the matches that are stored.  handleMatchAdded
\* writes the count of the copy it read plus one, but only behind an insert that
\* the unique index grants to one worker; so however copies overlap, a count can
\* be lost and never be made up.
THEOREM MatchesCountedOnce == Spec => []MatchesNotOvercounted
<1>1. Init => TInv /\ OInv
  BY T_Init, O_Init
<1>2. TInv /\ OInv /\ [Next]_vars => TInv' /\ OInv'
  BY T_Next, O_Next
<1>3. TInv /\ OInv => MatchesNotOvercounted
  BY CountsFollow
<1> QED  BY <1>1, <1>2, <1>3, PTL DEF Spec

-----------------------------------------------------------------------------
(* The fourth layer. *)

LEMMA G_Quiet ==
  ASSUME GInv, Quiet
  PROVE  GInv'
<1> SUFFICES ASSUME ~offchain'
             PROVE  /\ \A m \in MatchIds : Shows(mirror.match[m], m)'
                    /\ \A k \in MatchIds \X Users : GradedAs(mirror'.prediction[k], mirror'.match[k[1]])
                    /\ \A w \in Workers : GradesBy(job[w])'
  BY DEF GInv, Shows, IsResult
<1>1. mirror' = mirror /\ script' = script /\ ~offchain
  BY DEF Quiet
<1>2. /\ \A m \in MatchIds : Shows(mirror.match[m], m)
      /\ \A k \in MatchIds \X Users : GradedAs(mirror.prediction[k], mirror.match[k[1]])
      /\ \A w \in Workers : GradesBy(job[w])
  BY <1>1 DEF GInv
<1>3. \A m \in MatchIds : Shows(mirror.match[m], m)'
  BY <1>1, <1>2 DEF Shows, IsResult
<1>4. \A k \in MatchIds \X Users : GradedAs(mirror'.prediction[k], mirror'.match[k[1]])
  BY <1>1, <1>2
<1>5. ASSUME NEW w \in Workers PROVE GradesBy(job[w])'
  <2>1. CASE job'[w] = job[w]
    BY <1>1, <1>2, <2>1 DEF GradesBy, Grading
  <2>2. CASE job'[w].pc # "do"
    BY <2>2 DEF GradesBy, Grading
  <2>3. CASE StartsFresh(job'[w]) \/ GoesOn(job[w], job'[w])
    BY <2>3 DEF GradesBy, Grading, StartsFresh, GoesOn
  <2> QED  BY <2>1, <2>2, <2>3 DEF Quiet
<1> QED  BY <1>3, <1>4, <1>5

\* Without a result from off chain, whoever writes handles an event of the contract.
LEMMA WriterOnChain ==
  ASSUME TInv, NEW w \in Workers, Write(w), ~offchain
  PROVE  /\ job[w].todo[1][1] # "score"
         /\ job[w].todo[1][1] = "result" => IsResult(job[w].ev.match, job[w].ev.outcome)
<1> DEFINE j == job[w]
<1>0. j \in Job /\ JobFits(j) /\ ScriptInv
  BY Parts
<1>1. j.pc = "do" /\ j.todo # <<>>
  BY DEF Write
<1>2. /\ j.todo \in Seq(Writes) /\ TodoFits(j.todo, j.ev, j.read) /\ j.ev \in ToSet(script)
  BY <1>0, <1>1, HandlerFacts
<1>3. j.ev.type # "submitResult"
  BY <1>0, <1>2, ScriptMembers
<1>4. 1 \in DOMAIN j.todo
  BY <1>1, <1>2, HeadTail
<1> HIDE DEF j
<1>5. j.todo[1][1] # "score" /\ (j.todo[1][1] = "result" => j.ev.type = "MatchResultSubmitted")
  BY <1>2, <1>3, <1>4 DEF TodoFits
<1>6. \E i \in DOMAIN script : script[i] = j.ev
  BY <1>2 DEF ToSet
<1>7. j.todo[1][1] = "result" => IsResult(j.ev.match, j.ev.outcome)
  BY <1>5, <1>6 DEF IsResult
<1> QED  BY <1>5, <1>7 DEF j

LEMMA ResultUnique ==
  ASSUME ScriptInv, NEW m, NEW o, NEW p, IsResult(m, o), IsResult(m, p)
  PROVE  o = p
<1>1. PICK i \in DOMAIN script : script[i].type = "MatchResultSubmitted" /\ script[i].match = m /\ script[i].outcome = o
  BY DEF IsResult
<1>2. PICK k \in DOMAIN script : script[k].type = "MatchResultSubmitted" /\ script[k].match = m /\ script[k].outcome = p
  BY DEF IsResult
<1>3. script[i].outcome = script[k].outcome
  BY <1>1, <1>2, OneResult
<1> QED  BY <1>1, <1>2, <1>3

\* A result that is shown stays, whoever writes the match.
LEMMA ResultKept ==
  ASSUME TInv, GInv, ~offchain, NEW w \in Workers, Write(w),
         NEW m \in MatchIds, mirror.match[m].winning_team # "null"
  PROVE  mirror'.match[m].winning_team = mirror.match[m].winning_team
<1> DEFINE j == job[w]
<1>0. WriteOf(j, job'[w]) /\ ScriptInv
  BY WriteFacts, Parts
<1>1. /\ MatchOf(j.todo[1][1], j.ev, j.read, mirror, mirror')
      /\ j.todo[1][1] = "match" => ~mirror.match[j.ev.match].exists
  BY <1>0 DEF WriteOf, Effect
<1>2. mirror.match[m].exists /\ IsResult(m, mirror.match[m].winning_team)
  BY DEF GInv, Shows
<1>3. j.todo[1][1] = "result" => IsResult(j.ev.match, j.ev.outcome)
  BY WriterOnChain
<1> HIDE DEF j
<1>4. CASE m # j.ev.match \/ j.todo[1][1] \notin {"match", "result"}
  BY <1>1, <1>4 DEF MatchOf
<1>5. CASE m = j.ev.match /\ j.todo[1][1] = "match"
  BY <1>1, <1>2, <1>5
<1>6. CASE m = j.ev.match /\ j.todo[1][1] = "result"
  <2>1. j.ev.outcome = mirror.match[m].winning_team
    BY <1>0, <1>2, <1>3, <1>6, ResultUnique
  <2>2. mirror'.match[m].winning_team = j.ev.outcome
    BY <1>1, <1>6 DEF MatchOf
  <2> QED  BY <2>1, <2>2
<1> QED  BY <1>4, <1>5, <1>6

LEMMA G_Write ==
  ASSUME TInv, GInv, NEW w \in Workers, Write(w)
  PROVE  GInv'
<1> DEFINE j == job[w]
<1>0. /\ WriteOf(j, job'[w]) /\ (\A v \in Workers : v # w => job'[v] = job[v])
      /\ UNCHANGED <<script, offchain>>
  BY WriteFacts
<1> SUFFICES ASSUME ~offchain
             PROVE  /\ \A m \in MatchIds : Shows(mirror'.match[m], m)
                    /\ \A k \in MatchIds \X Users : GradedAs(mirror'.prediction[k], mirror'.match[k[1]])
                    /\ \A v \in Workers : GradesBy(job[v])'
  BY <1>0 DEF GInv, Shows, IsResult
<1>1. /\ MatchOf(j.todo[1][1], j.ev, j.read, mirror, mirror') /\ PredictionOf(j.todo[1][1], j.ev, mirror, mirror')
      /\ WellFormed(j.ev) /\ j.pc = "do" /\ j.todo # <<>>
      /\ job'[w].ev = j.ev
      /\ job'[w].todo # <<>> /\ job'[w].todo[1][1] = "grade" => j.todo[1][1] = "result"
  BY <1>0 DEF WriteOf, Effect
<1>2. /\ \A m \in MatchIds : Shows(mirror.match[m], m)
      /\ \A k \in MatchIds \X Users : GradedAs(mirror.prediction[k], mirror.match[k[1]])
      /\ \A v \in Workers : GradesBy(job[v])
  BY DEF GInv
<1>3. /\ j.todo[1][1] # "score"
      /\ j.todo[1][1] = "result" => IsResult(j.ev.match, j.ev.outcome)
  BY WriterOnChain
<1>4. \A m \in MatchIds : mirror.match[m].winning_team # "null"
                           => mirror'.match[m].winning_team = mirror.match[m].winning_team
  BY ResultKept
<1>5. j.ev.match \in MatchIds /\ j.ev.outcome # "null"
  BY <1>1 DEF WellFormed
<1>6. ASSUME NEW m \in MatchIds PROVE Shows(mirror'.match[m], m)
  <2> HIDE DEF j
  <2>1. CASE m # j.ev.match \/ j.todo[1][1] \notin {"match", "result"}
    <3>1. mirror'.match[m] = mirror.match[m]
      BY <1>1, <2>1 DEF MatchOf
    <3> QED  BY <1>2, <3>1
  <2>2. CASE m = j.ev.match /\ j.todo[1][1] = "match"
    BY <1>1, <2>2 DEF MatchOf, Shows
  <2>3. CASE m = j.ev.match /\ j.todo[1][1] = "result"
    BY <1>1, <1>3, <2>3 DEF MatchOf, Shows
  <2> QED  BY <2>1, <2>2, <2>3
<1>7. ASSUME NEW k \in MatchIds \X Users PROVE GradedAs(mirror'.prediction[k], mirror'.match[k[1]])
  <2>0. k[1] \in MatchIds /\ GradedAs(mirror.prediction[k], mirror.match[k[1]])
    BY <1>2
  <2>1. CASE mirror'.prediction[k] = mirror.prediction[k]
    BY <1>4, <2>0, <2>1 DEF GradedAs
  <2>2. CASE mirror'.prediction[k].is_correct = "null"
    BY <2>2 DEF GradedAs
  <2>3. CASE /\ j.todo[1][1] = "grade" /\ k[1] = j.ev.match
             /\ GradedBy(j.ev, mirror.prediction[k], mirror'.prediction[k])
    <3>1. mirror.match[j.ev.match].winning_team = j.ev.outcome
      BY <1>1, <1>2, <2>3 DEF GradesBy, Grading
    <3>2. mirror'.match[k[1]].winning_team = j.ev.outcome
      BY <1>4, <1>5, <2>3, <3>1
    <3> HIDE DEF j
    <3>3. /\ mirror'.prediction[k].outcome = mirror.prediction[k].outcome
          /\ mirror'.prediction[k].is_correct
               = IF mirror.prediction[k].outcome = j.ev.outcome THEN "true" ELSE "false"
      BY <2>3 DEF GradedBy
    <3> QED  BY <1>5, <3>2, <3>3 DEF GradedAs
  <2> HIDE DEF j
  <2> QED  BY <1>1, <1>3, <2>1, <2>2, <2>3 DEF PredictionOf
<1>8. ASSUME NEW v \in Workers PROVE GradesBy(job[v])'
  <2> SUFFICES ASSUME Grading(job'[v])
               PROVE  mirror'.match[job'[v].ev.match].winning_team = job'[v].ev.outcome
    BY DEF GradesBy, Grading
  <2>1. CASE v = w
    <3>1. j.todo[1][1] = "result"
      BY <1>1, <2>1 DEF Grading
    <3> QED  BY <1>1, <2>1, <3>1 DEF MatchOf
  <2>2. CASE v # w
    <3>1. job'[v] = job[v] /\ Grading(job[v])
      BY <1>0, <2>2
    <3>2. mirror.match[job[v].ev.match].winning_team = job[v].ev.outcome
      BY <1>2, <3>1 DEF GradesBy
    <3>3. job[v].ev.match \in MatchIds /\ job[v].ev.outcome # "null"
      <4>1. WellFormed(job[v].ev)
        BY <3>1, Parts, HandlerFacts DEF Grading
      <4> QED  BY <4>1 DEF WellFormed
    <3> QED  BY <1>4, <3>1, <3>2, <3>3
  <2> QED  BY <2>1, <2>2
<1> QED  BY <1>6, <1>7, <1>8

LEMMA G_Next ==
  ASSUME TInv, GInv, [Next]_vars
  PROVE  GInv'
BY QuietNext, G_Quiet, G_Write

LEMMA G_Init ==
  ASSUME Init
  PROVE  GInv
<1>1. mirror = EmptyMirror /\ job = [w \in Workers |-> Idle]
  BY DEF Init
<1>2. \A m \in MatchIds : mirror.match[m].winning_team = "null"
  BY <1>1, RowTypes DEF EmptyMirror
<1>3. \A k \in MatchIds \X Users : mirror.prediction[k].is_correct = "null"
  BY <1>1, RowTypes DEF EmptyMirror
<1>4. \A w \in Workers : job[w].pc = "idle"
  BY <1>1, IdleFits
<1> QED  BY <1>2, <1>3, <1>4 DEF GInv, Shows, GradedAs, GradesBy, Grading

LEMMA GradesFollow ==
  ASSUME GInv
  PROVE  GradesAgree
<1> SUFFICES ASSUME ~offchain, NEW m \in MatchIds, NEW u \in Users,
                    mirror.prediction[<<m, u>>].is_correct # "null"
             PROVE  (mirror.prediction[<<m, u>>].is_correct = "true")
                      = (mirror.prediction[<<m, u>>].outcome = mirror.match[m].winning_team)
  BY DEF GradesAgree
<1> DEFINE k == <<m, u>>
<1>1. k \in MatchIds \X Users /\ k[1] = m
  OBVIOUS
<1> HIDE DEF k
<1>2. GradedAs(mirror.prediction[k], mirror.match[m])
  BY <1>1 DEF GInv
<1> QED  BY <1>2 DEF GradedAs, k

\* A graded prediction is graded by the result its match shows, whatever fails,
\* overlaps or is replayed, as long as no result comes from off chain: the save
\* of the match precedes the grading, and a replayed event carries the same
\* result, so the copies that repository.save writes back cannot undo it.
THEOREM GradesMatchResults == Spec => []GradesAgree
<1>1. Init => TInv /\ GInv
  BY T_Init, G_Init
<1>2. TInv /\ GInv /\ [Next]_vars => TInv' /\ GInv'
  BY T_Next, G_Next
<1>3. GInv => GradesAgree
  BY GradesFollow
<1> QED  BY <1>1, <1>2, <1>3, PTL DEF Spec
=============================================================================
