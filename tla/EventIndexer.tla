---------------------------- MODULE EventIndexer ----------------------------
(***************************************************************************)
(* backend/src/indexer: the poll that copies the contract's events into    *)
(* contract_events and hands each to its handler (EventMirror), the        *)
(* administrator's backfill, retry, reindex and cleanup, the               *)
(* reconciliation job, the Soroban listener that shares the chain-sync     *)
(* checkpoint, and submitResult of the matches API.                        *)
(*                                                                         *)
(* The chain emits the events of a script in the contract's order, any     *)
(* number of them per ledger; a reorganization replaces the last ledger.   *)
(* A step is what happens between two awaits that others can observe.  One *)
(* instance runs the poller and one more job at a time.                    *)
(***************************************************************************)
EXTENDS EventMirror, SequencesExt

CONSTANTS
  Setups,               \* what the contract may emit, and whether the RPC reports log_index
  OffchainResults,      \* what submitResult may be called with
  Poller, Other,        \* the cron poll, and the job that runs next to it
  BATCH_SIZE, ROLLBACK_DEPTH, DLQ_THRESHOLD, MAX_RETRIES,
  NoHash, NoRow,
  MaxLedgers,           \* bound: length of the chain
  MaxFaults,            \* bound: failing calls and statements, crashes
  MaxReorgs,            \* bound: reorganizations
  MaxJobs,              \* bound: jobs next to the poll
  MaxIncidents          \* bound: all of these together

ASSUME IndexerAssumption ==
  /\ BATCH_SIZE \in Nat \ {0} /\ ROLLBACK_DEPTH \in Nat
  /\ DLQ_THRESHOLD \in Nat /\ MAX_RETRIES \in Nat
  /\ MaxLedgers \in Nat /\ Poller # Other

ASSUME MirrorAssumption ==
  IsFiniteSet(EventIds) /\ IsFiniteSet(MatchIds) /\ ENTRY_FEE \in Nat

\* An event names an event, a match, an outcome and so on; the fields that its
\* type does not have hold any value.
WellFormed(ev) ==
  /\ ev.event \in EventIds /\ ev.match \in MatchIds
  /\ ev.outcome \in {"TEAM_A", "TEAM_B", "DRAW"}
  /\ ev.score \in {NoScore} \cup (Nat \X Nat) /\ ev.multiplier \in Nat
  /\ ev.board \in Seq(ToSet(ev.board))

\* The contract accepts one result for a match; submitResult is no event of its.
ASSUME SetupsAssumption ==
  /\ \A s \in Setups :
       /\ s[1] \in Seq(ToSet(s[1])) /\ s[2] \in BOOLEAN
       /\ \A i \in DOMAIN s[1] : WellFormed(s[1][i]) /\ s[1][i].type # "submitResult"
       /\ \A i, k \in DOMAIN s[1] :
            /\ s[1][i].type = "MatchResultSubmitted" /\ s[1][k].type = "MatchResultSubmitted"
            /\ s[1][i].match = s[1][k].match
            => s[1][i].outcome = s[1][k].outcome
  /\ \A ev \in OffchainResults : WellFormed(ev) /\ ev.type = "submitResult"

VARIABLES
  script,    \* the script the contract follows
  reported,  \* does the RPC report log_index?
  chain,     \* the ledgers: hash and indices into script
  rows,      \* contract_events, by <<ledger, log_index, inserting job>>
  cursor,    \* indexer_checkpoints: the working cursor
  sync,      \* chain_sync_checkpoints: ledger and its hash
  listened,  \* the listener's own cursor
  mirror,    \* the mirrored tables
  job,       \* where the poller and the other job are
  faults, reorgs, jobs,    \* what happened so far
  handled,   \* history: events whose handler ran to an end
  gaps,      \* history: ledgers the cursor may pass without having read them all
  offchain   \* history: was a result submitted off chain?

vars == <<script, reported, chain, rows, cursor, sync, listened, mirror, job,
          faults, reorgs, jobs, handled, gaps, offchain>>
Workers == {Poller, Other}

Idle == [pc |-> "idle", kind |-> "poll", top |-> 0, batch |-> <<>>, id |-> NoRow, status |-> "pending",
         retry |-> 0, ev |-> [type |-> "none"], todo |-> <<>>, read |-> NoRow, sync |-> NoHash]

Init ==
  /\ \E s \in Setups : script = s[1] /\ reported = s[2]
  /\ chain = <<>> /\ rows = [i \in {} |-> NoRow]
  /\ cursor = 0 /\ sync = [ledger |-> 0, hash |-> NoHash] /\ listened = 0
  /\ mirror = EmptyMirror
  /\ job = [w \in Workers |-> Idle]
  /\ faults = 0 /\ reorgs = 0 /\ jobs = 0
  /\ handled = {} /\ gaps = {} /\ offchain = FALSE

\* The bound leaves room for one more incident.
Spared == faults + reorgs + jobs < MaxIncidents

-----------------------------------------------------------------------------
(* The chain and what the RPC answers. *)

OnChain == UNION {ToSet(chain[l].evs) : l \in DOMAIN chain}

\* The next n events of the script, as the ledger at a given height.
Ledger(height, first, n) ==
  [hash |-> <<height, reorgs'>>, evs |-> [i \in 1..n |-> first + i - 1]]

Produce(n) ==
  /\ Len(chain) < MaxLedgers
  /\ Cardinality(OnChain) + n <= Len(script)
  /\ UNCHANGED reorgs
  /\ chain' = Append(chain, Ledger(Len(chain) + 1, Cardinality(OnChain) + 1, n))
  /\ UNCHANGED <<script, reported, rows, cursor, sync, listened, mirror, job, faults, jobs,
                 handled, gaps, offchain>>

\* The last ledger is orphaned: another one takes its place.
Reorg(n) ==
  LET l    == Len(chain)
      kept == Cardinality(OnChain) - Len(chain[l].evs)
  IN  /\ l > 0 /\ reorgs < MaxReorgs /\ Spared
      /\ kept + n <= Len(script)
      /\ reorgs' = reorgs + 1
      /\ chain' = [chain EXCEPT ![l] = Ledger(l, kept + 1, n)]
      /\ gaps' = gaps \cup {l}
      /\ UNCHANGED <<script, reported, rows, cursor, sync, listened, mirror, job, faults, jobs,
                     handled, offchain>>

\* fetchLedgerHash
HashOf(l) == IF l \in DOMAIN chain THEN chain[l].hash ELSE NoHash

\* getEvents from a ledger on, without its limit; parseRawEvent takes the
\* position in the answer where the RPC reports no log_index.
Events(from) ==
  LET all == FlattenSeq([k \in 1..Len(chain) |->
               IF k < from THEN <<>>
               ELSE [i \in 1..Len(chain[k].evs) |->
                      [ledger |-> k, log |-> i - 1, idx |-> chain[k].evs[i], id |-> NoRow,
                       retry |-> 0]]])
  IN  [i \in 1..Len(all) |-> IF reported THEN all[i] ELSE [all[i] EXCEPT !.log = i - 1]]

Limited(s) == SubSeq(s, 1, IF Len(s) < BATCH_SIZE THEN Len(s) ELSE BATCH_SIZE)

\* The ledger whose events the limit tears apart.
Cut(s) ==
  IF Len(s) > BATCH_SIZE /\ s[BATCH_SIZE].ledger = s[BATCH_SIZE + 1].ledger
  THEN {s[BATCH_SIZE].ledger} ELSE {}

-----------------------------------------------------------------------------
(* The poll: reorganizations and fetching. *)

Fault == faults < MaxFaults /\ Spared /\ faults' = faults + 1

Busy(w) == job[w].pc # "idle"

\* detectAndHandleReorg
Diverged ==
  /\ sync.ledger > 0 /\ sync.hash # NoHash
  /\ HashOf(sync.ledger) \notin {NoHash, sync.hash}

Fork == IF sync.ledger > ROLLBACK_DEPTH THEN sync.ledger - ROLLBACK_DEPTH ELSE 0

RowsUpTo(l) == [i \in {k \in DOMAIN rows : rows[k].ledger <= l} |-> rows[i]]

\* Rows above the fork are deleted and the chain-sync checkpoint moves back;
\* the working cursor follows in a statement of its own.
RollBack(w, kind) ==
  /\ ~Busy(w) /\ Diverged
  /\ rows' = RowsUpTo(Fork)
  /\ sync' = [ledger |-> Fork, hash |-> HashOf(Fork)]
  /\ job' = [job EXCEPT ![w] = [Idle EXCEPT !.pc = "rewind", !.kind = kind, !.top = Fork]]
  /\ UNCHANGED <<script, reported, chain, cursor, listened, mirror, faults, reorgs, handled, gaps, offchain>>

\* The reconciliation's run ends here; its rest is a run of its own.
Rewind(w) ==
  /\ job[w].pc = "rewind"
  /\ cursor' = job[w].top
  /\ job' = [job EXCEPT ![w] =
       IF @.kind = "poll" THEN [Idle EXCEPT !.pc = "fetch"] ELSE Idle]
  /\ gaps' = gaps \cup (cursor + 1 .. job[w].top)
  /\ UNCHANGED <<script, reported, chain, rows, sync, listened, mirror, faults, reorgs, jobs,
                 handled, offchain>>

PollRollBack == RollBack(Poller, "poll") /\ UNCHANGED jobs

\* The poll goes on after a rollback, or starts on a chain that did not diverge.
Polling == job[Poller].pc = "fetch" \/ (~Busy(Poller) /\ ~Diverged)

\* An empty answer moves the cursor to the head, if that is further on.
PollFetch ==
  LET all == Events(cursor + 1)
      top == IF all = <<>> THEN Len(chain) ELSE cursor
  IN  /\ Polling
      /\ job' = [job EXCEPT ![Poller] =
           IF all = <<>> /\ Len(chain) <= cursor THEN Idle
           ELSE [Idle EXCEPT !.pc = "loop", !.top = top, !.batch = Limited(all)]]
      /\ gaps' = {l \in gaps : l <= cursor \/ l > Len(chain)} \cup Cut(all)
      /\ UNCHANGED <<script, reported, chain, rows, cursor, sync, listened, mirror, faults,
                     reorgs, jobs, handled, offchain>>

\* A failed request is answered by no events and the ledger asked for.
FetchFails ==
  /\ Polling /\ Fault
  /\ job' = [job EXCEPT ![Poller] = [Idle EXCEPT !.pc = "loop", !.top = cursor + 1]]
  /\ gaps' = gaps \cup {cursor + 1}
  /\ UNCHANGED <<script, reported, chain, rows, cursor, sync, listened, mirror, reorgs, jobs,
                 handled, offchain>>

-----------------------------------------------------------------------------
(* storeAndProcessEvent, for every event of a batch. *)

Higher(a, b) == IF a > b THEN a ELSE b

Found(item) == {i \in DOMAIN rows : rows[i].ledger = item.ledger /\ rows[i].log = item.log}

\* The loop goes on with the next event; top is maxProcessedLedger.
Next1(j) ==
  [Idle EXCEPT !.pc = "loop", !.kind = j.kind, !.batch = Tail(j.batch),
               !.top = Higher(j.top, Head(j.batch).ledger)]

Lookup(w) ==
  LET j    == job[w]
      item == Head(j.batch)
  IN  /\ j.pc = "loop" /\ j.batch # <<>> /\ j.kind # "retry"
      /\ \/ /\ Found(item) = {}
            /\ job' = [job EXCEPT ![w] = [j EXCEPT !.pc = "store", !.id = <<item.ledger, item.log, w>>]]
            /\ UNCHANGED gaps
         \/ \E i \in Found(item) :
              /\ rows[i].status # "processed"
              /\ job' = [job EXCEPT ![w] =
                   [j EXCEPT !.pc = "store", !.id = i, !.status = rows[i].status, !.retry = rows[i].retry]]
              /\ UNCHANGED gaps
         \/ \E i \in Found(item) :
              /\ rows[i].status = "processed"
              /\ job' = [job EXCEPT ![w] = Next1(j)]
              /\ gaps' = IF item.idx \in handled \/ (reported /\ reorgs = 0) THEN gaps
                         ELSE gaps \cup {item.ledger}
      /\ UNCHANGED <<script, reported, chain, rows, cursor, sync, listened, mirror, faults,
                     reorgs, jobs, handled, offchain>>

Saved(item, j, status, retry) ==
  [i \in DOMAIN rows \cup {j.id} |->
     IF i = j.id THEN [ledger |-> item.ledger, log |-> item.log, idx |-> item.idx,
                       status |-> status, retry |-> retry]
     ELSE rows[i]]

Handling(j, idx) ==
  [j EXCEPT !.pc = "do", !.ev = script[idx], !.todo = Todo(script[idx], mirror), !.read = mirror]

\* The row is saved as it was looked up, and the handler reads what it needs.
Store(w) ==
  LET j    == job[w]
      item == Head(j.batch)
  IN  /\ j.pc = "store"
      /\ rows' = Saved(item, j, j.status, j.retry)
      /\ job' = [job EXCEPT ![w] = Handling(j, item.idx)]
      /\ UNCHANGED <<script, reported, chain, cursor, sync, listened, mirror, faults, reorgs,
                     jobs, handled, gaps, offchain>>

\* The insert throws: the loop logs it, goes on, and a later event of the batch
\* may still move the cursor past this one.
StoreFails(w) ==
  LET j == job[w]
  IN  /\ j.pc = "store" /\ Fault
      /\ job' = [job EXCEPT ![w] = [Next1(j) EXCEPT !.top = j.top]]
      /\ gaps' = gaps \cup {Head(j.batch).ledger}
      /\ UNCHANGED <<script, reported, chain, rows, cursor, sync, listened, mirror, reorgs, jobs,
                     handled, offchain>>

\* One statement of the handler.
Write(w) ==
  LET j == job[w]
  IN  /\ j.pc = "do" /\ j.todo # <<>>
      /\ ~Refused(Head(j.todo), j.ev, mirror)
      /\ mirror' = Applied(Head(j.todo), j.ev, j.read, mirror)
      /\ job' = [job EXCEPT ![w].todo = Tail(@)]
      /\ UNCHANGED <<script, reported, chain, rows, cursor, sync, listened, faults, reorgs, jobs,
                     handled, gaps, offchain>>

\* The handler returned: the row is processed.
Close(w) ==
  LET j == job[w]
  IN  /\ j.pc = "do" /\ j.todo = <<>>
      /\ IF j.kind = "result"
         THEN /\ job' = [job EXCEPT ![w] = Idle]
              /\ UNCHANGED <<rows, handled>>
         ELSE /\ rows' = Saved(Head(j.batch), j, "processed", j.retry)
              /\ handled' = handled \cup {Head(j.batch).idx}
              /\ job' = [job EXCEPT ![w] = Next1(j)]
      /\ UNCHANGED <<script, reported, chain, cursor, sync, listened, mirror, faults, reorgs,
                     jobs, gaps, offchain>>

\* A statement fails, or the unique index refuses it.  An entry of the final
\* leaderboard is skipped; otherwise the event is failed, and after enough
\* failures a dead letter.  retryFailedEvents leaves the row as it was.
Throws(w) ==
  LET j == job[w]
      n == j.retry + 1
  IN  /\ j.pc = "do"
      /\ \/ j.todo # <<>> /\ Refused(Head(j.todo), j.ev, mirror) /\ UNCHANGED faults
         \/ Fault
      /\ IF j.todo # <<>> /\ Head(j.todo)[1] = "payout"
         THEN /\ job' = [job EXCEPT ![w].todo = Tail(@)]
              /\ UNCHANGED <<rows, handled>>
         ELSE IF j.kind = "result"
         THEN /\ job' = [job EXCEPT ![w] = Idle]
              /\ UNCHANGED <<rows, handled>>
         ELSE /\ rows' = IF j.kind = "retry" THEN rows
                         ELSE Saved(Head(j.batch), j, IF n >= DLQ_THRESHOLD THEN "dlq" ELSE "failed", n)
              /\ handled' = handled \cup {Head(j.batch).idx}
              /\ job' = [job EXCEPT ![w] = Next1(j)]
      /\ UNCHANGED <<script, reported, chain, cursor, sync, listened, mirror, reorgs, jobs, gaps,
                     offchain>>

\* Mutant: the cursor moves to the head after every batch.
PollEnd_ToHead ==
  /\ job[Poller].pc = "loop" /\ job[Poller].batch = <<>>
  /\ cursor' = Len(chain)
  /\ sync' = [ledger |-> Higher(sync.ledger, Len(chain)), hash |-> HashOf(Len(chain))]
  /\ job' = [job EXCEPT ![Poller] = Idle]
  /\ UNCHANGED <<script, reported, chain, rows, listened, mirror, faults, reorgs, jobs, handled,
                 gaps, offchain>>

\* The cursor moves to the highest ledger processed, then advanceCheckpoint and
\* persistIndexedLedgerHash; the hash request may fail.
PollEnd ==
  LET l == job[Poller].top
  IN  /\ job[Poller].pc = "loop" /\ job[Poller].batch = <<>>
      /\ cursor' = l
      /\ \/ /\ sync' = [ledger |-> Higher(sync.ledger, l),
                        hash |-> IF HashOf(l) = NoHash THEN sync.hash ELSE HashOf(l)]
            /\ UNCHANGED faults
         \/ /\ sync' = [sync EXCEPT !.ledger = Higher(@, l)]
            /\ Fault
      /\ job' = [job EXCEPT ![Poller] = Idle]
      /\ UNCHANGED <<script, reported, chain, rows, listened, mirror, reorgs, jobs, handled, gaps,
                     offchain>>

-----------------------------------------------------------------------------
(* The other jobs. *)

\* Another job starts.
Starts(j) ==
  /\ ~Busy(Other) /\ jobs < MaxJobs /\ Spared
  /\ jobs' = jobs + 1
  /\ job' = [job EXCEPT ![Other] = j]

\* The loop breaks at the first event after the range.
UpTo(s, to) == SubSeq(s, 1, Cardinality({i \in DOMAIN s : s[i].ledger <= to}))

\* backfillEvents, for a range that fits in one of its windows.
Backfill(from, to) ==
  /\ Starts([Idle EXCEPT !.pc = "loop", !.kind = "backfill",
       !.batch = UpTo(Limited(Events(from)), to)])
  /\ UNCHANGED <<script, reported, chain, rows, cursor, sync, listened, mirror, faults, reorgs,
                 handled, gaps, offchain>>

\* retryFailedEvents: the rows are read at once, in no particular order.
Retry ==
  LET failed == {i \in DOMAIN rows : rows[i].status \in {"failed", "dlq"} /\ rows[i].retry < MAX_RETRIES}
      asItem(i) == [ledger |-> rows[i].ledger, log |-> rows[i].log, idx |-> rows[i].idx, id |-> i,
                    retry |-> rows[i].retry]
  IN  /\ failed # {}
      /\ \E s \in SetToSeqs({asItem(i) : i \in failed}) :
           Starts([Idle EXCEPT !.pc = "loop", !.kind = "retry", !.batch = s])
      /\ UNCHANGED <<script, reported, chain, rows, cursor, sync, listened, mirror, faults,
                     reorgs, handled, gaps, offchain>>

RetryNext ==
  LET j == job[Other]
  IN  /\ j.pc = "loop" /\ j.kind = "retry" /\ j.batch # <<>>
      /\ job' = [job EXCEPT ![Other] = 
       [Handling(j, Head(j.batch).idx) EXCEPT !.id = Head(j.batch).id, !.retry = Head(j.batch).retry]]
      /\ UNCHANGED <<script, reported, chain, rows, cursor, sync, listened, mirror, faults,
                     reorgs, jobs, handled, gaps, offchain>>

JobEnd ==
  /\ job[Other].pc = "loop" /\ job[Other].batch = <<>>
  /\ job' = [job EXCEPT ![Other] = Idle]
  /\ UNCHANGED <<script, reported, chain, rows, cursor, sync, listened, mirror, faults, reorgs,
                 jobs, handled, gaps, offchain>>

\* submitResult of the matches API.
SubmitOffchain(ev) ==
  /\ Todo(ev, mirror) # <<>>
  /\ Starts([Idle EXCEPT !.pc = "do", !.kind = "result", !.ev = ev, !.read = mirror,
                         !.todo = Todo(ev, mirror)])
  /\ offchain' = TRUE
  /\ UNCHANGED <<script, reported, chain, rows, cursor, sync, listened, mirror, faults, reorgs,
                 handled, gaps>>

Reindex(from) ==
  /\ ~Busy(Other) /\ jobs < MaxJobs /\ Spared
  /\ jobs' = jobs + 1
  /\ cursor' = from - 1
  /\ sync' = IF sync.ledger > from - 1 THEN [ledger |-> from - 1, hash |-> NoHash] ELSE sync
  /\ gaps' = gaps \cup (cursor + 1 .. from - 1)
  /\ UNCHANGED <<script, reported, chain, rows, listened, mirror, job, faults, reorgs, handled,
                 offchain>>

\* cleanupOldEvents: rows are created in the order of their ledgers.
Cleanup(l) ==
  /\ ~Busy(Other) /\ jobs < MaxJobs /\ Spared
  /\ jobs' = jobs + 1
  /\ rows' = [i \in {k \in DOMAIN rows : rows[k].ledger > l \/ rows[k].status # "processed"} |-> rows[i]]
  /\ UNCHANGED <<script, reported, chain, cursor, sync, listened, mirror, job, faults, reorgs,
                 handled, gaps, offchain>>

\* runReconciliation, with a window that reaches the head: the events after the checkpoint become pending rows,
\* which no job picks up by itself.  An event without log_index counts as the
\* first of its ledger.  A failed request stores nothing and is not told apart.
Reconcile ==
  LET to    == Len(chain)
      items == Limited(Events(sync.ledger + 1))
      log(i) == IF reported THEN i.log ELSE 0
      fresh == {i \in ToSet(items) : Found([i EXCEPT !.log = log(i)]) = {}}
      first(i) == \A k \in fresh : <<k.ledger, log(k)>> = <<i.ledger, log(i)>> => i.idx <= k.idx
      ids   == {<<i.ledger, log(i), Other>> : i \in fresh}
      pending(k) ==
        LET i == CHOOSE i \in fresh : first(i) /\ <<i.ledger, log(i)>> = <<k[1], k[2]>>
        IN  [ledger |-> k[1], log |-> k[2], idx |-> i.idx, status |-> "pending", retry |-> 0]
  IN  /\ ~Diverged /\ sync.ledger < to
      /\ Starts([Idle EXCEPT !.pc = "sync", !.kind = "reconcile",
                             !.sync = [ledger |-> to, hash |-> HashOf(to)]])
      /\ \/ /\ rows' = [k \in DOMAIN rows \cup ids |-> IF k \in ids THEN pending(k) ELSE rows[k]]
            /\ UNCHANGED faults
         \/ Fault /\ UNCHANGED rows
      /\ UNCHANGED <<script, reported, chain, cursor, sync, listened, mirror, reorgs, handled, gaps,
                     offchain>>

\* Nothing to reconcile: the hash is renewed.
ReconcileIdle ==
  /\ ~Diverged /\ sync.ledger >= Len(chain)
  /\ ~Busy(Other) /\ jobs < MaxJobs /\ Spared
  /\ jobs' = jobs + 1
  /\ sync' = IF HashOf(sync.ledger) = NoHash THEN sync ELSE [sync EXCEPT !.hash = HashOf(sync.ledger)]
  /\ UNCHANGED <<script, reported, chain, rows, cursor, listened, mirror, job, faults, reorgs,
                 handled, gaps, offchain>>

\* The checkpoint row is saved as it was read before the requests.
ReconcileSave ==
  /\ job[Other].pc = "sync"
  /\ sync' = job[Other].sync
  /\ job' = [job EXCEPT ![Other] = Idle]
  /\ UNCHANGED <<script, reported, chain, rows, cursor, listened, mirror, faults, reorgs, jobs,
                 handled, gaps, offchain>>

ReconcileRollBack == jobs < MaxJobs /\ Spared /\ jobs' = jobs + 1 /\ RollBack(Other, "reconcile")

\* The Soroban listener went through the events up to the head: it advances the
\* shared checkpoint, whose hash stays that of another ledger.
Listen ==
  /\ listened < Len(chain) /\ jobs < MaxJobs /\ Spared
  /\ jobs' = jobs + 1
  /\ listened' = Len(chain)
  /\ sync' = IF Events(listened + 1) = <<>> THEN sync
             ELSE [sync EXCEPT !.ledger = Higher(@, Len(chain))]
  /\ UNCHANGED <<script, reported, chain, rows, cursor, mirror, job, faults, reorgs, handled, gaps,
                 offchain>>

\* The instance dies and restarts: resumeFromPersistedCheckpoint adopts the
\* chain-sync checkpoint when it is ahead.
Restart ==
  /\ Fault
  /\ job' = [w \in Workers |-> Idle]
  /\ cursor' = Higher(cursor, sync.ledger)
  /\ gaps' = gaps \cup (cursor + 1 .. sync.ledger)
  /\ UNCHANGED <<script, reported, chain, rows, sync, listened, mirror, reorgs, jobs, handled,
                 offchain>>

-----------------------------------------------------------------------------
Poll ==
  \/ PollRollBack \/ Rewind(Poller) \/ PollFetch
  \/ Lookup(Poller) \/ Store(Poller) \/ Write(Poller) \/ Close(Poller) \/ Throws(Poller) \/ PollEnd

Next ==
  \/ \E n \in 0..2 : Produce(n) \/ Reorg(n)
  \/ Poll \/ FetchFails \/ RetryNext \/ JobEnd \/ Rewind(Other) \/ Retry
  \/ \E w \in Workers : StoreFails(w)
  \/ Lookup(Other) \/ Store(Other) \/ Write(Other) \/ Close(Other) \/ Throws(Other)
  \/ \E l \in 1..MaxLedgers :
       Reindex(l) \/ Cleanup(l) \/ \E k \in l..MaxLedgers : Backfill(l, k)
  \/ \E ev \in OffchainResults : SubmitOffchain(ev)
  \/ Reconcile \/ ReconcileIdle \/ ReconcileSave \/ ReconcileRollBack
  \/ Listen \/ Restart

Spec == Init /\ [][Next]_vars

-----------------------------------------------------------------------------
(* Properties. *)

\* Checkpoints, rows and counters have their types; a reputation is never
\* negative, and a row is a dead letter exactly when it failed often enough,
\* whichever copies of it are saved.
TypeOK ==
  /\ cursor \in Nat /\ sync.ledger \in Nat /\ listened \in 0..Len(chain)
  /\ \A i \in DOMAIN rows : /\ rows[i].status \in {"pending", "processed", "failed", "dlq"}
                            /\ rows[i].retry \in Nat
                            /\ rows[i].status = "dlq" => rows[i].retry >= DLQ_THRESHOLD
                            /\ rows[i].status = "failed" => rows[i].retry < DLQ_THRESHOLD
  /\ \A w \in Workers : /\ job[w].pc \in {"idle", "rewind", "fetch", "loop", "store", "do", "sync"}
                        /\ job[w].kind \in {"poll", "backfill", "retry", "result", "reconcile"}
  /\ \A e \in EventIds : mirror.event[e].match_count \in Nat /\ mirror.event[e].participant_count \in Nat
  /\ \A k \in Users : mirror.reputation[k] \in Nat

\* Every event in a ledger the cursor has passed was given to its handler,
\* unless that ledger is one of the gaps the code is known to leave: a failed
\* request, a failed insert, a batch cut inside the ledger, an index taken for
\* another event's, a checkpoint adopted at a restart, a replaced ledger.
CursorCovers ==
  \A l \in 1..cursor :
    l \in DOMAIN chain => l \in gaps \/ ToSet(chain[l].evs) \subseteq handled

Emitted(type, e) == {i \in OnChain : script[i].type = type /\ script[i].event = e}
Count(type, e) == Cardinality(Emitted(type, e))

\* An event is mirrored unless another one of its creator was running when it
\* was created.
Accepted(e) ==
  \E i \in Emitted("EventCreated", e) :
    ~\E f \in EventIds : /\ <<e, f>> \in Overlapping
                         /\ \E k \in Emitted("EventCreated", f) : k < i
                         /\ ~\E k \in Emitted("EventCancelled", f) : k < i

\* What the contract's events say about an event, and about a prediction.
EventAgrees(e) ==
  LET row == mirror.event[e]
  IN  /\ row.exists <=> Accepted(e)
      /\ row.match_count = Count("MatchAdded", e)
      /\ row.participant_count = Count("UserJoinedEvent", e)
      /\ row.prize_pool = ENTRY_FEE * Count("UserJoinedEvent", e)
      /\ row.total_entry_fees = ENTRY_FEE * Count("UserJoinedEvent", e)
      /\ row.is_finalized <=> Count("EventFinalized", e) > 0
      /\ row.is_cancelled <=> Count("EventCancelled", e) > 0
      /\ {p \in mirror.payouts : p[1] = e} = {<<e, k>> : k \in UNION {ToSet(script[i].board) : i \in Emitted("EventFinalized", e)}}

PredictionAgrees(m, u) ==
  LET Is(ev, type) == ev.type = type /\ ev.match = m
      made   == {i \in OnChain : Is(script[i], "PredictionSubmitted") /\ script[i].user = u}
      result == {i \in OnChain : Is(script[i], "MatchResultSubmitted")}
      row    == mirror.prediction[<<m, u>>]
  IN  /\ row.exists <=> made # {}
      /\ \A i \in made, r \in result :
           row.is_correct = IF script[i].outcome = script[r].outcome THEN "true" ELSE "false"

\* With nothing failing, no ledger cut, no reorganization and no job next to the poll,
\* the mirror is exactly what the contract's events say once the cursor has
\* reached the head: the handlers leave nothing out and count nothing twice.
MirrorExact ==
  (/\ faults = 0 /\ reorgs = 0 /\ gaps = {} /\ jobs = 0
   /\ ~Busy(Poller) /\ cursor = Len(chain))
  => /\ \A e \in EventIds : EventAgrees(e)
     /\ \A m \in MatchIds, u \in Users : PredictionAgrees(m, u)

\* match_count never exceeds the matches stored, whatever fails, overlaps or is
\* replayed: the count follows an insert only one worker can make.
MatchesNotOvercounted ==
  SumFunction([e \in EventIds |-> mirror.event[e].match_count])
    <= Cardinality({m \in MatchIds : mirror.match[m].exists})

\* A graded prediction is graded by the result its match shows, unless a result
\* was also submitted off chain.
GradesAgree ==
  ~offchain =>
    \A m \in MatchIds, u \in Users :
      LET row == mirror.prediction[<<m, u>>]
      IN  row.is_correct # "null" =>
            (row.is_correct = "true") = (row.outcome = mirror.match[m].winning_team)
=============================================================================
