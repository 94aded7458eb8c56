------------------------ MODULE OracleWebhookProofs ------------------------
(***************************************************************************)
(* Theorems about OracleWebhook, for any calls, plans, keys, winners,      *)
(* failures and restarts.                                                  *)
(***************************************************************************)
EXTENDS OracleWebhook, TLAPS

USE BoundsAssumption, NamesAssumption

-----------------------------------------------------------------------------
(* The inductive invariant. *)

\* The sets of jobs are sets of calls, and plan is one of the plans.
Shape ==
  /\ plan \in Plans
  /\ job \in [Calls -> Job \cup {None}]
  /\ queue \subseteq Calls /\ todo \subseteq Calls /\ applied \subseteq Calls

\* A copy that may be saved as the row of key k: it keeps the row's winner,
\* points to a job of that key, and says submitted only when a job of the key
\* was applied.  (The tables are parameters, to speak of them before and after
\* a step.)
Fits(rows, jobs, used, copy, k) ==
  /\ copy \in Row
  /\ rows[k] # None /\ copy.winner = rows[k].winner
  /\ jobs[copy.job] # None /\ jobs[copy.job].key = k
  /\ copy.status = "submitted" => \E j \in used : jobs[j] # None /\ jobs[j].key = k

\* Where a call can be, by what it is; it makes its job only once, and the copy
\* it holds before it submits fits its key.
CallFits(c) ==
  /\ actor[c].pc \in {"validate", "save", "screen", "flag"} => plan[c].op = "deliver"
  /\ actor[c].pc = "decide" => plan[c].op = "review"
  /\ actor[c].pc \in {"new", "validate", "save", "decide"} => job[c] = None
  /\ actor[c].pc \in {"screen", "decide"} => Fits(row, job, applied, actor[c].copy, plan[c].key)
  /\ actor[c].pc = "screen" => job[c] # None

\* Who submits has a job, who succeeded has applied it, and what is about to be
\* recorded fits the job's key.
SubmissionFits(a) ==
  actor[a].pc \in {"send", "record"} =>
    /\ actor[a].job \in Calls /\ job[actor[a].job] # None
    /\ actor[a].pc = "send" => ~actor[a].read
    /\ actor[a].pc = "record" /\ actor[a].ok => actor[a].job \in applied
    /\ actor[a].pc = "record" /\ actor[a].read /\ actor[a].copy # None =>
         Fits(row, job, applied, actor[a].copy, job[actor[a].job].key)

ActorsFit ==
  /\ \A c \in Calls : CallFits(c)
  /\ \A a \in Actors : SubmissionFits(a)
  /\ actor[Cron].pc \in {"new", "send", "record"}

\* The result of a job is that of the row of its key, unless a row of that key
\* could not be stored.
JobsFit ==
  \A j \in Calls :
    job[j] # None /\ job[j].key \notin unstored =>
      row[job[j].key] # None /\ job[j].winner = row[job[j].key].winner

RowsFit == \A k \in Keys : row[k] # None => Fits(row, job, applied, row[k], k)

MatchWritten == applied # {} => match # None

IInv == TypeOK /\ Shape /\ ActorsFit /\ JobsFit /\ RowsFit /\ MatchWritten

-----------------------------------------------------------------------------
(* What every step keeps, and what follows from it. *)

\* Rows keep their winner and jobs their key and winner; nothing applied or
\* unstored is forgotten.
Keeps ==
  /\ \A k \in Keys : row[k] # None => row'[k] # None /\ row'[k].winner = row[k].winner
  /\ \A j \in Calls : job[j] # None =>
       job'[j] # None /\ job'[j].key = job[j].key /\ job'[j].winner = job[j].winner
  /\ applied \subseteq applied' /\ unstored \subseteq unstored' /\ plan' = plan

LEMMA JobTypes ==
  ASSUME IInv, NEW j \in Calls, job[j] # None
  PROVE  job[j] \in Job /\ job[j].key \in Keys /\ job[j].winner \in Winners
BY DEF IInv, Shape, Job

LEMMA RowTypes ==
  ASSUME IInv, NEW k \in Keys, row[k] # None
  PROVE  row[k] \in Row /\ row[k].job \in Calls /\ row[k].winner \in Winners
BY DEF IInv, TypeOK, Row

LEMMA PlanTypes ==
  ASSUME IInv, NEW c \in Calls
  PROVE  /\ plan[c].op = "deliver" => plan[c].key \in Keys /\ plan[c].winner \in Winners
         /\ plan[c].op = "review" => plan[c].key \in Keys
BY PlansAssumption DEF IInv, Shape

LEMMA FitsKept ==
  ASSUME IInv, Keeps, NEW copy, NEW k \in Keys, Fits(row, job, applied, copy, k)
  PROVE  Fits(row', job', applied', copy, k)
<1>1. copy \in Row /\ copy.job \in Calls
  BY DEF Fits, Row
<1>2. copy.status = "submitted" => \E j \in applied' : job'[j] # None /\ job'[j].key = k
  BY DEF Fits, Keeps, IInv, Shape
<1>3. QED
  BY <1>1, <1>2 DEF Fits, Keeps

\* An actor that does not move still fits.
LEMMA OthersFit ==
  ASSUME IInv, Keeps, NEW b \in Actors, actor'[b] = actor[b],
         b \in Calls /\ job[b] = None => job'[b] = None
  PROVE  (b \in Calls => CallFits(b)') /\ SubmissionFits(b)'
<1>1. ASSUME b \in Calls PROVE CallFits(b)'
  <2>1. CallFits(b) /\ plan' = plan
    BY <1>1 DEF IInv, ActorsFit, Keeps
  <2>2. actor[b].pc \in {"screen", "decide"} => plan[b].key \in Keys
    BY <1>1, <2>1, PlanTypes DEF CallFits
  <2>3. actor[b].pc \in {"screen", "decide"} =>
          Fits(row', job', applied', actor[b].copy, plan[b].key)
    BY <2>1, <2>2, FitsKept DEF CallFits
  <2>4. job[b] # None => job'[b] # None
    BY <1>1 DEF Keeps
  <2>5. QED
    BY <1>1, <2>1, <2>3, <2>4 DEF CallFits
<1>2. SubmissionFits(b)'
  <2>1. SubmissionFits(b)
    BY DEF IInv, ActorsFit
  <2> SUFFICES ASSUME actor[b].pc \in {"send", "record"} PROVE SubmissionFits(b)'
    BY DEF SubmissionFits
  <2>2. actor[b].job \in Calls /\ job[actor[b].job] # None
    BY <2>1 DEF SubmissionFits
  <2>3. job'[actor[b].job] # None /\ job'[actor[b].job].key = job[actor[b].job].key
        /\ job[actor[b].job].key \in Keys /\ applied \subseteq applied'
    BY <2>2, JobTypes DEF Keeps
  <2>4. actor[b].pc = "record" /\ actor[b].read /\ actor[b].copy # None =>
          Fits(row', job', applied', actor[b].copy, job[actor[b].job].key)
    BY <2>1, <2>3, FitsKept DEF SubmissionFits
  <2>5. QED
    BY <2>1, <2>2, <2>3, <2>4 DEF SubmissionFits
<1>3. QED
  BY <1>1, <1>2

\* A step that one actor takes, and what is left to show of it.
LEMMA StepFits ==
  ASSUME IInv, Keeps, NEW a \in Actors,
         \A b \in Actors \ {a} : actor'[b] = actor[b],
         \A c \in Calls \ {a} : job[c] = None => job'[c] = None,
         a \in Calls => CallFits(a)', SubmissionFits(a)',
         a = Cron => actor'[Cron].pc \in {"new", "send", "record"}
  PROVE  ActorsFit'
<1>1. \A c \in Calls : CallFits(c)'
  BY OthersFit DEF Actors
<1>2. \A b \in Actors : SubmissionFits(b)'
  BY OthersFit DEF Actors
<1>3. actor'[Cron].pc \in {"new", "send", "record"}
  BY DEF IInv, ActorsFit, Actors
<1>4. QED
  BY <1>1, <1>2, <1>3 DEF ActorsFit

LEMMA TablesFit ==
  ASSUME IInv, Keeps,
         \A k \in Keys : row'[k] = row[k] \/ Fits(row', job', applied', row'[k], k),
         \A j \in Calls : job[j] = None /\ job'[j] # None =>
           \/ job'[j].key \in unstored'
           \/ row'[job'[j].key] # None /\ job'[j].winner = row'[job'[j].key].winner
  PROVE  JobsFit' /\ RowsFit'
<1>1. JobsFit'
  <2> SUFFICES ASSUME NEW j \in Calls, job'[j] # None, job'[j].key \notin unstored'
               PROVE  row'[job'[j].key] # None /\ job'[j].winner = row'[job'[j].key].winner
    BY DEF JobsFit
  <2>1. CASE job[j] = None
    BY <2>1
  <2>2. CASE job[j] # None
    <3>1. job'[j].key = job[j].key /\ job'[j].winner = job[j].winner /\ job[j].key \in Keys
      BY <2>2, JobTypes DEF Keeps
    <3>2. job[j].key \notin unstored
      BY <3>1 DEF Keeps
    <3>3. row[job[j].key] # None /\ job[j].winner = row[job[j].key].winner
      BY <2>2, <3>2 DEF IInv, JobsFit
    <3>4. QED
      BY <3>1, <3>3 DEF Keeps
  <2>3. QED
    BY <2>1, <2>2
<1>2. RowsFit'
  <2> SUFFICES ASSUME NEW k \in Keys, row'[k] # None
               PROVE  Fits(row', job', applied', row'[k], k)
    BY DEF RowsFit
  <2>1. CASE row'[k] = row[k]
    BY <2>1, FitsKept DEF IInv, RowsFit
  <2>2. QED
    BY <2>1
<1>3. QED
  BY <1>1, <1>2

-----------------------------------------------------------------------------
(* Moves of one actor. *)

\* Actor a moved, nobody else did, and a still fits.
Moved(a) ==
  /\ actor' \in [Actors -> Actor]
  /\ \A b \in Actors \ {a} : actor'[b] = actor[b]
  /\ a \in Calls => CallFits(a)'
  /\ SubmissionFits(a)'
  /\ a = Cron => actor'[Cron].pc \in {"new", "send", "record"}

LEMMA IdleType ==
  /\ Idle \in Actor
  /\ \A pc \in {"new", "done"} : /\ [Idle EXCEPT !.pc = pc] \in Actor
                                 /\ [Idle EXCEPT !.pc = pc].pc = pc
  /\ \A j \in Calls : /\ [Idle EXCEPT !.pc = "send", !.job = j] \in Actor
                      /\ [Idle EXCEPT !.pc = "send", !.job = j].pc = "send"
                      /\ [Idle EXCEPT !.pc = "send", !.job = j].job = j
                      /\ ~[Idle EXCEPT !.pc = "send", !.job = j].read
BY DEF Idle, Actor

LEMMA ActorUpdate ==
  ASSUME IInv, NEW a \in Actors, NEW x \in Actor, actor' = [actor EXCEPT ![a] = x]
  PROVE  /\ actor' \in [Actors -> Actor] /\ actor'[a] = x
         /\ \A b \in Actors \ {a} : actor'[b] = actor[b]
BY DEF IInv, TypeOK

LEMMA OverMoves ==
  ASSUME IInv, NEW a \in Actors, Over(a)
  PROVE  Moved(a)
<1> DEFINE pc == IF a = Cron THEN "new" ELSE "done"
           x == [Idle EXCEPT !.pc = pc]
<1>1. pc \in {"new", "done"}
  OBVIOUS
<1>2. x \in Actor /\ x.pc = pc
  BY <1>1, IdleType
<1>3. actor' = [actor EXCEPT ![a] = x]
  BY DEF Over
<1> HIDE DEF x
<1>4. actor' \in [Actors -> Actor] /\ actor'[a] = x /\ \A b \in Actors \ {a} : actor'[b] = actor[b]
  BY <1>2, <1>3, ActorUpdate
<1>5. QED
  BY <1>2, <1>4 DEF Moved, CallFits, SubmissionFits

LEMMA SubmitMoves ==
  ASSUME IInv, NEW a \in Actors, NEW j \in Calls, job'[j] # None, SubmitToOracle(a, j)
  PROVE  Moved(a)
<1> DEFINE x == [Idle EXCEPT !.pc = "send", !.job = j]
<1>1. x \in Actor /\ x.pc = "send" /\ x.job = j /\ ~x.read
  BY IdleType
<1>2. actor' = [actor EXCEPT ![a] = x]
  BY DEF SubmitToOracle
<1> HIDE DEF x
<1>3. actor' \in [Actors -> Actor] /\ actor'[a] = x /\ \A b \in Actors \ {a} : actor'[b] = actor[b]
  BY <1>1, <1>2, ActorUpdate
<1>4. QED
  BY <1>1, <1>3 DEF Moved, CallFits, SubmissionFits

\* The tables, given that one actor moved.
LEMMA StepInv ==
  ASSUME IInv, Keeps, NEW a \in Actors, Moved(a),
         \A c \in Calls \ {a} : job[c] = None => job'[c] = None,
         \A k \in Keys : row'[k] = row[k] \/ Fits(row', job', applied', row'[k], k),
         \A j \in Calls : job[j] = None /\ job'[j] # None =>
           \/ job'[j].key \in unstored'
           \/ row'[job'[j].key] # None /\ job'[j].winner = row'[job'[j].key].winner,
         TypeOK', Shape', MatchWritten'
  PROVE  IInv'
BY StepFits, TablesFit DEF Moved, IInv

\* A step that changes nothing but its actor.
LEMMA QuietStep ==
  ASSUME IInv, NEW a \in Actors, Moved(a), UNCHANGED <<plan, match, row, memory, history>>
  PROVE  IInv'
<1> USE DEF memory, history
<1>1. Keeps
  BY DEF Keeps
<1>2. TypeOK' /\ Shape' /\ MatchWritten'
  BY DEF IInv, TypeOK, Shape, MatchWritten, Moved
<1>3. QED
  BY <1>1, <1>2, StepInv

-----------------------------------------------------------------------------
(* The actions. *)

LEMMA InvInit == Init => IInv
<1> SUFFICES ASSUME Init PROVE IInv
  OBVIOUS
<1>1. actor \in [Actors -> Actor] /\ \A a \in Actors : actor[a].pc = "new"
  BY IdleType DEF Init, Idle
<1>2. TypeOK /\ Shape
  BY <1>1 DEF Init, TypeOK, Shape
<1>3. ActorsFit
  BY <1>1 DEF Init, ActorsFit, CallFits, SubmissionFits, Actors
<1>4. QED
  BY <1>2, <1>3 DEF Init, IInv, JobsFit, RowsFit, MatchWritten

LEMMA CallActor == ASSUME NEW c \in Calls PROVE c \in Actors /\ c # Cron
BY DEF Actors

LEMMA ReceiveInv ==
  ASSUME IInv, NEW c \in Calls, Receive(c) \/ Validate(c)
  PROVE  IInv'
<1>1. UNCHANGED <<plan, match, row, memory, history>> /\ c \in Actors /\ c # Cron
  BY CallActor DEF Receive, Validate, memory, history
<1>2. CASE Over(c)
  BY <1>1, <1>2, OverMoves, QuietStep
<1>3. ASSUME NEW pc \in {"validate", "save"}, Goto(c, pc) PROVE IInv'
  <2> DEFINE x == [actor[c] EXCEPT !.pc = pc]
  <2>1. actor[c] \in Actor
    BY <1>1 DEF IInv, TypeOK
  <2>2. x \in Actor /\ x.pc = pc
    BY <2>1 DEF Actor
  <2>3. actor' = [actor EXCEPT ![c] = x]
    BY <1>3 DEF Goto
  <2> HIDE DEF x
  <2>4. actor' \in [Actors -> Actor] /\ actor'[c] = x /\ \A b \in Actors \ {c} : actor'[b] = actor[b]
    BY <1>1, <2>2, <2>3, ActorUpdate
  <2>5. plan[c].op = "deliver" /\ job[c] = None
    BY DEF IInv, ActorsFit, CallFits, Receive, Validate, At
  <2>6. Moved(c)
    BY <1>1, <2>2, <2>4, <2>5 DEF Moved, CallFits, SubmissionFits, memory
  <2>7. QED
    BY <1>1, <2>6, QuietStep
<1>4. QED
  BY <1>2, <1>3 DEF Receive, Validate


LEMMA SaveInv ==
  ASSUME IInv, NEW c \in Calls, SaveSubmission(c)
  PROVE  IInv'
<1> DEFINE d == plan[c]
           new == [winner |-> d.winner, status |-> "pending", job |-> c, review |-> "not_required"]
           made == NewJob(d.winner, d.key)
<1>1. c \in Actors /\ c # Cron /\ actor[c] \in Actor /\ job[c] = None /\ d.op = "deliver"
  BY CallActor DEF SaveSubmission, At, IInv, TypeOK, ActorsFit, CallFits
<1>2. d.key \in Keys /\ d.winner \in Winners
  BY <1>1, PlanTypes
<1>3. /\ new \in Row /\ new.winner = d.winner /\ new.job = c /\ new.status = "pending"
      /\ made \in Job /\ made.key = d.key /\ made.winner = d.winner
  BY <1>2 DEF Row, Job, NewJob
<1>4. new # None /\ made # None
  BY <1>3
<1> HIDE DEF new, made
<1>5. CASE Over(c) /\ UNCHANGED <<row, job, queue, seen, unstored>>
  BY <1>1, <1>5, OverMoves, QuietStep DEF SaveSubmission, memory, history
<1>6. ASSUME Enqueue(c, d.winner, d.key), seen' = seen \cup {d.key},
             UNCHANGED <<plan, match, todo, applied>>
      PROVE  /\ job' \in [Calls -> Job \cup {None}] /\ job'[c] = made
             /\ \A j \in Calls \ {c} : job'[j] = job[j]
             /\ queue' = queue \cup {c} /\ seen' \subseteq Keys
  <2>1. job' = [job EXCEPT ![c] = made] /\ queue' = queue \cup {c}
    BY <1>6 DEF Enqueue, made
  <2>2. job \in [Calls -> Job \cup {None}] /\ seen \subseteq Keys
    BY DEF IInv, Shape, TypeOK
  <2>3. QED
    BY <1>2, <1>3, <1>6, <2>1, <2>2
<1>7. ASSUME row[d.key] = None, row' = [row EXCEPT ![d.key] = new],
             actor' = [actor EXCEPT ![c].pc = "screen", ![c].copy = new],
             Enqueue(c, d.winner, d.key), seen' = seen \cup {d.key},
             UNCHANGED <<plan, match, todo, applied, unstored>>
      PROVE  IInv'
  <2>1. /\ job' \in [Calls -> Job \cup {None}] /\ job'[c] = made
        /\ \A j \in Calls \ {c} : job'[j] = job[j]
        /\ queue' = queue \cup {c} /\ seen' \subseteq Keys
    BY <1>6, <1>7
  <2>2. /\ row' \in [Keys -> Row \cup {None}] /\ row'[d.key] = new
        /\ \A k \in Keys \ {d.key} : row'[k] = row[k]
    BY <1>2, <1>3, <1>7 DEF IInv, TypeOK
  <2>3. Keeps
    BY <1>1, <1>7, <2>1, <2>2 DEF Keeps
  <2>4. Fits(row', job', applied', new, d.key)
    BY <1>3, <1>4, <2>1, <2>2 DEF Fits
  <2>5. /\ actor' \in [Actors -> Actor]
        /\ actor'[c].pc = "screen" /\ actor'[c].copy = new
        /\ \A b \in Actors \ {c} : actor'[b] = actor[b]
    BY <1>1, <1>3, <1>7 DEF IInv, TypeOK, Actor
  <2>6. CallFits(c)' /\ SubmissionFits(c)'
    BY <1>1, <1>4, <1>7, <2>1, <2>4, <2>5 DEF CallFits, SubmissionFits
  <2>7. Moved(c)
    BY <1>1, <2>5, <2>6 DEF Moved
  <2>8. TypeOK' /\ Shape' /\ MatchWritten'
    BY <1>4, <1>7, <2>1, <2>2, <2>5 DEF IInv, TypeOK, Shape, MatchWritten
  <2>9. \A k \in Keys : row'[k] = row[k] \/ Fits(row', job', applied', row'[k], k)
    BY <2>2, <2>4
  <2>10. \A j \in Calls : job[j] = None /\ job'[j] # None =>
           row'[job'[j].key] # None /\ job'[j].winner = row'[job'[j].key].winner
    BY <1>3, <1>4, <2>1, <2>2
  <2>11. QED
    BY <1>1, <2>1, <2>3, <2>7, <2>8, <2>9, <2>10, StepInv
<1>8. ASSUME row[d.key] = None, unstored' = unstored \cup {d.key}, SubmitToOracle(c, c),
             Enqueue(c, d.winner, d.key), seen' = seen \cup {d.key},
             UNCHANGED <<plan, match, todo, applied, row>>
      PROVE  IInv'
  <2>1. /\ job' \in [Calls -> Job \cup {None}] /\ job'[c] = made
        /\ \A j \in Calls \ {c} : job'[j] = job[j]
        /\ queue' = queue \cup {c} /\ seen' \subseteq Keys
    BY <1>6, <1>8
  <2>2. Keeps
    BY <1>1, <1>8, <2>1 DEF Keeps
  <2>3. Moved(c)
    BY <1>1, <1>4, <1>8, <2>1, SubmitMoves
  <2>4. TypeOK' /\ Shape' /\ MatchWritten'
    BY <1>4, <1>8, <2>1, <2>3 DEF IInv, TypeOK, Shape, MatchWritten, Moved
  <2>5. \A j \in Calls : job[j] = None /\ job'[j] # None => job'[j].key \in unstored'
    BY <1>3, <1>8, <2>1
  <2>6. \A k \in Keys : row'[k] = row[k]
    BY <1>8
  <2>7. QED
    BY <1>1, <2>1, <2>2, <2>3, <2>4, <2>5, <2>6, StepInv
<1>9. QED
  BY <1>5, <1>7, <1>8 DEF SaveSubmission, new

\* A step that saves a copy that fits and changes no table but the rows.
LEMMA RowStep ==
  ASSUME IInv, NEW a \in Actors, Moved(a), NEW k \in Keys, NEW copy,
         Fits(row, job, applied, copy, k),
         row' = [row EXCEPT ![k] = copy] \/ row' = row,
         queue' \subseteq queue,
         \A j \in Calls : job'[j] = job[j]
           \/ /\ job[j] # None /\ job'[j] \in Job
              /\ job'[j].key = job[j].key /\ job'[j].winner = job[j].winner,
         job' \in [Calls -> Job \cup {None}],
         UNCHANGED <<plan, match, seen, todo, history>>
  PROVE  IInv'
<1> USE DEF history
<1>1. copy \in Row /\ copy # None /\ row[k] # None /\ copy.winner = row[k].winner
  BY DEF Fits
<1>2. /\ row' \in [Keys -> Row \cup {None}]
      /\ row'[k] = copy \/ row' = row
      /\ \A l \in Keys \ {k} : row'[l] = row[l]
  BY <1>1 DEF IInv, TypeOK
<1>3. Keeps
  BY <1>1, <1>2 DEF Keeps
<1>4. \A l \in Keys : row'[l] = row[l] \/ Fits(row', job', applied', row'[l], l)
  BY <1>2, <1>3, FitsKept
<1>5. TypeOK' /\ Shape' /\ MatchWritten'
  BY <1>2, <1>3 DEF IInv, TypeOK, Shape, MatchWritten, Moved, Keeps
<1>6. QED
  BY <1>3, <1>4, <1>5, StepInv

LEMMA ScreenInv ==
  ASSUME IInv, NEW c \in Calls, Screen(c)
  PROVE  IInv'
<1> DEFINE k == plan[c].key
           copy == actor[c].copy
           stamped == IF plan[c].anomaly THEN [copy EXCEPT !.review = "held"] ELSE copy
<1>1. /\ c \in Actors /\ c # Cron /\ actor[c] \in Actor
      /\ plan[c].op = "deliver" /\ job[c] # None
      /\ Fits(row, job, applied, copy, k)
  BY CallActor DEF Screen, At, IInv, TypeOK, ActorsFit, CallFits
<1>2. k \in Keys
  BY <1>1, PlanTypes
<1>3. /\ stamped \in Row /\ stamped.winner = copy.winner /\ stamped.job = copy.job
      /\ stamped.status = copy.status
  BY <1>1 DEF Fits, Row
<1>4. row' = [row EXCEPT ![k] = stamped]
  BY DEF Screen
<1> HIDE DEF stamped, k
<1>5. Fits(row, job, applied, stamped, k)
  BY <1>1, <1>3 DEF Fits
<1>6. UNCHANGED <<plan, match, memory, history>>
  BY DEF Screen
<1>7. CASE SubmitToOracle(c, c)
  <2>1. Moved(c)
    BY <1>1, <1>6, <1>7, SubmitMoves DEF memory
  <2>2. QED
    BY <1>1, <1>2, <1>4, <1>5, <1>6, <2>1, RowStep DEF memory, IInv, Shape
<1>8. CASE Goto(c, "flag")
  <2>1. /\ actor' \in [Actors -> Actor] /\ actor'[c].pc = "flag"
        /\ \A b \in Actors \ {c} : actor'[b] = actor[b]
    BY <1>1, <1>8 DEF Goto, IInv, TypeOK, Actor
  <2>2. Moved(c)
    BY <1>1, <1>6, <2>1 DEF Moved, CallFits, SubmissionFits
  <2>3. QED
    BY <1>1, <1>2, <1>4, <1>5, <1>6, <2>2, RowStep DEF memory, IInv, Shape
<1>9. QED
  BY <1>7, <1>8 DEF Screen

\* A step that ends a call and changes at most the queue.
LEMMA FlagInv ==
  ASSUME IInv, NEW c \in Calls, Flag(c) \/ ScreenFails(c)
  PROVE  IInv'
<1>1. /\ UNCHANGED <<plan, match, row, job, seen, todo, history>>
      /\ queue' \subseteq queue /\ c \in Actors /\ Over(c)
  BY CallActor DEF Flag, ScreenFails, memory
<1>2. Moved(c)
  BY <1>1, OverMoves
<1>3. Keeps
  BY <1>1 DEF Keeps, history
<1>4. TypeOK' /\ Shape' /\ MatchWritten'
  BY <1>1, <1>2 DEF IInv, TypeOK, Shape, MatchWritten, Moved, history
<1>5. QED
  BY <1>1, <1>2, <1>3, <1>4, StepInv

LEMMA ReviewReadInv ==
  ASSUME IInv, NEW c \in Calls, ReviewRead(c)
  PROVE  IInv'
<1> DEFINE k == plan[c].key
<1>1. /\ c \in Actors /\ c # Cron /\ actor[c] \in Actor /\ plan[c].op = "review"
      /\ actor[c].pc = "new" /\ job[c] = None /\ row[k] # None
  BY CallActor DEF ReviewRead, At, IInv, TypeOK, ActorsFit, CallFits
<1>2. k \in Keys
  BY <1>1, PlanTypes
<1>3. UNCHANGED <<plan, match, row, memory, history>>
  BY DEF ReviewRead
<1>4. row[k] \in Row /\ Fits(row, job, applied, row[k], k)
  BY <1>1, <1>2, RowTypes DEF IInv, RowsFit
<1>5. CASE Over(c)
  BY <1>1, <1>3, <1>5, OverMoves, QuietStep
<1>6. CASE actor' = [actor EXCEPT ![c].pc = "decide", ![c].copy = row[k]]
  <2>1. /\ actor' \in [Actors -> Actor]
        /\ actor'[c].pc = "decide" /\ actor'[c].copy = row[k]
        /\ \A b \in Actors \ {c} : actor'[b] = actor[b]
    BY <1>1, <1>4, <1>6 DEF IInv, TypeOK, Actor
  <2>2. Moved(c)
    BY <1>1, <1>3, <1>4, <2>1 DEF Moved, CallFits, SubmissionFits, memory, history
  <2>3. QED
    BY <1>1, <1>3, <2>2, QuietStep
<1>7. QED
  BY <1>5, <1>6 DEF ReviewRead

LEMMA ReviewInv ==
  ASSUME IInv, NEW c \in Calls, Review(c)
  PROVE  IInv'
<1> DEFINE k == plan[c].key
           copy == actor[c].copy
<1>1. /\ c \in Actors /\ c # Cron /\ actor[c] \in Actor /\ plan[c].op = "review"
      /\ job[c] = None /\ Fits(row, job, applied, copy, k)
  BY CallActor DEF Review, At, IInv, TypeOK, ActorsFit, CallFits
<1>2. k \in Keys /\ copy \in Row /\ copy.winner \in Winners
  BY <1>1, PlanTypes DEF Fits, Row
<1>3. UNCHANGED <<plan, match, seen, todo, history>>
  BY DEF Review
<1>4. CASE /\ row' = [row EXCEPT ![k] = [copy EXCEPT !.review = "rejected", !.status = "failed"]]
           /\ Over(c) /\ UNCHANGED <<job, queue>>
  <2> DEFINE new == [copy EXCEPT !.review = "rejected", !.status = "failed"]
  <2>1. new \in Row /\ new.winner = copy.winner /\ new.job = copy.job /\ new.status = "failed"
    BY <1>2 DEF Row
  <2>2. Fits(row, job, applied, new, k)
    BY <1>1, <2>1 DEF Fits
  <2>3. Moved(c)
    BY <1>1, <1>4, OverMoves
  <2> HIDE DEF new
  <2>4. row' = [row EXCEPT ![k] = new]
    BY <1>4 DEF new
  <2>5. QED
    BY <1>1, <1>2, <1>3, <1>4, <2>2, <2>3, <2>4, RowStep DEF IInv, Shape
<1>5. CASE /\ row' = [row EXCEPT ![k] = [copy EXCEPT !.review = "approved", !.job = c]]
           /\ Enqueue(c, copy.winner, k) /\ SubmitToOracle(c, c)
  <2> DEFINE new == [copy EXCEPT !.review = "approved", !.job = c]
             made == NewJob(copy.winner, k)
  <2>1. new \in Row /\ new.winner = copy.winner /\ new.job = c /\ new.status = copy.status
    BY <1>2 DEF Row
  <2>2. made \in Job /\ made.key = k /\ made.winner = copy.winner /\ made # None
    <3>1. made \in Job /\ made.key = k /\ made.winner = copy.winner
      BY <1>2 DEF Job, NewJob
    <3> HIDE DEF made
    <3>2. QED
      BY <3>1
  <2>3. row' = [row EXCEPT ![k] = new] /\ job' = [job EXCEPT ![c] = made]
        /\ queue' = queue \cup {c}
    BY <1>5 DEF Enqueue
  <2> HIDE DEF new, made
  <2>4. /\ job' \in [Calls -> Job \cup {None}] /\ job'[c] = made
        /\ \A j \in Calls \ {c} : job'[j] = job[j]
    BY <2>2, <2>3 DEF IInv, Shape
  <2>5. /\ row' \in [Keys -> Row \cup {None}] /\ row'[k] = new /\ new # None
        /\ \A l \in Keys \ {k} : row'[l] = row[l]
    BY <1>2, <2>1, <2>3 DEF IInv, TypeOK
  <2>6. row[k] # None /\ copy.winner = row[k].winner
    BY <1>1 DEF Fits
  <2>7. Keeps
    BY <1>1, <1>3, <2>1, <2>4, <2>5, <2>6 DEF Keeps, history
  <2>8. Fits(row', job', applied', copy, k)
    BY <1>1, <1>2, <2>7, FitsKept
  <2>9. Fits(row', job', applied', new, k)
    BY <2>1, <2>2, <2>4, <2>5, <2>8 DEF Fits
  <2>10. Moved(c)
    BY <1>1, <1>5, <2>2, <2>4, SubmitMoves
  <2>11. TypeOK' /\ Shape' /\ MatchWritten'
    BY <1>3, <2>2, <2>3, <2>4, <2>5, <2>10 DEF IInv, TypeOK, Shape, MatchWritten, Moved, history
  <2>12. \A l \in Keys : row'[l] = row[l] \/ Fits(row', job', applied', row'[l], l)
    BY <2>5, <2>9
  <2>13. \A j \in Calls : job[j] = None /\ job'[j] # None =>
           row'[job'[j].key] # None /\ job'[j].winner = row'[job'[j].key].winner
    BY <2>1, <2>2, <2>4, <2>5
  <2>14. QED
    BY <1>1, <2>4, <2>7, <2>10, <2>11, <2>12, <2>13, StepInv
<1>6. QED
  BY <1>4, <1>5 DEF Review

\* Who submits, its job and the job's key.
LEMMA Submitter ==
  ASSUME IInv, NEW a \in Actors, actor[a].pc \in {"send", "record"}
  PROVE  /\ actor[a] \in Actor /\ actor[a].job \in Calls
         /\ job[actor[a].job] # None /\ job[actor[a].job] \in Job
         /\ job[actor[a].job].key \in Keys /\ job[actor[a].job].winner \in Winners
<1>1. actor[a] \in Actor /\ actor[a].job \in Calls /\ job[actor[a].job] # None
  BY DEF IInv, TypeOK, ActorsFit, SubmissionFits
<1>2. QED
  BY <1>1, JobTypes

LEMMA SendInv ==
  ASSUME IInv, NEW a \in Actors, Send(a)
  PROVE  IInv'
<1> DEFINE j == actor[a].job
<1>1. actor[a].pc = "send"
  BY DEF Send, At
<1>2. /\ actor[a] \in Actor /\ j \in Calls /\ job[j] # None /\ job[j].winner \in Winners
      /\ ~actor[a].read
  BY <1>1, Submitter DEF IInv, ActorsFit, SubmissionFits
<1>3. /\ match' = job[j].winner /\ match' # None /\ applied' = applied \cup {j}
      /\ UNCHANGED <<plan, row, job, queue, seen, todo, unstored>>
  BY <1>2 DEF Send, memory
<1>4. /\ actor' \in [Actors -> Actor] /\ actor'[a].pc = "record" /\ actor'[a].job = j
      /\ ~actor'[a].read /\ \A b \in Actors \ {a} : actor'[b] = actor[b]
  BY <1>2 DEF Send, IInv, TypeOK, Actor
<1>5. Moved(a)
  BY <1>2, <1>3, <1>4 DEF Moved, CallFits, SubmissionFits
<1>6. Keeps
  BY <1>3 DEF Keeps
<1>7. TypeOK' /\ Shape' /\ MatchWritten'
  BY <1>2, <1>3, <1>4 DEF IInv, TypeOK, Shape, MatchWritten
<1>8. \A k \in Keys : row'[k] = row[k]
  BY <1>3
<1>9. \A c \in Calls : job'[c] = job[c]
  BY <1>3
<1>10. QED
  BY <1>5, <1>6, <1>7, <1>8, <1>9, StepInv

\* A job changes its retry count or its due date and stays what it was.
LEMMA JobUpdate ==
  ASSUME IInv, NEW j \in Calls, job[j] # None,
         job' = [job EXCEPT ![j].retryCount = @ + 1] \/ \E due \in BOOLEAN : job' = [job EXCEPT ![j].due = due]
  PROVE  /\ job' \in [Calls -> Job \cup {None}] /\ job'[j] # None
         /\ job'[j].key = job[j].key /\ job'[j].winner = job[j].winner
         /\ \A c \in Calls \ {j} : job'[c] = job[c]
<1>1. job \in [Calls -> Job \cup {None}] /\ job[j] \in Job
  BY JobTypes DEF IInv, Shape
<1>2. CASE job' = [job EXCEPT ![j].retryCount = @ + 1]
  BY <1>1, <1>2 DEF Job
<1>3. ASSUME NEW due \in BOOLEAN, job' = [job EXCEPT ![j].due = due]
      PROVE  /\ job' \in [Calls -> Job \cup {None}] /\ job'[j] # None
             /\ job'[j].key = job[j].key /\ job'[j].winner = job[j].winner
             /\ \A c \in Calls \ {j} : job'[c] = job[c]
  BY <1>1, <1>3 DEF Job
<1>4. QED
  BY <1>2, <1>3

\* A step that changes its actor, a job's retry count or due date, and the queue.
LEMMA JobStep ==
  ASSUME IInv, NEW a \in Actors, Moved(a), NEW j \in Calls, job[j] # None,
         job' \in [Calls -> Job \cup {None}], job'[j] # None,
         job'[j].key = job[j].key, job'[j].winner = job[j].winner,
         \A c \in Calls \ {j} : job'[c] = job[c],
         queue' \subseteq queue, UNCHANGED <<plan, match, row, seen, todo, history>>
  PROVE  IInv'
<1> USE DEF history
<1>1. Keeps
  BY DEF Keeps
<1>2. TypeOK' /\ Shape' /\ MatchWritten'
  BY DEF IInv, TypeOK, Shape, MatchWritten, Moved
<1>3. \A c \in Calls : job[c] = None => job'[c] = None
  OBVIOUS
<1>4. QED
  BY <1>1, <1>2, <1>3, StepInv

LEMMA SendFailsInv ==
  ASSUME IInv, NEW a \in Actors, SendFails(a)
  PROVE  IInv'
<1> DEFINE j == actor[a].job
<1>1. actor[a].pc = "send"
  BY DEF SendFails, At
<1>2. actor[a] \in Actor /\ j \in Calls /\ job[j] # None /\ ~actor[a].read
  BY <1>1, Submitter DEF IInv, ActorsFit, SubmissionFits
<1>3. job' = [job EXCEPT ![j].retryCount = @ + 1]
  BY DEF SendFails
<1>4. /\ job' \in [Calls -> Job \cup {None}] /\ job'[j] # None
      /\ job'[j].key = job[j].key /\ job'[j].winner = job[j].winner
      /\ \A c \in Calls \ {j} : job'[c] = job[c]
  BY <1>2, <1>3, JobUpdate
<1>5. /\ actor' \in [Actors -> Actor] /\ actor'[a].pc = "record" /\ actor'[a].job = j
      /\ ~actor'[a].read /\ ~actor'[a].ok /\ \A b \in Actors \ {a} : actor'[b] = actor[b]
  BY <1>2 DEF SendFails, IInv, TypeOK, Actor
<1>6. Moved(a)
  BY <1>2, <1>4, <1>5 DEF Moved, CallFits, SubmissionFits
<1>7. QED
  BY <1>2, <1>4, <1>6, JobStep DEF SendFails

LEMMA RecordReadInv ==
  ASSUME IInv, NEW a \in Actors, RecordRead(a)
  PROVE  IInv'
<1> DEFINE j == actor[a].job
           k == CHOOSE k \in RowOf(j) : TRUE
           status == IF actor[a].ok THEN "submitted" ELSE "failed"
           copy == IF RowOf(j) = {} THEN None ELSE [row[k] EXCEPT !.status = status]
<1>1. actor[a].pc = "record" /\ UNCHANGED <<plan, match, row, memory, history>>
  BY DEF RecordRead, At
<1>2. /\ actor[a] \in Actor /\ j \in Calls /\ job[j] # None
      /\ actor[a].ok => j \in applied
  BY <1>1, Submitter DEF IInv, ActorsFit, SubmissionFits
<1>3. actor' = [actor EXCEPT ![a].read = TRUE, ![a].copy = copy]
  BY DEF RecordRead
<1>4. copy \in Row \cup {None} /\ (copy # None => Fits(row, job, applied, copy, job[j].key))
  <2>1. CASE RowOf(j) = {}
    BY <2>1
  <2>2. CASE RowOf(j) # {}
    <3>1. k \in RowOf(j)
      BY <2>2
    <3> HIDE DEF k
    <3>2. k \in Keys /\ row[k] # None /\ row[k].job = j
      BY <3>1 DEF RowOf
    <3>3. row[k] \in Row /\ Fits(row, job, applied, row[k], k)
      BY <3>2, RowTypes DEF IInv, RowsFit
    <3>4. job[j].key = k
      BY <3>2, <3>3 DEF Fits
    <3> DEFINE new == [row[k] EXCEPT !.status = status]
    <3>5. /\ new \in Row /\ new.winner = row[k].winner /\ new.job = row[k].job
          /\ new.status = status
      BY <3>3 DEF Row
    <3>6. copy = new
      BY <2>2
    <3> HIDE DEF new, copy
    <3>7. new.status = "submitted" => \E i \in applied : job[i] # None /\ job[i].key = k
      BY <1>2, <3>4, <3>5
    <3>8. QED
      BY <1>2, <3>2, <3>3, <3>4, <3>5, <3>6, <3>7 DEF Fits
  <2>3. QED
    BY <2>1, <2>2
<1> HIDE DEF copy
<1>5. /\ actor' \in [Actors -> Actor] /\ actor'[a].pc = "record" /\ actor'[a].job = j
      /\ actor'[a].ok = actor[a].ok /\ actor'[a].copy = copy
      /\ \A b \in Actors \ {a} : actor'[b] = actor[b]
  BY <1>1, <1>2, <1>3, <1>4 DEF IInv, TypeOK, Actor
<1>6. Moved(a)
  BY <1>1, <1>2, <1>4, <1>5 DEF Moved, CallFits, SubmissionFits, memory, history
<1>7. QED
  BY <1>1, <1>6, QuietStep

LEMMA RecordSaveInv ==
  ASSUME IInv, NEW a \in Actors, RecordSave(a)
  PROVE  IInv'
<1> DEFINE j == actor[a].job
           copy == actor[a].copy
           k == job[j].key
<1>1. actor[a].pc = "record" /\ actor[a].read /\ UNCHANGED <<plan, match, seen, todo, history>>
  BY DEF RecordSave, At
<1>2. j \in Calls /\ job[j] # None /\ k \in Keys
  BY <1>1, Submitter
<1>3. copy # None => Fits(row, job, applied, copy, k)
  BY <1>1 DEF IInv, ActorsFit, SubmissionFits
<1>4. row' = row \/ (copy # None /\ row' = [row EXCEPT ![k] = copy])
  BY DEF RecordSave
<1>5. Moved(a)
  BY OverMoves DEF RecordSave, AfterRecord
<1>6. /\ queue' \subseteq queue
      /\ job' \in [Calls -> Job \cup {None}] /\ job'[j] # None
      /\ job'[j].key = job[j].key /\ job'[j].winner = job[j].winner
      /\ \A c \in Calls \ {j} : job'[c] = job[c]
  <2>1. CASE queue' = queue \ {j} /\ UNCHANGED job
    BY <1>2, <2>1 DEF IInv, Shape
  <2>2. CASE job' = [job EXCEPT ![j].due = FALSE] /\ UNCHANGED queue
    BY <1>2, <2>2, JobUpdate
  <2>3. QED
    BY <2>1, <2>2 DEF RecordSave, AfterRecord
<1> HIDE DEF j, k, copy
<1>7. CASE row' = row
  BY <1>1, <1>2, <1>5, <1>6, <1>7, JobStep
<1>8. CASE copy # None /\ row' = [row EXCEPT ![k] = copy]
  <2>1. job'[j] \in Job
    BY <1>2, <1>6
  <2>2. QED
    BY <1>1, <1>2, <1>3, <1>5, <1>6, <1>8, <2>1, RowStep
<1>9. QED
  BY <1>4, <1>7, <1>8

LEMMA RetryInv ==
  ASSUME IInv, RetryNext
  PROVE  IInv'
<1>1. PICK j \in todo : todo' = todo \ {j} /\ SubmitToOracle(Cron, j)
  BY DEF RetryNext
<1>2. UNCHANGED <<plan, match, row, job, queue, seen, history>> /\ Cron \in Actors
  BY DEF RetryNext, Actors
<1>3. j \in Calls /\ job[j] # None
  BY DEF IInv, TypeOK, Shape
<1>4. Moved(Cron)
  BY <1>1, <1>2, <1>3, SubmitMoves
<1>5. Keeps
  BY <1>2 DEF Keeps, history
<1>6. TypeOK' /\ Shape' /\ MatchWritten'
  BY <1>1, <1>2, <1>4 DEF IInv, TypeOK, Shape, MatchWritten, Moved, history
<1>7. \A c \in Calls : job'[c] = job[c]
  BY <1>2
<1>8. \A k \in Keys : row'[k] = row[k]
  BY <1>2
<1>9. QED
  BY <1>2, <1>4, <1>5, <1>6, <1>7, <1>8, StepInv

\* Steps of nobody: actors stay where they are.
LEMMA StandingStep ==
  ASSUME IInv, Keeps, actor' = actor, UNCHANGED <<match, row, applied>>,
         \A c \in Calls : job[c] = None => job'[c] = None,
         job' \in [Calls -> Job \cup {None}], queue' \subseteq queue,
         todo' \subseteq queue \cup todo, seen' \subseteq seen
  PROVE  IInv'
<1>1. Cron \in Actors /\ \A b \in Actors : actor'[b] = actor[b]
  BY DEF Actors
<1>2. SubmissionFits(Cron)' /\ Cron \notin Calls
  BY <1>1, OthersFit
<1>3. ActorsFit'
  <2>1. actor'[Cron].pc \in {"new", "send", "record"}
    BY <1>1 DEF IInv, ActorsFit
  <2>2. QED
    BY <1>1, <1>2, <2>1, StepFits
<1>4. JobsFit' /\ RowsFit'
  BY TablesFit
<1>5. TypeOK' /\ Shape' /\ MatchWritten'
  BY DEF IInv, TypeOK, Shape, MatchWritten, Keeps
<1>6. QED
  BY <1>3, <1>4, <1>5 DEF IInv

LEMMA TimeInv ==
  ASSUME IInv, \/ ProcessRetries \/ (\E j \in Calls : Wait(j)) \/ (\E k \in Keys : Forget(k))
               \/ UNCHANGED vars
  PROVE  IInv'
<1>1. job \in [Calls -> Job \cup {None}]
  BY DEF IInv, Shape
<1>2. CASE ProcessRetries \/ (\E k \in Keys : Forget(k)) \/ UNCHANGED vars
  <2>1. /\ UNCHANGED <<plan, match, row, job, queue, actor, applied, unstored>>
        /\ todo' \subseteq queue \cup todo /\ seen' \subseteq seen
    BY <1>2 DEF ProcessRetries, Forget, vars, history
  <2>2. Keeps
    BY <2>1 DEF Keeps
  <2>3. QED
    BY <1>1, <2>1, <2>2, StandingStep
<1>3. ASSUME NEW j \in Calls, Wait(j) PROVE IInv'
  <2>1. /\ UNCHANGED <<plan, match, row, queue, actor, todo, seen, applied, unstored>>
        /\ job' = [job EXCEPT ![j].due = TRUE] /\ j \in queue
    BY <1>3 DEF Wait, history
  <2>2. job[j] # None
    BY <2>1 DEF IInv, TypeOK
  <2>3. /\ job' \in [Calls -> Job \cup {None}] /\ job'[j] # None
        /\ job'[j].key = job[j].key /\ job'[j].winner = job[j].winner
        /\ \A c \in Calls \ {j} : job'[c] = job[c]
    BY <2>1, <2>2, JobUpdate
  <2>4. Keeps
    BY <2>1, <2>2, <2>3 DEF Keeps
  <2>5. \A c \in Calls : job[c] = None => job'[c] = None
    BY <2>2, <2>3
  <2>6. QED
    BY <2>1, <2>3, <2>4, <2>5, StandingStep
<1>4. QED
  BY <1>2, <1>3

LEMMA RestartInv ==
  ASSUME IInv, Restart
  PROVE  IInv'
<1>1. /\ UNCHANGED <<plan, match, row, job, applied, unstored>>
      /\ queue' = {} /\ seen' = {} /\ todo' = {}
  BY DEF Restart, history
<1>2. \A a \in Actors : actor[a] \in Actor
  BY DEF IInv, TypeOK
<1> DEFINE over == [Idle EXCEPT !.pc = "done"]
<1>3. over \in Actor /\ over.pc = "done" /\ Idle \in Actor /\ Idle.pc = "new"
  BY IdleType DEF Idle
<1>4. actor' = [a \in Actors |->
        IF a = Cron THEN Idle ELSE IF At(a, "new") THEN actor[a] ELSE over]
  BY DEF Restart
<1> HIDE DEF over
<1>5. /\ actor' \in [Actors -> Actor]
      /\ \A a \in Actors : /\ actor'[a].pc \in {"new", "done"}
                           /\ actor'[a].pc = "new" /\ a # Cron => actor[a].pc = "new"
      /\ actor'[Cron].pc = "new"
  BY <1>2, <1>3, <1>4 DEF At, Actors
<1>6. ActorsFit'
  BY <1>1, <1>5 DEF IInv, ActorsFit, CallFits, SubmissionFits, Actors
<1>7. Keeps
  BY <1>1 DEF Keeps
<1>8. JobsFit' /\ RowsFit'
  BY <1>1, <1>7, TablesFit
<1>9. TypeOK' /\ Shape' /\ MatchWritten'
  BY <1>1, <1>5 DEF IInv, TypeOK, Shape, MatchWritten
<1>10. QED
  BY <1>6, <1>8, <1>9 DEF IInv

LEMMA InvNext == IInv /\ [Next]_vars => IInv'
<1> SUFFICES ASSUME IInv, [Next]_vars PROVE IInv'
  OBVIOUS
<1>1. ASSUME NEW c \in Calls, Call(c) \/ ScreenFails(c) PROVE IInv'
  BY <1>1, ReceiveInv, SaveInv, ScreenInv, FlagInv, ReviewReadInv, ReviewInv DEF Call
<1>2. ASSUME NEW a \in Actors, Submission(a) \/ SendFails(a) PROVE IInv'
  BY <1>2, SendInv, SendFailsInv, RecordReadInv, RecordSaveInv DEF Submission
<1>3. QED
  BY <1>1, <1>2, RetryInv, TimeInv, RestartInv DEF Next, CronJob, Actors

LEMMA InvHolds == Spec => []IInv
BY InvInit, InvNext, PTL DEF Spec

-----------------------------------------------------------------------------
(* The theorems. *)

\* Rows, jobs and calls keep their types through every interleaving of calls,
\* reviews, retries and restarts, and a job that is queued, listed or applied
\* was made (the submissionQueue of webhook.service.ts).
THEOREM TypeCorrect == Spec => []TypeOK
<1>1. IInv => TypeOK
  BY DEF IInv
<1>2. QED
  BY InvHolds, <1>1, PTL

\* A row says submitted only after one of its jobs was written to the match,
\* whoever submitted it and whatever failed (updateSubmissionRecord).
THEOREM SubmittedMeansApplied == Spec => []SubmittedWasApplied
<1>1. IInv => SubmittedWasApplied
  <2> SUFFICES ASSUME IInv, NEW k \in Keys, row[k] # None, row[k].status = "submitted"
               PROVE  match # None /\ \E j \in JobsFor(k) : j \in applied
    BY DEF SubmittedWasApplied
  <2>1. PICK j \in applied : job[j] # None /\ job[j].key = k
    BY DEF IInv, RowsFit, Fits
  <2>2. j \in Calls /\ match # None
    BY <2>1 DEF IInv, Shape, MatchWritten
  <2>3. QED
    BY <2>1, <2>2 DEF JobsFor
<1>2. QED
  BY InvHolds, <1>1, PTL

\* However many deliveries with one key arrive and whenever the process
\* restarts, only the result in the key's row is applied, provided that the
\* rows of that key could be stored (the unique key of oracle_submissions).
THEOREM KeySerializesResults == Spec => []OneResultPerKey
<1>1. IInv => OneResultPerKey
  BY DEF IInv, JobsFit, OneResultPerKey, JobsFor
<1>2. QED
  BY InvHolds, <1>1, PTL

=============================================================================
