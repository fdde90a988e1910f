----------------------------- MODULE JobsProofs -----------------------------
(***************************************************************************)
(* Proofs about Jobs, for every set of worker processes, of ids and of     *)
(* movies, and every limit: its inductive invariant JobsInv, and that each *)
(* of its steps is a step in the life of the job of one run, or nothing.   *)
(***************************************************************************)
EXTENDS Jobs, FiniteSetTheorems, TLAPS

JobRow == [run : Workers \cup {Nobody}, status : Status, progress : Nat]

\* What a step must leave alone of a process that does not take it.
SameRun(v) == pc'[v] = pc[v] /\ id'[v] = id[v] /\ work'[v] = work[v]

\* Of the table, a process writes its own row, or one that nobody has.
OwnRowOnly(w) ==
    \A i \in Ids : \/ jobs'[i] = jobs[i]
                   \/ /\ i = id[w] /\ jobs'[i].run = w
                      /\ jobs[i].run \in {w, Nobody}

-----------------------------------------------------------------------------
(* The progress of sync_imdb_ids *)

LEMMA DivMonotone ==
  ASSUME NEW a \in Nat, NEW b \in Nat, NEW d \in Nat \ {0}, a <= b
  PROVE  a \div d \in Nat /\ a \div d <= b \div d
<1> DEFINE p == a \div d  q == b \div d
<1>1. /\ p \in Nat /\ q \in Nat
      /\ d * p <= a /\ a < d * p + d
      /\ d * q <= b /\ b < d * q + d
  OBVIOUS
<1> HIDE DEF p, q
<1>2. CASE p <= q
  BY <1>1, <1>2 DEF p, q
<1>3. CASE q + 1 <= p
  <2>1. d * (q + 1) <= d * p
    BY <1>1, <1>3
  <2>2. d * (q + 1) = d * q + d
    BY <1>1
  <2> QED  BY <1>1, <2>1, <2>2
<1> QED  BY <1>1, <1>2, <1>3

LEMMA ProgressGrows ==
  ASSUME NEW tried \in Nat, NEW total \in Nat
  PROVE  /\ Progress(tried, total) \in Nat /\ Progress(tried + 1, total) \in Nat
         /\ Progress(tried, total) <= Progress(tried + 1, total)
<1> DEFINE d == IF total > 1 THEN total ELSE 1
<1>1. d \in Nat \ {0} /\ 100 * tried \in Nat /\ 100 * (tried + 1) \in Nat
      /\ 100 * tried <= 100 * (tried + 1)
  OBVIOUS
<1> HIDE DEF d
<1>2. (100 * tried) \div d \in Nat /\ (100 * (tried + 1)) \div d \in Nat
      /\ (100 * tried) \div d <= (100 * (tried + 1)) \div d
  BY <1>1, DivMonotone
<1> QED  BY <1>2 DEF Progress, d

-----------------------------------------------------------------------------
(* What the steps have in common *)

\* The pieces of the invariant that the proofs below cite most.
LEMMA Types ==
  ASSUME JobsInv
  PROVE  /\ Nobody \notin Workers /\ NoId \notin Ids
         /\ movie \in [Movies -> {"absent", "lacking", "filled"}] /\ now \in Ids
         /\ jobs \in [Ids -> JobRow]
         /\ pc \in [Workers -> PC] /\ id \in [Workers -> Ids \cup {NoId}]
         /\ \A w \in Workers : /\ OwnJob(w) /\ Reported(w)
                               /\ work[w].total \in Nat /\ work[w].tried \in Nat
         /\ Lacking \subseteq Movies /\ Cardinality(Lacking) \in Nat
<1>1. Lacking \subseteq Movies /\ IsFiniteSet(Movies)
  BY JobsAssumption DEF JobsAssumption, Lacking
<1>2. Cardinality(Lacking) \in Nat
  BY <1>1, FS_Subset, FS_CardinalityType
<1> QED  BY <1>1, <1>2, JobsAssumption DEF JobsAssumption, JobsInv, TypeOK, JobRow

\* One more row does not take the progress of a run back.
LEMMA RunProgress ==
  ASSUME JobsInv, NEW w \in Workers
  PROVE  LET before == Progress(work[w].tried, work[w].total)
             after  == Progress(work[w].tried + 1, work[w].total)
         IN  before \in Nat /\ after \in Nat /\ before <= after /\ work[w].tried + 1 \in Nat
<1>1. work[w].tried \in Nat /\ work[w].total \in Nat
  BY Types
<1>2. work[w].tried + 1 \in Nat
  BY <1>1
<1> QED  BY <1>1, <1>2, ProgressGrows, Zenon

(***************************************************************************)
(* A step of w that leaves the other processes' runs and rows alone keeps  *)
(* the invariant if it keeps that of w.                                    *)
(***************************************************************************)
LEMMA StepOf ==
  ASSUME JobsInv, NEW w \in Workers, TypeOK', id' = id, pc'[w] # "create",
         \A v \in Workers \ {w} : SameRun(v),
         OwnRowOnly(w), OwnJob(w)', Reported(w)'
  PROVE  JobsInv'
<1> USE Types
<1>1. ASSUME NEW i \in Ids, NEW v \in Workers, jobs'[i].run = v
      PROVE  id'[v] = i /\ pc'[v] # "create"
  <2>1. CASE jobs'[i] = jobs[i]
    BY <1>1, <2>1 DEF JobsInv, OneJobPerRun, SameRun
  <2>2. CASE i = id[w] /\ jobs'[i].run = w
    BY <1>1, <2>2
  <2> QED  BY <2>1, <2>2 DEF OwnRowOnly
<1>2. ASSUME NEW i \in Ids PROVE jobs'[i].run = Nobody <=> jobs'[i] = NoRow
  BY DEF JobsInv, OneJobPerRun, OwnRowOnly, NoRow, Row
<1>3. ASSUME NEW v \in Workers \ {w} PROVE OwnJob(v)' /\ Reported(v)'
  <2>1. pc[v] \in Tracked => jobs'[id[v]] = jobs[id[v]]
    BY DEF OwnJob, OwnRowOnly
  <2> QED  BY <2>1 DEF OwnJob, Reported, SameRun, Tracked
<1> QED  BY <1>1, <1>2, <1>3 DEF JobsInv, OneJobPerRun

\* What SetJob does to the table, by a run that has a job.
LEMMA SetsOwnRow ==
  ASSUME JobsInv, NEW w \in Workers, pc[w] \in Tracked,
         NEW s \in Status, NEW p \in Nat, SetJob(w, s, p)
  PROVE  /\ jobs' \in [Ids -> JobRow]
         /\ jobs' = [jobs EXCEPT ![id[w]] = Row(w, s, p)]
         /\ OwnRowOnly(w)
<1>1. id[w] \in Ids /\ jobs[id[w]].run = w /\ jobs[id[w]] \in JobRow
  BY Types DEF OwnJob
<1>2. jobs' = [jobs EXCEPT ![id[w]] = Row(w, s, p)]
  BY <1>1 DEF SetJob
<1>3. Row(w, s, p) \in JobRow /\ Row(w, s, p).run = w
  BY DEF Row, JobRow
<1> QED  BY <1>1, <1>2, <1>3, Types DEF OwnRowOnly

\* The invariant asks nothing of a run that is over.
LEMMA OverStep ==
  ASSUME JobsInv, NEW w \in Workers, End(w), OwnRowOnly(w),
         jobs' \in [Ids -> JobRow],
         movie' \in [Movies -> {"absent", "lacking", "filled"}]
  PROVE  JobsInv'
<1> USE Types
<1>1. TypeOK'
  BY DEF TypeOK, JobsInv, End, NoWork, Untried, PC, JobRow
<1>2. OwnJob(w)' /\ Reported(w)'
  BY DEF OwnJob, Reported, End, Tracked
<1>3. pc'[w] # "create" /\ \A v \in Workers \ {w} : SameRun(v)
  BY DEF End, SameRun, JobsInv, TypeOK
<1> QED  BY <1>1, <1>2, <1>3, StepOf DEF End

-----------------------------------------------------------------------------
(* One lemma per step *)

LEMMA InitInv == Init => JobsInv
<1> SUFFICES ASSUME Init PROVE JobsInv
  OBVIOUS
<1>1. TypeOK
  BY DEF Init, TypeOK, First, NoRow, Row, NoWork, Untried, Status, PC
<1>2. OneJobPerRun
  BY JobsAssumption DEF Init, OneJobPerRun, NoRow, Row, JobsAssumption
<1>3. ASSUME NEW w \in Workers PROVE OwnJob(w) /\ Reported(w)
  BY DEF Init, OwnJob, Reported, Tracked
<1> QED  BY <1>1, <1>2, <1>3 DEF JobsInv

LEMMA TickStep ==
  ASSUME JobsInv, Tick
  PROVE  JobsInv'
<1>1. now' \in Ids
  BY DEF Tick, First, Unused
<1>2. TypeOK' /\ OneJobPerRun'
  BY <1>1 DEF Tick, JobsInv, TypeOK, OneJobPerRun
<1>3. ASSUME NEW w \in Workers PROVE OwnJob(w)' /\ Reported(w)'
  BY Types DEF Tick, OwnJob, Reported
<1> QED  BY <1>2, <1>3 DEF JobsInv

\* A new run: of its process's earlier runs no row is kept.
LEMMA StartStep ==
  ASSUME JobsInv, NEW w \in Workers, NEW popular \in BOOLEAN, Start(w, popular)
  PROVE  JobsInv'
<1> USE Types
<1>1. \A i \in Ids : jobs'[i] = IF jobs[i].run = w THEN NoRow ELSE jobs[i]
  BY DEF Start
<1>2. NoRow \in JobRow /\ NoRow.run = Nobody
  BY DEF NoRow, Row, JobRow, Status
<1>3. jobs' \in [Ids -> JobRow]
  BY <1>2 DEF Start
<1>4. TypeOK'
  BY <1>3 DEF TypeOK, JobsInv, Start, PC, JobRow, Untried
<1>5. OneJobPerRun'
  BY <1>1, <1>2 DEF JobsInv, OneJobPerRun, Start
<1>6. OwnJob(w)' /\ Reported(w)'
  <2>1. pc'[w] = "create" /\ id'[w] = now /\ work'[w].tried = 0
    BY DEF Start, Untried, JobsInv, TypeOK
  <2> QED  BY <2>1 DEF OwnJob, Reported, Tracked
<1>7. ASSUME NEW v \in Workers \ {w} PROVE OwnJob(v)' /\ Reported(v)'
  <2>1. SameRun(v)
    BY DEF Start, SameRun, JobsInv, TypeOK
  <2>2. pc[v] \in Tracked => jobs'[id[v]] = jobs[id[v]]
    BY <1>1 DEF OwnJob
  <2> QED  BY <2>1, <2>2 DEF OwnJob, Reported, SameRun, Tracked
<1> QED  BY <1>4, <1>5, <1>6, <1>7 DEF JobsInv

LEMMA CreateStep ==
  ASSUME JobsInv, NEW w \in Workers, Create(w)
  PROVE  JobsInv'
<1> USE Types
<1>1. id[w] \in Ids /\ jobs[id[w]].run = Nobody
  BY DEF Create, OwnJob, NoRow, Row
<1>2. /\ Row(w, "queued", 0) \in JobRow
      /\ Row(w, "queued", 0).run = w /\ Row(w, "queued", 0).status = "queued"
      /\ Row(w, "queued", 0).progress = 0
  BY DEF Row, JobRow, Status
<1>3. jobs'[id[w]] = Row(w, "queued", 0) /\ jobs' \in [Ids -> JobRow] /\ OwnRowOnly(w)
  BY <1>1, <1>2 DEF Create, OwnRowOnly
<1>4. TypeOK'
  BY <1>3 DEF TypeOK, JobsInv, Create, PC, JobRow
<1>5. pc'[w] = "queued" /\ work'[w].tried = 0 /\ id' = id
  BY DEF Create, Reported
<1>6. OwnJob(w)' /\ Reported(w)'
  BY <1>1, <1>2, <1>3, <1>5 DEF OwnJob, Reported, Tracked
<1>7. \A v \in Workers \ {w} : SameRun(v)
  BY DEF Create, SameRun
<1> QED  BY <1>3, <1>4, <1>5, <1>6, <1>7, StepOf

LEMMA ProcessStep ==
  ASSUME JobsInv, NEW w \in Workers, Process(w)
  PROVE  JobsInv'
<1> USE Types
<1>1. /\ pc[w] \in Tracked /\ id[w] \in Ids /\ jobs[id[w]].progress = 0
      /\ work[w].tried = 0
  BY DEF Process, OwnJob, Reported, Tracked
<1>2. jobs' \in [Ids -> JobRow] /\ OwnRowOnly(w)
      /\ jobs' = [jobs EXCEPT ![id[w]] = Row(w, "processing", 0)]
  BY <1>1, SetsOwnRow DEF Process, Status
<1>3. /\ jobs'[id[w]].run = w /\ jobs'[id[w]].status = "processing"
      /\ jobs'[id[w]].progress = 0
  BY <1>1, <1>2 DEF Row
<1>4. TypeOK'
  BY <1>2 DEF TypeOK, JobsInv, Process, PC, JobRow
<1>5. pc'[w] \in {"popular", "count"} /\ id' = id /\ work' = work
  BY DEF Process
<1>6. OwnJob(w)' /\ Reported(w)'
  BY <1>1, <1>3, <1>5 DEF OwnJob, Reported, Tracked
<1>7. \A v \in Workers \ {w} : SameRun(v)
  BY DEF Process, SameRun
<1> QED  BY <1>2, <1>4, <1>5, <1>6, <1>7, StepOf

\* The statements of sync_imdb_ids before its rows, which write no table.
LEMMA ScanStep ==
  ASSUME JobsInv, NEW w \in Workers, Count(w) \/ Select(w)
  PROVE  JobsInv'
<1> USE Types
<1>1. OwnRowOnly(w) /\ id' = id /\ jobs' = jobs /\ pc'[w] \in {"select", "rows"}
  BY DEF Count, Select, OwnRowOnly
<1>2. /\ work'[w].tried = 0 /\ work'[w].total \in Nat
      /\ work' \in [Workers -> [popular : BOOLEAN, total : Nat, tried : Nat,
                                todo : SUBSET Movies, filled : SUBSET Movies]]
  <2>1. CASE Count(w)
    BY <2>1 DEF Count, Reported, JobsInv, TypeOK
  <2>2. CASE Select(w)
    BY <2>2 DEF Select, Batch, Reported, JobsInv, TypeOK
  <2> QED  BY <2>1, <2>2
<1>3. TypeOK'
  BY <1>2 DEF TypeOK, JobsInv, Count, Select, PC
<1>4. OwnJob(w)'
  BY <1>1 DEF OwnJob, Tracked, Count, Select
<1>5. Reported(w)'
  <2>1. pc[w] \in {"count", "select"} /\ jobs[id[w]].progress = 0
    BY DEF Count, Select, Reported
  <2>2. 0 <= Progress(0, work'[w].total)
    BY <1>2, ProgressGrows
  <2> QED  BY <1>1, <1>2, <2>1, <2>2 DEF Reported, Tracked
<1>6. \A v \in Workers \ {w} : SameRun(v)
  <2>1. CASE Count(w)
    BY <2>1 DEF Count, SameRun, JobsInv, TypeOK
  <2>2. CASE Select(w)
    BY <2>2 DEF Select, SameRun, JobsInv, TypeOK
  <2> QED  BY <2>1, <2>2
<1> QED  BY <1>1, <1>3, <1>4, <1>5, <1>6, StepOf

LEMMA VisitStep ==
  ASSUME JobsInv, NEW w \in Workers, NEW t \in Movies, Visit(w, t)
  PROVE  JobsInv'
<1> USE Types
<1> DEFINE tried == work[w].tried + 1
           before == Progress(work[w].tried, work[w].total)
           after == Progress(tried, work[w].total)
<1>1. /\ pc[w] \in Tracked /\ id[w] \in Ids /\ jobs[id[w]].run = w
      /\ jobs[id[w]].status = "processing" /\ jobs[id[w]].progress <= before
      /\ jobs[id[w]].progress \in Nat
  BY DEF Visit, OwnJob, Reported, Tracked, JobRow
<1>2. before \in Nat /\ after \in Nat /\ before <= after /\ tried \in Nat
  BY RunProgress
<1>3. /\ jobs' \in [Ids -> JobRow] /\ OwnRowOnly(w)
      /\ jobs'[id[w]].run = w /\ jobs'[id[w]].status = "processing"
      /\ jobs'[id[w]].progress <= after
  <2>1. CASE jobs' = jobs
    BY <1>1, <1>2, <2>1 DEF OwnRowOnly
  <2>2. CASE SetJob(w, "processing", after)
    BY <1>1, <1>2, <2>2, SetsOwnRow DEF Status, Row
  <2> QED  BY <2>1, <2>2 DEF Visit
<1>4. /\ work'[w].tried = tried /\ work'[w].total = work[w].total
      /\ \A v \in Workers \ {w} : work'[v] = work[v]
      /\ work' \in [Workers -> [popular : BOOLEAN, total : Nat, tried : Nat,
                                todo : SUBSET Movies, filled : SUBSET Movies]]
  BY <1>2 DEF Visit, JobsInv, TypeOK
<1>5. movie' \in [Movies -> {"absent", "lacking", "filled"}]
  BY DEF Visit
<1>6. pc' = pc /\ id' = id /\ now' = now /\ pc[w] = "rows"
  BY DEF Visit
<1>7. TypeOK'
  BY <1>3, <1>4, <1>5, <1>6 DEF TypeOK, JobsInv, JobRow
<1>8. OwnJob(w)' /\ Reported(w)'
  BY <1>1, <1>3, <1>4, <1>6 DEF OwnJob, Reported, Tracked
<1>9. \A v \in Workers \ {w} : SameRun(v)
  BY <1>4, <1>6 DEF SameRun
<1> QED  BY <1>3, <1>6, <1>7, <1>8, <1>9, StepOf

\* The last words of a run: its job is settled.
LEMMA SettleStep ==
  ASSUME JobsInv, NEW w \in Workers, CompletePopular(w) \/ Complete(w) \/ Fail(w)
  PROVE  JobsInv'
<1> USE Types
<1>1. pc[w] \in Tracked /\ id[w] \in Ids /\ jobs[id[w]].progress \in Nat
  BY DEF CompletePopular, Complete, Fail, Tracked, OwnJob, JobRow
<1>2. \/ SetJob(w, "completed", 100) \/ SetJob(w, "failed", jobs[id[w]].progress)
  BY DEF CompletePopular, Complete, Fail
<1>3. jobs' \in [Ids -> JobRow] /\ OwnRowOnly(w)
  BY <1>1, <1>2, SetsOwnRow DEF Status
<1>4. movie' \in [Movies -> {"absent", "lacking", "filled"}]
  <2>1. CASE Discover
    BY <2>1 DEF Discover
  <2>2. CASE Publish(w)
    BY <2>2 DEF Publish
  <2> QED  BY <2>1, <2>2 DEF CompletePopular, Complete, Fail
<1> QED  BY <1>3, <1>4, OverStep DEF CompletePopular, Complete, Fail

\* A run that ends without a word to its job, or has none.
LEMMA BreakStep ==
  ASSUME JobsInv, NEW w \in Workers, CreateClashes(w) \/ Break(w)
  PROVE  JobsInv'
<1>1. End(w) /\ jobs' = jobs /\ movie' = movie
  BY DEF CreateClashes, Break
<1>2. OwnRowOnly(w)
  BY <1>1 DEF OwnRowOnly
<1> QED  BY <1>1, <1>2, Types, OverStep

LEMMA NextInv == JobsInv /\ [Next]_vars => JobsInv'
<1> SUFFICES ASSUME JobsInv, [Next]_vars PROVE JobsInv'
  OBVIOUS
<1>1. CASE UNCHANGED vars
  BY <1>1 DEF vars, JobsInv, TypeOK, OneJobPerRun, OwnJob, Reported
<1>2. CASE Tick
  BY <1>2, TickStep
<1>3. ASSUME NEW w \in Workers, \E popular \in BOOLEAN : Start(w, popular)
      PROVE  JobsInv'
  BY <1>3, StartStep
<1>4. ASSUME NEW w \in Workers, Step(w) PROVE JobsInv'
  BY <1>4, CreateStep, ProcessStep, ScanStep, VisitStep, SettleStep, BreakStep DEF Step
<1>5. ASSUME NEW w \in Workers, Fail(w) \/ Break(w) PROVE JobsInv'
  BY <1>5, SettleStep, BreakStep
<1> QED  BY <1>1, <1>2, <1>3, <1>4, <1>5 DEF Next

(***************************************************************************)
(* However runs overlap and end, a run past the creation of its job is the *)
(* one its job belongs to, the job says what the run does, and it shows at *)
(* most the progress the run has made (tasks._run_tracked_job).            *)
(***************************************************************************)
THEOREM JobsInvariant == Spec => []JobsInv
  BY InitInv, NextInv, PTL DEF Spec

-----------------------------------------------------------------------------
(* Each step of Jobs as a step of JobLife *)

\* A run that has its job, and one that has none, as JobLife sees them.
LEMMA LatestJobOf ==
  ASSUME NEW w \in Workers
  PROVE  /\ HasRow(w) => /\ LatestJob[w] = L!Job(jobs[id[w]].status, jobs[id[w]].progress)
                         /\ LatestJob[w].status = jobs[id[w]].status
                         /\ LatestJob[w].progress = jobs[id[w]].progress
         /\ ~HasRow(w) => LatestJob[w] = L!Untracked /\ LatestJob[w].status = "none"
         /\ w \in Active <=> pc[w] # "idle"
  BY DEF LatestJob, L!Job, L!Untracked, Active

LEMMA TrackedHasRow ==
  ASSUME JobsInv, NEW w \in Workers, pc[w] \in Tracked
  PROVE  /\ HasRow(w) /\ w \in Active
         /\ LatestJob[w].status = IF pc[w] = "queued" THEN "queued" ELSE "processing"
         /\ LatestJob[w].progress = jobs[id[w]].progress
         /\ LatestJob[w].progress \in Nat
  BY Types, LatestJobOf DEF OwnJob, HasRow, Tracked, JobRow

\* A step of w is a change of the job of w at most.
LEMMA OthersRest ==
  ASSUME JobsInv, NEW w \in Workers, id' = id, OwnRowOnly(w),
         \A v \in Workers \ {w} : pc'[v] = pc[v]
  PROVE  /\ LatestJob' = [LatestJob EXCEPT ![w] = LatestJob'[w]]
         /\ Active' \ {w} = Active \ {w}
<1>1. ASSUME NEW v \in Workers \ {w} PROVE LatestJob'[v] = LatestJob[v]
  <2>1. HasRow(v)' <=> HasRow(v)
    BY Types DEF HasRow, OwnRowOnly
  <2>2. HasRow(v) => jobs'[id[v]] = jobs[id[v]]
    BY Types DEF HasRow, OwnRowOnly
  <2> QED  BY <2>1, <2>2 DEF LatestJob
<1> QED  BY <1>1 DEF LatestJob, Active

LEMMA StartIsTake ==
  ASSUME JobsInv, NEW w \in Workers, NEW popular \in BOOLEAN, Start(w, popular)
  PROVE  L!Take(w)
<1> USE Types
<1>1. w \notin Active /\ Active' = Active \cup {w}
  BY DEF Start, Active
<1>2. \A i \in Ids : jobs'[i] = IF jobs[i].run = w THEN NoRow ELSE jobs[i]
  BY DEF Start
<1>3. \A i \in Ids : jobs'[i].run # w
  BY <1>2 DEF NoRow, Row
<1>4. LatestJob'[w] = L!Untracked
  BY <1>3 DEF LatestJob, HasRow, L!Untracked, L!Job
<1>5. ASSUME NEW v \in Workers \ {w} PROVE LatestJob'[v] = LatestJob[v]
  <2>1. id'[v] = id[v]
    BY DEF Start
  <2>2. HasRow(v)' <=> HasRow(v)
    BY <1>2, <2>1 DEF HasRow, NoRow, Row
  <2>3. HasRow(v) => jobs'[id[v]] = jobs[id[v]]
    BY <1>2 DEF HasRow
  <2> QED  BY <2>1, <2>2, <2>3 DEF LatestJob
<1>6. LatestJob' = [LatestJob EXCEPT ![w] = L!Untracked]
  BY <1>4, <1>5 DEF LatestJob
<1> QED  BY <1>1, <1>6 DEF L!Take

LEMMA CreateIsTrack ==
  ASSUME JobsInv, NEW w \in Workers, Create(w)
  PROVE  L!Track(w)
<1> USE Types
<1>1. id[w] \in Ids /\ jobs[id[w]].run = Nobody /\ w \in Active
  BY DEF Create, OwnJob, NoRow, Row, Active
<1>2. /\ jobs'[id[w]] = Row(w, "queued", 0) /\ id' = id /\ OwnRowOnly(w)
      /\ \A v \in Workers \ {w} : pc'[v] = pc[v]
  BY <1>1 DEF Create, OwnRowOnly, Row
<1>3. LatestJob[w].status = "none"
  BY <1>1, LatestJobOf DEF HasRow
<1>4. LatestJob'[w] = L!Job("queued", 0)
  BY <1>1, <1>2 DEF LatestJob, HasRow, L!Job, Row
<1>5. Active' = Active
  BY DEF Active, Create
<1> QED  BY <1>1, <1>2, <1>3, <1>4, <1>5, OthersRest DEF L!Track, L!Move

LEMMA ProcessIsProcess ==
  ASSUME JobsInv, NEW w \in Workers, Process(w)
  PROVE  L!Process(w)
<1> USE Types
<1>1. /\ pc[w] = "queued" /\ pc[w] \in Tracked /\ HasRow(w)
      /\ LatestJob[w].status = "queued" /\ jobs[id[w]].progress = 0
  BY TrackedHasRow DEF Process, Tracked, Reported
<1>2. jobs' = [jobs EXCEPT ![id[w]] = Row(w, "processing", 0)] /\ OwnRowOnly(w)
  BY <1>1, SetsOwnRow DEF Process, Status
<1>3. LatestJob'[w] = L!Job("processing", 0)
  BY <1>1, <1>2 DEF Process, LatestJob, HasRow, L!Job, Row
<1>4. Active' = Active /\ id' = id /\ \A v \in Workers \ {w} : pc'[v] = pc[v]
  BY DEF Active, Process
<1> QED  BY <1>1, <1>2, <1>3, <1>4, TrackedHasRow, OthersRest DEF L!Process, L!Move

LEMMA VisitIsAdvance ==
  ASSUME JobsInv, NEW w \in Workers, NEW t \in Movies, Visit(w, t)
  PROVE  L!Advance(w) \/ UNCHANGED L!lvars
<1> USE Types
<1> DEFINE before == Progress(work[w].tried, work[w].total)
           after == Progress(work[w].tried + 1, work[w].total)
<1>1. /\ pc[w] = "rows" /\ pc[w] \in Tracked /\ HasRow(w) /\ w \in Active
      /\ LatestJob[w].status = "processing"
      /\ LatestJob[w].progress = jobs[id[w]].progress
  BY TrackedHasRow DEF Visit, Tracked
<1>2. pc' = pc /\ id' = id /\ Active' = Active
  BY DEF Visit, Active
<1>3. CASE jobs' = jobs
  BY <1>2, <1>3 DEF LatestJob, HasRow, L!lvars
<1>4. CASE SetJob(w, "processing", after)
  <2>1. after \in Nat /\ jobs[id[w]].progress <= after
    <3>1. before \in Nat /\ after \in Nat /\ before <= after
      BY RunProgress
    <3>2. jobs[id[w]].progress <= before /\ jobs[id[w]].progress \in Nat
      BY <1>1 DEF Reported, HasRow, JobRow
    <3> QED  BY <3>1, <3>2
  <2>2. jobs' = [jobs EXCEPT ![id[w]] = Row(w, "processing", after)] /\ OwnRowOnly(w)
    BY <1>1, <1>4, <2>1, SetsOwnRow DEF Status
  <2>3. LatestJob'[w] = L!Job("processing", after)
    BY <1>1, <1>2, <2>2 DEF LatestJob, HasRow, L!Job, Row
  <2>4. LatestJob'[w].progress = after
    BY <2>3 DEF L!Job
  <2>5. LatestJob[w] = L!Job("processing", jobs[id[w]].progress)
    BY <1>1, LatestJobOf
  <2>6. [LatestJob[w] EXCEPT !.progress = after] = L!Job("processing", after)
    BY <2>5 DEF L!Job
  <2>7. LatestJob' = [LatestJob EXCEPT ![w].progress = LatestJob'[w].progress]
    <3>1. LatestJob' = [LatestJob EXCEPT ![w] = L!Job("processing", after)]
      BY <1>2, <2>2, <2>3, OthersRest
    <3> QED  BY <2>4, <2>6, <3>1
  <2> QED  BY <1>1, <1>2, <2>1, <2>4, <2>7 DEF L!Advance
<1> QED  BY <1>3, <1>4 DEF Visit

LEMMA SettlesIsSettle ==
  ASSUME JobsInv, NEW w \in Workers, CompletePopular(w) \/ Complete(w) \/ Fail(w)
  PROVE  L!Settle(w)
<1> USE Types
<1>1. /\ pc[w] \in Tracked /\ pc[w] # "queued" /\ HasRow(w) /\ w \in Active
      /\ LatestJob[w].status = "processing"
      /\ LatestJob[w].progress = jobs[id[w]].progress /\ jobs[id[w]].progress \in Nat
  <2>1. pc[w] \in Tracked /\ pc[w] # "queued"
    BY DEF CompletePopular, Complete, Fail, Tracked
  <2> QED  BY <2>1, TrackedHasRow
<1>2. Active' = Active \ {w} /\ id' = id /\ \A v \in Workers \ {w} : pc'[v] = pc[v]
  BY DEF CompletePopular, Complete, Fail, End, Active
<1>3. ASSUME NEW s \in {"completed", "failed"}, NEW p \in Nat, SetJob(w, s, p)
      PROVE  L!Move(w, "processing", L!Job(s, p))
  <2>1. jobs' = [jobs EXCEPT ![id[w]] = Row(w, s, p)] /\ OwnRowOnly(w)
    BY <1>1, <1>3, SetsOwnRow DEF Status
  <2>2. LatestJob'[w] = L!Job(s, p)
    BY <1>1, <1>2, <2>1 DEF LatestJob, HasRow, L!Job, Row
  <2> QED  BY <1>1, <1>2, <2>1, <2>2, OthersRest DEF L!Move
<1>4. \/ SetJob(w, "completed", 100) \/ SetJob(w, "failed", jobs[id[w]].progress)
  BY DEF CompletePopular, Complete, Fail
<1> QED  BY <1>1, <1>2, <1>3, <1>4 DEF L!Settle

LEMMA EndIsLeave ==
  ASSUME JobsInv, NEW w \in Workers, CreateClashes(w) \/ Break(w)
  PROVE  L!Leave(w)
<1>1. pc[w] # "idle" /\ End(w) /\ jobs' = jobs
  BY DEF CreateClashes, Break
<1>2. w \in Active /\ Active' = Active \ {w}
  BY <1>1, Types DEF End, Active
<1>3. LatestJob' = LatestJob
  BY <1>1 DEF End, LatestJob, HasRow
<1> QED  BY <1>2, <1>3 DEF L!Leave

(***************************************************************************)
(* However runs overlap, and though two may draw the same id, the job of   *)
(* each lives the life of a sync job, queued, processing, settled, and is  *)
(* written by nobody else (job_repo.py, tasks._run_tracked_job).           *)
(***************************************************************************)
THEOREM JobsRefinement == Spec => RefinesJobLife
<1>1. Init => L!LifeInit
  BY DEF Init, L!LifeInit, L!Untracked, L!Job, Active, LatestJob, HasRow, NoRow, Row
<1>2. JobsInv /\ [Next]_vars => [L!LifeNext]_L!lvars
  <2> SUFFICES ASSUME JobsInv, [Next]_vars PROVE L!LifeNext \/ UNCHANGED L!lvars
    OBVIOUS
  <2>1. CASE UNCHANGED vars \/ Tick
    BY <2>1 DEF vars, Tick, L!lvars, Active, LatestJob, HasRow
  <2>2. ASSUME NEW w \in Workers, \E popular \in BOOLEAN : Start(w, popular)
        PROVE  L!LifeNext
    BY <2>2, StartIsTake DEF L!LifeNext
  <2>3. ASSUME NEW w \in Workers, Step(w) PROVE L!LifeNext \/ UNCHANGED L!lvars
    <3>1. CASE Create(w) \/ Process(w)
      BY <3>1, CreateIsTrack, ProcessIsProcess DEF L!LifeNext
    <3>2. CASE \E t \in Movies : Visit(w, t)
      BY <3>2, VisitIsAdvance DEF L!LifeNext
    <3>3. CASE CompletePopular(w) \/ Complete(w)
      BY <3>3, SettlesIsSettle DEF L!LifeNext
    <3>4. CASE CreateClashes(w)
      BY <3>4, EndIsLeave DEF L!LifeNext
    <3>5. CASE Count(w) \/ Select(w)
      <4>1. jobs' = jobs /\ id' = id /\ Active' = Active
        BY <3>5, Types DEF Count, Select, Active
      <4> QED  BY <4>1 DEF L!lvars, LatestJob, HasRow
    <3> QED  BY <2>3, <3>1, <3>2, <3>3, <3>4, <3>5 DEF Step
  <2>4. ASSUME NEW w \in Workers, Fail(w) \/ Break(w) PROVE L!LifeNext
    BY <2>4, SettlesIsSettle, EndIsLeave DEF L!LifeNext
  <2> QED  BY <2>1, <2>2, <2>3, <2>4 DEF Next
<1> QED  BY <1>1, <1>2, JobsInvariant, PTL DEF Spec, RefinesJobLife, L!LifeSpec
=============================================================================
