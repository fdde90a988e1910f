------------------------------ MODULE JobLife ------------------------------
(***************************************************************************)
(* What the jobs table promises of a run of a background task, whatever    *)
(* other runs do meanwhile: its job is queued, then processing, and then   *)
(* completed or failed (CONTEXT.md, "Sync job"); its progress does not go  *)
(* back while it is processing; and once the run is over, nobody touches   *)
(* it.  A run may also end without a job, or leave its job as it is.       *)
(*                                                                         *)
(* A run is named by the worker process that executes it: `job' has the    *)
(* job of the latest run of each process.                                  *)
(***************************************************************************)
EXTENDS Naturals

CONSTANT Workers    \* worker processes, each with one run at a time

VARIABLES
    active,     \* processes with a run in progress
    job         \* the status and progress of the job of each one's latest run

lvars == <<active, job>>

Job(status, progress) == [status |-> status, progress |-> progress]
Untracked == Job("none", 0)

LifeInit ==
    /\ active = {}
    /\ job = [w \in Workers |-> Untracked]

\* The process takes up a run: that run has no job yet.
Take(w) ==
    /\ w \notin active
    /\ active' = active \cup {w}
    /\ job' = [job EXCEPT ![w] = Untracked]

\* A step from one status to another, while the run is in progress.
Move(w, from, to) ==
    /\ w \in active
    /\ job[w].status = from
    /\ job' = [job EXCEPT ![w] = to]

Track(w)   == Move(w, "none", Job("queued", 0)) /\ UNCHANGED active
Process(w) == Move(w, "queued", Job("processing", 0)) /\ UNCHANGED active

\* A report of progress: whatever it says, it does not go back.
Advance(w) ==
    /\ w \in active
    /\ job[w].status = "processing"
    /\ job'[w].progress \in Nat /\ job'[w].progress >= job[w].progress
    /\ job' = [job EXCEPT ![w].progress = job'[w].progress]
    /\ UNCHANGED active

Settle(w) ==
    /\ \/ Move(w, "processing", Job("completed", 100))
       \/ Move(w, "processing", Job("failed", job[w].progress))
    /\ active' = active \ {w}

\* The run ends, or dies, without a word to its job.
Leave(w) ==
    /\ w \in active
    /\ active' = active \ {w}
    /\ UNCHANGED job

LifeNext ==
    \E w \in Workers :
        Take(w) \/ Track(w) \/ Process(w) \/ Advance(w) \/ Settle(w) \/ Leave(w)

LifeSpec == LifeInit /\ [][LifeNext]_lvars
=============================================================================
