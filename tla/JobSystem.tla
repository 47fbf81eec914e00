----------------------------- MODULE JobSystem -----------------------------
(***************************************************************************)
(* JobSystem: worker threads that take jobs from one queue, and callers    *)
(* that schedule jobs, wait until none is left and shut the workers down.  *)
(*                                                                         *)
(* A step is one critical section, one wait on the condition variable, one *)
(* notification or one whole job.  A notification follows the critical     *)
(* section it belongs to without the mutex, so others may come between.    *)
(* Workers and threads in wait_idle share one condition variable.          *)
(***************************************************************************)
EXTENDS Integers, Sequences, FiniteSets, SequencesExt

CONSTANTS
    Workers,    \* threads that init() starts
    Callers,    \* threads that use the system
    Owner,      \* the caller that starts and stops it
    Jobs,       \* jobs, each scheduled at most once
    NoJob

ASSUME JobSystemAssumption ==
    /\ IsFiniteSet(Workers) /\ Workers # {}
    /\ Owner \in Callers
    /\ Workers \cap Callers = {}
    /\ NoJob \notin Jobs

Threads == Workers \cup Callers

VARIABLES
    running, queue, active,     \* the members of JobSystem
    pc,                         \* thread -> where it is
    job,                        \* worker -> the job it took
    finished,                   \* ghost: jobs run to their end
    owed                        \* ghost: caller -> jobs its wait answers for

vars == <<running, queue, active, pc, job, finished, owed>>

WorkerStates ==
    {"none",        \* not started, or joined
     "check",       \* about to test the predicate of the loop
     "asleep",      \* blocked on cv
     "job",         \* running the job, outside the mutex
     "notify_one",  \* its job scheduled another and has still to notify
     "ran",         \* job() returned
     "notify_all",  \* active given back, cv.notify_all() to come
     "exited"}

CallerStates ==
    {"free",
     "notify_one",  \* in schedule, after the mutex
     "check",       \* in wait_idle, about to test its predicate
     "asleep",      \* in wait_idle, blocked on cv
     "notify_all",  \* in shutdown, after the mutex
     "joining"}     \* in shutdown, waiting for the workers to exit

\* Workers inside a job
Working == {w \in Workers : pc[w] \in {"job", "notify_one"}}

\* Jobs handed over that have not been run to their end
Pending == ToSet(queue) \cup {job[w] : w \in Working}

TypeOK ==
    /\ running \in BOOLEAN
    /\ queue \in Seq(Jobs)
    /\ active \in Nat
    /\ pc \in [Threads -> WorkerStates \cup CallerStates]
    /\ \A w \in Workers : pc[w] \in WorkerStates
    /\ \A c \in Callers : pc[c] \in CallerStates
    /\ job \in [Workers -> Jobs \cup {NoJob}]
    /\ finished \subseteq Jobs
    /\ owed \in [Callers -> SUBSET Jobs]

Init ==
    /\ running = FALSE
    /\ queue = <<>>
    /\ active = 0
    /\ pc = [t \in Threads |-> IF t \in Workers THEN "none" ELSE "free"]
    /\ job = [w \in Workers |-> NoJob]
    /\ finished = {}
    /\ owed = [c \in Callers |-> {}]
-----------------------------------------------------------------------------
\* init(): the threads are started.
StartWorkers ==
    /\ pc[Owner] = "free"
    /\ \A w \in Workers : pc[w] = "none"
    /\ running' = TRUE
    /\ pc' = [t \in Threads |-> IF t \in Workers THEN "check" ELSE pc[t]]
    /\ UNCHANGED <<queue, active, job, finished, owed>>

\* !running && queue.empty()
MayExit == ~running /\ queue = <<>>

\* The predicate of the worker's wait, !queue.empty() || !running.
HasWork == queue # <<>> \/ ~running

\* The loop of a worker up to the job: it leaves, takes a job, or sleeps.
WorkerExits(w) ==
    /\ pc[w] = "check"
    /\ HasWork
    /\ MayExit
    /\ pc' = [pc EXCEPT ![w] = "exited"]
    /\ UNCHANGED <<running, queue, active, job, finished, owed>>

TakeJob(w) ==
    /\ pc[w] = "check"
    /\ HasWork
    /\ ~MayExit
    /\ queue # <<>>
    /\ job' = [job EXCEPT ![w] = Head(queue)]
    /\ queue' = Tail(queue)
    /\ active' = active + 1
    /\ pc' = [pc EXCEPT ![w] = "job"]
    /\ UNCHANGED <<running, finished, owed>>

WorkerSleeps(w) ==
    /\ pc[w] = "check"
    /\ ~HasWork
    /\ pc' = [pc EXCEPT ![w] = "asleep"]
    /\ UNCHANGED <<running, queue, active, job, finished, owed>>

\* job() comes to its end.
RunJob(w) ==
    /\ pc[w] = "job"
    /\ finished' = finished \cup {job[w]}
    /\ pc' = [pc EXCEPT ![w] = "ran"]
    /\ UNCHANGED <<running, queue, active, job, owed>>

\* mutant: the worker goes back to its loop without notifying
NextAfterJob == "check"

AfterJob == "notify_all"

GiveBack(w) ==
    /\ pc[w] = "ran"
    /\ active' = active - 1
    /\ job' = [job EXCEPT ![w] = NoJob]
    /\ pc' = [pc EXCEPT ![w] = AfterJob]
    /\ UNCHANGED <<running, queue, finished, owed>>

\* schedule(), by a caller or from inside a job: the push under the mutex.
Schedule(t, j) ==
    /\ pc[t] \in {"free", "job"}
    /\ j \notin Pending \cup finished
    /\ queue' = Append(queue, j)
    /\ pc' = [pc EXCEPT ![t] = "notify_one"]
    /\ UNCHANGED <<running, active, job, finished, owed>>

Back(t) == IF t \in Workers THEN "job" ELSE "free"

\* mutant: nobody is woken
WokenByNone == {pc}

\* cv.notify_one: one of the sleepers, whoever that is, tests its predicate.
WokenByOne ==
    LET sleepers == {s \in Threads : pc[s] = "asleep"}
    IN  IF sleepers = {} THEN {pc} ELSE {[pc EXCEPT ![s] = "check"] : s \in sleepers}

NotifyOne(t) ==
    /\ pc[t] = "notify_one"
    /\ \E woken \in WokenByOne : pc' = [woken EXCEPT ![t] = Back(t)]
    /\ UNCHANGED <<running, queue, active, job, finished, owed>>

\* cv.notify_all, by a worker after a job or by shutdown().
NotifyAll(t) ==
    /\ pc[t] = "notify_all"
    /\ pc' = [s \in Threads |->
                CASE s = t -> IF t \in Workers THEN "check" ELSE "joining"
                  [] pc[s] = "asleep" -> "check"
                  [] OTHER -> pc[s]]
    /\ UNCHANGED <<running, queue, active, job, finished, owed>>

\* A wait on a condition variable may end by itself.
SpuriousWakeup(t) ==
    /\ pc[t] = "asleep"
    /\ pc' = [pc EXCEPT ![t] = "check"]
    /\ UNCHANGED <<running, queue, active, job, finished, owed>>

\* wait_idle() is called.
WaitIdle(c) ==
    /\ pc[c] = "free"
    /\ pc' = [pc EXCEPT ![c] = "check"]
    /\ owed' = [owed EXCEPT ![c] = Pending]
    /\ UNCHANGED <<running, queue, active, job, finished>>

\* mutant: jobs that were taken are forgotten
IdleByQueue == queue = <<>>

\* The predicate of wait_idle.
Idle == queue = <<>> /\ active = 0

WaitSleeps(c) ==
    /\ pc[c] = "check"
    /\ ~Idle
    /\ pc' = [pc EXCEPT ![c] = "asleep"]
    /\ UNCHANGED <<running, queue, active, job, finished, owed>>

WaitReturns(c) ==
    /\ pc[c] = "check"
    /\ Idle
    /\ pc' = [pc EXCEPT ![c] = "free"]
    /\ owed' = [owed EXCEPT ![c] = {}]
    /\ UNCHANGED <<running, queue, active, job, finished>>

\* shutdown(): up to the notification, and the join of every worker.
StopWorkers ==
    /\ pc[Owner] = "free"
    /\ running' = FALSE
    /\ pc' = [pc EXCEPT ![Owner] = "notify_all"]
    /\ owed' = [owed EXCEPT ![Owner] =
                    IF \E w \in Workers : pc[w] # "none" THEN Pending ELSE {}]
    /\ UNCHANGED <<queue, active, job, finished>>

JoinWorkers ==
    /\ pc[Owner] = "joining"
    /\ \A w \in Workers : pc[w] \in {"none", "exited"}
    /\ pc' = [t \in Threads |->
                CASE t = Owner -> "free"
                  [] t \in Workers -> "none"
                  [] OTHER -> pc[t]]
    /\ owed' = [owed EXCEPT ![Owner] = {}]
    /\ UNCHANGED <<running, queue, active, job, finished>>
-----------------------------------------------------------------------------
WorkerStep(w) ==
    \/ WorkerExits(w)
    \/ TakeJob(w)
    \/ WorkerSleeps(w)
    \/ RunJob(w)
    \/ GiveBack(w)
    \/ NotifyOne(w)
    \/ NotifyAll(w)

CallerStep(c) ==
    \/ WaitSleeps(c)
    \/ WaitReturns(c)
    \/ NotifyOne(c)
    \/ NotifyAll(c)

Next ==
    \/ StartWorkers
    \/ StopWorkers
    \/ JoinWorkers
    \/ \E w \in Workers : WorkerStep(w)
    \/ \E c \in Callers : CallerStep(c) \/ WaitIdle(c)
    \/ \E t \in Threads : SpuriousWakeup(t) \/ \E j \in Jobs : Schedule(t, j)

Spec == Init /\ [][Next]_vars

\* Threads that can go on do, and jobs come to an end.
Fairness ==
    /\ \A w \in Workers : WF_vars(WorkerStep(w))
    /\ \A c \in Callers : WF_vars(CallerStep(c))
    /\ WF_vars(JoinWorkers)

FairSpec == Spec /\ Fairness
-----------------------------------------------------------------------------
(* Properties *)

\* wait_idle and shutdown return only when every job handed over before the call
\* has been run, whichever worker took it: the promise of JobPool.
Pool == INSTANCE JobPool WITH pending <- Pending

KeepsPromise == Pool!Spec

\* With one caller, a job handed over while there are workers is run: no
\* notification it depends on is lost.  About schedule, the worker loop and
\* shutdown.
EveryJobIsRun ==
    \A j \in Jobs :
        (j \in Pending /\ \E w \in Workers : pc[w] \notin {"none", "exited"})
            ~> j \in finished

\* With one caller, wait_idle returns, and so does shutdown.  About the
\* notifications of the worker loop.
WaitsEnd ==
    \A c \in Callers :
        (pc[c] # "free" /\ \E w \in Workers : pc[w] # "none") ~> pc[c] = "free"
=============================================================================
