---------------------------- MODULE ThreadProofs ----------------------------
(***************************************************************************)
(* Proofs about the two places where the client has threads of its own:    *)
(* JobSystem and the page of the browser build.                            *)
(***************************************************************************)
EXTENDS JobSystem, WebSession, FiniteSetTheorems, SequenceTheorems, TLAPS

-----------------------------------------------------------------------------
(* JobSystem keeps the promise of JobPool, for any number of workers,       *)
(* callers and jobs.                                                        *)

\* Workers that active counts: those that took a job and have not given it back
Busy == {w \in Workers : pc[w] \in {"job", "notify_one", "ran"}}

Counted == active = Cardinality(Busy)

\* No job is in two places.
OnceEach ==
    /\ \A a, b \in DOMAIN queue : queue[a] = queue[b] => a = b
    /\ \A v, w \in Working : job[v] = job[w] => v = w
    /\ \A w \in Working : job[w] \in Jobs /\ job[w] \notin ToSet(queue)
    /\ Pending \cap finished = {}

\* A caller is owed jobs only while it waits for them.
Owing ==
    \A c \in Callers :
        /\ owed[c] \subseteq Pending \cup finished
        /\ pc[c] \in {"free", "notify_one"} => owed[c] = {}

Stopping == pc[Owner] \in {"notify_all", "joining"}

\* A worker leaves only during a shutdown, and nothing the shutdown answers for
\* is queued any more when the first one has left.
LeavingWorkers ==
    /\ (\E w \in Workers : pc[w] # "none") => running \/ Stopping
    /\ \A w \in Workers : pc[w] = "exited" =>
          Stopping /\ owed[Owner] \cap ToSet(queue) = {}
    /\ Stopping /\ (\A w \in Workers : pc[w] = "none") => owed[Owner] = {}

Inv == TypeOK /\ Counted /\ OnceEach /\ Owing /\ LeavingWorkers

-----------------------------------------------------------------------------
(* Queues *)

Distinct(s) == \A a, b \in DOMAIN s : s[a] = s[b] => a = b

\* Taking the head of a queue without repetitions removes exactly that job.
LEMMA HeadAndTail ==
    ASSUME NEW S, NEW s \in Seq(S), s # <<>>
    PROVE  /\ Head(s) \in S /\ Tail(s) \in Seq(S)
           /\ ToSet(s) = {Head(s)} \cup ToSet(Tail(s))
           /\ Distinct(s) => Distinct(Tail(s)) /\ Head(s) \notin ToSet(Tail(s))
  <1> DEFINE n == Len(s)
  <1>1. n \in Nat /\ n >= 1 /\ DOMAIN s = 1..n /\ s \in [1..n -> S]
    BY LenProperties, EmptySeq
  <1>2. Head(s) = s[1] /\ Tail(s) \in Seq(S)
        /\ DOMAIN Tail(s) = 1..(n - 1) /\ \A i \in 1..(n - 1) : Tail(s)[i] = s[i + 1]
    BY <1>1, HeadTailProperties, LenProperties
  <1> HIDE DEF n
  <1>3. \A i \in 1..n : i = 1 \/ (i - 1 \in 1..(n - 1) /\ s[i] = Tail(s)[i - 1])
    BY <1>1, <1>2
  <1>4. ToSet(s) = {Head(s)} \cup ToSet(Tail(s))
    <2>1. ToSet(s) \subseteq {Head(s)} \cup ToSet(Tail(s))
      <3>1. ASSUME NEW i \in 1..n PROVE s[i] \in {Head(s)} \cup ToSet(Tail(s))
        <4>1. CASE i = 1
          BY <1>2, <4>1
        <4>2. CASE i - 1 \in 1..(n - 1) /\ s[i] = Tail(s)[i - 1]
          BY <1>2, <4>2 DEF ToSet
        <4> QED
          BY <1>3, <4>1, <4>2
      <3> QED
        BY <1>1, <3>1 DEF ToSet
    <2>2. \A i \in 1..(n - 1) : i + 1 \in 1..n
      BY <1>1
    <2>3. Head(s) \in ToSet(s) /\ ToSet(Tail(s)) \subseteq ToSet(s)
      BY <1>1, <1>2, <2>2 DEF ToSet
    <2> QED
      BY <2>1, <2>3
  <1>5. ASSUME Distinct(s)
        PROVE  Distinct(Tail(s)) /\ Head(s) \notin ToSet(Tail(s))
    BY <1>1, <1>2, <1>5 DEF Distinct, ToSet
  <1> QED
    BY <1>1, <1>2, <1>4, <1>5

\* Appending a job adds exactly that job.
LEMMA Appended ==
    ASSUME NEW S, NEW s \in Seq(S), NEW e \in S
    PROVE  /\ Append(s, e) \in Seq(S)
           /\ ToSet(Append(s, e)) = ToSet(s) \cup {e}
           /\ Distinct(s) /\ e \notin ToSet(s) => Distinct(Append(s, e))
  <1> DEFINE n == Len(s)
             t == Append(s, e)
  <1>1. n \in Nat /\ DOMAIN s = 1..n
    BY LenProperties
  <1>2. t \in Seq(S) /\ DOMAIN t = 1..(n + 1)
        /\ (\A i \in 1..n : t[i] = s[i]) /\ t[n + 1] = e
    BY <1>1, AppendProperties, LenProperties
  <1> HIDE DEF n, t
  <1>3. \A i \in 1..(n + 1) : i \in 1..n \/ i = n + 1
    BY <1>1
  <1>4. ToSet(t) = ToSet(s) \cup {e}
    BY <1>1, <1>2, <1>3 DEF ToSet
  <1>5. ASSUME Distinct(s), e \notin ToSet(s)
        PROVE  Distinct(t)
    BY <1>1, <1>2, <1>3, <1>5 DEF Distinct, ToSet
  <1> QED
    BY <1>2, <1>4, <1>5 DEF t

\* Of nothing, nothing.
LEMMA EmptyQueue == ToSet(<<>>) = {} /\ Distinct(<<>>) /\ \A S : <<>> \in Seq(S)
  BY DEF ToSet, Distinct

-----------------------------------------------------------------------------
(* The invariant *)

\* The invariant holds before anything was started.
LEMMA InitInv == Init => Inv
  <1> SUFFICES ASSUME Init PROVE Inv
    OBVIOUS
  <1> USE JobSystemAssumption
  <1>1. Busy = {} /\ Working = {}
    BY DEF Init, Busy, Working, Threads
  <1>2. Pending = {}
    BY <1>1, EmptyQueue DEF Init, Pending
  <1>3. TypeOK
    BY EmptyQueue DEF Init, TypeOK, WorkerStates, CallerStates, Threads
  <1>4. Counted
    BY <1>1, FS_EmptySet DEF Init, Counted
  <1>5. OnceEach
    BY <1>1, <1>2 DEF Init, OnceEach
  <1>6. Owing
    BY DEF Init, Owing
  <1>7. LeavingWorkers
    BY DEF Init, LeavingWorkers, Threads, Stopping
  <1> QED
    BY <1>3, <1>4, <1>5, <1>6, <1>7 DEF Inv

\* Busy workers are finite in number.
LEMMA BusyFinite == IsFiniteSet(Busy)
  BY JobSystemAssumption, FS_Subset DEF Busy

\* A step in which threads sleep, wake or notify but no job moves
LEMMA NoJobMoves ==
    ASSUME Inv, UNCHANGED <<running, queue, active, job, finished, owed>>,
           pc' \in [Threads -> WorkerStates \cup CallerStates],
           \A w \in Workers :
              /\ pc'[w] \in WorkerStates
              /\ \/ pc'[w] = pc[w]
                 \/ pc[w] \in {"job", "notify_one"} /\ pc'[w] \in {"job", "notify_one"}
                 \/ /\ pc[w] \in {"check", "asleep", "notify_all"}
                    /\ pc'[w] \in {"check", "asleep", "notify_all"},
           \A c \in Callers :
              /\ pc'[c] \in CallerStates
              /\ pc'[c] \in {"free", "notify_one"} => pc[c] \in {"free", "notify_one"}
              /\ pc'[c] \in {"notify_all", "joining"} <=> pc[c] \in {"notify_all", "joining"}
    PROVE  Inv' /\ UNCHANGED Pool!vars
  <1> USE JobSystemAssumption
  <1>1. Busy' = Busy /\ Working' = Working
    BY DEF Busy, Working
  <1>2. Pending' = Pending
    BY <1>1 DEF Pending
  <1>3. TypeOK'
    BY DEF Inv, TypeOK
  <1>4. Counted' /\ OnceEach' /\ Owing'
    BY <1>1, <1>2 DEF Inv, Counted, OnceEach, Owing
  <1>5. LeavingWorkers'
    BY DEF Inv, LeavingWorkers, Stopping
  <1> QED
    BY <1>2, <1>3, <1>4, <1>5 DEF Inv, Pool!vars

\* Sleeping, waking and notifying move no job.
LEMMA SleepAndWake ==
    ASSUME Inv, NEW t \in Threads,
           \/ t \in Workers /\ WorkerSleeps(t)
           \/ t \in Callers /\ WaitSleeps(t)
           \/ NotifyOne(t) \/ NotifyAll(t) \/ SpuriousWakeup(t)
    PROVE  Inv' /\ UNCHANGED Pool!vars
  <1> USE JobSystemAssumption DEF Inv, TypeOK, Threads
  <1>1. CASE \/ t \in Workers /\ WorkerSleeps(t)
             \/ t \in Callers /\ WaitSleeps(t)
             \/ SpuriousWakeup(t)
    <2>1. pc[t] \in {"check", "asleep"} /\ \E s \in {"check", "asleep"} : pc' = [pc EXCEPT ![t] = s]
          /\ UNCHANGED <<running, queue, active, job, finished, owed>>
      BY <1>1 DEF WorkerSleeps, WaitSleeps, SpuriousWakeup
    <2> QED
      BY <2>1, NoJobMoves DEF WorkerStates, CallerStates
  <1>2. CASE NotifyOne(t)
    <2>1. PICK woken \in WokenByOne : pc' = [woken EXCEPT ![t] = Back(t)]
      BY <1>2 DEF NotifyOne
    <2>2. /\ woken \in [Threads -> WorkerStates \cup CallerStates]
          /\ \A s \in Threads : woken[s] = pc[s] \/ (pc[s] = "asleep" /\ woken[s] = "check")
      BY <2>1 DEF WokenByOne, WorkerStates, CallerStates
    <2>3. UNCHANGED <<running, queue, active, job, finished, owed>> /\ pc[t] = "notify_one"
      BY <1>2 DEF NotifyOne
    <2>4. pc' \in [Threads -> WorkerStates \cup CallerStates]
      BY <2>1, <2>2 DEF Back, WorkerStates, CallerStates
    <2>5. \A s \in Threads : \/ pc'[s] = pc[s]
                             \/ pc[s] = "asleep" /\ pc'[s] = "check"
                             \/ s = t /\ pc'[s] = Back(t)
      BY <2>1, <2>2
    <2>6. \A w \in Workers :
              /\ pc'[w] \in WorkerStates
              /\ \/ pc'[w] = pc[w]
                 \/ pc[w] \in {"job", "notify_one"} /\ pc'[w] \in {"job", "notify_one"}
                 \/ /\ pc[w] \in {"check", "asleep", "notify_all"}
                    /\ pc'[w] \in {"check", "asleep", "notify_all"}
      BY <2>3, <2>5 DEF Back, WorkerStates
    <2>7. \A c \in Callers :
              /\ pc'[c] \in CallerStates
              /\ pc'[c] \in {"free", "notify_one"} => pc[c] \in {"free", "notify_one"}
              /\ pc'[c] \in {"notify_all", "joining"} <=> pc[c] \in {"notify_all", "joining"}
      BY <2>3, <2>5 DEF Back, CallerStates
    <2> QED
      BY <2>3, <2>4, <2>6, <2>7, NoJobMoves
  <1>3. CASE NotifyAll(t)
    <2>1. /\ UNCHANGED <<running, queue, active, job, finished, owed>>
          /\ pc[t] = "notify_all"
          /\ pc' \in [Threads -> WorkerStates \cup CallerStates]
      BY <1>3 DEF NotifyAll, WorkerStates, CallerStates
    <2>2. \A s \in Threads :
             \/ pc'[s] = pc[s]
             \/ pc[s] = "asleep" /\ pc'[s] = "check"
             \/ s = t /\ s \in Workers /\ pc'[s] = "check"
             \/ s = t /\ s \notin Workers /\ pc'[s] = "joining"
      BY <1>3 DEF NotifyAll
    <2> QED
      BY <2>1, <2>2, NoJobMoves DEF WorkerStates, CallerStates
  <1> QED
    BY <1>1, <1>2, <1>3

\* A worker takes the oldest job: the job only changes place.
LEMMA TakeJobStep ==
    ASSUME Inv, NEW w \in Workers, TakeJob(w)
    PROVE  Inv' /\ UNCHANGED Pool!vars
  <1> USE JobSystemAssumption DEF Inv
  <1>1. queue \in Seq(Jobs) /\ queue # <<>> /\ Distinct(queue)
    BY DEF TakeJob, TypeOK, OnceEach, Distinct
  <1>2. /\ Head(queue) \in Jobs /\ Tail(queue) \in Seq(Jobs)
        /\ ToSet(queue) = {Head(queue)} \cup ToSet(Tail(queue))
        /\ Distinct(Tail(queue)) /\ Head(queue) \notin ToSet(Tail(queue))
    BY <1>1, HeadAndTail
  <1>3. pc[w] = "check" /\ pc' = [pc EXCEPT ![w] = "job"] /\ queue' = Tail(queue)
        /\ job' = [job EXCEPT ![w] = Head(queue)] /\ active' = active + 1
        /\ UNCHANGED <<running, finished, owed>>
    BY DEF TakeJob
  <1>4. Working' = Working \cup {w} /\ Busy' = Busy \cup {w} /\ w \notin Busy /\ w \notin Working
    BY <1>3 DEF Working, Busy, TypeOK, Threads
  <1>5. job'[w] = Head(queue) /\ \A v \in Working : job'[v] = job[v]
    BY <1>3, <1>4 DEF TypeOK, Working
  <1>6. Pending' = Pending
    BY <1>2, <1>3, <1>4, <1>5 DEF Pending
  <1>7. TypeOK'
    BY <1>2, <1>3 DEF TypeOK, WorkerStates, Threads
  <1>8. Counted'
    BY <1>3, <1>4, BusyFinite, FS_AddElement DEF Counted
  <1>9. OnceEach'
    <2>1. Distinct(queue)'
      BY <1>2, <1>3 DEF Distinct
    <2>2. \A u, v \in Working' : job'[u] = job'[v] => u = v
      BY <1>2, <1>4, <1>5 DEF OnceEach
    <2>3. \A v \in Working' : job'[v] \in Jobs /\ job'[v] \notin ToSet(queue')
      BY <1>2, <1>3, <1>4, <1>5 DEF OnceEach
    <2>4. Pending' \cap finished' = {}
      BY <1>3, <1>6 DEF OnceEach
    <2> QED
      BY <2>1, <2>2, <2>3, <2>4 DEF OnceEach, Distinct
  <1>10. Owing'
    BY <1>3, <1>6 DEF Owing, TypeOK, Threads
  <1>11. LeavingWorkers'
    BY <1>2, <1>3 DEF LeavingWorkers, Stopping, TypeOK, Threads
  <1> QED
    BY <1>3, <1>6, <1>7, <1>8, <1>9, <1>10, <1>11 DEF Pool!vars

\* A job comes to its end: the step JobPool calls Run.
LEMMA RunJobStep ==
    ASSUME Inv, NEW w \in Workers, RunJob(w)
    PROVE  Inv' /\ Pool!Run(job[w])
  <1> USE JobSystemAssumption DEF Inv
  <1>1. pc[w] = "job" /\ pc' = [pc EXCEPT ![w] = "ran"]
        /\ finished' = finished \cup {job[w]}
        /\ UNCHANGED <<running, queue, active, job, owed>>
    BY DEF RunJob
  <1>2. Working' = Working \ {w} /\ Busy' = Busy /\ w \in Working
    BY <1>1 DEF Working, Busy, TypeOK, Threads
  <1>3. job[w] \in Pending /\ Pending' = Pending \ {job[w]}
    BY <1>1, <1>2 DEF Pending, OnceEach
  <1>4. job[w] \in Jobs
    BY <1>2 DEF OnceEach
  <1>5. TypeOK'
    BY <1>1, <1>4 DEF TypeOK, WorkerStates, Threads
  <1>6. Counted'
    BY <1>1, <1>2 DEF Counted
  <1>7. OnceEach'
    BY <1>1, <1>2, <1>3 DEF OnceEach
  <1>8. Owing'
    BY <1>1, <1>3 DEF Owing, TypeOK, Threads
  <1>9. LeavingWorkers'
    BY <1>1 DEF LeavingWorkers, Stopping, TypeOK, Threads
  <1>10. Pool!Run(job[w])
    BY <1>1, <1>3 DEF Pool!Run
  <1> QED
    BY <1>5, <1>6, <1>7, <1>8, <1>9, <1>10

\* A worker that gives back its job holds none that is pending.
LEMMA GiveBackStep ==
    ASSUME Inv, NEW w \in Workers, GiveBack(w)
    PROVE  Inv' /\ UNCHANGED Pool!vars
  <1> USE JobSystemAssumption DEF Inv
  <1>1. pc[w] = "ran" /\ pc' = [pc EXCEPT ![w] = "notify_all"]
        /\ job' = [job EXCEPT ![w] = NoJob] /\ active' = active - 1
        /\ UNCHANGED <<running, queue, finished, owed>>
    BY DEF GiveBack, AfterJob
  <1>2. Working' = Working /\ Busy' = Busy \ {w} /\ w \in Busy /\ w \notin Working
    BY <1>1 DEF Working, Busy, TypeOK, Threads
  <1>3. \A v \in Working : job'[v] = job[v]
    BY <1>1, <1>2 DEF TypeOK, Working
  <1>4. Pending' = Pending
    BY <1>1, <1>2, <1>3 DEF Pending
  <1>5. Cardinality(Busy') = Cardinality(Busy) - 1 /\ Cardinality(Busy') \in Nat
    <2>1. IsFiniteSet(Busy) /\ IsFiniteSet(Busy')
      BY <1>2, BusyFinite, FS_Subset
    <2> QED
      BY <1>2, <2>1, FS_RemoveElement, FS_CardinalityType
  <1>6. TypeOK'
    BY <1>1, <1>5 DEF TypeOK, WorkerStates, Threads, Counted
  <1>7. Counted'
    BY <1>1, <1>5 DEF Counted
  <1>8. OnceEach'
    BY <1>1, <1>2, <1>3, <1>4 DEF OnceEach
  <1>9. Owing'
    BY <1>1, <1>4 DEF Owing, TypeOK, Threads
  <1>10. LeavingWorkers'
    BY <1>1 DEF LeavingWorkers, Stopping, TypeOK, Threads
  <1> QED
    BY <1>1, <1>4, <1>6, <1>7, <1>8, <1>9, <1>10 DEF Pool!vars

\* A worker leaves with the queue empty, so nothing a shutdown answers for is in it.
LEMMA WorkerExitsStep ==
    ASSUME Inv, NEW w \in Workers, WorkerExits(w)
    PROVE  Inv' /\ UNCHANGED Pool!vars
  <1> USE JobSystemAssumption DEF Inv
  <1>1. pc[w] = "check" /\ pc' = [pc EXCEPT ![w] = "exited"] /\ ~running /\ queue = <<>>
        /\ UNCHANGED <<running, queue, active, job, finished, owed>>
    BY DEF WorkerExits, MayExit
  <1>2. Working' = Working /\ Busy' = Busy
    BY <1>1 DEF Working, Busy, TypeOK, Threads
  <1>3. Pending' = Pending
    BY <1>1, <1>2 DEF Pending
  <1>4. TypeOK' /\ Counted' /\ OnceEach'
    BY <1>1, <1>2, <1>3 DEF TypeOK, WorkerStates, Threads, Counted, OnceEach
  <1>5. Owing'
    BY <1>1, <1>3 DEF Owing, TypeOK, Threads
  <1>6. LeavingWorkers'
    BY <1>1, EmptyQueue DEF LeavingWorkers, Stopping, TypeOK, Threads
  <1> QED
    BY <1>1, <1>3, <1>4, <1>5, <1>6 DEF Pool!vars

\* A new job joins the queue, and nobody waits for it yet.
LEMMA ScheduleStep ==
    ASSUME Inv, NEW t \in Threads, NEW j \in Jobs, Schedule(t, j)
    PROVE  Inv' /\ Pool!Schedule(j)
  <1> USE JobSystemAssumption DEF Inv
  <1>1. pc[t] \in {"free", "job"} /\ pc' = [pc EXCEPT ![t] = "notify_one"]
        /\ j \notin Pending \cup finished /\ queue' = Append(queue, j)
        /\ UNCHANGED <<running, active, job, finished, owed>>
    BY DEF Schedule
  <1>2. /\ queue' \in Seq(Jobs) /\ ToSet(queue') = ToSet(queue) \cup {j}
        /\ Distinct(queue) /\ j \notin ToSet(queue) => Distinct(queue')
    BY <1>1, Appended DEF TypeOK
  <1>3. pc[t] = "job" => t \in Workers
    BY <1>1 DEF TypeOK, Threads, CallerStates
  <1>4. Working' = Working /\ Busy' = Busy
    BY <1>1, <1>3 DEF Working, Busy, TypeOK, Threads, WorkerStates
  <1>5. Pending' = Pending \cup {j}
    BY <1>1, <1>2, <1>4 DEF Pending
  <1>6. TypeOK'
    BY <1>1, <1>2 DEF TypeOK, WorkerStates, CallerStates, Threads
  <1>7. Counted'
    BY <1>1, <1>4 DEF Counted
  <1>8. OnceEach'
    <2>1. Distinct(queue)'
      BY <1>1, <1>2 DEF OnceEach, Distinct, Pending
    <2>2. \A v \in Working : job[v] # j
      BY <1>1 DEF Pending
    <2> QED
      BY <1>1, <1>2, <1>4, <1>5, <2>1, <2>2 DEF OnceEach, Distinct
  <1>9. Owing'
    BY <1>1, <1>3, <1>5 DEF Owing, TypeOK, Threads
  <1>10. LeavingWorkers'
    <2>1. j \notin owed[Owner]
      BY <1>1 DEF Owing
    <2>2. Stopping' <=> Stopping
      BY <1>1 DEF Stopping, TypeOK, Threads
    <2>3. \A w \in Workers : (pc'[w] = "none" <=> pc[w] = "none")
                             /\ (pc'[w] = "exited" <=> pc[w] = "exited")
      BY <1>1, <1>3 DEF TypeOK, Threads, WorkerStates
    <2> QED
      BY <1>1, <1>2, <2>1, <2>2, <2>3 DEF LeavingWorkers
  <1>11. Pool!Schedule(j)
    BY <1>1, <1>5 DEF Pool!Schedule
  <1> QED
    BY <1>6, <1>7, <1>8, <1>9, <1>10, <1>11

\* wait_idle is called, and it returns.
LEMMA WaitSteps ==
    ASSUME Inv, NEW c \in Callers
    PROVE  /\ WaitIdle(c) => Inv' /\ Pool!BeginWait(c)
           /\ WaitReturns(c) => Inv' /\ Pool!EndWait(c)
  <1> USE JobSystemAssumption DEF Inv
  <1>1. ASSUME WaitIdle(c) \/ WaitReturns(c)
        PROVE  /\ Working' = Working /\ Busy' = Busy /\ Pending' = Pending
               /\ Counted' /\ OnceEach'
    <2>1. /\ \E s \in {"free", "check"} : pc' = [pc EXCEPT ![c] = s]
          /\ UNCHANGED <<running, queue, active, job, finished>>
      BY <1>1 DEF WaitIdle, WaitReturns
    <2>2. Working' = Working /\ Busy' = Busy
      BY <2>1 DEF Working, Busy, TypeOK, Threads
    <2>3. Pending' = Pending
      BY <2>1, <2>2 DEF Pending
    <2> QED
      BY <2>1, <2>2, <2>3 DEF Counted, OnceEach
  <1>2. ASSUME WaitIdle(c)
        PROVE  Inv' /\ Pool!BeginWait(c)
    <2>1. pc[c] = "free" /\ pc' = [pc EXCEPT ![c] = "check"]
          /\ owed' = [owed EXCEPT ![c] = Pending]
          /\ UNCHANGED <<running, queue, active, job, finished>>
      BY <1>2 DEF WaitIdle
    <2>2. Pending \subseteq Jobs
      BY DEF Pending, OnceEach, TypeOK, ToSet
    <2>3. TypeOK'
      BY <2>1, <2>2 DEF TypeOK, CallerStates, Threads
    <2>4. Owing'
      BY <1>1, <1>2, <2>1 DEF Owing, TypeOK, Threads
    <2>5. LeavingWorkers'
      BY <2>1 DEF LeavingWorkers, Stopping, TypeOK, Threads
    <2> QED
      BY <1>1, <1>2, <2>1, <2>3, <2>4, <2>5 DEF Pool!BeginWait
  <1>3. ASSUME WaitReturns(c)
        PROVE  Inv' /\ Pool!EndWait(c)
    <2>1. pc[c] = "check" /\ pc' = [pc EXCEPT ![c] = "free"]
          /\ owed' = [owed EXCEPT ![c] = {}] /\ queue = <<>> /\ active = 0
          /\ UNCHANGED <<running, queue, active, job, finished>>
      BY <1>3 DEF WaitReturns, Idle
    <2>2. Busy = {}
      BY <2>1, BusyFinite, FS_EmptySet DEF Counted
    <2>3. Pending = {}
      BY <2>1, <2>2, EmptyQueue DEF Pending, Working, Busy
    <2>4. owed[c] \subseteq finished
      BY <2>3 DEF Owing
    <2>5. TypeOK'
      BY <2>1 DEF TypeOK, CallerStates, Threads
    <2>6. Owing'
      BY <1>1, <1>3, <2>1 DEF Owing, TypeOK, Threads
    <2>7. LeavingWorkers'
      BY <2>1 DEF LeavingWorkers, Stopping, TypeOK, Threads
    <2> QED
      BY <1>1, <1>3, <2>1, <2>4, <2>5, <2>6, <2>7 DEF Pool!EndWait
  <1> QED
    BY <1>2, <1>3

\* init, the two halves of shutdown
LEMMA OwnerSteps ==
    ASSUME Inv
    PROVE  /\ StartWorkers => Inv' /\ UNCHANGED Pool!vars
           /\ StopWorkers => Inv' /\ (Pool!BeginWait(Owner) \/ UNCHANGED Pool!vars)
           /\ JoinWorkers => Inv' /\ Pool!EndWait(Owner)
  <1> USE JobSystemAssumption DEF Inv
  <1>1. ASSUME StartWorkers
        PROVE  Inv' /\ UNCHANGED Pool!vars
    <2>1. /\ pc[Owner] = "free" /\ \A w \in Workers : pc[w] = "none"
          /\ pc' = [t \in Threads |-> IF t \in Workers THEN "check" ELSE pc[t]]
          /\ running' /\ UNCHANGED <<queue, active, job, finished, owed>>
      BY <1>1 DEF StartWorkers
    <2>2. Working = {} /\ Working' = {} /\ Busy = {} /\ Busy' = {}
      BY <2>1 DEF Working, Busy, Threads
    <2>3. Pending' = Pending
      BY <2>1, <2>2 DEF Pending
    <2>4. running' \in BOOLEAN
      BY <1>1 DEF StartWorkers
    <2>5. TypeOK'
      BY <2>1, <2>4 DEF TypeOK, WorkerStates, CallerStates, Threads
    <2>6. Counted' /\ OnceEach'
      BY <2>1, <2>2, <2>3 DEF Counted, OnceEach
    <2>7. Owing'
      BY <2>1, <2>3 DEF Owing, Threads
    <2>8. LeavingWorkers'
      BY <2>1 DEF LeavingWorkers, Stopping, Threads
    <2> QED
      BY <2>1, <2>3, <2>5, <2>6, <2>7, <2>8 DEF Pool!vars
  <1>2. ASSUME StopWorkers
        PROVE  Inv' /\ (Pool!BeginWait(Owner) \/ UNCHANGED Pool!vars)
    <2> DEFINE due == IF \E w \in Workers : pc[w] # "none" THEN Pending ELSE {}
    <2>1. /\ pc[Owner] = "free" /\ pc' = [pc EXCEPT ![Owner] = "notify_all"]
          /\ owed' = [owed EXCEPT ![Owner] = due]
          /\ UNCHANGED <<queue, active, job, finished>>
      BY <1>2 DEF StopWorkers
    <2>2. running' \in BOOLEAN
      BY <1>2 DEF StopWorkers
    <2>3. Working' = Working /\ Busy' = Busy
      BY <2>1 DEF Working, Busy, TypeOK, Threads
    <2>4. Pending' = Pending
      BY <2>1, <2>3 DEF Pending
    <2>5. due \subseteq Pending /\ Pending \subseteq Jobs
      BY DEF Pending, OnceEach, TypeOK, ToSet
    <2>6. TypeOK'
      BY <2>1, <2>2, <2>5 DEF TypeOK, CallerStates, Threads
    <2>7. Counted' /\ OnceEach'
      BY <2>1, <2>3, <2>4 DEF Counted, OnceEach
    <2>8. Owing'
      BY <2>1, <2>4, <2>5 DEF Owing, TypeOK, Threads
    <2>9. LeavingWorkers'
      <3>1. \A w \in Workers : pc'[w] = pc[w] /\ pc[w] # "exited"
        BY <2>1 DEF LeavingWorkers, Stopping, TypeOK, Threads
      <3>2. Stopping'
        BY <2>1 DEF Stopping, TypeOK, Threads
      <3>3. (\A w \in Workers : pc[w] = "none") => owed'[Owner] = {}
        BY <2>1 DEF TypeOK
      <3> QED
        BY <3>1, <3>2, <3>3 DEF LeavingWorkers
    <2>10. Pool!BeginWait(Owner) \/ UNCHANGED Pool!vars
      <3>1. CASE \E w \in Workers : pc[w] # "none"
        BY <2>1, <2>4, <3>1 DEF Pool!BeginWait
      <3>2. CASE ~ \E w \in Workers : pc[w] # "none"
        <4>1. owed[Owner] = {}
          BY <2>1 DEF Owing
        <4>2. owed' = owed
          BY <2>1, <3>2, <4>1 DEF TypeOK
        <4> QED
          BY <2>1, <2>4, <4>2 DEF Pool!vars
      <3> QED
        BY <3>1, <3>2
    <2> QED
      BY <2>6, <2>7, <2>8, <2>9, <2>10
  <1>3. ASSUME JoinWorkers
        PROVE  Inv' /\ Pool!EndWait(Owner)
    <2>1. /\ pc[Owner] = "joining" /\ \A w \in Workers : pc[w] \in {"none", "exited"}
          /\ pc' = [t \in Threads |-> CASE t = Owner -> "free"
                                        [] t \in Workers -> "none"
                                        [] OTHER -> pc[t]]
          /\ owed' = [owed EXCEPT ![Owner] = {}]
          /\ UNCHANGED <<running, queue, active, job, finished>>
      BY <1>3 DEF JoinWorkers
    <2>2. \A w \in Workers : pc'[w] = "none"
      BY <2>1 DEF Threads
    <2>3. Working = {} /\ Working' = {} /\ Busy = {} /\ Busy' = {}
      BY <2>1, <2>2 DEF Working, Busy
    <2>4. Pending = ToSet(queue) /\ Pending' = Pending
      BY <2>1, <2>3 DEF Pending
    <2>5. owed[Owner] \cap ToSet(queue) = {}
      BY <2>1 DEF LeavingWorkers, Stopping
    <2>6. owed[Owner] \subseteq finished
      BY <2>4, <2>5 DEF Owing
    <2>7. TypeOK'
      BY <2>1 DEF TypeOK, WorkerStates, CallerStates, Threads
    <2>8. Counted' /\ OnceEach'
      BY <2>1, <2>3, <2>4 DEF Counted, OnceEach
    <2>9. Owing'
      BY <2>1, <2>4 DEF Owing, TypeOK, Threads
    <2>10. LeavingWorkers'
      BY <2>1, <2>2 DEF LeavingWorkers, Stopping, Threads
    <2> QED
      BY <2>1, <2>4, <2>6, <2>7, <2>8, <2>9, <2>10 DEF Pool!EndWait
  <1> QED
    BY <1>1, <1>2, <1>3

\* Every step keeps the invariant and is a step of JobPool.
LEMMA StepInv == Inv /\ [Next]_vars => Inv' /\ [Pool!Next]_(Pool!vars)
  <1> USE JobSystemAssumption
  <1>1. CASE StartWorkers \/ StopWorkers \/ JoinWorkers
    BY <1>1, OwnerSteps DEF Pool!Next
  <1>2. ASSUME Inv, NEW w \in Workers, WorkerStep(w)
        PROVE  Inv' /\ [Pool!Next]_(Pool!vars)
    <2>1. w \in Threads
      BY DEF Threads
    <2>2. CASE RunJob(w)
      <3>1. job[w] \in Jobs
        BY <1>2, <2>2 DEF RunJob, Inv, OnceEach, Working
      <3> QED
        BY <1>2, <2>2, <3>1, RunJobStep DEF Pool!Next
    <2>3. CASE ~RunJob(w)
      BY <1>2, <2>1, <2>3, WorkerExitsStep, TakeJobStep, GiveBackStep, SleepAndWake
         DEF WorkerStep
    <2> QED
      BY <2>2, <2>3
  <1>3. ASSUME Inv, NEW c \in Callers, CallerStep(c) \/ WaitIdle(c)
        PROVE  Inv' /\ [Pool!Next]_(Pool!vars)
    <2>1. c \in Threads
      BY DEF Threads
    <2>2. CASE WaitIdle(c) \/ WaitReturns(c)
      BY <1>3, <2>2, WaitSteps DEF Pool!Next
    <2>3. CASE WaitSleeps(c) \/ NotifyOne(c) \/ NotifyAll(c)
      BY <1>3, <2>1, <2>3, SleepAndWake
    <2> QED
      BY <1>3, <2>2, <2>3 DEF CallerStep
  <1>4. ASSUME Inv, NEW t \in Threads, SpuriousWakeup(t) \/ \E j \in Jobs : Schedule(t, j)
        PROVE  Inv' /\ [Pool!Next]_(Pool!vars)
    BY <1>4, SleepAndWake, ScheduleStep DEF Pool!Next
  <1>5. ASSUME Inv, UNCHANGED vars
        PROVE  Inv' /\ [Pool!Next]_(Pool!vars)
    <2>1. Working' = Working /\ Busy' = Busy
      BY <1>5 DEF vars, Working, Busy
    <2>2. Pending' = Pending
      BY <1>5, <2>1 DEF vars, Pending
    <2> QED
      BY <1>5, <2>1, <2>2 DEF Inv, TypeOK, Counted, OnceEach, Owing, LeavingWorkers,
         Stopping, vars, Pool!vars
  <1> QED
    BY <1>1, <1>2, <1>3, <1>4, <1>5 DEF Next

\* Every member of JobSystem and every thread keeps its type.
THEOREM TypeOKHolds == Spec => []TypeOK
  <1>1. Inv => TypeOK
    BY DEF Inv
  <1> QED
    BY <1>1, InitInv, StepInv, PTL DEF Spec

\* However workers, callers and notifications interleave, each job is run once,
\* and wait_idle and shutdown return only when the jobs they answer for have been
\* run: JobSystem implements JobPool.
THEOREM PromiseKept == Spec => KeepsPromise
  <1>1. Init => Pool!Init
    <2> SUFFICES ASSUME Init PROVE Pool!Init
      OBVIOUS
    <2>1. Working = {}
      BY JobSystemAssumption DEF Init, Working, Threads
    <2>2. Pending = {}
      BY <2>1, EmptyQueue DEF Init, Pending
    <2> QED
      BY <2>2 DEF Init, Pool!Init
  <1> QED
    BY <1>1, InitInv, StepInv, PTL DEF Spec, KeepsPromise, Pool!Spec

-----------------------------------------------------------------------------
(* The safety properties of WebSession for any timeout and any number of    *)
(* choices.  connect() shows a page that connects without a look at the     *)
(* player id: that the id is unset there rests on the page connecting once, *)
(* before its worker can have had a session.                                *)

\* The worker knows its player only in a session.
AssignedNeedsPeer == assigned => peer = "connected"

\* Before its first cycle the worker has published nothing.
BridgeShowsNobody == worker \in {"none", "bridge"} => ~shared.local_player_id

\* A page that has not asked for a session has none.
NothingBeforeConnect ==
    page \in {"init", "connect"} =>
        /\ peer = "free"
        /\ taken = {} /\ shared.waiting = {}
        /\ ~shared.local_player_id
        /\ page = "init" => worker = "none"

WebInv ==
    /\ WebTypeOK
    /\ IdNeedsSession
    /\ AssignedNeedsPeer
    /\ BridgeShowsNobody
    /\ NothingBeforeConnect

LEMMA InitWeb == WebInit => WebInv
  <1> SUFFICES ASSUME WebInit PROVE WebInv
    OBVIOUS
  <1> USE DEF WebInit, WebClientInit
  <1>1. shared \in SharedState
    BY DEF SharedState, States
  <1>2. stop \in BOOLEAN /\ {assigned, unsent, asked} \subseteq BOOLEAN
    OBVIOUS
  <1>3. WebTypeOK
    BY <1>1, <1>2, WebSessionAssumption DEF WebTypeOK, WebClientTypeOK, States
  <1>4. ~assigned /\ ~shared.local_player_id
    OBVIOUS
  <1> QED
    BY <1>3, <1>4
       DEF WebInv, IdNeedsSession, AssignedNeedsPeer, BridgeShowsNobody, NothingBeforeConnect
-----------------------------------------------------------------------------
LEMMA PageStepKeeps == WebInv /\ PageStep => WebInv'
  <1> SUFFICES ASSUME WebInv, PageStep PROVE WebInv'
    OBVIOUS
  <1> USE WebSessionAssumption
      DEF WebInv, WebTypeOK, WebClientTypeOK, SharedState, States, Requests,
          IdNeedsSession, AssignedNeedsPeer, BridgeShowsNobody, NothingBeforeConnect,
          Goto, transport, webclient
  <1>1. CASE OpenClient
    BY <1>1 DEF OpenClient, InitClient
  <1>2. CASE OpenSession
    BY <1>2 DEF OpenSession, RequestConnect
  <1>3. CASE AskForChunks
    BY <1>3 DEF AskForChunks, SetChunkInterest
  <1>4. CASE EndSession
    <2>1. shared' \in SharedState /\ ~shared'.local_player_id
      BY <1>4 DEF EndSession, RequestDisconnect, AfterRequestDisconnect
    <2>2. choices' \in 0..MaxChoices /\ elapsed' = 0
      BY <1>4 DEF EndSession, Choice
    <2> QED
      BY <1>4, <2>1, <2>2 DEF EndSession, Choice, RequestDisconnect
  <1>5. CASE HostSession
    BY <1>5 DEF HostSession, Choice
  <1>6. CASE NoChoice
    BY <1>6 DEF NoChoice
  <1>7. CASE Look
    BY <1>7 DEF Look
  <1>8. CASE Update
    <2>1. elapsed' \in 0..ConnectTimeout
      BY <1>8 DEF Update
    <2>2. CASE RequestDisconnect
      BY <1>8, <2>1, <2>2 DEF Update, RequestDisconnect, AfterRequestDisconnect
    <2>3. CASE UNCHANGED webclient
      BY <1>8, <2>1, <2>3 DEF Update
    <2> QED
      BY <1>8, <2>2, <2>3 DEF Update
  <1>9. CASE Play
    BY <1>9 DEF Play
  <1>10. CASE SwitchActivePlanet
    BY <1>10 DEF SwitchActivePlanet
  <1>11. CASE AskForPlanet
    BY <1>11 DEF AskForPlanet, SetChunkInterest
  <1>12. CASE ClosePage
    BY <1>12 DEF ClosePage, RequestDisconnect, AfterRequestDisconnect
  <1>13. CASE CloseClient
    BY <1>13 DEF CloseClient, ShutdownClient
  <1> QED
    BY <1>1, <1>2, <1>3, <1>4, <1>5, <1>6, <1>7, <1>8, <1>9, <1>10, <1>11, <1>12, <1>13
       DEF PageStep, PageGoesOn

LEMMA WorkerStepKeeps ==
    WebInv /\ WebWorkerStep /\ UNCHANGED <<page, seen, elapsed, choices>> => WebInv'
  <1> SUFFICES ASSUME WebInv, WebWorkerStep, UNCHANGED <<page, seen, elapsed, choices>>
               PROVE  WebInv'
    OBVIOUS
  <1> USE DEF WebInv, WebTypeOK, WebClientTypeOK, SharedState, States, Requests,
          IdNeedsSession, AssignedNeedsPeer, BridgeShowsNobody, NothingBeforeConnect,
          transport, webclient
  <1>1. CASE BridgeOpens
    BY <1>1 DEF BridgeOpens
  <1>2. CASE BridgeFails
    BY <1>2 DEF BridgeFails
  <1>3. CASE TransportFails
    BY <1>3 DEF TransportFails
  <1>4. CASE TakeRequests
    BY <1>4 DEF TakeRequests
  <1>5. CASE Obey
    BY <1>5 DEF Obey, PeerAfterDisconnect
  <1>6. CASE Connected
    BY <1>6 DEF Connected
  <1>7. CASE Assigned
    BY <1>7 DEF Assigned
  <1>8. CASE PeerGone
    BY <1>8 DEF PeerGone
  <1>9. CASE Publish
    BY <1>9 DEF Publish, Published, Shown
  <1>10. CASE Leave
    BY <1>10 DEF Leave
  <1> QED
    BY <1>1, <1>2, <1>3, <1>4, <1>5, <1>6, <1>7, <1>8, <1>9, <1>10
       DEF WebWorkerStep, WorkerGoesOn

LEMMA WebInvHolds == WebSpec => []WebInv
  <1>1. WebInv /\ UNCHANGED web_vars => WebInv'
    BY DEF WebInv, WebTypeOK, WebClientTypeOK, IdNeedsSession, AssignedNeedsPeer,
           BridgeShowsNobody, NothingBeforeConnect, web_vars, webclient, transport
  <1>2. WebInv /\ [WebNext]_web_vars => WebInv'
    BY <1>1, PageStepKeeps, WorkerStepKeeps DEF WebNext
  <1> QED
    BY <1>2, InitWeb, PTL DEF WebSpec

\* Every variable of WebNetClient and of the page keeps its type.
THEOREM WebTypeCorrect == WebSpec => []WebTypeOK
  BY WebInvHolds, PTL DEF WebInv

\* Whichever thread wrote last what the page shows, it shows a player id only together
\* with a session.
THEOREM IdOnlyInSession == WebSpec => []IdNeedsSession
  BY WebInvHolds, PTL DEF WebInv
=============================================================================
