------------------------------ MODULE SfsPerf ------------------------------
(***************************************************************************)
(* The performance benchmark of test-sfs.c: PERF_SAMPLE_RUNS samples, each *)
(* of which starts PERF_THREADS workers behind a gate (a mutex, a condition *)
(* variable and the flag perf_start), takes the time, opens the gate and   *)
(* joins them.  The calls a worker makes are those of the modules SfsLocks *)
(* and SfsTraces; here they end with right or wrong results, or never.     *)
(***************************************************************************)
EXTENDS Naturals, FiniteSets

CONSTANTS PERF_THREADS,      \* the workers
          PERF_SAMPLE_RUNS   \* the number of samples
ASSUME PerfAssumption == /\ PERF_SAMPLE_RUNS \in Nat \ {0}
                         /\ IsFiniteSet(PERF_THREADS)

VARIABLES perf_start,          \* the gate's flag, kept from sample to sample
          gate,                \* "free" or "main": who holds perf_start_lock
          bench,               \* where the benchmark's main thread stands
          worker,              \* where each worker stands
          perf_worker_failed,  \* some result was wrong, or some call failed
          sample,              \* samples completed
          perfDisk,            \* PERF_DISK exists
          timed                \* t0 of this sample has been taken

perfVars == <<perf_start, gate, bench, worker, perf_worker_failed, sample,
              perfDisk, timed>>

NoWorkers == [w \in PERF_THREADS |-> "none"]

PerfInit ==
  /\ perf_start = 0 /\ gate = "free"
  /\ bench = "format" /\ worker = NoWorkers
  /\ perf_worker_failed = FALSE /\ sample = 0
  /\ perfDisk = FALSE /\ timed = FALSE

(* The sample is over: run_perf_benchmark takes the next one, or scores.   *)
NextSample ==
  /\ sample' = sample + 1
  /\ bench' = IF sample' < PERF_SAMPLE_RUNS THEN "format" ELSE "score"

(* sfs_format and, if it succeeds, pthread_mutex_lock: no worker is alive, *)
(* so the lock is free.  The image may exist although the format failed.   *)
FormatDisk ==
  /\ bench = "format"
  /\ \/ /\ perfDisk' = TRUE /\ gate' = "main" /\ perf_start' = 0
        /\ bench' = "create" /\ worker' = NoWorkers
        /\ UNCHANGED <<perf_worker_failed, sample>>
     \/ /\ perf_worker_failed' = TRUE
        /\ perfDisk' \in {perfDisk, TRUE}
        /\ NextSample
        /\ UNCHANGED <<gate, perf_start, worker>>
  /\ UNCHANGED timed

CreateWorker ==
  /\ bench = "create"
  /\ \E w \in PERF_THREADS :
       /\ worker[w] = "none"
       /\ worker' = [worker EXCEPT ![w] = "enter"]
  /\ UNCHANGED <<perf_start, gate, bench, perf_worker_failed, sample, perfDisk,
                 timed>>

(* pthread_create fails: the sample goes on with the workers it has.       *)
CreateFails ==
  /\ bench = "create" /\ \E w \in PERF_THREADS : worker[w] = "none"
  /\ perf_worker_failed' = TRUE
  /\ bench' = "stamp"
  /\ UNCHANGED <<perf_start, gate, worker, sample, perfDisk, timed>>

(* pthread_cond_broadcast: every sleeper goes to take the lock again.      *)
Broadcast ==
  worker' = [w \in PERF_THREADS |->
               IF worker[w] = "asleep" THEN "enter" ELSE worker[w]]

(* The time is taken and the gate opened before the lock is given up.      *)
Release ==
  /\ \/ bench = "stamp"
     \/ bench = "create" /\ \A w \in PERF_THREADS : worker[w] # "none"
  /\ timed' = TRUE /\ perf_start' = 1
  /\ Broadcast
  /\ gate' = "free" /\ bench' = "join"
  /\ UNCHANGED <<perf_worker_failed, sample, perfDisk>>

(* All workers joined; sfs_unmount, which may fail, and unlink.            *)
JoinWorkers ==
  /\ bench = "join"
  /\ \A w \in PERF_THREADS : worker[w] \in {"none", "ended"}
  /\ worker' = NoWorkers /\ timed' = FALSE
  /\ perf_worker_failed' \in {perf_worker_failed, TRUE}
  /\ perfDisk' = FALSE
  /\ NextSample
  /\ UNCHANGED <<perf_start, gate>>

(* A worker takes the lock, tests the flag, and goes on or sleeps; waiting *)
(* gives the lock up in the same step.  As main holds the lock from before *)
(* the first worker is created, no worker ever finds the flag at 0: what   *)
(* they wait for is the lock.                                              *)
PassGate(w) ==
  /\ worker[w] = "enter" /\ gate = "free"
  /\ worker' = [worker EXCEPT ![w] =
                  IF perf_start = 1 THEN "calls" ELSE "asleep"]
  /\ UNCHANGED <<perf_start, gate, bench, perf_worker_failed, sample, perfDisk,
                 timed>>

(* The worker's sessions end, and it has checked every result it got.      *)
MakeCalls(w) ==
  /\ worker[w] = "calls"
  /\ worker' = [worker EXCEPT ![w] = "ended"]
  /\ perf_worker_failed' \in {perf_worker_failed, TRUE}
  /\ UNCHANGED <<perf_start, gate, bench, sample, perfDisk, timed>>

(* What .perf_baseline may hold, and the points each allows.  Without a    *)
(* comparable baseline the throughput itself is scored, at most 5.         *)
Baselines == {"missing", "other_workload", "other_directory", "comparable"}
score_perf_against_baseline(baseline) ==
  IF baseline = "comparable" THEN {0, 3, 5, 7, 9, 10} ELSE {0, 3, 5}

Scores(baseline) ==
  IF perf_worker_failed THEN {0} ELSE score_perf_against_baseline(baseline)

BenchMain == FormatDisk \/ CreateWorker \/ CreateFails \/ Release \/ JoinWorkers

BenchStep ==
  \/ BenchMain
  \/ \E w \in PERF_THREADS : PassGate(w) \/ MakeCalls(w)

=============================================================================
