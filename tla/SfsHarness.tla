----------------------------- MODULE SfsHarness -----------------------------
(***************************************************************************)
(* The grader test-sfs.c as a system of processes.  Each trace runs in a   *)
(* child whose stderr is a pipe; the parent reads the pipe, asks whether   *)
(* the child has ended, looks at the clock and sleeps in poll, in turn.    *)
(* The categories are followed by the ThreadSanitizer sweep and by the     *)
(* benchmark, in a child with a budget of its own.                         *)
(*                                                                         *)
(* What the traces do to the file system is in SfsTraces.  Here a child    *)
(* is any program: it writes to stderr, makes and removes its images, and  *)
(* exits, crashes, or never ends.  Output is counted in chunks, time in    *)
(* ticks; both counters stop at the bound that the code compares with.     *)
(***************************************************************************)
EXTENDS SfsPerf, Sequences, FiniteSetsExt

CONSTANTS Modes,               \* the modes main is started in
          Categories,          \* mode -> its categories, sequences of traces
          DISK_NAME,           \* the image of the traces that run alone
          ConcDisks,           \* concurrent trace -> its images
          NoOne,               \* the writer of an image that does not exist
          TRACE_CAPTURE_LIMIT, \* chunks kept of a child's output
          PIPE_SIZE,           \* chunks a pipe holds
          READS,               \* reads of one drain
          TRACE_TIMEOUT,       \* ticks a trace may take
          PERF_BUDGET,         \* sleeps the benchmark may take
          TSAN_FUZZ_SEEDS      \* runs of the sanitizer sweep
ASSUME HarnessAssumption ==
  /\ Modes \subseteq {"grade", "tsan_only", "developer_only"}
  /\ {TRACE_CAPTURE_LIMIT, PIPE_SIZE, READS, TRACE_TIMEOUT, PERF_BUDGET,
      TSAN_FUZZ_SEEDS} \subseteq Nat \ {0}

VARIABLES mode, keep_failed_disks, benchmark,   \* how it is started
          category, trace,     \* the trace that runs, by number
          passed,              \* category -> traces passed
          parent,              \* where the parent stands
          child, exits,        \* the trace's process, and how it ended
          pipe, written, captured, reads,
          elapsed,             \* since the trace, or the benchmark, started
          images,              \* image -> the trace that wrote it, or NoOne
          report,              \* what is told of the last trace
          left,                \* the images its child left behind
          seed, setarch, tsan, \* the sanitizer sweep
          perf, baseline       \* the benchmark's score, and .perf_baseline

perfResult == <<perf, baseline>>
childVars == <<child, exits, pipe, written, left>>
flags == <<mode, keep_failed_disks, benchmark>>
sweepVars == <<seed, setarch, tsan>>
mainVars == <<flags, category, trace, passed>>
harnessVars == <<mainVars, parent, childVars, captured, reads, elapsed,
          images, report, sweepVars, perfResult, perfVars>>

Plan == Categories[mode]
Id == Plan[category][trace]
Concurrent == UNION {ConcDisks[id] : id \in DOMAIN ConcDisks}
Images == Concurrent \cup {DISK_NAME}

(* The images that a trace writes, and those that may be kept for it.      *)
ImagesOf(id) == IF id \in DOMAIN ConcDisks THEN ConcDisks[id] ELSE {DISK_NAME}
CandidatesAny(id) == Images   \* a slip: whatever image is there
Candidates(id) == IF id \in DOMAIN ConcDisks THEN Concurrent ELSE {DISK_NAME}
Present(disks) == {<<i, images[i]>> : i \in {d \in disks : images[d] # NoOne}}

NoReport == [verdict |-> "none", said |-> {}, kept |-> {}]
AllPassed(c) == passed[c] = Len(Plan[c])
correctness == \A c \in 1..Len(Plan) : AllPassed(c)

HarnessInit ==
  /\ mode \in Modes /\ baseline = "unread"
  /\ keep_failed_disks \in BOOLEAN
  /\ benchmark \in BOOLEAN
  /\ benchmark => mode = "grade"
  /\ category = 1 /\ trace = 1 /\ passed = [c \in 1..Len(Plan) |-> 0]
  /\ parent = "start"
  /\ child = "none" /\ exits = "none" /\ pipe = 0 /\ written = 0 /\ left = {}
  /\ captured = 0 /\ reads = 0 /\ elapsed = 0
  /\ images = [i \in Images |-> NoOne]
  /\ report = NoReport
  /\ seed = 1 /\ setarch = FALSE /\ tsan = "SKIPPED"
  /\ perf = 0
  /\ PerfInit

-----------------------------------------------------------------------------
(* capture_append: past the limit bytes are read and dropped.              *)
capture_append(n) == Min({captured + n, TRACE_CAPTURE_LIMIT})
Appended(msg) == IF captured' < TRACE_CAPTURE_LIMIT THEN {msg} ELSE {}

(* What the trace itself does.  Its exit status is 0 when every CHECK held, *)
(* 1 when one failed, 2 when stderr could not be redirected.               *)
ChildWrites ==
  /\ child = "running" /\ pipe < PIPE_SIZE
  /\ pipe' = pipe + 1
  /\ written' = Min({written + 1, TRACE_CAPTURE_LIMIT})
  /\ UNCHANGED <<child, exits, left, images>>
ChildImages ==
  /\ child = "running"
  /\ \E i \in ImagesOf(Id) :
       \/ images' = [images EXCEPT ![i] = Id]
       \/ i # DISK_NAME /\ images' = [images EXCEPT ![i] = NoOne]
  /\ UNCHANGED childVars
ChildEnds ==
  /\ child = "running"
  /\ child' = "zombie"
  /\ exits' \in {"0", "1", "2", "signal"}
  /\ left' = Present(Candidates(Id))
  /\ UNCHANGED <<pipe, written, images>>

ChildStep ==
  /\ ChildWrites \/ ChildImages \/ ChildEnds
  /\ UNCHANGED <<mainVars, parent, captured, reads, elapsed, report,
                 sweepVars, perfResult, perfVars>>

-----------------------------------------------------------------------------
(* run_trace_with_timeout: pipe and fork, either of which may fail.        *)
Start ==
  /\ parent = "start" /\ category <= Len(Plan)
  /\ exits' = "none" /\ pipe' = 0 /\ written' = 0 /\ left' = {}
  /\ captured' = 0 /\ reads' = 0 /\ elapsed' = 0
  /\ \/ child' = "running" /\ parent' = "drain" /\ report' = NoReport
     \/ /\ child' = "none" /\ parent' = "judged"
        /\ report' = [NoReport EXCEPT !.verdict = "FAIL"]
  /\ UNCHANGED <<mainVars, images, sweepVars, perfResult, perfVars>>

DrainAll ==   \* a slip: until the pipe is empty
  /\ parent = "drain"
  /\ IF pipe > 0
     THEN /\ captured' = capture_append(1) /\ pipe' = pipe - 1
          /\ UNCHANGED <<reads, parent>>
     ELSE reads' = 0 /\ parent' = "wait" /\ UNCHANGED <<captured, pipe>>
  /\ UNCHANGED <<mainVars, child, exits, written, left, elapsed, images,
                 report, sweepVars, perfResult, perfVars>>

(* At most READS reads, and none of them blocks.                           *)
Drain ==
  /\ parent = "drain"
  /\ IF pipe > 0 /\ reads < READS
     THEN /\ captured' = capture_append(1) /\ pipe' = pipe - 1
          /\ reads' = reads + 1 /\ UNCHANGED parent
     ELSE reads' = 0 /\ parent' = "wait" /\ UNCHANGED <<captured, pipe>>
  /\ UNCHANGED <<mainVars, child, exits, written, left, elapsed, images,
                 report, sweepVars, perfResult, perfVars>>

(* waitpid with WNOHANG reaps a child that has ended; otherwise the clock  *)
(* is read, in a step of its own.                                          *)
Wait ==
  /\ parent = "wait"
  /\ IF child = "zombie" THEN child' = "none" /\ parent' = "final"
     ELSE parent' = "clock" /\ UNCHANGED child
  /\ UNCHANGED <<mainVars, exits, pipe, written, left, captured, reads,
                 elapsed, images, report, sweepVars, perfResult, perfVars>>

ReadClock ==
  /\ parent = "clock"
  /\ parent' = IF elapsed >= TRACE_TIMEOUT THEN "timeout" ELSE "poll"
  /\ UNCHANGED <<mainVars, childVars, captured, reads, elapsed, images,
                 report, sweepVars, perfResult, perfVars>>

(* poll returns when there is output, or after 100 ms.                     *)
Sleep ==
  /\ parent = "poll" /\ parent' = "drain"
  /\ UNCHANGED <<mainVars, childVars, captured, reads, elapsed, images,
                 report, sweepVars, perfResult, perfVars>>

Tick ==
  /\ parent \in {"drain", "wait", "clock", "poll"} /\ elapsed < TRACE_TIMEOUT
  /\ elapsed' = elapsed + 1
  /\ UNCHANGED <<mainVars, parent, childVars, captured, reads, images, report,
                 sweepVars, perfResult, perfVars>>

KillForgets ==   \* a slip: the child is left alone
  /\ parent = "timeout"
  /\ report' = [report EXCEPT !.verdict = "TIMEOUT"]
  /\ parent' = "keep"
  /\ UNCHANGED <<mainVars, childVars, captured, reads, elapsed, images,
                 sweepVars, perfResult, perfVars>>

(* The time is over: kill, and wait for the child to be gone.  A child     *)
(* that has ended since Wait looked is reaped here, and timed out.         *)
Kill ==
  /\ parent = "timeout"
  /\ child' = "none"
  /\ IF child = "running"
     THEN exits' = "signal" /\ left' = Present(Candidates(Id))
     ELSE UNCHANGED <<exits, left>>
  /\ report' = [report EXCEPT !.verdict = "TIMEOUT"]
  /\ parent' = "keep"
  /\ UNCHANGED <<mainVars, pipe, written, captured, reads, elapsed, images,
                 sweepVars, perfResult, perfVars>>

(* The child has ended by itself: what it wrote last is still in the pipe. *)
FinalDrain ==
  /\ parent = "final"
  /\ captured' = capture_append(pipe) /\ pipe' = 0
  /\ IF exits = "0" THEN /\ parent' = "clean"
                         /\ report' = [report EXCEPT !.verdict = "PASS"]
                    ELSE /\ parent' = "keep"
                         /\ report' = [report EXCEPT !.verdict = "FAIL"]
  /\ UNCHANGED <<mainVars, child, exits, written, left, reads, elapsed,
                 images, sweepVars, perfResult, perfVars>>

(* keep_failure_images; the copies themselves are taken to succeed.        *)
Keep ==
  /\ parent = "keep"
  /\ report' = [report EXCEPT
       !.kept = IF keep_failed_disks THEN Present(Candidates(Id)) ELSE {}]
  /\ parent' = "clean"
  /\ UNCHANGED <<mainVars, childVars, captured, reads, elapsed, images,
                 sweepVars, perfResult, perfVars>>

cleanup_concurrency_disks ==
  images' = [i \in Images |-> IF i \in Concurrent THEN NoOne ELSE images[i]]

(* The concurrent traces' images go; a killed child's last output is read; *)
(* and the reason of the failure is appended to the captured output.       *)
Clean ==
  /\ parent = "clean"
  /\ cleanup_concurrency_disks
  /\ captured' = capture_append(pipe) /\ pipe' = 0
  /\ report' = [report EXCEPT !.said =
       CASE report.verdict = "TIMEOUT" -> Appended("TIMEOUT")
         [] report.verdict = "FAIL" /\ exits = "signal" -> Appended("CRASH")
         [] OTHER -> {}]
  /\ parent' = "judged"
  /\ UNCHANGED <<mainVars, child, exits, written, left, reads, elapsed,
                 sweepVars, perfResult, perfVars>>

(* run_category counts the trace and goes to the next one, or the next     *)
(* category; after the last, main unlinks or sweeps.                       *)
LastTrace == trace = Len(Plan[category])
Count ==
  /\ parent = "judged"
  /\ passed' = [passed EXCEPT ![category] =
                  IF report.verdict = "PASS" THEN @ + 1 ELSE @]
  /\ trace' = IF LastTrace THEN 1 ELSE trace + 1
  /\ category' = IF LastTrace THEN category + 1 ELSE category
  /\ parent' = IF ~(LastTrace /\ category = Len(Plan)) THEN "start"
               ELSE IF mode = "grade" THEN "sweep" ELSE "unlink"
  /\ report' = NoReport /\ exits' = "none" /\ left' = {}
  /\ written' = 0 /\ captured' = 0 /\ elapsed' = 0
  /\ UNCHANGED <<flags, child, pipe, reads, images, sweepVars, perfResult,
                 perfVars>>

-----------------------------------------------------------------------------
(* run_tsan_check.  Its runs are other processes, each under `timeout`: a  *)
(* run is known by its exit status and by what its log contains.           *)
Logs == [fatal : BOOLEAN, started : BOOLEAN, race : BOOLEAN,
         rc : {"0", "124", "other"}]

SweepEnds(result) ==
  /\ tsan' = result /\ parent' = "perf"
  /\ cleanup_concurrency_disks
SweepGoesOn == UNCHANGED <<images, tsan, parent>>

Compile ==
  /\ parent = "sweep"
  /\ \/ ~correctness /\ parent' = "perf" /\ UNCHANGED tsan
     \/ correctness /\ parent' = "seed" /\ UNCHANGED tsan
     \/ correctness /\ parent' = "perf" /\ tsan' = "UNAVAILABLE"
  /\ UNCHANGED <<mainVars, childVars, captured, reads, elapsed, images,
                 report, seed, setarch, perfResult, perfVars>>

(* The first log that matches decides.  A run that cannot start is made    *)
(* once more with address randomisation off, where setarch is installed.   *)
RunSeed ==
  /\ parent = "seed"
  /\ \E log \in Logs :
       \/ /\ log.fatal \/ (log.rc # "0" /\ ~log.started)
          /\ \/ ~setarch /\ setarch' = TRUE /\ UNCHANGED seed /\ SweepGoesOn
             \/ SweepEnds("UNAVAILABLE") /\ UNCHANGED <<seed, setarch>>
       \/ /\ ~log.fatal /\ (log.rc # "0" => log.started)
          /\ \/ log.race /\ SweepEnds("RACE")
             \/ ~log.race /\ log.rc = "124" /\ SweepEnds("TIMEOUT")
             \/ ~log.race /\ log.rc = "other" /\ SweepEnds("TRACE_FAILED")
             \/ /\ ~log.race /\ log.rc = "0"
                /\ IF seed = TSAN_FUZZ_SEEDS THEN SweepEnds("CLEAN")
                   ELSE SweepGoesOn
          /\ seed' = IF parent' = "seed" THEN seed + 1 ELSE seed
          /\ UNCHANGED setarch
  /\ UNCHANGED <<mainVars, childVars, captured, reads, elapsed, report,
                 perfResult, perfVars>>

(* The sweep's verdict takes away the points of the last category, C.      *)
Spoiled == tsan \in {"RACE", "TRACE_FAILED", "TIMEOUT"}
complete == correctness /\ ~Spoiled

-----------------------------------------------------------------------------
(* The benchmark, in a child that is asked after between sleeps.           *)
StartBench ==
  /\ parent = "perf"
  /\ \/ ~(benchmark /\ complete) /\ parent' = "unlink" /\ UNCHANGED child
     \/ benchmark /\ complete /\ parent' = "unlink" /\ UNCHANGED child
     \/ benchmark /\ complete /\ parent' = "bench" /\ child' = "benchmark"
  /\ UNCHANGED <<mainVars, exits, pipe, written, left, captured, reads,
                 elapsed, images, report, sweepVars, perfResult, perfVars>>

BenchRunning == parent = "bench" /\ child = "benchmark"
BenchWorks ==
  /\ BenchRunning /\ BenchStep
  /\ UNCHANGED <<mainVars, parent, childVars, captured, reads, elapsed,
                 images, report, sweepVars, perfResult>>
BenchEnds ==
  /\ BenchRunning
  /\ \/ /\ bench = "score"
        /\ baseline' \in Baselines
        /\ perf' \in Scores(baseline')
     \/ perf' = 0 /\ UNCHANGED baseline   \* a crash
  /\ child' = "zombie"
  /\ UNCHANGED <<mainVars, parent, exits, pipe, written, left, captured,
                 reads, elapsed, images, report, sweepVars, perfVars>>

WaitBench ==
  /\ parent = "bench"
  /\ \/ /\ elapsed < PERF_BUDGET /\ child = "zombie"
        /\ parent' = "unlink" /\ child' = "none"
        /\ UNCHANGED <<elapsed, perf, perfDisk>>
     \/ /\ elapsed < PERF_BUDGET /\ child = "benchmark"
        /\ elapsed' = elapsed + 1
        /\ UNCHANGED <<parent, child, perf, perfDisk>>
     \/ /\ elapsed >= PERF_BUDGET
        /\ parent' = "unlink" /\ child' = "none"
        /\ perf' = 0 /\ perfDisk' = FALSE
        /\ UNCHANGED elapsed
  /\ UNCHANGED <<mainVars, exits, pipe, written, left, captured, reads,
                 images, report, sweepVars, baseline, perf_start, gate, bench,
                 worker, perf_worker_failed, sample, timed>>

(* main's last unlink, and its exit.                                       *)
Finish ==
  /\ parent = "unlink" /\ parent' = "finished"
  /\ images' = [images EXCEPT ![DISK_NAME] = NoOne]
  /\ UNCHANGED <<mainVars, childVars, captured, reads, elapsed, report,
                 sweepVars, perfResult, perfVars>>

exit_status == IF complete THEN 0 ELSE IF mode = "tsan_only" THEN 66 ELSE 1

ParentStep ==
  \/ Start \/ Drain \/ Wait \/ ReadClock \/ Sleep \/ Kill \/ FinalDrain \/ Keep
  \/ Clean \/ Count \/ Compile \/ RunSeed \/ StartBench \/ WaitBench \/ Finish

HarnessNext == ParentStep \/ Tick \/ ChildStep \/ BenchWorks \/ BenchEnds

(* The parent is scheduled, and time passes.  Nothing is assumed of the    *)
(* children: a trace may hang, crash, or write for ever.                   *)
HarnessSpec == /\ HarnessInit /\ [][HarnessNext]_harnessVars
               /\ WF_harnessVars(ParentStep) /\ WF_harnessVars(Tick)

-----------------------------------------------------------------------------
(***************************************************************************)
(* The verdict is the child's own (test-sfs.c:2459): a trace passes only   *)
(* if its process exited 0 in time; a process that did exit 0 fails only   *)
(* as timed out.  All that it wrote, up to the limit, is in the capture,   *)
(* with the TIMEOUT or CRASH line (2464) if there is room left for it, and *)
(* the process is gone before its trace is counted.  No benchmark call is  *)
(* made before its sample's t0 (2220); points are given only for right     *)
(* results in all samples, and more than 5 only against a calibration of   *)
(* the same workload (2132).                                               *)
(***************************************************************************)
VerdictsTrue ==
  /\ parent = "judged" /\ exits # "none" =>
       /\ report.verdict = "PASS" => exits = "0"
       /\ report.verdict = "FAIL" => exits # "0"
       /\ report.verdict = "TIMEOUT" => elapsed = TRACE_TIMEOUT
       /\ captured = written /\ pipe = 0
       /\ captured < TRACE_CAPTURE_LIMIT =>
            /\ report.verdict = "TIMEOUT" => report.said = {"TIMEOUT"}
            /\ report.verdict = "FAIL" /\ exits = "signal" => report.said = {"CRASH"}
  /\ parent \in {"judged", "start", "unlink"} => child = "none"
  /\ \A w \in PERF_THREADS : worker[w] \in {"calls", "ended"} => timed
  /\ perf > 0 => /\ complete /\ ~perf_worker_failed /\ sample = PERF_SAMPLE_RUNS
                 /\ perf > 5 => baseline = "comparable"

(***************************************************************************)
(* The image kept of a failed trace is the one that the trace left, not    *)
(* one cleaned away or changed by a process still running; a concurrent    *)
(* trace is never given another trace's image (test-sfs.c:168), and no     *)
(* concurrent image outlives its trace.  When the grader ends, nothing but *)
(* kept copies is left in its directory, unless the benchmark failed.      *)
(***************************************************************************)
KeptAndCleaned ==
  /\ parent = "judged" =>
       /\ exits # "none" /\ report.verdict # "PASS" /\ keep_failed_disks
            => report.kept = left
       /\ Id \in DOMAIN ConcDisks => \A k \in report.kept : k[2] = Id
       /\ Present(Concurrent) = {}
  /\ parent = "finished" => Present(Images) = {} /\ (perfDisk => perf = 0)

(***************************************************************************)
(* Every run of the grader ends (test-sfs.c:2519, 2796), whatever the      *)
(* children do: a child that writes without end does not keep the parent   *)
(* from its clock, and one that hangs is killed.                           *)
(***************************************************************************)
GraderEnds == <>(parent = "finished")

=============================================================================
