-------------------------- MODULE SfsHarnessProofs --------------------------
(***************************************************************************)
(* The grader for any traces, images, limits and timeouts, whatever the    *)
(* children do: its verdicts are the children's own, the images it keeps   *)
(* are those that the failed trace left, and the points are earned.        *)
(*                                                                         *)
(* The inductive invariant says, for each place of the parent, where the   *)
(* child is (ChildStands), that what was captured and what is still in the *)
(* pipe make up what was written (OutputCounted), whose images there are   *)
(* (ImagesStand), and what the report says so far (VerdictHeld, KeptHeld); *)
(* and for the benchmark, where its workers and its gate are (PerfStands). *)
(***************************************************************************)
EXTENDS SfsHarness, TLAPS

-----------------------------------------------------------------------------
(* The benchmark *)

PerfTyped ==
    /\ perf_start \in {0, 1}
    /\ gate \in {"free", "main"}
    /\ bench \in {"format", "create", "stamp", "join", "score"}
    /\ worker \in [PERF_THREADS -> {"none", "enter", "asleep", "calls", "ended"}]
    /\ perf_worker_failed \in BOOLEAN
    /\ perfDisk \in BOOLEAN
    /\ timed \in BOOLEAN
    /\ sample \in Nat

\* While the gate is closed no worker has passed it, and an image that is there between
\* two samples is one that sfs_format failed to make.
PerfStands ==
    /\ bench \in {"format", "score"} => \A w \in PERF_THREADS : worker[w] = "none"
    /\ bench \in {"create", "stamp"} =>
          gate = "main" /\ \A w \in PERF_THREADS : worker[w] \in {"none", "enter"}
    /\ bench = "join" => timed
    /\ bench \in {"format", "score"} /\ perfDisk => perf_worker_failed
    /\ IF bench = "score" THEN sample = PERF_SAMPLE_RUNS ELSE sample < PERF_SAMPLE_RUNS

PerfInv == PerfTyped /\ PerfStands

LEMMA PerfInitially ==
  ASSUME PerfInit
  PROVE  PerfInv
<1>1. 0 < PERF_SAMPLE_RUNS BY PerfAssumption
<1>2. PerfTyped BY DEF PerfInit, NoWorkers, PerfTyped
<1>3. PerfStands BY <1>1 DEF PerfInit, NoWorkers, PerfStands
<1> QED BY <1>2, <1>3 DEF PerfInv

LEMMA BenchStepKeepsInv ==
  ASSUME PerfInv, BenchStep
  PROVE  PerfInv'
<1> USE PerfAssumption DEF PerfInv, PerfTyped, PerfStands
<1>1. CASE FormatDisk
  <2>1. CASE bench' = "create" /\ perfDisk' = TRUE /\ UNCHANGED <<perf_worker_failed, sample>>
    BY <1>1, <2>1 DEF FormatDisk, NextSample, NoWorkers
  <2>2. CASE perf_worker_failed' = TRUE /\ perfDisk' \in {perfDisk, TRUE} /\ NextSample
             /\ UNCHANGED <<gate, perf_start, worker>>
    <3>1. perfDisk' \in BOOLEAN BY <2>2
    <3>2. /\ bench = "format" /\ UNCHANGED <<gate, perf_start, worker, timed>>
          /\ perf_worker_failed' = TRUE /\ sample' = sample + 1
          /\ bench' = IF sample' < PERF_SAMPLE_RUNS THEN "format" ELSE "score"
      BY <1>1, <2>2 DEF FormatDisk, NextSample
    <3> QED BY <3>1, <3>2
  <2> QED BY <1>1, <2>1, <2>2 DEF FormatDisk
<1>2. CASE CreateWorker BY <1>2 DEF CreateWorker
<1>3. CASE CreateFails BY <1>3 DEF CreateFails
<1>4. CASE Release BY <1>4 DEF Release, Broadcast
<1>5. CASE JoinWorkers
  <2>1. perf_worker_failed' \in BOOLEAN BY <1>5 DEF JoinWorkers
  <2>2. PerfTyped'
    <3>1. /\ perfDisk' = FALSE /\ timed' = FALSE /\ sample' = sample + 1
          /\ worker' = [w \in PERF_THREADS |-> "none"] /\ UNCHANGED <<perf_start, gate>>
          /\ bench' = IF sample' < PERF_SAMPLE_RUNS THEN "format" ELSE "score"
      BY <1>5 DEF JoinWorkers, NextSample, NoWorkers
    <3>2. perfDisk' \in BOOLEAN /\ timed' \in BOOLEAN BY <3>1
    <3>3. worker' \in [PERF_THREADS -> {"none", "enter", "asleep", "calls", "ended"}]
      BY <3>1
    <3>4. perf_start' \in {0, 1} /\ gate' \in {"free", "main"} /\ sample' \in Nat BY <3>1
    <3>5. bench' \in {"format", "create", "stamp", "join", "score"} BY <3>1
    <3> QED BY <2>1, <3>2, <3>3, <3>4, <3>5
  <2>3. PerfStands' BY <1>5, <2>2 DEF JoinWorkers, NextSample, NoWorkers
  <2> QED BY <2>2, <2>3
<1>6. ASSUME NEW w \in PERF_THREADS, PassGate(w) PROVE PerfInv'
  BY <1>6 DEF PassGate
<1>7. ASSUME NEW w \in PERF_THREADS, MakeCalls(w) PROVE PerfInv'
  BY <1>7 DEF MakeCalls
<1> QED BY <1>1, <1>2, <1>3, <1>4, <1>5, <1>6, <1>7 DEF BenchStep, BenchMain

-----------------------------------------------------------------------------
(* The inductive invariant *)

Traced == {"drain", "wait", "clock", "poll", "timeout"}
Over == {"final", "keep", "clean"}
Idle == {"start", "judged", "sweep", "seed", "perf", "unlink", "finished"}

HarnessTyped ==
    /\ parent \in Traced \cup Over \cup Idle \cup {"bench"}
    /\ child \in {"none", "running", "zombie", "benchmark"}
    /\ exits \in {"none", "0", "1", "2", "signal"}
    /\ pipe \in Nat
    /\ written \in Nat
    /\ captured \in Nat
    /\ elapsed \in Nat
    /\ DOMAIN images = Images
    /\ report = [verdict |-> report.verdict, said |-> report.said, kept |-> report.kept]
    /\ perf \in Nat

\* The parent is alone unless a trace or the benchmark runs.
ChildStands ==
    /\ parent \in Traced => child \in {"running", "zombie"}
    /\ parent = "bench" => child \in {"benchmark", "zombie"}
    /\ parent \in Over \cup Idle => child = "none"
    /\ child = "zombie" /\ parent # "bench" => exits # "none"
    /\ parent \in Over => exits # "none"

\* What was read and what is in the pipe is what was written, up to the limit.
OutputCounted ==
    /\ captured <= TRACE_CAPTURE_LIMIT
    /\ parent \in Traced => elapsed <= TRACE_TIMEOUT
    /\ parent = "timeout" => elapsed = TRACE_TIMEOUT
    /\ parent \in Traced \cup Over =>
          written = IF captured + pipe <= TRACE_CAPTURE_LIMIT THEN captured + pipe
                    ELSE TRACE_CAPTURE_LIMIT

\* The verdict agrees with how the child ended, from the step that gives it on.
VerdictHeld ==
    /\ parent \in Traced \cup {"final"} => report = NoReport
    /\ parent \in Over \cup {"judged"} =>
          /\ report.verdict = "PASS" => exits = "0"
          /\ report.verdict = "FAIL" => exits # "0"
          /\ report.verdict = "TIMEOUT" => elapsed = TRACE_TIMEOUT
    /\ parent = "judged" /\ exits # "none" =>
          /\ captured = written /\ pipe = 0
          /\ captured < TRACE_CAPTURE_LIMIT =>
                /\ report.verdict = "TIMEOUT" => report.said = {"TIMEOUT"}
                /\ report.verdict = "FAIL" /\ exits = "signal" => report.said = {"CRASH"}

LeftNow == Present(Candidates(Id))

\* The concurrent images are the running trace's own, and what it left stays until its
\* images are cleaned away.
ImagesStand ==
    /\ parent \in Traced \cup Over => \A d \in Concurrent : images[d] \in {NoOne, Id}
    /\ parent \in Idle \cup {"bench"} => \A d \in Concurrent : images[d] = NoOne
    /\ child = "zombie" /\ parent # "bench" => left = LeftNow
    /\ parent \in Over => left = LeftNow
    /\ parent = "finished" => images[DISK_NAME] = NoOne

\* Nothing is kept before Keep, and then what was left.
KeptHeld ==
    /\ parent = "keep" => report.verdict # "PASS" /\ report.kept = {}
    /\ parent = "judged" /\ exits = "none" => report.kept = {}
    /\ parent \in {"clean", "judged"} =>
          /\ exits # "none" /\ report.verdict # "PASS" /\ keep_failed_disks =>
                report.kept = left
          /\ Id \in DOMAIN ConcDisks => \A k \in report.kept : k[2] = Id

\* Points are given after all samples, for a submission that the traces have passed.
ScoreHeld ==
    /\ parent = "bench" => complete
    /\ perf > 0 => /\ complete /\ ~perf_worker_failed /\ ~perfDisk /\ bench = "score"
                   /\ parent \in {"bench", "unlink", "finished"} /\ child # "benchmark"
                   /\ perf > 5 => baseline = "comparable"

IInv ==
    /\ PerfInv
    /\ HarnessTyped
    /\ ChildStands
    /\ OutputCounted
    /\ VerdictHeld
    /\ ImagesStand
    /\ KeptHeld
    /\ ScoreHeld

-----------------------------------------------------------------------------
(* The steps *)

LEMMA MinOf ==
  ASSUME NEW a \in Nat, NEW b \in Nat
  PROVE  Min({a, b}) = IF a <= b THEN a ELSE b
BY DEF Min

\* capture_append keeps what there is room for.
LEMMA CaptureAppendIs ==
  ASSUME captured \in Nat, NEW n \in Nat
  PROVE  capture_append(n) = IF captured + n <= TRACE_CAPTURE_LIMIT THEN captured + n
                             ELSE TRACE_CAPTURE_LIMIT
BY HarnessAssumption, MinOf DEF capture_append

LEMMA SameTrace ==
  ASSUME UNCHANGED mainVars
  PROVE  Id' = Id
BY DEF mainVars, flags, Id, Plan

LEMMA SameLeft ==
  ASSUME UNCHANGED mainVars, UNCHANGED images
  PROVE  LeftNow' = LeftNow
BY DEF mainVars, flags, LeftNow, Present, Candidates, Concurrent, Id, Plan

LEMMA SameComplete ==
  ASSUME UNCHANGED mainVars, UNCHANGED tsan
  PROVE  complete' <=> complete
BY DEF mainVars, flags, complete, correctness, AllPassed, Spoiled, Plan

LEMMA SamePerf ==
  ASSUME PerfInv, UNCHANGED perfVars
  PROVE  PerfInv'
BY DEF perfVars, PerfInv, PerfTyped, PerfStands

LEMMA NothingReported == NoReport.verdict = "none" /\ NoReport.kept = {}
BY DEF NoReport

\* cleanup_concurrency_disks leaves none of the concurrent images.
LEMMA Cleaned ==
  ASSUME cleanup_concurrency_disks
  PROVE  DOMAIN images' = Images /\ \A d \in Concurrent : images'[d] = NoOne
BY DEF cleanup_concurrency_disks, Images

USE HarnessAssumption
USE DEF IInv, HarnessTyped, ChildStands, Traced, Over, Idle, mainVars, flags, childVars,
        perfResult, sweepVars

\* A trace starts, or fails to.
LEMMA StartKeepsInv ==
  ASSUME IInv, Start
  PROVE  IInv'
<1>1. Id' = Id BY SameTrace DEF Start
<1>2. PerfInv' BY SamePerf DEF Start
<1>3. HarnessTyped' BY DEF Start, NoReport
<1>4. ChildStands' BY DEF Start, NoReport
<1>5. OutputCounted' BY DEF Start, NoReport, OutputCounted
<1>6. VerdictHeld' BY DEF Start, NoReport, VerdictHeld
<1>7. ImagesStand' BY <1>1 DEF Start, NoReport, ImagesStand
<1>8. KeptHeld' BY <1>1 DEF Start, NoReport, KeptHeld
<1>9. ScoreHeld' BY DEF Start, NoReport, ScoreHeld
<1> QED BY <1>2, <1>3, <1>4, <1>5, <1>6, <1>7, <1>8, <1>9

\* Drain moves output from the pipe to the capture.
LEMMA DrainKeepsInv ==
  ASSUME IInv, Drain
  PROVE  IInv'
<1>1. Id' = Id BY SameTrace DEF Drain
<1>2. LeftNow' = LeftNow BY SameLeft DEF Drain
<1>3. complete' <=> complete BY SameComplete DEF Drain
<1>4. capture_append(1) = IF captured + 1 <= TRACE_CAPTURE_LIMIT THEN captured + 1
                         ELSE TRACE_CAPTURE_LIMIT
  BY CaptureAppendIs
<1>5. PerfInv' BY SamePerf DEF Drain
<1>6. HarnessTyped' BY <1>4 DEF Drain
<1>7. ChildStands' BY DEF Drain
<1>8. OutputCounted' BY <1>4 DEF Drain, OutputCounted
<1>9. VerdictHeld' BY <1>4 DEF Drain, VerdictHeld
<1>10. ImagesStand' BY <1>1, <1>2 DEF Drain, ImagesStand
<1>11. KeptHeld' BY <1>1, <1>2 DEF Drain, KeptHeld
<1>12. ScoreHeld' BY <1>3 DEF Drain, ScoreHeld
<1> QED BY <1>5, <1>6, <1>7, <1>8, <1>9, <1>10, <1>11, <1>12

\* The parent reaps a child that has ended.
LEMMA WaitKeepsInv ==
  ASSUME IInv, Wait
  PROVE  IInv'
<1>1. Id' = Id BY SameTrace DEF Wait
<1>2. LeftNow' = LeftNow BY SameLeft DEF Wait
<1>3. complete' <=> complete BY SameComplete DEF Wait
<1>4. PerfInv' BY SamePerf DEF Wait
<1>5. HarnessTyped' BY DEF Wait
<1>6. ChildStands' BY DEF Wait
<1>7. OutputCounted' BY DEF Wait, OutputCounted
<1>8. VerdictHeld' BY NothingReported DEF Wait, VerdictHeld
<1>9. ImagesStand' BY <1>1, <1>2 DEF Wait, ImagesStand
<1>10. KeptHeld' BY <1>1, <1>2 DEF Wait, KeptHeld
<1>11. ScoreHeld' BY <1>3 DEF Wait, ScoreHeld
<1> QED BY <1>4, <1>5, <1>6, <1>7, <1>8, <1>9, <1>10, <1>11

\* The parent looks at its clock.
LEMMA ReadClockKeepsInv ==
  ASSUME IInv, ReadClock
  PROVE  IInv'
<1>1. Id' = Id BY SameTrace DEF ReadClock
<1>2. LeftNow' = LeftNow BY SameLeft DEF ReadClock
<1>3. complete' <=> complete BY SameComplete DEF ReadClock
<1>4. PerfInv' BY SamePerf DEF ReadClock
<1>5. HarnessTyped' BY DEF ReadClock
<1>6. ChildStands' BY DEF ReadClock
<1>7. OutputCounted' BY DEF ReadClock, OutputCounted
<1>8. VerdictHeld' BY DEF ReadClock, VerdictHeld
<1>9. ImagesStand' BY <1>1, <1>2 DEF ReadClock, ImagesStand
<1>10. KeptHeld' BY <1>1, <1>2 DEF ReadClock, KeptHeld
<1>11. ScoreHeld' BY <1>3 DEF ReadClock, ScoreHeld
<1> QED BY <1>4, <1>5, <1>6, <1>7, <1>8, <1>9, <1>10, <1>11

\* The parent waits in poll.
LEMMA SleepKeepsInv ==
  ASSUME IInv, Sleep
  PROVE  IInv'
<1>1. Id' = Id BY SameTrace DEF Sleep
<1>2. LeftNow' = LeftNow BY SameLeft DEF Sleep
<1>3. complete' <=> complete BY SameComplete DEF Sleep
<1>4. PerfInv' BY SamePerf DEF Sleep
<1>5. HarnessTyped' BY DEF Sleep
<1>6. ChildStands' BY DEF Sleep
<1>7. OutputCounted' BY DEF Sleep, OutputCounted
<1>8. VerdictHeld' BY DEF Sleep, VerdictHeld
<1>9. ImagesStand' BY <1>1, <1>2 DEF Sleep, ImagesStand
<1>10. KeptHeld' BY <1>1, <1>2 DEF Sleep, KeptHeld
<1>11. ScoreHeld' BY <1>3 DEF Sleep, ScoreHeld
<1> QED BY <1>4, <1>5, <1>6, <1>7, <1>8, <1>9, <1>10, <1>11

\* Time passes while a trace runs.
LEMMA TickKeepsInv ==
  ASSUME IInv, Tick
  PROVE  IInv'
<1>1. Id' = Id BY SameTrace DEF Tick
<1>2. LeftNow' = LeftNow BY SameLeft DEF Tick
<1>3. complete' <=> complete BY SameComplete DEF Tick
<1>4. PerfInv' BY SamePerf DEF Tick
<1>5. HarnessTyped' BY DEF Tick
<1>6. ChildStands' BY DEF Tick
<1>7. OutputCounted' BY DEF Tick, OutputCounted
<1>8. VerdictHeld' BY DEF Tick, VerdictHeld
<1>9. ImagesStand' BY <1>1, <1>2 DEF Tick, ImagesStand
<1>10. KeptHeld' BY <1>1, <1>2 DEF Tick, KeptHeld
<1>11. ScoreHeld' BY <1>3 DEF Tick, ScoreHeld
<1> QED BY <1>4, <1>5, <1>6, <1>7, <1>8, <1>9, <1>10, <1>11

\* The parent kills the child, and gives its verdict.
LEMMA KillKeepsInv ==
  ASSUME IInv, Kill
  PROVE  IInv'
<1>1. Id' = Id BY SameTrace DEF Kill
<1>2. LeftNow' = LeftNow BY SameLeft DEF Kill
<1>3. complete' <=> complete BY SameComplete DEF Kill
<1>4. Present(Candidates(Id)) = LeftNow BY DEF LeftNow
<1>5. PerfInv' BY SamePerf DEF Kill
<1>6. HarnessTyped' BY DEF Kill
<1>7. ChildStands' BY DEF Kill
<1>8. OutputCounted' BY DEF Kill, OutputCounted
<1>9. VerdictHeld'
  <2>1. report'.verdict = "TIMEOUT" BY DEF Kill
  <2> QED BY <2>1 DEF Kill, OutputCounted, VerdictHeld
<1>10. ImagesStand' BY <1>1, <1>2, <1>4 DEF Kill, ImagesStand
<1>11. KeptHeld'
  <2>1. report = NoReport BY DEF Kill, VerdictHeld
  <2>2. report'.kept = {} BY <2>1, NothingReported DEF Kill
  <2> QED BY <1>1, <2>1, <2>2, NothingReported DEF Kill, KeptHeld, VerdictHeld
<1>12. ScoreHeld' BY <1>3 DEF Kill, ScoreHeld
<1> QED BY <1>5, <1>6, <1>7, <1>8, <1>9, <1>10, <1>11, <1>12

\* The parent reads what is left in the pipe, and gives its verdict.
LEMMA FinalDrainKeepsInv ==
  ASSUME IInv, FinalDrain
  PROVE  IInv'
<1>1. Id' = Id BY SameTrace DEF FinalDrain
<1>2. LeftNow' = LeftNow BY SameLeft DEF FinalDrain
<1>3. complete' <=> complete BY SameComplete DEF FinalDrain
<1>4. capture_append(pipe) = IF captured + pipe <= TRACE_CAPTURE_LIMIT THEN captured + pipe
                            ELSE TRACE_CAPTURE_LIMIT
  BY CaptureAppendIs
<1>5. PerfInv' BY SamePerf DEF FinalDrain
<1>6. HarnessTyped' BY <1>4 DEF FinalDrain
<1>7. ChildStands' BY DEF FinalDrain
<1>8. OutputCounted' BY <1>4 DEF FinalDrain, OutputCounted
<1>9. VerdictHeld' BY <1>4 DEF FinalDrain, VerdictHeld
<1>10. ImagesStand' BY <1>1, <1>2 DEF FinalDrain, ImagesStand
<1>11. KeptHeld'
  <2>1. report = NoReport BY DEF FinalDrain, VerdictHeld
  <2>2. report'.kept = {} BY <2>1, NothingReported DEF FinalDrain
  <2> QED BY <1>1, <2>1, <2>2, NothingReported DEF FinalDrain, KeptHeld, VerdictHeld
<1>12. ScoreHeld' BY <1>3 DEF FinalDrain, ScoreHeld
<1> QED BY <1>5, <1>6, <1>7, <1>8, <1>9, <1>10, <1>11, <1>12

\* The parent keeps the images that the child left.
LEMMA KeepKeepsInv ==
  ASSUME IInv, Keep
  PROVE  IInv'
<1>1. Id' = Id BY SameTrace DEF Keep
<1>2. LeftNow' = LeftNow BY SameLeft DEF Keep
<1>3. complete' <=> complete BY SameComplete DEF Keep
<1>4. PerfInv' BY SamePerf DEF Keep
<1>5. HarnessTyped' BY DEF Keep
<1>6. ChildStands' BY DEF Keep
<1>7. OutputCounted' BY DEF Keep, OutputCounted
<1>8. VerdictHeld' BY DEF Keep, VerdictHeld
<1>9. ImagesStand' BY <1>1, <1>2 DEF Keep, ImagesStand
<1>10. KeptHeld'
  <2>1. report'.kept = IF keep_failed_disks THEN LeftNow ELSE {}
    BY DEF Keep, LeftNow
  <2>2. Id \in DOMAIN ConcDisks => \A k \in LeftNow : k[2] = Id
    BY DEF Keep, ImagesStand, LeftNow, Present, Candidates
  <2>3. left = LeftNow BY DEF Keep, ImagesStand
  <2> QED BY <1>1, <2>1, <2>2, <2>3 DEF Keep, KeptHeld
<1>11. ScoreHeld' BY <1>3 DEF Keep, ScoreHeld
<1> QED BY <1>4, <1>5, <1>6, <1>7, <1>8, <1>9, <1>10, <1>11

\* The concurrent images are cleaned away.
LEMMA CleanKeepsInv ==
  ASSUME IInv, Clean
  PROVE  IInv'
<1>1. Id' = Id BY SameTrace DEF Clean
<1>2. complete' <=> complete BY SameComplete DEF Clean
<1>3. capture_append(pipe) = IF captured + pipe <= TRACE_CAPTURE_LIMIT THEN captured + pipe
                            ELSE TRACE_CAPTURE_LIMIT
  BY CaptureAppendIs
<1>4. PerfInv' BY SamePerf DEF Clean
<1>5. HarnessTyped'
  <2>1. captured' \in Nat /\ pipe' \in Nat BY <1>3 DEF Clean
  <2>2. report' = [verdict |-> report'.verdict, said |-> report'.said, kept |-> report'.kept]
    BY DEF Clean
  <2> QED BY <2>1, <2>2, Cleaned DEF Clean
<1>6. ChildStands' BY DEF Clean
<1>7. OutputCounted' BY <1>3 DEF Clean, OutputCounted
<1>8. VerdictHeld'
  <2>1. captured' = written /\ pipe' = 0 BY <1>3 DEF Clean, OutputCounted
  <2>2. report'.verdict = report.verdict /\ exits' = exits /\ elapsed' = elapsed BY DEF Clean
  <2>3. captured' < TRACE_CAPTURE_LIMIT =>
          /\ report.verdict = "TIMEOUT" => report'.said = {"TIMEOUT"}
          /\ report.verdict = "FAIL" /\ exits = "signal" => report'.said = {"CRASH"}
    BY DEF Clean, Appended
  <2>4. parent = "clean" /\ parent' = "judged" /\ written' = written BY DEF Clean
  <2> QED BY <2>1, <2>2, <2>3, <2>4 DEF VerdictHeld
<1>9. ImagesStand' BY Cleaned DEF Clean, ImagesStand
<1>10. KeptHeld' BY <1>1 DEF Clean, KeptHeld
<1>11. ScoreHeld' BY <1>2 DEF Clean, ScoreHeld
<1> QED BY <1>4, <1>5, <1>6, <1>7, <1>8, <1>9, <1>10, <1>11

\* The trace is counted.
LEMMA CountKeepsInv ==
  ASSUME IInv, Count
  PROVE  IInv'
<1>1. PerfInv' BY SamePerf DEF Count
<1>2. HarnessTyped' BY DEF Count, NoReport, LastTrace
<1>3. ChildStands' BY DEF Count, NoReport, LastTrace
<1>4. OutputCounted' BY DEF Count, NoReport, LastTrace, OutputCounted
<1>5. VerdictHeld' BY DEF Count, NoReport, LastTrace, VerdictHeld
<1>6. ImagesStand' BY DEF Count, NoReport, LastTrace, ImagesStand
<1>7. KeptHeld' BY DEF Count, NoReport, LastTrace, KeptHeld
<1>8. ScoreHeld' BY DEF Count, NoReport, LastTrace, ScoreHeld
<1> QED BY <1>1, <1>2, <1>3, <1>4, <1>5, <1>6, <1>7, <1>8

\* The child writes to the pipe.
LEMMA ChildWritesKeepsInv ==
  ASSUME IInv, ChildWrites, ChildStep
  PROVE  IInv'
<1>1. Id' = Id BY SameTrace DEF ChildWrites, ChildStep
<1>2. LeftNow' = LeftNow BY SameLeft DEF ChildWrites, ChildStep
<1>3. complete' <=> complete BY SameComplete DEF ChildWrites, ChildStep
<1>4. written' = IF written + 1 <= TRACE_CAPTURE_LIMIT THEN written + 1
                ELSE TRACE_CAPTURE_LIMIT
  BY written + 1 \in Nat, MinOf DEF ChildWrites
<1>5. PerfInv' BY SamePerf DEF ChildWrites, ChildStep
<1>6. HarnessTyped' BY <1>4 DEF ChildWrites, ChildStep
<1>7. ChildStands' BY DEF ChildWrites, ChildStep
<1>8. OutputCounted' BY <1>4 DEF ChildWrites, ChildStep, OutputCounted
<1>9. VerdictHeld' BY <1>4 DEF ChildWrites, ChildStep, VerdictHeld
<1>10. ImagesStand' BY <1>1, <1>2 DEF ChildWrites, ChildStep, ImagesStand
<1>11. KeptHeld' BY <1>1, <1>2 DEF ChildWrites, ChildStep, KeptHeld
<1>12. ScoreHeld' BY <1>3 DEF ChildWrites, ChildStep, ScoreHeld
<1> QED BY <1>5, <1>6, <1>7, <1>8, <1>9, <1>10, <1>11, <1>12

\* The child makes or removes an image of its own.
LEMMA ChildImagesKeepsInv ==
  ASSUME IInv, ChildImages, ChildStep
  PROVE  IInv'
<1>1. Id' = Id BY SameTrace DEF ChildImages, ChildStep
<1>2. complete' <=> complete BY SameComplete DEF ChildImages, ChildStep
<1>3. PerfInv' BY SamePerf DEF ChildImages, ChildStep
<1>4. HarnessTyped' BY DEF ChildImages, ChildStep
<1>5. ChildStands' BY DEF ChildImages, ChildStep
<1>6. OutputCounted' BY DEF ChildImages, ChildStep, OutputCounted
<1>7. VerdictHeld' BY DEF ChildImages, ChildStep, VerdictHeld
<1>8. ImagesStand'
  <2>1. PICK i \in ImagesOf(Id) : \/ images' = [images EXCEPT ![i] = Id]
                               \/ images' = [images EXCEPT ![i] = NoOne]
    BY DEF ChildImages
  <2>2. Concurrent \subseteq DOMAIN images BY DEF Images
  <2>3. \A d \in Concurrent : images[d] \in {NoOne, Id}
    BY DEF ChildImages, ImagesStand
  <2>4. \A d \in Concurrent : images'[d] \in {NoOne, Id} BY <2>1, <2>2, <2>3
  <2> QED BY <1>1, <2>4 DEF ChildImages, ChildStep, ImagesStand
<1>9. KeptHeld' BY <1>1 DEF ChildImages, ChildStep, KeptHeld
<1>10. ScoreHeld' BY <1>2 DEF ChildImages, ChildStep, ScoreHeld
<1> QED BY <1>3, <1>4, <1>5, <1>6, <1>7, <1>8, <1>9, <1>10

\* The child ends, and leaves the images there are.
LEMMA ChildEndsKeepsInv ==
  ASSUME IInv, ChildEnds, ChildStep
  PROVE  IInv'
<1>1. Id' = Id BY SameTrace DEF ChildEnds, ChildStep
<1>2. LeftNow' = LeftNow BY SameLeft DEF ChildEnds, ChildStep
<1>3. complete' <=> complete BY SameComplete DEF ChildEnds, ChildStep
<1>4. Present(Candidates(Id)) = LeftNow BY DEF LeftNow
<1>5. PerfInv' BY SamePerf DEF ChildEnds, ChildStep
<1>6. HarnessTyped' BY DEF ChildEnds, ChildStep
<1>7. ChildStands' BY DEF ChildEnds, ChildStep
<1>8. OutputCounted' BY DEF ChildEnds, ChildStep, OutputCounted
<1>9. VerdictHeld' BY DEF ChildEnds, ChildStep, VerdictHeld
<1>10. ImagesStand' BY <1>1, <1>2, <1>4 DEF ChildEnds, ChildStep, ImagesStand
<1>11. KeptHeld' BY <1>1, <1>2, <1>4 DEF ChildEnds, ChildStep, KeptHeld
<1>12. ScoreHeld' BY <1>3 DEF ChildEnds, ChildStep, ScoreHeld
<1> QED BY <1>5, <1>6, <1>7, <1>8, <1>9, <1>10, <1>11, <1>12

\* The sweep begins.
LEMMA CompileKeepsInv ==
  ASSUME IInv, Compile
  PROVE  IInv'
<1>1. Id' = Id BY SameTrace DEF Compile
<1>2. PerfInv' BY SamePerf DEF Compile
<1>3. HarnessTyped' BY DEF Compile, SweepGoesOn
<1>4. ChildStands' BY DEF Compile, SweepGoesOn
<1>5. OutputCounted' BY DEF Compile, SweepGoesOn, OutputCounted
<1>6. VerdictHeld' BY DEF Compile, SweepGoesOn, VerdictHeld
<1>7. ImagesStand' BY <1>1 DEF Compile, SweepGoesOn, ImagesStand
<1>8. KeptHeld' BY <1>1 DEF Compile, SweepGoesOn, KeptHeld
<1>9. ScoreHeld' BY DEF Compile, SweepGoesOn, ScoreHeld
<1> QED BY <1>2, <1>3, <1>4, <1>5, <1>6, <1>7, <1>8, <1>9

\* A run of the sweep.
LEMMA RunSeedKeepsInv ==
  ASSUME IInv, RunSeed
  PROVE  IInv'
<1>1. Id' = Id BY SameTrace DEF RunSeed
<1>2. \/ parent' = "seed" /\ images' = images
      \/ parent' = "perf" /\ cleanup_concurrency_disks
  BY DEF RunSeed, SweepEnds, SweepGoesOn
<1>3. PerfInv' BY SamePerf DEF RunSeed
<1>4. HarnessTyped' BY <1>2, Cleaned DEF RunSeed
<1>5. ChildStands' BY DEF RunSeed, SweepEnds, SweepGoesOn
<1>6. OutputCounted' BY DEF RunSeed, SweepEnds, SweepGoesOn, OutputCounted
<1>7. VerdictHeld' BY DEF RunSeed, SweepEnds, SweepGoesOn, VerdictHeld
<1>8. ImagesStand'
  <2>1. parent = "seed" /\ parent' \in {"seed", "perf"} /\ UNCHANGED <<child, left>>
    BY <1>2 DEF RunSeed
  <2> QED BY <1>2, <2>1, Cleaned DEF ImagesStand
<1>9. KeptHeld' BY <1>1 DEF RunSeed, SweepEnds, SweepGoesOn, KeptHeld
<1>10. ScoreHeld' BY DEF RunSeed, SweepEnds, SweepGoesOn, ScoreHeld
<1> QED BY <1>3, <1>4, <1>5, <1>6, <1>7, <1>8, <1>9, <1>10

\* The benchmark starts, is not asked for, or fails to start.
LEMMA StartBenchKeepsInv ==
  ASSUME IInv, StartBench
  PROVE  IInv'
<1>1. Id' = Id BY SameTrace DEF StartBench
<1>2. LeftNow' = LeftNow BY SameLeft DEF StartBench
<1>3. complete' <=> complete BY SameComplete DEF StartBench
<1>4. PerfInv' BY SamePerf DEF StartBench
<1>5. HarnessTyped' BY DEF StartBench
<1>6. ChildStands' BY DEF StartBench
<1>7. OutputCounted' BY DEF StartBench, OutputCounted
<1>8. VerdictHeld' BY DEF StartBench, VerdictHeld
<1>9. ImagesStand' BY <1>1, <1>2 DEF StartBench, ImagesStand
<1>10. KeptHeld' BY <1>1, <1>2 DEF StartBench, KeptHeld
<1>11. ScoreHeld' BY <1>3 DEF StartBench, ScoreHeld
<1> QED BY <1>4, <1>5, <1>6, <1>7, <1>8, <1>9, <1>10, <1>11

\* The benchmark takes a step.
LEMMA BenchWorksKeepsInv ==
  ASSUME IInv, BenchWorks
  PROVE  IInv'
<1>1. Id' = Id BY SameTrace DEF BenchWorks
<1>2. LeftNow' = LeftNow BY SameLeft DEF BenchWorks
<1>3. complete' <=> complete BY SameComplete DEF BenchWorks
<1>4. PerfInv' BY BenchStepKeepsInv DEF BenchWorks
<1>5. HarnessTyped' BY DEF BenchWorks, BenchRunning
<1>6. ChildStands' BY DEF BenchWorks, BenchRunning
<1>7. OutputCounted' BY DEF BenchWorks, BenchRunning, OutputCounted
<1>8. VerdictHeld' BY DEF BenchWorks, BenchRunning, VerdictHeld
<1>9. ImagesStand' BY <1>1, <1>2 DEF BenchWorks, BenchRunning, ImagesStand
<1>10. KeptHeld' BY <1>1, <1>2 DEF BenchWorks, BenchRunning, KeptHeld
<1>11. ScoreHeld' BY <1>3 DEF BenchWorks, BenchRunning, ScoreHeld
<1> QED BY <1>4, <1>5, <1>6, <1>7, <1>8, <1>9, <1>10, <1>11

\* The benchmark scores, or crashes.
LEMMA BenchEndsKeepsInv ==
  ASSUME IInv, BenchEnds
  PROVE  IInv'
<1>1. Id' = Id BY SameTrace DEF BenchEnds
<1>2. LeftNow' = LeftNow BY SameLeft DEF BenchEnds
<1>3. complete' <=> complete BY SameComplete DEF BenchEnds
<1>4. /\ perf' \in Nat
      /\ perf' > 0 => bench = "score" /\ ~perf_worker_failed
      /\ perf' > 5 => baseline' = "comparable"
  BY DEF BenchEnds, Scores, score_perf_against_baseline, Baselines
<1>5. PerfInv' BY SamePerf DEF BenchEnds
<1>6. HarnessTyped' BY <1>4 DEF BenchEnds, BenchRunning
<1>7. ChildStands' BY DEF BenchEnds, BenchRunning
<1>8. OutputCounted' BY DEF BenchEnds, BenchRunning, OutputCounted
<1>9. VerdictHeld' BY DEF BenchEnds, BenchRunning, VerdictHeld
<1>10. ImagesStand' BY <1>1, <1>2 DEF BenchEnds, BenchRunning, ImagesStand
<1>11. KeptHeld' BY <1>1, <1>2 DEF BenchEnds, BenchRunning, KeptHeld
<1>12. ScoreHeld'
  BY <1>3, <1>4 DEF BenchEnds, BenchRunning, PerfInv, PerfStands,
    perfVars, ScoreHeld
<1> QED BY <1>5, <1>6, <1>7, <1>8, <1>9, <1>10, <1>11, <1>12

\* The parent waits for the benchmark, and kills it when its budget is spent.
LEMMA WaitBenchKeepsInv ==
  ASSUME IInv, WaitBench
  PROVE  IInv'
<1>1. Id' = Id BY SameTrace DEF WaitBench
<1>2. LeftNow' = LeftNow BY SameLeft DEF WaitBench
<1>3. complete' <=> complete BY SameComplete DEF WaitBench
<1>4. PerfInv'
  <2>1. perfDisk' = perfDisk \/ perfDisk' = FALSE BY DEF WaitBench
  <2>2. UNCHANGED <<perf_start, gate, bench, worker, perf_worker_failed, sample, timed>>
    BY DEF WaitBench
  <2>3. CASE perfDisk' = perfDisk BY <2>2, <2>3, SamePerf DEF perfVars
  <2>4. CASE perfDisk' = FALSE BY <2>2, <2>4 DEF PerfInv, PerfTyped, PerfStands
  <2> QED BY <2>1, <2>3, <2>4
<1>5. HarnessTyped' BY DEF WaitBench
<1>6. ChildStands' BY DEF WaitBench
<1>7. OutputCounted' BY DEF WaitBench, OutputCounted
<1>8. VerdictHeld' BY DEF WaitBench, VerdictHeld
<1>9. ImagesStand' BY <1>1, <1>2 DEF WaitBench, ImagesStand
<1>10. KeptHeld' BY <1>1, <1>2 DEF WaitBench, KeptHeld
<1>11. ScoreHeld' BY <1>3 DEF WaitBench, ScoreHeld
<1> QED BY <1>4, <1>5, <1>6, <1>7, <1>8, <1>9, <1>10, <1>11

\* The last image goes.
LEMMA FinishKeepsInv ==
  ASSUME IInv, Finish
  PROVE  IInv'
<1>1. Id' = Id BY SameTrace DEF Finish
<1>2. complete' <=> complete BY SameComplete DEF Finish
<1>3. PerfInv' BY SamePerf DEF Finish
<1>4. HarnessTyped' BY DEF Finish
<1>5. ChildStands' BY DEF Finish
<1>6. OutputCounted' BY DEF Finish, OutputCounted
<1>7. VerdictHeld' BY DEF Finish, VerdictHeld
<1>8. ImagesStand'
  <2>1. images' = [images EXCEPT ![DISK_NAME] = NoOne] /\ DISK_NAME \in Images
    BY DEF Finish, Images
  <2>2. \A d \in Concurrent : images[d] = NoOne BY DEF Finish, ImagesStand
  <2>3. images'[DISK_NAME] = NoOne /\ \A d \in Concurrent : images'[d] = NoOne
    BY <2>1, <2>2 DEF Images
  <2> QED BY <2>3 DEF Finish, ImagesStand
<1>9. KeptHeld' BY <1>1 DEF Finish, KeptHeld
<1>10. ScoreHeld' BY <1>2 DEF Finish, perfVars, ScoreHeld
<1> QED BY <1>3, <1>4, <1>5, <1>6, <1>7, <1>8, <1>9, <1>10

LEMMA StutteringKeepsInv ==
  ASSUME IInv, UNCHANGED harnessVars
  PROVE  IInv'
<1> USE DEF harnessVars
<1>1. Id' = Id BY SameTrace
<1>2. LeftNow' = LeftNow BY SameLeft
<1>3. complete' <=> complete BY SameComplete
<1>4. PerfInv' BY SamePerf
<1>5. HarnessTyped' OBVIOUS
<1>6. ChildStands' OBVIOUS
<1>7. OutputCounted' BY DEF OutputCounted
<1>8. VerdictHeld' BY DEF VerdictHeld
<1>9. ImagesStand' BY <1>1, <1>2 DEF ImagesStand
<1>10. KeptHeld' BY <1>1 DEF KeptHeld
<1>11. ScoreHeld' BY <1>3 DEF perfVars, ScoreHeld
<1> QED BY <1>4, <1>5, <1>6, <1>7, <1>8, <1>9, <1>10, <1>11

\* HarnessInit: no child, no image, nothing read or written.
LEMMA InvariantInit ==
  ASSUME HarnessInit
  PROVE  IInv
<1> USE DEF HarnessInit
<1>1. PerfInv BY PerfInitially
<1>2. HarnessTyped BY NothingReported DEF NoReport
<1>3. ChildStands OBVIOUS
<1>4. OutputCounted BY DEF OutputCounted
<1>5. VerdictHeld BY NothingReported DEF VerdictHeld
<1>6. ImagesStand BY DEF Images, ImagesStand
<1>7. KeptHeld BY NothingReported DEF KeptHeld
<1>8. ScoreHeld BY DEF ScoreHeld
<1> QED BY <1>1, <1>2, <1>3, <1>4, <1>5, <1>6, <1>7, <1>8

HIDE HarnessAssumption
HIDE DEF IInv, HarnessTyped, ChildStands, Traced, Over, Idle, mainVars, flags, childVars,
         perfResult, sweepVars

LEMMA InvariantNext ==
  ASSUME IInv, [HarnessNext]_harnessVars
  PROVE  IInv'
<1>1. CASE ParentStep
  BY <1>1, StartKeepsInv, DrainKeepsInv, WaitKeepsInv, ReadClockKeepsInv, SleepKeepsInv,
     KillKeepsInv, FinalDrainKeepsInv, KeepKeepsInv, CleanKeepsInv, CountKeepsInv,
     CompileKeepsInv, RunSeedKeepsInv, StartBenchKeepsInv, WaitBenchKeepsInv, FinishKeepsInv
     DEF ParentStep
<1>2. CASE ChildStep
  BY <1>2, ChildWritesKeepsInv, ChildImagesKeepsInv, ChildEndsKeepsInv DEF ChildStep
<1>3. CASE UNCHANGED harnessVars BY <1>3, StutteringKeepsInv
<1> QED BY <1>1, <1>2, <1>3, TickKeepsInv, BenchWorksKeepsInv, BenchEndsKeepsInv
           DEF HarnessNext

\* The grader keeps the invariant, however its steps, its clock and its children
\* interleave.
THEOREM HarnessInvariant == HarnessSpec => []IInv
BY InvariantInit, InvariantNext, PTL DEF HarnessSpec

\* run_trace_with_timeout, run_perf_benchmark: a trace passes only if its process exited 0
\* in time, the capture holds what it wrote and the reason of its failure, it is gone
\* before it is counted, and points are given only for right results in every sample.
THEOREM VerdictsTrueCorrect == HarnessSpec => []VerdictsTrue
<1>1. ASSUME IInv PROVE VerdictsTrue
  <2>1. parent = "judged" /\ exits # "none" =>
          /\ report.verdict = "PASS" => exits = "0"
          /\ report.verdict = "FAIL" => exits # "0"
          /\ report.verdict = "TIMEOUT" => elapsed = TRACE_TIMEOUT
          /\ captured = written /\ pipe = 0
          /\ captured < TRACE_CAPTURE_LIMIT =>
               /\ report.verdict = "TIMEOUT" => report.said = {"TIMEOUT"}
               /\ report.verdict = "FAIL" /\ exits = "signal" => report.said = {"CRASH"}
    BY <1>1 DEF IInv, VerdictHeld
  <2>2. parent \in {"judged", "start", "unlink"} => child = "none"
    BY <1>1 DEF IInv, ChildStands, Idle
  <2>3. \A w \in PERF_THREADS : worker[w] \in {"calls", "ended"} => timed
    BY <1>1 DEF IInv, PerfInv, PerfTyped, PerfStands
  <2>4. perf > 0 => /\ complete /\ ~perf_worker_failed /\ sample = PERF_SAMPLE_RUNS
                    /\ perf > 5 => baseline = "comparable"
    BY <1>1 DEF IInv, ScoreHeld, PerfInv, PerfStands
  <2> QED BY <2>1, <2>2, <2>3, <2>4 DEF VerdictsTrue
<1> QED BY <1>1, HarnessInvariant, PTL

\* keep_failure_images, cleanup_concurrency_disks: the images kept are those that the
\* failed trace left, never another trace's; no image outlives its trace or the grader.
THEOREM KeptAndCleanedCorrect == HarnessSpec => []KeptAndCleaned
<1>1. ASSUME IInv PROVE KeptAndCleaned
  <2>1. parent = "judged" =>
          /\ exits # "none" /\ report.verdict # "PASS" /\ keep_failed_disks
               => report.kept = left
          /\ Id \in DOMAIN ConcDisks => \A k \in report.kept : k[2] = Id
    BY <1>1 DEF IInv, KeptHeld
  <2>2. parent \in {"judged", "finished"} => Present(Concurrent) = {}
    BY <1>1 DEF IInv, ImagesStand, Idle, Present
  <2>3. parent = "finished" => Present(Images) = {}
    BY <1>1, <2>2 DEF IInv, ImagesStand, Images, Present
  <2>4. perfDisk => perf = 0
    BY <1>1 DEF IInv, HarnessTyped, ScoreHeld
  <2> QED BY <2>1, <2>2, <2>3, <2>4 DEF KeptAndCleaned
<1> QED BY <1>1, HarnessInvariant, PTL

=============================================================================
