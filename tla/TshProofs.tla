------------------------------ MODULE TshProofs ------------------------------
(***************************************************************************)
(* The safety of the shell for any number of processes, job slots and      *)
(* command lines, and handlers nested to any depth.                        *)
(*                                                                         *)
(* The inductive invariant adds to the properties proved that SIGCHLD      *)
(* stays blocked from before fork until the child is in the list (Blocked),*)
(* that a new child is alive and no job yet (NewChild), and that the main  *)
(* loop attends to every job in the foreground (Foreground).               *)
(***************************************************************************)
EXTENDS Tsh, NaturalSets, SequenceTheorems

-----------------------------------------------------------------------------
(* The inductive invariant *)

Places == {"prompt", "fork", "block", "add", "wait", "suspend", "asleep", "unblock", "set",
           "continue", "crashed", "exited"}

Job == [pid : Pids \cup {0}, jid : Nat, state : {"UNDEF", "FG", "BG", "ST"}]

Main == [pc : Places, verb : {"none", "run", "run &", "bg", "fg"}, pid : Pids \cup {0},
         job : JobSlots \cup {0}, saved : SUBSET Signals, woken : BOOLEAN]

Frame == [sig : Signals, pc : {"begin", "update", "kill"}, pid : Pids \cup {0},
          stopped : BOOLEAN, saved : SUBSET Signals]

JobsOK == jobs \in [JobSlots -> Job] /\ nextjid \in Nat

ProcOK ==
    /\ proc \in [Pids -> {"none", "running", "stopped", "zombie"}]
    /\ grouped \in SUBSET Pids
    /\ unreported \in SUBSET Pids

SignalsOK == pending \in SUBSET Signals /\ mask \in SUBSET Signals

MainOK == main \in Main /\ (main.pc \in {"set", "continue"} => main.job \in JobSlots)

HandlersOK == handlers \in Seq(Frame)

TypeOK == JobsOK /\ ProcOK /\ SignalsOK /\ MainOK /\ HandlersOK

\* From before fork to addjob SIGCHLD is blocked, by the main loop and by every handler
\* that has interrupted it, and by the masks that they will restore.
Blocked ==
    main.pc \in {"fork", "block", "add"} =>
        /\ "CHLD" \in mask
        /\ \A k \in DOMAIN handlers :
              handlers[k].sig # "CHLD" /\ "CHLD" \in handlers[k].saved

\* The child that fork has returned is alive, or a zombie, and no job yet.
NewChild ==
    main.pc \in {"block", "add"} /\ main.pid # 0 =>
        /\ proc[main.pid] # "none"
        /\ \A i \in JobSlots : jobs[i].pid # main.pid

\* The shell waits for the job in slot i, is about to, or has ended.
Attended(i) ==
    \/ main.pc \in {"wait", "suspend", "asleep"} /\ main.pid = jobs[i].pid
    \/ main.pc = "continue" /\ main.verb = "fg" /\ main.job = i
    \/ main.pc \in {"crashed", "exited"}

Foreground == \A i \in JobSlots : jobs[i].state = "FG" /\ jobs[i].pid # 0 => Attended(i)

IInv ==
    /\ TypeOK
    /\ Blocked
    /\ NewChild
    /\ JobsAreChildren
    /\ Foreground
    /\ KeyboardSparesBackground

-----------------------------------------------------------------------------
(* The stack of handlers *)

\* A handler that is called goes on top.
LEMMA Pushed ==
  ASSUME NEW h \in Seq(Frame), NEW f \in Frame
  PROVE  /\ Append(h, f) \in Seq(Frame)
         /\ \A k \in DOMAIN Append(h, f) :
              (k \in DOMAIN h /\ Append(h, f)[k] = h[k]) \/ Append(h, f)[k] = f
         /\ \A k \in DOMAIN h : k \in DOMAIN Append(h, f) /\ Append(h, f)[k] = h[k]
<1>1. /\ Append(h, f) \in Seq(Frame) /\ Len(Append(h, f)) = Len(h) + 1
      /\ \A i \in 1 .. Len(h) : Append(h, f)[i] = h[i]
      /\ Append(h, f)[Len(h) + 1] = f
  BY AppendProperties
<1>2. Len(h) \in Nat /\ DOMAIN h = 1 .. Len(h) BY LenProperties
<1>3. DOMAIN Append(h, f) = 1 .. Len(h) + 1 BY <1>1, LenProperties
<1> QED BY <1>1, <1>2, <1>3

\* One that returns leaves the others.
LEMMA Popped ==
  ASSUME NEW h \in Seq(Frame), h # <<>>, NEW r, r = SubSeq(h, 1, Len(h) - 1)
  PROVE  /\ r \in Seq(Frame)
         /\ \A k \in DOMAIN r : k \in DOMAIN h /\ r[k] = h[k]
         /\ \A k \in DOMAIN h : k # Len(h) => k \in DOMAIN r /\ r[k] = h[k]
         /\ Len(h) \in DOMAIN h
<1>1. Len(h) \in Nat /\ DOMAIN h = 1 .. Len(h) /\ Len(h) # 0 BY LenProperties, EmptySeq
<1>2. \A i \in 1 .. Len(h) - 1 : h[i] \in Frame BY <1>1, ElementOfSeq
<1>3. /\ r \in Seq(Frame) /\ Len(r) = IF 1 <= Len(h) - 1 THEN Len(h) - 1 - 1 + 1 ELSE 0
      /\ \A i \in 1 .. Len(h) - 1 - 1 + 1 : r[i] = h[1 + i - 1]
  BY <1>1, <1>2, SubSeqProperties
<1>4. Len(r) = Len(h) - 1 BY <1>1, <1>3
<1>5. DOMAIN r = 1 .. Len(h) - 1 BY <1>3, <1>4, LenProperties
<1>6. \A i \in 1 .. Len(h) - 1 : r[i] = h[i] BY <1>1, <1>3
<1> QED BY <1>1, <1>3, <1>5, <1>6

\* One that goes on changes its own frame alone.
LEMMA Changed ==
  ASSUME NEW h \in Seq(Frame), h # <<>>, NEW f \in Frame,
         NEW r, r = [h EXCEPT ![Len(h)] = f]
  PROVE  /\ r \in Seq(Frame)
         /\ DOMAIN r = DOMAIN h
         /\ Len(h) \in DOMAIN h
         /\ r[Len(h)] = f
         /\ \A k \in DOMAIN h : k # Len(h) => r[k] = h[k]
<1>1. Len(h) \in Nat /\ DOMAIN h = 1 .. Len(h) /\ Len(h) # 0 /\ h \in [1 .. Len(h) -> Frame]
  BY LenProperties, EmptySeq
<1>2. r \in Seq(Frame) BY <1>1, ExceptSeq
<1> QED BY <1>1, <1>2

-----------------------------------------------------------------------------
(* The job list *)

\* No two jobs have one process.
Apart == \A i, j \in JobSlots : jobs[i].pid # 0 /\ jobs[i].pid = jobs[j].pid => i = j

\* JobsAreChildren says so.
LEMMA ChildrenApart == JobsAreChildren => Apart
BY DEF JobsAreChildren, Apart

\* What getjobpid finds is the job of that process, and it finds that job.
LEMMA JobFound ==
  ASSUME NEW p, NEW i \in getjobpid(p)
  PROVE  i \in JobSlots /\ p # 0 /\ jobs[i].pid = p
BY DEF getjobpid, First

LEMMA JobOf ==
  ASSUME Apart, NEW i \in JobSlots, jobs[i].pid # 0
  PROVE  getjobpid(jobs[i].pid) = {i}
<1>1. {j \in JobSlots : jobs[i].pid # 0 /\ jobs[j].pid = jobs[i].pid} = {i} BY DEF Apart
<1>2. i \in Int BY DEF JobSlots
<1> QED BY <1>1, <1>2 DEF getjobpid, First

\* The largest job id of a list, by induction over the slots looked at.
LEMMA LargestJid ==
  ASSUME NEW list \in [JobSlots -> Job]
  PROVE  maxjid(list) \in Nat
<1> DEFINE Ids(n) == {0} \cup {list[i].jid : i \in 1 .. n}
           HasLargest(n) == \E m \in Ids(n) : \A i \in 1 .. n : list[i].jid <= m
           S == {n \in Nat : n <= MAXJOBS => HasLargest(n)}
<1>1. MAXJOBS \in Nat /\ \A i \in 1 .. MAXJOBS : list[i].jid \in Nat
  BY TshAssumption DEF JobSlots, Job
<1>2. 0 \in S OBVIOUS
<1>3. \A n \in Nat : n \in S => n + 1 \in S
  <2> SUFFICES ASSUME NEW n \in Nat, n \in S, n + 1 <= MAXJOBS
               PROVE  HasLargest(n + 1)
    <3> HIDE DEF HasLargest
    <3> QED OBVIOUS
  <2>1. n \in Nat /\ n <= MAXJOBS BY <1>1
  <2>2. PICK m \in Ids(n) : \A i \in 1 .. n : list[i].jid <= m BY <2>1
  <2>3. m \in Nat /\ m \in Ids(n + 1) BY <1>1, <2>1
  <2>4. list[n + 1].jid \in Nat /\ list[n + 1].jid \in Ids(n + 1) BY <1>1, <2>1
  <2>5. \A i \in 1 .. n + 1 : i \in 1 .. n \/ i = n + 1 BY <2>1
  <2>6. \A i \in 1 .. n : list[i].jid \in Nat BY <1>1, <2>1
  <2> HIDE DEF Ids, S
  <2>7. CASE list[n + 1].jid <= m BY <2>2, <2>3, <2>5, <2>7
  <2>8. CASE ~ (list[n + 1].jid <= m)
    <3>1. \A i \in 1 .. n : list[i].jid <= list[n + 1].jid BY <2>2, <2>3, <2>4, <2>6, <2>8
    <3> QED BY <3>1, <2>4, <2>5
  <2> QED BY <2>7, <2>8
<1>4. MAXJOBS \in S
  <2> HIDE DEF S
  <2> QED BY <1>1, <1>2, <1>3, SetInduction
<1>7. HasLargest(MAXJOBS)
  <2> HIDE DEF HasLargest
  <2> QED BY <1>1, <1>4
<1>5. \E m \in {0} \cup {list[i].jid : i \in JobSlots} : \A i \in JobSlots : list[i].jid <= m
  BY <1>1, <1>7 DEF JobSlots
<1>6. maxjid(list) \in {0} \cup {list[i].jid : i \in JobSlots} BY <1>5 DEF maxjid
<1> QED BY <1>1, <1>6 DEF JobSlots

\* deletejob clears the job of the process, and no other.
LEMMA Deleted ==
  ASSUME JobsOK, Apart, NEW p, deletejob(p)
  PROVE  /\ JobsOK'
         /\ \A i \in JobSlots : IF p # 0 /\ jobs[i].pid = p THEN jobs'[i] = Cleared
                                                     ELSE jobs'[i] = jobs[i]
<1>1. CASE getjobpid(p) = {}
  <2>1. UNCHANGED jobVars BY <1>1 DEF deletejob
  <2>2. ASSUME NEW i \in JobSlots, p # 0, jobs[i].pid = p PROVE FALSE
    BY <1>1, <2>2, JobOf
  <2> QED BY <2>1, <2>2 DEF jobVars, JobsOK
<1>2. CASE getjobpid(p) # {}
  <2>1. PICK i \in getjobpid(p) : /\ jobs' = [jobs EXCEPT ![i] = Cleared]
                                  /\ nextjid' = maxjid(jobs') + 1
    BY <1>2 DEF deletejob
  <2>2. i \in JobSlots /\ p # 0 /\ jobs[i].pid = p BY JobFound
  <2>3. Cleared \in Job BY DEF Cleared, Job
  <2>4. jobs' \in [JobSlots -> Job] BY <2>1, <2>2, <2>3 DEF JobsOK
  <2>5. maxjid(jobs') \in Nat BY <2>4, LargestJid
  <2>6. JobsOK' BY <2>1, <2>4, <2>5 DEF JobsOK
  <2>7. \A j \in JobSlots : jobs'[j] = IF j = i THEN Cleared ELSE jobs[j]
    BY <2>1, <2>2 DEF JobsOK
  <2>8. \A j \in JobSlots : jobs[j].pid = p => j = i BY <2>2 DEF Apart
  <2> QED BY <2>2, <2>6, <2>7, <2>8
<1> QED BY <1>1, <1>2

-----------------------------------------------------------------------------
(* Steps of the processes and of the user *)

\* Nobody but waitpid removes a process.
LEMMA Killed ==
  ASSUME ProcOK, SignalsOK, NEW p, NEW sig, Kill(p, sig)
  PROVE  /\ ProcOK' /\ pending' \in SUBSET Signals
         /\ \A q \in Pids : proc[q] # "none" => proc'[q] # "none"
<1> DEFINE Sent(s) == p \in grouped /\ pending' = pending \cup {"CHLD"} /\ UNCHANGED grouped
                      /\ proc' = [proc EXCEPT ![p] = s]
                      /\ unreported' \in {unreported, unreported \cup {p}, unreported \ {p}}
<1>1. ASSUME NEW s \in {"zombie", "stopped", "running"}, Sent(s)
      PROVE  /\ ProcOK' /\ pending' \in SUBSET Signals
             /\ \A q \in Pids : proc[q] # "none" => proc'[q] # "none"
  <2>1. p \in Pids BY <1>1 DEF ProcOK
  <2>2. ProcOK' BY <1>1, <2>1 DEF ProcOK
  <2>3. \A q \in Pids : proc'[q] = IF q = p THEN s ELSE proc[q] BY <1>1, <2>1 DEF ProcOK
  <2>4. pending' \in SUBSET Signals BY <1>1 DEF SignalsOK, Signals
  <2> QED BY <2>2, <2>3, <2>4
<1>2. \/ Sent("zombie") \/ Sent("stopped") \/ Sent("running")
      \/ UNCHANGED <<procVars, pending>>
  BY DEF Kill, Dies, Stops
<1>3. CASE UNCHANGED <<procVars, pending>> BY <1>3 DEF procVars, ProcOK, SignalsOK
<1> QED
  <2> HIDE DEF Sent
  <2> QED BY <1>1, <1>2, <1>3

\* The invariant does not depend on what processes do while they are there, nor on
\* which signals are pending.
LEMMA OthersStep ==
  ASSUME IInv, UNCHANGED <<jobVars, mask, main, handlers>>, ProcOK', SignalsOK',
         \A q \in Pids : proc[q] # "none" => proc'[q] # "none"
  PROVE  IInv'
<1>1. /\ jobs' = jobs /\ nextjid' = nextjid /\ mask' = mask /\ main' = main
      /\ handlers' = handlers
  BY DEF jobVars
<1>2. TypeOK' BY <1>1 DEF IInv, TypeOK, JobsOK, MainOK, HandlersOK
<1>3. Blocked' BY <1>1 DEF IInv, Blocked
<1>4. NewChild' 
  <2>1. main.pid \in Pids \cup {0} BY DEF IInv, TypeOK, MainOK, Main
  <2> QED BY <1>1, <2>1 DEF IInv, NewChild
<1>5. JobsAreChildren'
  <2>1. Reaped' = Reaped BY <1>1 DEF Reaped
  <2>2. \A i \in JobSlots : jobs[i].pid \in Pids \cup {0} BY DEF IInv, TypeOK, JobsOK, Job
  <2> QED BY <1>1, <2>1, <2>2 DEF IInv, JobsAreChildren
<1>6. Foreground' BY <1>1 DEF IInv, Foreground, Attended
<1>7. KeyboardSparesBackground'
  BY <1>1 DEF IInv, KeyboardSparesBackground, getjobpid, First
<1> QED BY <1>2, <1>3, <1>4, <1>5, <1>6, <1>7 DEF IInv

LEMMA ProgramsStep ==
  ASSUME IInv, NEW p \in Pids, SetPgid(p) \/ Program(p)
  PROVE  IInv'
<1>1. ProcOK /\ SignalsOK BY DEF IInv, TypeOK
<1>2. /\ UNCHANGED <<jobVars, mask, main, handlers>>
      /\ ProcOK' /\ SignalsOK' /\ \A q \in Pids : proc[q] # "none" => proc'[q] # "none"
  <2>1. CASE SetPgid(p) BY <1>1, <2>1 DEF SetPgid, ProcOK, SignalsOK
  <2>2. CASE Program(p)
    BY <1>1, <2>2 DEF Program, Dies, Stops, ProcOK, SignalsOK, Signals
  <2> QED BY <2>1, <2>2
<1> QED BY <1>2, OthersStep

LEMMA KeyboardStep ==
  ASSUME IInv, NEW sig \in Keys, Keyboard(sig)
  PROVE  IInv'
<1>1. ProcOK /\ SignalsOK BY DEF IInv, TypeOK
<1>2. /\ UNCHANGED <<jobVars, mask, main, handlers>>
      /\ ProcOK' /\ SignalsOK' /\ \A q \in Pids : proc[q] # "none" => proc'[q] # "none"
  BY <1>1, TshAssumption DEF Keyboard, procVars, ProcOK, SignalsOK, Signals
<1> QED BY <1>2, OthersStep

LEMMA StutteringStep ==
  ASSUME IInv, UNCHANGED vars
  PROVE  IInv'
<1>1. ProcOK /\ SignalsOK BY DEF IInv, TypeOK
<1>2. /\ UNCHANGED <<jobVars, mask, main, handlers>>
      /\ ProcOK' /\ SignalsOK' /\ \A q \in Pids : proc[q] # "none" => proc'[q] # "none"
  BY <1>1 DEF vars, procVars, ProcOK, SignalsOK
<1> QED BY <1>2, OthersStep

-----------------------------------------------------------------------------
(* Steps of the main loop *)

\* While no handler runs, the jobs are children and no key is being passed on.
LEMMA NoHandler ==
  ASSUME TypeOK, handlers = <<>>
  PROVE  /\ DOMAIN handlers = {} /\ Reaped = {}
         /\ KeyboardSparesBackground
<1>1. DOMAIN handlers = {} OBVIOUS
<1> QED BY <1>1 DEF Reaped, KeyboardSparesBackground

LEMMA NoHandlerNext ==
  ASSUME handlers' = <<>>
  PROVE  /\ (DOMAIN handlers)' = {} /\ Reaped' = {}
         /\ KeyboardSparesBackground'
         /\ HandlersOK'
<1>1. (DOMAIN handlers)' = {} OBVIOUS
<1>2. HandlersOK' BY DEF HandlersOK
<1> QED BY <1>1, <1>2 DEF Reaped, KeyboardSparesBackground

\* Steps that leave jobs and processes alone.
LEMMA OnlyMainStep ==
  ASSUME IInv, handlers = <<>>, UNCHANGED <<jobVars, procVars, pending, handlers>>,
         MainOK', mask' \in SUBSET Signals, Foreground',
         main'.pc \in {"fork", "block", "add"} => "CHLD" \in mask',
         main'.pc \in {"block", "add"} => main.pc = "block" /\ main'.pid = main.pid
  PROVE  IInv'
<1>1. /\ jobs' = jobs /\ nextjid' = nextjid /\ proc' = proc /\ grouped' = grouped
      /\ unreported' = unreported /\ pending' = pending /\ handlers' = <<>>
  BY DEF jobVars, procVars
<1>2. TypeOK' BY <1>1, NoHandlerNext DEF IInv, TypeOK, JobsOK, ProcOK, SignalsOK
<1>3. Blocked' BY <1>1, NoHandlerNext DEF Blocked
<1>4. NewChild' BY <1>1 DEF IInv, NewChild
<1>5. JobsAreChildren'
  <2>1. Reaped' = Reaped BY <1>1 DEF Reaped
  <2> QED BY <1>1, <2>1 DEF IInv, JobsAreChildren
<1> QED BY <1>1, <1>2, <1>3, <1>4, <1>5, NoHandlerNext DEF IInv

\* No job is in the foreground while the main loop is elsewhere.
LEMMA NoForeground ==
  ASSUME Foreground, main.pc \notin {"wait", "suspend", "asleep", "continue", "crashed", "exited"}
  PROVE  \A i \in JobSlots : jobs[i].state = "FG" => jobs[i].pid = 0
BY DEF Foreground, Attended

LEMMA CommandStep ==
  ASSUME IInv, NEW line \in Lines, Command(line)
  PROVE  IInv'
<1>1. /\ main.pc = "prompt" /\ handlers = <<>> /\ main \in Main /\ mask \in SUBSET Signals
      /\ jobs' = jobs /\ UNCHANGED <<jobVars, procVars, pending, handlers>>
      /\ mask' = mask \cup {"CHLD"}
      /\ main' = [main EXCEPT !.pc = "fork",
                              !.verb = IF parseline(line).bg THEN "run &" ELSE "run"]
  BY DEF Command, At, IInv, TypeOK, MainOK, SignalsOK, jobVars
<1>2. main'.pc = "fork" /\ main' \in Main BY <1>1 DEF Main, Places
<1>3. MainOK' BY <1>2 DEF MainOK
<1>4. mask' \in SUBSET Signals /\ "CHLD" \in mask' BY <1>1 DEF Signals
<1>5. Foreground' BY <1>1, NoForeground DEF IInv, Foreground
<1> QED BY <1>1, <1>2, <1>3, <1>4, <1>5, OnlyMainStep

LEMMA BlockAllStep ==
  ASSUME IInv, BlockAll
  PROVE  IInv'
<1>1. /\ main.pc = "block" /\ handlers = <<>> /\ main \in Main
      /\ jobs' = jobs /\ UNCHANGED <<jobVars, procVars, pending, handlers>>
      /\ mask' = Signals /\ main' = [main EXCEPT !.pc = "add"]
  BY DEF BlockAll, Goto, At, IInv, TypeOK, MainOK, jobVars
<1>2. main'.pc = "add" /\ main'.pid = main.pid /\ main' \in Main BY <1>1 DEF Main, Places
<1>3. MainOK' BY <1>2 DEF MainOK
<1>4. mask' \in SUBSET Signals /\ "CHLD" \in mask' BY <1>1 DEF Signals
<1>5. Foreground' BY <1>1, NoForeground DEF IInv, Foreground
<1> QED BY <1>1, <1>2, <1>3, <1>4, <1>5, OnlyMainStep

\* The loop of waitfg: it ends when the job is not in the foreground any more.
LEMMA WaitTestStep ==
  ASSUME IInv, WaitTest
  PROVE  IInv'
<1>1. /\ main.pc = "wait" /\ handlers = <<>> /\ main \in Main /\ mask \in SUBSET Signals
      /\ jobs' = jobs /\ UNCHANGED <<jobVars, procVars, pending, handlers>> /\ mask' = mask
      /\ IF \E i \in getjobpid(main.pid) : jobs[i].state = "FG"
         THEN main' = [main EXCEPT !.pc = "suspend"]
         ELSE IF main.verb = "run" THEN main' = [main EXCEPT !.pc = "unblock"]
                                   ELSE main' = Prompt
  BY DEF WaitTest, Goto, At, IInv, TypeOK, MainOK, SignalsOK, jobVars
<1>2. Apart BY ChildrenApart DEF IInv
<1>3. ASSUME NEW i \in JobSlots, jobs[i].state = "FG", jobs[i].pid # 0
      PROVE  i \in getjobpid(main.pid) /\ jobs[i].pid = main.pid
  <2>1. jobs[i].pid = main.pid BY <1>1, <1>3 DEF IInv, Foreground, Attended
  <2> QED BY <2>1, <1>2, <1>3, JobOf
<1>4. CASE \E i \in getjobpid(main.pid) : jobs[i].state = "FG"
  <2>1. main'.pc = "suspend" /\ main'.pid = main.pid /\ main' \in Main
    BY <1>1, <1>4 DEF Main, Places
  <2>2. Foreground' BY <1>1, <1>3, <2>1 DEF Foreground, Attended
  <2>3. MainOK' BY <2>1 DEF MainOK
  <2> QED BY <1>1, <2>1, <2>2, <2>3, OnlyMainStep
<1>5. CASE ~ \E i \in getjobpid(main.pid) : jobs[i].state = "FG"
  <2>1. main'.pc \in {"unblock", "prompt"} /\ main' \in Main
    <3>1. main' = [main EXCEPT !.pc = "unblock"] \/ main' = Prompt BY <1>1, <1>5
    <3>2. CASE main' = Prompt BY <3>2 DEF Main, Places, Prompt
    <3>3. CASE main' = [main EXCEPT !.pc = "unblock"] BY <3>3, <1>1 DEF Main, Places
    <3> QED BY <3>1, <3>2, <3>3
  <2>2. Foreground' BY <1>1, <1>3, <1>5 DEF Foreground
  <2>3. MainOK' BY <2>1 DEF MainOK
  <2> QED BY <1>1, <2>1, <2>2, <2>3, OnlyMainStep
<1> QED BY <1>4, <1>5

LEMMA SleepStep ==
  ASSUME IInv, Suspend \/ Wake
  PROVE  IInv'
<1>1. /\ main.pc \in {"suspend", "asleep"} /\ handlers = <<>> /\ main \in Main
      /\ mask \in SUBSET Signals
      /\ jobs' = jobs /\ UNCHANGED <<jobVars, procVars, pending, handlers>>
      /\ mask' \in {mask, {}}
      /\ \/ main' = [main EXCEPT !.pc = "asleep", !.saved = mask]
         \/ main' = [main EXCEPT !.pc = "wait", !.saved = {}, !.woken = FALSE]
  BY DEF Suspend, Wake, At, IInv, TypeOK, MainOK, SignalsOK, jobVars
<1>2. main'.pc \in {"asleep", "wait"} /\ main'.pid = main.pid /\ main' \in Main
  BY <1>1 DEF Main, Places
<1>3. MainOK' BY <1>2 DEF MainOK
<1>4. mask' \in SUBSET Signals BY <1>1
<1>5. Foreground' BY <1>1, <1>2 DEF IInv, Foreground, Attended
<1> QED BY <1>1, <1>2, <1>3, <1>4, <1>5, OnlyMainStep

LEMMA UnblockStep ==
  ASSUME IInv, Unblock
  PROVE  IInv'
<1>1. /\ main.pc = "unblock" /\ handlers = <<>>
      /\ jobs' = jobs /\ UNCHANGED <<jobVars, procVars, pending, handlers>>
      /\ mask' = {} /\ main' = Prompt
  BY DEF Unblock, At, jobVars
<1>2. main'.pc = "prompt" /\ main' \in Main BY <1>1 DEF Main, Places, Prompt
<1>3. MainOK' BY <1>2 DEF MainOK
<1>4. Foreground' BY <1>1, NoForeground DEF IInv, Foreground
<1> QED BY <1>1, <1>2, <1>3, <1>4, OnlyMainStep

LEMMA BgFgStep ==
  ASSUME IInv, NEW verb \in {"bg", "fg"}, NEW i \in JobSlots, BgFg(verb, i)
  PROVE  IInv'
<1>1. /\ main.pc = "prompt" /\ handlers = <<>> /\ main \in Main /\ mask \in SUBSET Signals
      /\ jobs' = jobs /\ UNCHANGED <<jobVars, procVars, pending, handlers>> /\ mask' = mask
      /\ main' = [main EXCEPT !.pc = "set", !.verb = verb, !.job = i]
  BY DEF BgFg, At, IInv, TypeOK, MainOK, SignalsOK, jobVars
<1>2. main'.pc = "set" /\ main'.job = i /\ main' \in Main BY <1>1 DEF Main, Places
<1>3. MainOK' BY <1>2 DEF MainOK
<1>4. Foreground' BY <1>1, NoForeground DEF IInv, Foreground
<1> QED BY <1>1, <1>2, <1>3, <1>4, OnlyMainStep

\* When the shell ends its job list is gone.
LEMMA ExitStep ==
  ASSUME IInv, Exit
  PROVE  IInv'
<1>1. /\ main' = [Prompt EXCEPT !.pc = "exited"]
      /\ handlers' = <<>> /\ pending' = {} /\ mask' = {}
      /\ jobs' = [i \in JobSlots |-> Cleared] /\ nextjid' = 1
      /\ proc' = proc /\ grouped' = grouped /\ unreported' = unreported
  BY DEF Exit, procVars
<1>2. main'.pc = "exited" /\ main' \in Main BY <1>1 DEF Main, Places, Prompt
<1>3. TypeOK'
  <2>1. Cleared \in Job BY DEF Cleared, Job
  <2>2. JobsOK' BY <1>1, <2>1 DEF JobsOK
  <2> QED BY <1>1, <1>2, <2>2, NoHandlerNext DEF IInv, TypeOK, MainOK, ProcOK, SignalsOK
<1>4. \A i \in JobSlots : jobs'[i].pid = 0 BY <1>1 DEF Cleared
<1>5. JobsAreChildren' BY <1>4 DEF JobsAreChildren
<1>6. Foreground' BY <1>4 DEF Foreground
<1> QED BY <1>1, <1>2, <1>3, <1>5, <1>6, NoHandlerNext DEF IInv, Blocked, NewChild

\* The id that fork returns is not in use, so no job has it.
LEMMA ForkStep ==
  ASSUME IInv, Fork
  PROVE  IInv'
<1>1. /\ main.pc = "fork" /\ handlers = <<>> /\ handlers' = <<>> /\ main \in Main
      /\ jobs' = jobs /\ nextjid' = nextjid /\ grouped' = grouped /\ mask' = mask
      /\ unreported' = unreported /\ pending' = pending
  BY DEF Fork, At, IInv, TypeOK, MainOK, jobVars
<1>2. Reaped = {} BY <1>1, NoHandler DEF IInv
<1>3. PICK p \in Pids \cup {0} :
         /\ main' = [main EXCEPT !.pc = "block", !.pid = p]
         /\ p # 0 => proc[p] = "none" /\ proc' = [proc EXCEPT ![p] = "running"]
         /\ p = 0 => proc' = proc
  <2>1. CASE main' = [main EXCEPT !.pc = "block", !.pid = 0] /\ UNCHANGED proc BY <2>1
  <2>2. CASE \E p \in Pids : /\ proc[p] = "none"
                             /\ proc' = [proc EXCEPT ![p] = "running"]
                             /\ main' = [main EXCEPT !.pc = "block", !.pid = p]
    <3>1. PICK p \in Pids : /\ proc[p] = "none"
                            /\ proc' = [proc EXCEPT ![p] = "running"]
                            /\ main' = [main EXCEPT !.pc = "block", !.pid = p]
      BY <2>2
    <3>2. CASE p = 0
      <4>1. proc[0] = "none" /\ 0 \in Pids BY <3>1, <3>2
      <4> QED BY <4>1, TshAssumption
    <3>3. CASE p # 0 BY <3>1, <3>3
    <3> QED BY <3>2, <3>3
  <2> QED BY <2>1, <2>2 DEF Fork
<1>4. main'.pc = "block" /\ main'.pid = p /\ main' \in Main BY <1>1, <1>3 DEF Main, Places
<1>5. ProcOK' /\ \A q \in Pids : proc'[q] = IF q = p /\ p # 0 THEN "running" ELSE proc[q]
  <2>1. ProcOK BY DEF IInv, TypeOK
  <2>2. CASE p = 0 BY <1>1, <1>3, <2>1, <2>2 DEF ProcOK
  <2>3. CASE p # 0 BY <1>1, <1>3, <2>1, <2>3 DEF ProcOK
  <2> QED BY <2>2, <2>3
<1>6. TypeOK' BY <1>1, <1>4, <1>5, NoHandlerNext DEF IInv, TypeOK, MainOK, JobsOK, SignalsOK
<1>7. Blocked' BY <1>1, NoHandlerNext DEF IInv, Blocked
<1>8. \A i \in JobSlots : jobs[i].pid # 0 => proc[jobs[i].pid] # "none" /\ jobs[i].pid \in Pids
  BY <1>2 DEF IInv, JobsAreChildren, TypeOK, JobsOK, Job
<1>9. NewChild' BY <1>1, <1>3, <1>4, <1>5, <1>8 DEF NewChild
<1>10. JobsAreChildren' BY <1>1, <1>5, <1>8 DEF IInv, JobsAreChildren
<1>11. Foreground' BY <1>1, NoForeground DEF IInv, Foreground
<1> QED BY <1>1, <1>6, <1>7, <1>9, <1>10, <1>11, NoHandlerNext DEF IInv

\* The child is put into the list while SIGCHLD is blocked: it is there, and it is no
\* job yet.
LEMMA AddJobStep ==
  ASSUME IInv, AddJob
  PROVE  IInv'
<1>1. /\ main.pc = "add" /\ handlers = <<>> /\ handlers' = <<>> /\ main \in Main
      /\ proc' = proc /\ grouped' = grouped /\ mask' = mask
      /\ unreported' = unreported /\ pending' = pending
      /\ JobsOK /\ ProcOK
  BY DEF AddJob, At, IInv, TypeOK, MainOK, procVars
<1>2. Reaped = {} /\ Reaped' = {} BY <1>1, NoHandler, NoHandlerNext DEF IInv
<1>3. KeyboardSparesBackground' /\ HandlersOK' BY <1>1, NoHandlerNext
<1>4. ProcOK' /\ SignalsOK' BY <1>1 DEF ProcOK, SignalsOK, IInv, TypeOK
<1>5. main'.pc \in {"wait", "unblock", "crashed"} /\ main' \in Main /\ main'.pid = main.pid
  <2>1. \E pc \in {"wait", "unblock", "crashed"} : main' = [main EXCEPT !.pc = pc]
    BY DEF AddJob, Goto
  <2> QED BY <1>1, <2>1 DEF Main, Places
<1>6. MainOK' /\ Blocked' /\ NewChild' BY <1>5 DEF MainOK, Blocked, NewChild
<1>7. \A i \in JobSlots : jobs[i].state = "FG" => jobs[i].pid = 0
  BY <1>1, NoForeground DEF IInv
<1>8. CASE UNCHANGED jobVars
  <2>1. jobs' = jobs /\ nextjid' = nextjid BY <1>8 DEF jobVars
  <2>2. JobsOK' BY <1>1, <2>1 DEF JobsOK
  <2>3. JobsAreChildren' BY <1>1, <1>2, <2>1 DEF IInv, JobsAreChildren
  <2>4. Foreground' BY <1>7, <2>1 DEF Foreground
  <2> QED BY <1>3, <1>4, <1>6, <2>2, <2>3, <2>4 DEF IInv, TypeOK
<1>9. CASE /\ main.pid # 0
           /\ \E i \in First({i \in JobSlots : jobs[i].pid = 0}) : jobs' = [jobs EXCEPT ![i] =
                 [pid |-> main.pid, jid |-> nextjid,
                  state |-> IF main.verb = "run" THEN "FG" ELSE "BG"]]
           /\ nextjid' = IF nextjid + 1 > MAXJOBS THEN 1 ELSE nextjid + 1
           /\ Goto(IF main.verb = "run" THEN "wait" ELSE "unblock")
  <2>1. PICK i \in First({i \in JobSlots : jobs[i].pid = 0}) : jobs' = [jobs EXCEPT ![i] =
                 [pid |-> main.pid, jid |-> nextjid,
                  state |-> IF main.verb = "run" THEN "FG" ELSE "BG"]]
    BY <1>9
  <2> DEFINE new == [pid |-> main.pid, jid |-> nextjid,
                     state |-> IF main.verb = "run" THEN "FG" ELSE "BG"]
  <2>2. i \in JobSlots BY DEF First
  <2>3. new \in Job BY <1>1 DEF Job, Main, JobsOK
  <2>4. nextjid' \in Nat BY <1>1, <1>9, TshAssumption DEF JobsOK
  <2>5. /\ jobs' \in [JobSlots -> Job]
        /\ \A j \in JobSlots : jobs'[j] = IF j = i THEN new ELSE jobs[j]
    <3> HIDE DEF new
    <3>1. jobs' = [jobs EXCEPT ![i] = new] BY <2>1 DEF new
    <3> QED BY <1>1, <2>2, <2>3, <3>1 DEF JobsOK
  <2>6. JobsOK' BY <2>4, <2>5 DEF JobsOK
  <2>7. proc[main.pid] # "none" /\ \A j \in JobSlots : jobs[j].pid # main.pid
    BY <1>1, <1>9 DEF IInv, NewChild
  <2>8. JobsAreChildren' BY <1>1, <1>2, <2>5, <2>7 DEF IInv, JobsAreChildren
  <2>9. main.verb = "run" => main'.pc = "wait" BY <1>1, <1>9 DEF Goto, Main
  <2>10. Foreground' BY <1>5, <1>7, <2>5, <2>9 DEF Foreground, Attended
  <2> QED BY <1>3, <1>4, <1>6, <2>6, <2>8, <2>10 DEF IInv, TypeOK
<1> QED BY <1>8, <1>9 DEF AddJob

\* fg sets a job in the foreground, which do_bgfg goes on to wait for; it is the only
\* one, unless the slot it has a pointer to is free by then.
LEMMA SetStateStep ==
  ASSUME IInv, SetState
  PROVE  IInv'
<1>1. /\ main.pc = "set" /\ handlers = <<>> /\ handlers' = <<>> /\ main \in Main
      /\ proc' = proc /\ grouped' = grouped /\ mask' = mask /\ nextjid' = nextjid
      /\ unreported' = unreported /\ pending' = pending
      /\ JobsOK /\ ProcOK /\ main.job \in JobSlots
      /\ main' = [main EXCEPT !.pc = "continue"]
  BY DEF SetState, Goto, At, IInv, TypeOK, MainOK, procVars
<1> DEFINE s == IF main.verb = "fg" THEN "FG" ELSE "BG"
<1>2. jobs' = [jobs EXCEPT ![main.job].state = s] BY DEF SetState
<1>3. /\ JobsOK'
      /\ \A i \in JobSlots : /\ jobs'[i].pid = jobs[i].pid
                             /\ jobs'[i].state = IF i = main.job THEN s ELSE jobs[i].state
  <2>1. s \in {"FG", "BG"} OBVIOUS
  <2> HIDE DEF s
  <2> QED BY <1>1, <1>2, <2>1 DEF JobsOK, Job
<1>4. Reaped = {} /\ Reaped' = {} BY <1>1, NoHandler, NoHandlerNext DEF IInv
<1>5. KeyboardSparesBackground' /\ HandlersOK' BY <1>1, NoHandlerNext
<1>6. ProcOK' /\ SignalsOK' BY <1>1 DEF ProcOK, SignalsOK, IInv, TypeOK
<1>7. main'.pc = "continue" /\ main' \in Main /\ main'.job = main.job /\ main'.verb = main.verb
  BY <1>1 DEF Main, Places
<1>8. MainOK' /\ Blocked' /\ NewChild' BY <1>1, <1>7 DEF MainOK, Blocked, NewChild
<1>9. JobsAreChildren' BY <1>1, <1>3, <1>4 DEF IInv, JobsAreChildren
<1>10. Foreground'
  <2>1. \A i \in JobSlots : jobs[i].state = "FG" => jobs[i].pid = 0
    BY <1>1, NoForeground DEF IInv
  <2> QED BY <1>3, <1>7, <2>1 DEF Foreground, Attended
<1> QED BY <1>3, <1>5, <1>6, <1>8, <1>9, <1>10 DEF IInv, TypeOK

LEMMA ContinueStep ==
  ASSUME IInv, Continue
  PROVE  IInv'
<1>1. /\ main.pc = "continue" /\ handlers = <<>> /\ handlers' = <<>> /\ main \in Main
      /\ jobs' = jobs /\ nextjid' = nextjid /\ mask' = mask
      /\ JobsOK /\ ProcOK /\ SignalsOK /\ main.job \in JobSlots
      /\ Kill(jobs[main.job].pid, "CONT")
      /\ main' = IF main.verb = "fg"
                 THEN [main EXCEPT !.pc = "wait", !.pid = jobs[main.job].pid] ELSE Prompt
  BY DEF Continue, At, IInv, TypeOK, MainOK, jobVars
<1>2. /\ ProcOK' /\ pending' \in SUBSET Signals
      /\ \A q \in Pids : proc[q] # "none" => proc'[q] # "none"
  BY <1>1, Killed
<1>3. SignalsOK' BY <1>1, <1>2 DEF SignalsOK
<1>4. jobs[main.job].pid \in Pids \cup {0} BY <1>1 DEF JobsOK, Job
<1>5. /\ main'.pc \in {"wait", "prompt"} /\ main' \in Main
      /\ main.verb = "fg" => main'.pc = "wait" /\ main'.pid = jobs[main.job].pid
  <2>1. CASE main.verb = "fg" BY <1>1, <1>4, <2>1 DEF Main, Places
  <2>2. CASE main.verb # "fg" BY <1>1, <2>2 DEF Main, Places, Prompt
  <2> QED BY <2>1, <2>2
<1>6. MainOK' /\ Blocked' /\ NewChild' BY <1>5 DEF MainOK, Blocked, NewChild
<1>7. Reaped = {} /\ Reaped' = {} BY <1>1, NoHandler, NoHandlerNext DEF IInv
<1>8. JobsAreChildren'
  <2>1. \A i \in JobSlots : jobs[i].pid \in Pids \cup {0} BY <1>1 DEF JobsOK, Job
  <2> QED BY <1>1, <1>2, <1>7, <2>1 DEF IInv, JobsAreChildren
<1>9. Foreground'
  <2>1. \A i \in JobSlots : jobs[i].state = "FG" /\ jobs[i].pid # 0 =>
                               main.verb = "fg" /\ main.job = i
    BY <1>1 DEF IInv, Foreground, Attended
  <2> QED BY <1>1, <1>5, <2>1 DEF Foreground, Attended
<1>10. JobsOK' BY <1>1 DEF JobsOK
<1> QED BY <1>1, <1>2, <1>3, <1>6, <1>8, <1>9, <1>10, NoHandlerNext DEF IInv, TypeOK

-----------------------------------------------------------------------------
(* Steps of the handlers *)

\* Delivery, whatever it interrupts: the frame on top is a new one.
LEMMA DeliverStep ==
  ASSUME IInv, NEW sig \in Signals, Deliver(sig)
  PROVE  IInv'
<1> DEFINE f == [sig |-> sig, pc |-> "begin", pid |-> 0, stopped |-> FALSE,
                 saved |-> ToRestore]
<1>1. /\ handlers' = Append(handlers, f)
      /\ pending' = pending \ {sig} /\ mask' = mask \cup {sig} /\ sig \notin mask
      /\ main' = [main EXCEPT !.woken = (main.pc = "asleep")]
      /\ jobs' = jobs /\ nextjid' = nextjid /\ proc' = proc /\ grouped' = grouped
      /\ unreported' = unreported
  BY DEF Deliver, jobVars, procVars
<1>2. /\ main \in Main /\ MainOK /\ mask \in SUBSET Signals /\ pending \in SUBSET Signals
      /\ handlers \in Seq(Frame)
  BY DEF IInv, TypeOK, MainOK, SignalsOK, HandlersOK
<1>3. ToRestore \in SUBSET Signals /\ (main.pc # "asleep" => ToRestore = mask)
  BY <1>2 DEF ToRestore, At, Main
<1>4. f \in Frame BY <1>3 DEF Frame
<1>5. f.pc = "begin" /\ f.sig = sig /\ f.saved = ToRestore OBVIOUS
<1> HIDE DEF f
<1>6. /\ handlers' \in Seq(Frame)
      /\ \A k \in DOMAIN handlers' : (k \in DOMAIN handlers /\ handlers'[k] = handlers[k])
                                      \/ handlers'[k] = f
      /\ \A k \in DOMAIN handlers : k \in DOMAIN handlers' /\ handlers'[k] = handlers[k]
  <2>1. \A h \in Seq(Frame) : \A g \in Frame :
          /\ Append(h, g) \in Seq(Frame)
          /\ \A k \in DOMAIN Append(h, g) :
               (k \in DOMAIN h /\ Append(h, g)[k] = h[k]) \/ Append(h, g)[k] = g
          /\ \A k \in DOMAIN h : k \in DOMAIN Append(h, g) /\ Append(h, g)[k] = h[k]
    BY Pushed
  <2> QED BY ONLY <2>1, <1>1, <1>2, <1>4
<1>7. main' \in Main /\ main'.pc = main.pc /\ main'.pid = main.pid /\ main'.verb = main.verb
      /\ main'.job = main.job
  <2>1. (main.pc = "asleep") \in BOOLEAN OBVIOUS
  <2> QED BY <1>1, <1>2, <2>1 DEF Main
<1>8. TypeOK'
  <2>1. MainOK' BY <1>2, <1>7 DEF MainOK
  <2>2. SignalsOK' BY <1>1, <1>2 DEF SignalsOK
  <2>3. HandlersOK' BY <1>6 DEF HandlersOK
  <2> QED BY <1>1, <2>1, <2>2, <2>3 DEF IInv, TypeOK, JobsOK, ProcOK
<1>9. Blocked'
  <2> SUFFICES ASSUME main.pc \in {"fork", "block", "add"}
               PROVE  /\ "CHLD" \in mask'
                      /\ \A k \in DOMAIN handlers' :
                           handlers'[k].sig # "CHLD" /\ "CHLD" \in handlers'[k].saved
    BY <1>7 DEF Blocked
  <2>1. "CHLD" \in mask /\ \A k \in DOMAIN handlers :
                             handlers[k].sig # "CHLD" /\ "CHLD" \in handlers[k].saved
    BY DEF IInv, Blocked
  <2>2. f.sig # "CHLD" /\ "CHLD" \in f.saved BY <1>1, <1>3, <1>5, <2>1
  <2> QED BY <1>1, <1>6, <2>1, <2>2
<1>10. NewChild' BY <1>1, <1>7 DEF IInv, NewChild
<1>11. JobsAreChildren'
  <2>1. \A q : q \in Reaped => q \in Reaped' BY <1>6 DEF Reaped
  <2> QED BY <1>1, <2>1 DEF IInv, JobsAreChildren
<1>12. Foreground' BY <1>1, <1>7 DEF IInv, Foreground, Attended
<1>13. KeyboardSparesBackground'
  BY <1>1, <1>5, <1>6 DEF IInv, KeyboardSparesBackground, getjobpid, First
<1> QED BY <1>8, <1>9, <1>10, <1>11, <1>12, <1>13 DEF IInv

\* Where a handler runs.
LEMMA HandlerRuns ==
  ASSUME TypeOK, NEW sigs, NEW pc, InHandler(sigs, pc)
  PROVE  /\ handlers \in Seq(Frame) /\ handlers # <<>> /\ Len(handlers) \in DOMAIN handlers
         /\ Running \in Frame /\ Running.sig \in sigs /\ Running.pc = pc
         /\ Running = handlers[Len(handlers)]
<1>1. handlers \in Seq(Frame) /\ handlers # <<>> BY DEF TypeOK, HandlersOK, InHandler
<1>2. Len(handlers) \in 1 .. Len(handlers) /\ DOMAIN handlers = 1 .. Len(handlers)
  BY <1>1, LenProperties, EmptySeq
<1> QED BY <1>1, <1>2, ElementOfSeq DEF InHandler, Running

\* A handler that returns leaves the frames under it, and puts back the mask of before.
LEMMA Returned ==
  ASSUME IInv, handlers # <<>>, Return
  PROVE  /\ HandlersOK' /\ mask' \in SUBSET Signals
         /\ \A k \in DOMAIN handlers' : k \in DOMAIN handlers /\ handlers'[k] = handlers[k]
         /\ \A k \in DOMAIN handlers : k # Len(handlers) =>
                 k \in DOMAIN handlers' /\ handlers'[k] = handlers[k]
         /\ main'.pc = main.pc => Blocked'
<1>1. handlers \in Seq(Frame) BY DEF IInv, TypeOK, HandlersOK
<1>2. \A h \in Seq(Frame) : \A r : h # <<>> /\ r = SubSeq(h, 1, Len(h) - 1) =>
         /\ r \in Seq(Frame)
         /\ \A k \in DOMAIN r : k \in DOMAIN h /\ r[k] = h[k]
         /\ \A k \in DOMAIN h : k # Len(h) => k \in DOMAIN r /\ r[k] = h[k]
         /\ Len(h) \in DOMAIN h
  BY Popped
<1>3. /\ handlers' \in Seq(Frame)
      /\ \A k \in DOMAIN handlers' : k \in DOMAIN handlers /\ handlers'[k] = handlers[k]
      /\ \A k \in DOMAIN handlers : k # Len(handlers) =>
            k \in DOMAIN handlers' /\ handlers'[k] = handlers[k]
      /\ Len(handlers) \in DOMAIN handlers
  BY <1>1, <1>2 DEF Return
<1>4. mask' = handlers[Len(handlers)].saved BY DEF Return, Running
<1>5. handlers[Len(handlers)] \in Frame BY <1>1, <1>3, ElementOfSeq, LenProperties
<1>6. mask' \in SUBSET Signals BY <1>4, <1>5 DEF Frame
<1>7. ASSUME main'.pc = main.pc PROVE Blocked'
  BY <1>3, <1>4, <1>7 DEF IInv, Blocked
<1> QED BY <1>3, <1>6, <1>7 DEF HandlersOK

\* One that goes on keeps its signal and its mask.
LEMMA WentOn ==
  ASSUME IInv, handlers # <<>>, NEW f \in Frame, Become(f),
         f.sig = Running.sig, f.saved = Running.saved
  PROVE  /\ HandlersOK'
         /\ DOMAIN handlers' = DOMAIN handlers
         /\ Len(handlers) \in DOMAIN handlers /\ handlers'[Len(handlers)] = f
         /\ \A k \in DOMAIN handlers : k # Len(handlers) => handlers'[k] = handlers[k]
         /\ main'.pc = main.pc /\ mask' = mask => Blocked'
<1>1. handlers \in Seq(Frame) BY DEF IInv, TypeOK, HandlersOK
<1>2. \A h \in Seq(Frame) : \A r : h # <<>> /\ r = [h EXCEPT ![Len(h)] = f] =>
         /\ r \in Seq(Frame) /\ DOMAIN r = DOMAIN h /\ Len(h) \in DOMAIN h
         /\ r[Len(h)] = f
         /\ \A k \in DOMAIN h : k # Len(h) => r[k] = h[k]
  BY Changed
<1>3. /\ handlers' \in Seq(Frame) /\ DOMAIN handlers' = DOMAIN handlers
      /\ Len(handlers) \in DOMAIN handlers /\ handlers'[Len(handlers)] = f
      /\ \A k \in DOMAIN handlers : k # Len(handlers) => handlers'[k] = handlers[k]
  BY <1>1, <1>2 DEF Become
<1>4. ASSUME main'.pc = main.pc, mask' = mask PROVE Blocked'
  BY <1>3, <1>4 DEF IInv, Blocked, Running
<1> QED BY <1>3, <1>4 DEF HandlersOK

\* waitpid takes a zombie, whose job then is of a process being reaped, or the report of
\* a stop.  A frame that returns here reaps nothing.
LEMMA WaitPidStep ==
  ASSUME IInv, WaitPid
  PROVE  IInv'
<1>1. /\ jobs' = jobs /\ nextjid' = nextjid /\ pending' = pending /\ main' = main
      /\ InHandler({"CHLD"}, "begin")
      /\ TypeOK /\ JobsOK /\ ProcOK /\ SignalsOK /\ MainOK
  BY DEF WaitPid, jobVars, IInv, TypeOK
<1>2. /\ handlers # <<>> /\ Len(handlers) \in DOMAIN handlers /\ Running \in Frame
      /\ Running.sig = "CHLD" /\ Running.pc = "begin" /\ Running = handlers[Len(handlers)]
  BY <1>1, HandlerRuns
<1>3. main.pc \notin {"fork", "block", "add"} BY <1>2 DEF IInv, Blocked
<1>4. JobsOK' /\ MainOK' /\ NewChild' BY <1>1, <1>3 DEF JobsOK, MainOK, NewChild
<1>5. Foreground' BY <1>1 DEF IInv, Foreground, Attended
<1>6. ASSUME HandlersOK', Blocked', mask' \in SUBSET Signals, ProcOK',
             \A k \in DOMAIN handlers' : handlers'[k].pc = "kill" =>
                k \in DOMAIN handlers /\ handlers'[k] = handlers[k],
             \A q \in Pids : proc[q] # "none" => proc'[q] # "none" \/ q \in Reaped',
             \A q : q \in Reaped => q \in Reaped'
      PROVE  IInv'
  <2>1. SignalsOK' BY <1>1, <1>6 DEF SignalsOK
  <2>2. \A i \in JobSlots : jobs[i].pid \in Pids \cup {0} BY <1>1 DEF JobsOK, Job
  <2>3. JobsAreChildren' BY <1>1, <1>6, <2>2 DEF IInv, JobsAreChildren
  <2>4. KeyboardSparesBackground'
    BY <1>1, <1>6 DEF IInv, KeyboardSparesBackground, getjobpid, First
  <2> QED BY <1>4, <1>5, <1>6, <2>1, <2>3, <2>4 DEF IInv, TypeOK
<1>7. ASSUME NEW f \in Frame, f.sig = Running.sig, f.saved = Running.saved, f.pc = "update",
             Become(f), mask' = mask, ProcOK',
             \A q \in Pids : proc[q] # "none" =>
                proc'[q] # "none" \/ (q = f.pid /\ ~ f.stopped)
      PROVE  IInv'
  <2>1. /\ HandlersOK' /\ Blocked'
        /\ DOMAIN handlers' = DOMAIN handlers
        /\ Len(handlers) \in DOMAIN handlers /\ handlers'[Len(handlers)] = f
        /\ \A k \in DOMAIN handlers : k # Len(handlers) => handlers'[k] = handlers[k]
    BY <1>1, <1>2, <1>7, WentOn
  <2>2. mask' \in SUBSET Signals BY <1>1, <1>7 DEF SignalsOK
  <2>3. \A q : q \in Reaped => q \in Reaped' BY <1>2, <2>1 DEF Reaped
  <2>4. ~ f.stopped => f.pid \in Reaped' BY <1>7, <2>1 DEF Reaped
  <2>5. \A k \in DOMAIN handlers' : handlers'[k].pc = "kill" =>
                k \in DOMAIN handlers /\ handlers'[k] = handlers[k]
    BY <1>7, <2>1
  <2> QED BY <1>6, <1>7, <2>1, <2>2, <2>3, <2>4, <2>5
<1>8. CASE \E p \in Pids :
            /\ proc[p] = "zombie"
            /\ proc' = [proc EXCEPT ![p] = "none"]
            /\ grouped' = grouped \ {p}
            /\ unreported' = unreported \ {p}
            /\ Become([Running EXCEPT !.pc = "update", !.pid = p, !.stopped = FALSE])
            /\ UNCHANGED mask
  <2>1. PICK p \in Pids :
            /\ proc[p] = "zombie"
            /\ proc' = [proc EXCEPT ![p] = "none"]
            /\ grouped' = grouped \ {p}
            /\ unreported' = unreported \ {p}
            /\ Become([Running EXCEPT !.pc = "update", !.pid = p, !.stopped = FALSE])
            /\ UNCHANGED mask
    BY <1>8
  <2>2. ProcOK' /\ \A q \in Pids : proc'[q] = IF q = p THEN "none" ELSE proc[q]
    BY <1>1, <2>1 DEF ProcOK
  <2> DEFINE f == [Running EXCEPT !.pc = "update", !.pid = p, !.stopped = FALSE]
  <2>3. /\ f \in Frame /\ f.sig = Running.sig /\ f.saved = Running.saved
        /\ f.pc = "update" /\ f.pid = p /\ ~ f.stopped
    BY <1>2 DEF Frame
  <2>4. Become(f) /\ mask' = mask BY <2>1
  <2> HIDE DEF f
  <2> QED BY <1>7, <2>2, <2>3, <2>4
<1>9. CASE \E p \in unreported :
            /\ proc[p] = "stopped"
            /\ unreported' = unreported \ {p}
            /\ Become([Running EXCEPT !.pc = "update", !.pid = p, !.stopped = TRUE])
            /\ UNCHANGED <<proc, grouped, mask>>
  <2>1. PICK p \in unreported :
            /\ unreported' = unreported \ {p}
            /\ Become([Running EXCEPT !.pc = "update", !.pid = p, !.stopped = TRUE])
            /\ UNCHANGED <<proc, grouped, mask>>
    BY <1>9
  <2>2. ProcOK' /\ p \in Pids BY <1>1, <2>1 DEF ProcOK
  <2>3. mask' = mask /\ \A q \in Pids : proc[q] # "none" => proc'[q] # "none" BY <2>1
  <2> DEFINE f == [Running EXCEPT !.pc = "update", !.pid = p, !.stopped = TRUE]
  <2>4. /\ f \in Frame /\ f.sig = Running.sig /\ f.saved = Running.saved /\ f.pc = "update"
    BY <1>2, <2>2 DEF Frame
  <2>5. Become(f) BY <2>1
  <2> HIDE DEF f
  <2> QED BY <1>7, <2>2, <2>3, <2>4, <2>5
<1>10. CASE Return /\ UNCHANGED procVars
  <2>1. /\ HandlersOK' /\ Blocked' /\ mask' \in SUBSET Signals
        /\ \A k \in DOMAIN handlers' : k \in DOMAIN handlers /\ handlers'[k] = handlers[k]
        /\ \A k \in DOMAIN handlers : k # Len(handlers) =>
                k \in DOMAIN handlers' /\ handlers'[k] = handlers[k]
    BY <1>1, <1>2, <1>10, Returned
  <2>2. ProcOK' /\ proc' = proc BY <1>1, <1>10 DEF ProcOK, procVars
  <2>3. \A q : q \in Reaped => q \in Reaped' BY <1>2, <2>1 DEF Reaped
  <2> QED BY <1>6, <2>1, <2>2, <2>3
<1> QED BY <1>8, <1>9, <1>10 DEF WaitPid

\* The job of a reaped process is deleted, and that of a stopped one marked; all other
\* jobs are as they were.
LEMMA UpdateStep ==
  ASSUME IInv, Update
  PROVE  IInv'
<1>1. /\ proc' = proc /\ grouped' = grouped /\ unreported' = unreported
      /\ pending' = pending /\ mask' = mask
      /\ InHandler({"CHLD"}, "update")
      /\ TypeOK /\ JobsOK /\ ProcOK /\ SignalsOK /\ MainOK
  BY DEF Update, procVars, IInv, TypeOK
<1>2. /\ handlers # <<>> /\ Len(handlers) \in DOMAIN handlers /\ Running \in Frame
      /\ Running.sig = "CHLD" /\ Running.pc = "update" /\ Running = handlers[Len(handlers)]
  BY <1>1, HandlerRuns
<1>3. main.pc \notin {"fork", "block", "add"} BY <1>2 DEF IInv, Blocked
<1>4. Apart BY ChildrenApart DEF IInv
<1> DEFINE p == Running.pid
           Kept(i) == jobs'[i] = jobs[i]
           Marked(i) == jobs'[i].pid = jobs[i].pid /\ jobs'[i].state = "ST"
           Dropped(i) == jobs'[i] = Cleared /\ jobs[i].pid = p /\ p # 0 /\ ~ Running.stopped
\* What becomes of the job list and of the main loop.
<1>5. /\ JobsOK' /\ main' \in {main, [main EXCEPT !.pc = "crashed"]}
      /\ \A i \in JobSlots : Kept(i) \/ Marked(i) \/ Dropped(i)
      /\ ~ Running.stopped => \A i \in JobSlots : jobs[i].pid = p /\ p # 0 => Dropped(i)
  <2>1. CASE ~ Running.stopped
    <3>1. deletejob(p) /\ main' = main BY <2>1 DEF Update
    <3>2. /\ JobsOK'
          /\ \A i \in JobSlots : IF p # 0 /\ jobs[i].pid = p THEN jobs'[i] = Cleared
                                                       ELSE jobs'[i] = jobs[i]
      <4> HIDE DEF p
      <4> QED BY <1>1, <1>4, <3>1, Deleted
    <3> QED BY <2>1, <3>1, <3>2
  <2>2. CASE Running.stopped /\ getjobpid(p) = {} /\ Goto("crashed") /\ UNCHANGED jobs
    <3>1. nextjid' = nextjid BY <2>2 DEF Update
    <3> QED BY <1>1, <2>2, <3>1 DEF Goto, JobsOK
  <2>3. CASE /\ Running.stopped
             /\ \E i \in getjobpid(p) : jobs' = [jobs EXCEPT ![i].state = "ST"]
             /\ UNCHANGED main
    <3>1. PICK i \in getjobpid(p) : jobs' = [jobs EXCEPT ![i].state = "ST"] BY <2>3
    <3>2. i \in JobSlots
      <4> HIDE DEF p
      <4> QED BY <3>1, JobFound
    <3>3. nextjid' = nextjid BY <2>3 DEF Update
    <3>4. \A j \in JobSlots : IF j = i THEN Marked(j) ELSE Kept(j)
      BY <1>1, <3>1, <3>2 DEF JobsOK, Job
    <3>5. JobsOK' BY <1>1, <3>1, <3>2, <3>3 DEF JobsOK, Job
    <3> QED BY <2>3, <3>4, <3>5
  <2> QED BY <2>1, <2>2, <2>3 DEF Update
<1>6. Cleared.pid = 0 /\ Cleared.state = "UNDEF" BY DEF Cleared
<1>7. main' \in Main /\ main'.pid = main.pid /\ main'.job = main.job /\ main'.verb = main.verb
      /\ main'.pc \in {main.pc, "crashed"}
  BY <1>1, <1>5 DEF MainOK, Main, Places
<1>8. MainOK' /\ NewChild' BY <1>1, <1>3, <1>7 DEF MainOK, NewChild
<1>9. ProcOK' /\ SignalsOK' BY <1>1 DEF ProcOK, SignalsOK
<1>10. Foreground'
  <2> SUFFICES ASSUME NEW i \in JobSlots, jobs'[i].state = "FG", jobs'[i].pid # 0
               PROVE  Attended(i)'
    BY DEF Foreground
  <2>1. jobs'[i] = jobs[i] BY <1>5, <1>6
  <2> QED BY <1>7, <2>1 DEF IInv, Foreground, Attended
<1> DEFINE f == [Running EXCEPT !.pc = "begin", !.pid = 0, !.stopped = FALSE]
<1>11. /\ HandlersOK' /\ (main'.pc = main.pc => Blocked')
       /\ DOMAIN handlers' = DOMAIN handlers
       /\ handlers'[Len(handlers)] = f /\ f.pc = "begin"
       /\ \A k \in DOMAIN handlers : k # Len(handlers) => handlers'[k] = handlers[k]
  <2>1. f \in Frame /\ f.sig = Running.sig /\ f.saved = Running.saved /\ f.pc = "begin"
    BY <1>2 DEF Frame
  <2>2. Become(f) BY DEF Update
  <2> HIDE DEF f
  <2> QED BY <1>1, <1>2, <2>1, <2>2, WentOn
<1>12. Blocked' BY <1>7, <1>11 DEF Blocked
<1>13. JobsAreChildren'
  <2>1. \A q : q \in Reaped => q \in Reaped' \/ (q = p /\ ~ Running.stopped)
    BY <1>2, <1>11 DEF Reaped
  <2>2. \A i \in JobSlots : jobs'[i].pid # 0 => jobs'[i].pid = jobs[i].pid
                               /\ ~ (jobs[i].pid = p /\ ~ Running.stopped)
    BY <1>5, <1>6
  <2> QED BY <1>1, <2>1, <2>2 DEF IInv, JobsAreChildren
<1>14. KeyboardSparesBackground'
  <2> SUFFICES ASSUME NEW k \in DOMAIN handlers', handlers'[k].pc = "kill",
                      NEW i \in JobSlots, handlers'[k].pid # 0,
                      jobs'[i].pid = handlers'[k].pid
               PROVE  jobs'[i].state # "BG"
    BY DEF KeyboardSparesBackground, getjobpid, First
  <2>1. handlers'[k] = handlers[k] /\ k \in DOMAIN handlers BY <1>11
  <2>2. handlers[k].pid # 0 /\ jobs'[i].pid = handlers[k].pid BY <2>1
  <2>3. CASE jobs'[i] = jobs[i]
    <3>1. i \in getjobpid(handlers[k].pid) BY <1>4, <2>2, <2>3, JobOf
    <3> QED BY <2>1, <2>3, <3>1 DEF IInv, KeyboardSparesBackground
  <2> QED BY <1>5, <1>6, <2>2, <2>3
<1> QED BY <1>5, <1>8, <1>9, <1>10, <1>11, <1>12, <1>13, <1>14 DEF IInv, TypeOK

\* A handler of a key looks for a job in the foreground, so the process that it is about
\* to signal is no job in the background, ...
LEMMA FindForegroundStep ==
  ASSUME IInv, FindForeground
  PROVE  IInv'
<1>1. /\ jobs' = jobs /\ nextjid' = nextjid /\ pending' = pending /\ main' = main
      /\ proc' = proc /\ grouped' = grouped /\ unreported' = unreported
      /\ InHandler({"INT", "TSTP"}, "begin")
      /\ TypeOK /\ JobsOK /\ ProcOK /\ SignalsOK /\ MainOK
  BY DEF FindForeground, jobVars, procVars, IInv, TypeOK
<1>2. /\ handlers # <<>> /\ Len(handlers) \in DOMAIN handlers /\ Running \in Frame
      /\ Running.pc = "begin" /\ Running = handlers[Len(handlers)]
  BY <1>1, HandlerRuns
<1>3. Apart BY ChildrenApart DEF IInv
<1>4. JobsOK' /\ MainOK' /\ ProcOK' BY <1>1 DEF JobsOK, MainOK, ProcOK
<1>5. NewChild' BY <1>1 DEF IInv, NewChild
<1>6. Foreground' BY <1>1 DEF IInv, Foreground, Attended
<1>7. ASSUME HandlersOK', Blocked', mask' \in SUBSET Signals, KeyboardSparesBackground',
             \A q : q \in Reaped => q \in Reaped'
      PROVE  IInv'
  <2>1. SignalsOK' BY <1>1, <1>7 DEF SignalsOK
  <2>2. JobsAreChildren' BY <1>1, <1>7 DEF IInv, JobsAreChildren
  <2> QED BY <1>4, <1>5, <1>6, <1>7, <2>1, <2>2 DEF IInv, TypeOK
<1>8. CASE Return
  <2>1. /\ HandlersOK' /\ Blocked' /\ mask' \in SUBSET Signals
        /\ \A k \in DOMAIN handlers' : k \in DOMAIN handlers /\ handlers'[k] = handlers[k]
        /\ \A k \in DOMAIN handlers : k # Len(handlers) =>
                k \in DOMAIN handlers' /\ handlers'[k] = handlers[k]
    BY <1>1, <1>2, <1>8, Returned
  <2>2. \A q : q \in Reaped => q \in Reaped' BY <1>2, <2>1 DEF Reaped
  <2>3. KeyboardSparesBackground'
    BY <1>1, <2>1 DEF IInv, KeyboardSparesBackground, getjobpid, First
  <2> QED BY <1>7, <2>1, <2>2, <2>3
<1>9. CASE \E p \in fgpid \ {0} : /\ Become([Running EXCEPT !.pc = "kill", !.pid = p])
                                 /\ UNCHANGED mask
  <2>1. PICK p \in fgpid \ {0} : /\ Become([Running EXCEPT !.pc = "kill", !.pid = p])
                                /\ UNCHANGED mask
    BY <1>9
  <2>2. PICK i \in JobSlots : jobs[i].state = "FG" /\ jobs[i].pid = p
    BY DEF fgpid, First
  <2>3. p # 0 /\ p \in Pids /\ getjobpid(p) = {i}
    BY <1>1, <1>3, <2>2, JobOf DEF JobsOK, Job
  <2> DEFINE f == [Running EXCEPT !.pc = "kill", !.pid = p]
  <2>4. f \in Frame /\ f.sig = Running.sig /\ f.saved = Running.saved /\ f.pc = "kill"
        /\ f.pid = p
    BY <1>2, <2>3 DEF Frame
  <2>5. Become(f) BY <2>1
  <2> HIDE DEF f
  <2>6. /\ HandlersOK' /\ Blocked'
        /\ DOMAIN handlers' = DOMAIN handlers
        /\ Len(handlers) \in DOMAIN handlers /\ handlers'[Len(handlers)] = f
        /\ \A k \in DOMAIN handlers : k # Len(handlers) => handlers'[k] = handlers[k]
    BY <1>1, <1>2, <2>1, <2>4, <2>5, WentOn
  <2>7. mask' \in SUBSET Signals BY <1>1, <2>1 DEF SignalsOK
  <2>8. \A q : q \in Reaped => q \in Reaped' BY <1>2, <2>6 DEF Reaped
  <2>9. KeyboardSparesBackground'
    <3> SUFFICES ASSUME NEW k \in DOMAIN handlers', handlers'[k].pc = "kill",
                        NEW j \in getjobpid(handlers'[k].pid)
                 PROVE  jobs[j].state # "BG"
      BY <1>1 DEF KeyboardSparesBackground, getjobpid, First
    <3>1. CASE k = Len(handlers) BY <2>2, <2>3, <2>4, <2>6, <3>1
    <3>2. CASE k # Len(handlers) BY <2>6, <3>2 DEF IInv, KeyboardSparesBackground
    <3> QED BY <3>1, <3>2
  <2> QED BY <1>7, <2>6, <2>7, <2>8, <2>9
<1> QED BY <1>8, <1>9 DEF FindForeground

\* ... nor is it one when the signal is sent.
LEMMA ForwardStep ==
  ASSUME IInv, Forward
  PROVE  IInv'
<1>1. /\ jobs' = jobs /\ nextjid' = nextjid /\ main' = main
      /\ InHandler({"INT", "TSTP"}, "kill") /\ Kill(Running.pid, Running.sig) /\ Return
      /\ TypeOK /\ JobsOK /\ ProcOK /\ SignalsOK /\ MainOK
  BY DEF Forward, jobVars, IInv, TypeOK
<1>2. /\ handlers # <<>> /\ Len(handlers) \in DOMAIN handlers
      /\ Running.pc = "kill" /\ Running = handlers[Len(handlers)]
  BY <1>1, HandlerRuns
<1>3. /\ ProcOK' /\ pending' \in SUBSET Signals
      /\ \A q \in Pids : proc[q] # "none" => proc'[q] # "none"
  BY <1>1, Killed
<1>4. /\ HandlersOK' /\ Blocked' /\ mask' \in SUBSET Signals
      /\ \A k \in DOMAIN handlers' : k \in DOMAIN handlers /\ handlers'[k] = handlers[k]
      /\ \A k \in DOMAIN handlers : k # Len(handlers) =>
                k \in DOMAIN handlers' /\ handlers'[k] = handlers[k]
  BY <1>1, <1>2, Returned
<1>5. TypeOK' BY <1>1, <1>3, <1>4 DEF TypeOK, JobsOK, MainOK, SignalsOK
<1>6. NewChild'
  <2>1. main.pid \in Pids \cup {0} BY <1>1 DEF MainOK, Main
  <2> QED BY <1>1, <1>3, <2>1 DEF IInv, NewChild
<1>7. JobsAreChildren'
  <2>1. \A q : q \in Reaped => q \in Reaped' BY <1>2, <1>4 DEF Reaped
  <2>2. \A i \in JobSlots : jobs[i].pid \in Pids \cup {0} BY <1>1 DEF JobsOK, Job
  <2> QED BY <1>1, <1>3, <2>1, <2>2 DEF IInv, JobsAreChildren
<1>8. Foreground' BY <1>1 DEF IInv, Foreground, Attended
<1>9. KeyboardSparesBackground'
  BY <1>1, <1>4 DEF IInv, KeyboardSparesBackground, getjobpid, First
<1> QED BY <1>4, <1>5, <1>6, <1>7, <1>8, <1>9 DEF IInv

-----------------------------------------------------------------------------
(* The theorems *)

LEMMA InvariantInit == Init => IInv
<1> SUFFICES ASSUME Init PROVE IInv OBVIOUS
<1>1. /\ \A i \in JobSlots : jobs[i].pid = 0
      /\ DOMAIN handlers = {} /\ main = Prompt /\ main.pc = "prompt"
  BY DEF Init, Cleared, Prompt
<1>2. TypeOK
  <2>1. Cleared \in Job BY DEF Cleared, Job
  <2>2. JobsOK BY <2>1 DEF Init, JobsOK
  <2>3. ProcOK BY DEF Init, ProcOK
  <2>4. SignalsOK BY DEF Init, SignalsOK
  <2>5. MainOK BY <1>1 DEF MainOK, Main, Places, Prompt
  <2>6. HandlersOK BY DEF Init, HandlersOK
  <2> QED BY <2>2, <2>3, <2>4, <2>5, <2>6 DEF TypeOK
<1> QED BY <1>1, <1>2 DEF IInv, Blocked, NewChild, JobsAreChildren, Foreground,
                          KeyboardSparesBackground

LEMMA InvariantNext == IInv /\ [Next]_vars => IInv'
<1> SUFFICES ASSUME IInv, [Next]_vars PROVE IInv' OBVIOUS
<1>1. ASSUME NEW line \in Lines, Quit(line) PROVE IInv' BY <1>1, ExitStep DEF Quit
<1>2. CASE QuitSignal BY <1>2, ExitStep DEF QuitSignal
<1>3. CASE MainStep
  BY <1>3, ForkStep, BlockAllStep, AddJobStep, WaitTestStep, SleepStep, UnblockStep,
     SetStateStep, ContinueStep DEF MainStep
<1>4. CASE HandlerStep
  BY <1>4, WaitPidStep, UpdateStep, FindForegroundStep, ForwardStep DEF HandlerStep
<1>5. CASE UNCHANGED vars BY <1>5, StutteringStep
<1> QED BY <1>1, <1>2, <1>3, <1>4, <1>5, ProgramsStep, KeyboardStep, CommandStep, BgFgStep,
           DeliverStep DEF Next

\* The shell keeps the invariant, however its main loop, its handlers, its children and
\* the keyboard interleave.
THEOREM ShellInvariant == Spec => []IInv
BY InvariantInit, InvariantNext, PTL DEF Spec

\* Insert, then reap (eval, sigchld_handler): every job in the list is a child that lives
\* or is being reaped, and no two jobs share one, however soon a child dies after fork
\* and whoever gets its process id next.
THEOREM JobsAreChildrenCorrect == Spec => []JobsAreChildren
<1>1. IInv => JobsAreChildren BY DEF IInv
<1> QED BY <1>1, ShellInvariant, PTL

\* waitfg: the shell reads no command while a job in its list is in the foreground.
THEOREM ForegroundBlocksPromptCorrect == Spec => []ForegroundBlocksPrompt
<1>1. IInv => ForegroundBlocksPrompt
  BY NoForeground DEF IInv, ForegroundBlocksPrompt
<1> QED BY <1>1, ShellInvariant, PTL

\* sigint_handler and sigtstp_handler: no job in the background gets the signal of a
\* key, although the list may change between the search and the kill.
THEOREM KeyboardSparesBackgroundCorrect == Spec => []KeyboardSparesBackground
<1>1. IInv => KeyboardSparesBackground BY DEF IInv
<1> QED BY <1>1, ShellInvariant, PTL

=============================================================================
