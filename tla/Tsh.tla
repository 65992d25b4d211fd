-------------------------------- MODULE Tsh --------------------------------
(***************************************************************************)
(* The job-control shell of shlab-handout/tsh.c: its main loop, the        *)
(* handlers of SIGCHLD, SIGINT and SIGTSTP that interrupt it and each      *)
(* other, the job list they share, and the processes they manage.          *)
(*                                                                         *)
(* A handler runs on top of what it interrupts, so the shell is a stack:   *)
(* `main`, which steps when no handler runs, and the frames of `handlers`, *)
(* of which the last one steps.  A signal of a kind is pending or not, and *)
(* is delivered when the mask of the moment lets it.  Job slots are found  *)
(* as sets with at most one element.                                       *)
(***************************************************************************)
EXTENDS Integers, Sequences, FiniteSets

CONSTANTS
    Pids,       \* bound: the process ids, used again once reaped
    MAXJOBS,
    Lines,      \* the command lines typed, each a sequence of words
    MaxJid,     \* bound: no command starts when nextjid is beyond it
    Keys        \* bound: the signals typed at the keyboard

ASSUME TshAssumption ==
    /\ Pids \subseteq Nat \ {0}
    /\ MAXJOBS \in Nat \ {0}
    /\ MaxJid \in Nat
    /\ Lines \subseteq Seq(STRING)
    /\ Keys \subseteq {"INT", "TSTP"}

VARIABLES
    jobs, nextjid,          \* the job list
    proc, grouped,          \* processes; those that have called setpgid
    unreported,             \* stopped processes that waitpid has not reported
    pending, mask,          \* the shell's pending and blocked signals
    main, handlers          \* where the shell is

jobVars  == <<jobs, nextjid>>
procVars == <<proc, grouped, unreported>>
vars     == <<jobVars, procVars, pending, mask, main, handlers>>

Signals == {"CHLD", "INT", "TSTP"}
JobSlots == 1 .. MAXJOBS

Cleared == [pid |-> 0, jid |-> 0, state |-> "UNDEF"]

\* At the prompt: no command, no process, no job chosen, no mask to restore.
Prompt == [pc |-> "prompt", verb |-> "none", pid |-> 0, job |-> 0, saved |-> {},
           woken |-> FALSE]

Init ==
    /\ jobs = [i \in JobSlots |-> Cleared]
    /\ nextjid = 1
    /\ proc = [p \in Pids |-> "none"]
    /\ grouped = {}
    /\ unreported = {}
    /\ pending = {}
    /\ mask = {}
    /\ main = Prompt
    /\ handlers = <<>>

-----------------------------------------------------------------------------
(* The job list *)

\* The first slot that satisfies a test, as every search of the list finds it.
First(S) == {i \in S : \A j \in S : i <= j}

getjobpid(pid) == First({i \in JobSlots : pid # 0 /\ jobs[i].pid = pid})

\* Slip of fgpid: any job will do.
anypid == {jobs[i].pid : i \in First({j \in JobSlots : jobs[j].state # "UNDEF"})}

getjobjid(jid) == First({i \in JobSlots : jid # 0 /\ jobs[i].jid = jid})

\* The process of the first job in the foreground.
fgpid == {jobs[i].pid : i \in First({j \in JobSlots : jobs[j].state = "FG"})}

maxjid(list) == CHOOSE m \in {0} \cup {list[i].jid : i \in JobSlots} :
                    \A i \in JobSlots : list[i].jid <= m

\* deletejob: the next job id follows the largest one left.
deletejob(pid) ==
    IF getjobpid(pid) = {} THEN UNCHANGED jobVars
    ELSE \E i \in getjobpid(pid) :
            /\ jobs' = [jobs EXCEPT ![i] = Cleared]
            /\ nextjid' = maxjid(jobs') + 1

-----------------------------------------------------------------------------
(* Processes and the keyboard *)

\* A child that has just been forked puts itself in a group of its own.
SetPgid(p) ==
    /\ proc[p] = "running"
    /\ p \notin grouped
    /\ grouped' = grouped \cup {p}
    /\ UNCHANGED <<jobVars, proc, unreported, pending, mask, main, handlers>>

\* Process p exits or is killed, or stops; the shell gets SIGCHLD.
Dies(p) ==
    /\ proc' = [proc EXCEPT ![p] = "zombie"]
    /\ pending' = pending \cup {"CHLD"}
    /\ UNCHANGED <<grouped, unreported>>

Stops(p) ==
    /\ proc' = [proc EXCEPT ![p] = "stopped"]
    /\ unreported' = unreported \cup {p}
    /\ pending' = pending \cup {"CHLD"}
    /\ UNCHANGED grouped

\* A program ends or stops by itself.
Program(p) ==
    /\ proc[p] = "running"
    /\ p \in grouped
    /\ Dies(p) \/ Stops(p)
    /\ UNCHANGED <<jobVars, mask, main, handlers>>

\* Ctrl-C or ctrl-Z.  It also reaches a child that is still in the shell's group,
\* where the handlers it inherited find no foreground job and ignore it.
Keyboard(sig) ==
    /\ main.pc \notin {"crashed", "exited"}
    /\ pending' = pending \cup {sig}
    /\ UNCHANGED <<jobVars, procVars, mask, main, handlers>>

\* kill(-p, sig), which fails when there is no group p.  A program may catch SIGINT and
\* SIGTSTP; one that continues tells the shell so with SIGCHLD.
Kill(p, sig) ==
    \/ /\ p \in grouped
       /\ \/ sig = "INT" /\ proc[p] = "running" /\ Dies(p)
          \/ sig = "TSTP" /\ proc[p] = "running" /\ Stops(p)
          \/ /\ sig = "CONT" /\ proc[p] = "stopped"
             /\ proc' = [proc EXCEPT ![p] = "running"]
             /\ unreported' = unreported \ {p}
             /\ pending' = pending \cup {"CHLD"}
             /\ UNCHANGED grouped
    \/ /\ p \in grouped /\ sig = "CONT" => proc[p] # "stopped"
       /\ UNCHANGED <<procVars, pending>>

-----------------------------------------------------------------------------
(* The main loop: eval, do_bgfg, waitfg *)

\* The main loop goes on when no handler runs.
At(pc) == main.pc = pc /\ handlers = <<>>

Goto(pc) == main' = [main EXCEPT !.pc = pc]

\* parseline: the arguments of a command, and whether it is to run in the background:
\* its last word begins with &, and is not an argument then.  A blank line is one too.
parseline(line) ==
    IF line = <<>> THEN [argv |-> <<>>, bg |-> TRUE]
    ELSE IF line[Len(line)] = "&" THEN [argv |-> SubSeq(line, 1, Len(line) - 1), bg |-> TRUE]
    ELSE [argv |-> line, bg |-> FALSE]

\* builtin_cmd: the shell runs these itself, with or without the &.
BuiltIns == {"quit", "jobs", "bg", "fg"}

IsExternal(argv) == argv # <<>> /\ argv[1] \notin BuiltIns

\* Slip of Command: SIGCHLD is not blocked before the fork.
CommandUnblocked(line) ==
    /\ At("prompt")
    /\ IsExternal(parseline(line).argv)
    /\ nextjid <= MaxJid
    /\ \E p \in Pids : proc[p] = "none"
    /\ main' = [main EXCEPT !.pc = "fork",
                            !.verb = IF parseline(line).bg THEN "run &" ELSE "run"]
    /\ UNCHANGED <<jobVars, procVars, pending, mask, handlers>>

\* eval of an external command blocks SIGCHLD before it forks.  (The command `jobs`, a
\* blank line, and bg or fg of what is no job change nothing.)
Command(line) ==
    /\ At("prompt")
    /\ IsExternal(parseline(line).argv)
    /\ nextjid <= MaxJid
    /\ \E p \in Pids : proc[p] = "none"
    /\ mask' = mask \cup {"CHLD"}
    /\ main' = [main EXCEPT !.pc = "fork",
                            !.verb = IF parseline(line).bg THEN "run &" ELSE "run"]
    /\ UNCHANGED <<jobVars, procVars, pending, handlers>>

\* The end of the shell: its children go on, and nobody tends them.
Exit ==
    /\ main' = [Prompt EXCEPT !.pc = "exited"]
    /\ handlers' = <<>> /\ pending' = {} /\ mask' = {}
    /\ jobs' = [i \in JobSlots |-> Cleared] /\ nextjid' = 1
    /\ UNCHANGED procVars

\* The command quit.  The end of the input, at the same place, has the same effect.
Quit(line) ==
    /\ At("prompt")
    /\ LET argv == parseline(line).argv IN argv # <<>> /\ argv[1] = "quit"
    /\ Exit

\* SIGQUIT, from the driver of the shell, in any place where the main loop
\* has not blocked every signal.
QuitSignal ==
    /\ main.pc \notin {"crashed", "exited"}
    /\ handlers = <<>> => mask # Signals
    /\ Exit

\* fork; its failure goes unnoticed here.  Ids are only compared with each other, so the
\* kernel may as well hand out the least one that is free.
Fork ==
    /\ At("fork")
    /\ \/ \E p \in Pids :
            /\ proc[p] = "none" /\ \A q \in Pids : proc[q] = "none" => p <= q
            /\ proc' = [proc EXCEPT ![p] = "running"]
            /\ main' = [main EXCEPT !.pc = "block", !.pid = p]
       \/ /\ main' = [main EXCEPT !.pc = "block", !.pid = 0]
          /\ UNCHANGED proc
    /\ UNCHANGED <<jobVars, grouped, unreported, pending, mask, handlers>>

BlockAll ==
    /\ At("block")
    /\ mask' = Signals
    /\ Goto("add")
    /\ UNCHANGED <<jobVars, procVars, pending, handlers>>

\* Slip of AddJob: the old mask is restored before waitfg is called.
AddJobUnblocks ==
    /\ At("add")
    /\ main.pid # 0
    /\ \E i \in First({j \in JobSlots : jobs[j].pid = 0}) :
        jobs' = [jobs EXCEPT ![i] =
                    [pid |-> main.pid, jid |-> nextjid,
                     state |-> IF main.verb = "run" THEN "FG" ELSE "BG"]]
    /\ nextjid' = IF nextjid + 1 > MAXJOBS THEN 1 ELSE nextjid + 1
    /\ mask' = {}
    /\ Goto(IF main.verb = "run" THEN "wait" ELSE "unblock")
    /\ UNCHANGED <<procVars, pending, handlers>>

\* addjob; in the background, eval goes on to print the job, which it looks up again
\* and dereferences: with no free slot (or no process) that is a null pointer.
AddJob ==
    /\ At("add")
    /\ LET empty == First({i \in JobSlots : jobs[i].pid = 0})
       IN  \/ /\ main.pid # 0 /\ empty # {}
              /\ \E i \in empty : jobs' = [jobs EXCEPT ![i] =
                    [pid |-> main.pid, jid |-> nextjid,
                     state |-> IF main.verb = "run" THEN "FG" ELSE "BG"]]
              /\ nextjid' = IF nextjid + 1 > MAXJOBS THEN 1 ELSE nextjid + 1
              /\ Goto(IF main.verb = "run" THEN "wait" ELSE "unblock")
           \/ /\ main.pid = 0 \/ empty = {}
              /\ UNCHANGED jobVars
              /\ Goto(IF main.verb = "run" THEN "wait" ELSE "crashed")
    /\ UNCHANGED <<procVars, pending, mask, handlers>>

\* The test of waitfg's loop, and its return: to eval, which restores the mask, or
\* to do_bgfg.
WaitTest ==
    /\ At("wait")
    /\ IF \E i \in getjobpid(main.pid) : jobs[i].state = "FG" THEN Goto("suspend")
       ELSE IF main.verb = "run" THEN Goto("unblock") ELSE main' = Prompt
    /\ UNCHANGED <<jobVars, procVars, pending, mask, handlers>>

\* sigsuspend: unblock everything and sleep until a handler has run, whose return puts
\* the mask back.
Suspend ==
    /\ At("suspend")
    /\ mask' = {}
    /\ main' = [main EXCEPT !.pc = "asleep", !.saved = mask]
    /\ UNCHANGED <<jobVars, procVars, pending, handlers>>

\* Slip of Wake: waitfg does not test again.
WakeReturns ==
    /\ At("asleep")
    /\ main.woken
    /\ main' = IF main.verb = "run" THEN [main EXCEPT !.pc = "unblock"] ELSE Prompt
    /\ UNCHANGED <<jobVars, procVars, pending, mask, handlers>>

Wake ==
    /\ At("asleep")
    /\ main.woken
    /\ main' = [main EXCEPT !.pc = "wait", !.saved = {}, !.woken = FALSE]
    /\ UNCHANGED <<jobVars, procVars, pending, mask, handlers>>

Unblock ==
    /\ At("unblock")
    /\ mask' = {}
    /\ main' = Prompt
    /\ UNCHANGED <<jobVars, procVars, pending, handlers>>

\* The jobs that an argument of bg and fg may name: %jid or pid.
Named == UNION ({getjobjid(jid) : jid \in 1 .. MaxJid} \cup {getjobpid(p) : p \in Pids})

\* do_bgfg finds a job in the right state, ...
BgFg(verb, i) ==
    /\ At("prompt")
    /\ i \in Named
    /\ jobs[i].state = "ST" \/ (verb = "fg" /\ jobs[i].state = "BG")
    /\ main' = [main EXCEPT !.pc = "set", !.verb = verb, !.job = i]
    /\ UNCHANGED <<jobVars, procVars, pending, mask, handlers>>

\* ... changes the state of the slot it has a pointer to, ...
SetState ==
    /\ At("set")
    /\ jobs' = [jobs EXCEPT ![main.job].state = IF main.verb = "fg" THEN "FG" ELSE "BG"]
    /\ Goto("continue")
    /\ UNCHANGED <<nextjid, procVars, pending, mask, handlers>>

\* ... continues the process that the slot names by then, and for fg waits for it.
Continue ==
    /\ At("continue")
    /\ Kill(jobs[main.job].pid, "CONT")
    /\ main' = IF main.verb = "fg"
               THEN [main EXCEPT !.pc = "wait", !.pid = jobs[main.job].pid] ELSE Prompt
    /\ UNCHANGED <<jobVars, mask, handlers>>

-----------------------------------------------------------------------------
(* The signal handlers *)

\* The mask to restore when the next handler returns.
ToRestore == IF At("asleep") THEN main.saved ELSE mask

Deliver(sig) ==
    /\ main.pc \notin {"crashed", "exited"}
    /\ sig \in pending \ mask
    /\ pending' = pending \ {sig}
    /\ mask' = mask \cup {sig}
    /\ handlers' = Append(handlers, [sig |-> sig, pc |-> "begin", pid |-> 0,
                                     stopped |-> FALSE, saved |-> ToRestore])
    /\ main' = [main EXCEPT !.woken = (main.pc = "asleep")]
    /\ UNCHANGED <<jobVars, procVars>>

\* The handler that runs, at pc.
Running == handlers[Len(handlers)]

InHandler(sigs, pc) ==
    /\ main.pc \notin {"crashed", "exited"}
    /\ handlers # <<>>
    /\ Running.sig \in sigs
    /\ Running.pc = pc

Become(frame) == handlers' = [handlers EXCEPT ![Len(handlers)] = frame]

Return ==
    /\ handlers' = SubSeq(handlers, 1, Len(handlers) - 1)
    /\ mask' = Running.saved

\* sigchld_handler: waitpid reaps a zombie or reports a stop, until there is none.
WaitPid ==
    /\ InHandler({"CHLD"}, "begin")
    /\ \/ \E p \in Pids :
            /\ proc[p] = "zombie"
            /\ proc' = [proc EXCEPT ![p] = "none"]
            /\ grouped' = grouped \ {p}
            /\ unreported' = unreported \ {p}
            /\ Become([Running EXCEPT !.pc = "update", !.pid = p, !.stopped = FALSE])
            /\ UNCHANGED mask
       \/ \E p \in unreported :
            /\ proc[p] = "stopped"
            /\ unreported' = unreported \ {p}
            /\ Become([Running EXCEPT !.pc = "update", !.pid = p, !.stopped = TRUE])
            /\ UNCHANGED <<proc, grouped, mask>>
       \/ /\ \A p \in Pids : proc[p] # "zombie"
          /\ unreported = {}
          /\ Return
          /\ UNCHANGED procVars
    /\ UNCHANGED <<jobVars, pending, main>>

\* With everything blocked, delete the job, or mark it as stopped: a stopped process
\* that is no job is a null pointer.
Update ==
    /\ InHandler({"CHLD"}, "update")
    /\ IF Running.stopped
       THEN /\ UNCHANGED nextjid
            /\ \/ /\ getjobpid(Running.pid) = {}
                  /\ Goto("crashed")
                  /\ UNCHANGED jobs
               \/ /\ \E i \in getjobpid(Running.pid) : jobs' = [jobs EXCEPT ![i].state = "ST"]
                  /\ UNCHANGED main
       ELSE deletejob(Running.pid) /\ UNCHANGED main
    /\ Become([Running EXCEPT !.pc = "begin", !.pid = 0, !.stopped = FALSE])
    /\ UNCHANGED <<procVars, pending, mask>>

\* sigint_handler and sigtstp_handler look for the foreground job, ...
FindForeground ==
    /\ InHandler({"INT", "TSTP"}, "begin")
    /\ \/ /\ fgpid \ {0} = {}
          /\ Return
       \/ \E p \in fgpid \ {0} :
            /\ Become([Running EXCEPT !.pc = "kill", !.pid = p])
            /\ UNCHANGED mask
    /\ UNCHANGED <<jobVars, procVars, pending, main>>

\* ... and pass the signal on to its group.
Forward ==
    /\ InHandler({"INT", "TSTP"}, "kill")
    /\ Kill(Running.pid, Running.sig)
    /\ Return
    /\ UNCHANGED <<jobVars, main>>

-----------------------------------------------------------------------------

MainStep ==
    \/ Fork \/ BlockAll \/ AddJob \/ WaitTest \/ Suspend \/ Wake \/ Unblock
    \/ SetState \/ Continue

HandlerStep == WaitPid \/ Update \/ FindForeground \/ Forward

Next ==
    \/ \E p \in Pids : SetPgid(p) \/ Program(p)
    \/ \E sig \in Keys : Keyboard(sig)
    \/ \E line \in Lines : Command(line) \/ Quit(line)
    \/ QuitSignal
    \/ \E verb \in {"bg", "fg"}, i \in JobSlots : BgFg(verb, i)
    \/ MainStep
    \/ \E sig \in Signals : Deliver(sig)
    \/ HandlerStep

\* The shell, be it the main loop or a handler, runs on, and so do new children.  The
\* user stops typing ctrl-C and ctrl-Z some time: the shell need not get ahead of keys
\* that are pressed for ever.  Nothing is assumed of the programs.
Spec ==
    /\ Init /\ [][Next]_vars
    /\ WF_vars(MainStep \/ HandlerStep \/ \E sig \in Signals : Deliver(sig))
    /\ \A p \in Pids : WF_vars(SetPgid(p))
    /\ <>[][\A sig \in Keys : ~ Keyboard(sig)]_vars

-----------------------------------------------------------------------------
(* Safety *)

\* The processes that a SIGCHLD handler has reaped and is about to delete.
Reaped == {handlers[k].pid : k \in {h \in DOMAIN handlers :
              handlers[h].pc = "update" /\ ~ handlers[h].stopped}}

\* Insert, then reap: every job in the list is a child that lives or is being reaped,
\* and no two jobs share one, however soon a child dies after fork.
JobsAreChildren ==
    \A i \in JobSlots : jobs[i].pid # 0 =>
        /\ proc[jobs[i].pid] # "none" \/ jobs[i].pid \in Reaped
        /\ \A j \in JobSlots \ {i} : jobs[j].pid # jobs[i].pid

\* A foreground job blocks the prompt: the shell reads no command while a job in the
\* list is in the foreground, whatever signals have interrupted waitfg.
ForegroundBlocksPrompt ==
    main.pc = "prompt" => \A i \in JobSlots : jobs[i].state = "FG" => jobs[i].pid = 0

\* Ctrl-C and ctrl-Z are for the foreground: the job a handler is about to signal is
\* not one in the background, although SIGCHLD may change the list in between.
KeyboardSparesBackground ==
    \A k \in DOMAIN handlers : handlers[k].pc = "kill" =>
        \A i \in getjobpid(handlers[k].pid) : jobs[i].state # "BG"

\* At most 1 job can be in the FG state (the comment on job states).
AtMostOneForeground ==
    Cardinality({i \in JobSlots : jobs[i].state = "FG"}) <= 1

-----------------------------------------------------------------------------
(* Liveness *)

\* The shell waits for a process that does not run any more.
WaitsInVain(verb) ==
    main.verb = verb /\ main.pc = "asleep" /\ main.pid # 0 /\ proc[main.pid] # "running"

\* eval blocks until its process is no longer the foreground process: no SIGCHLD is
\* lost between the test in waitfg and its sleep.
EvalReturns == WaitsInVain("run") ~> main.pc \in {"prompt", "crashed", "exited"}

\* The same of the fg command, which is what the comment on waitfg promises.
FgReturns == WaitsInVain("fg") ~> main.pc \in {"prompt", "crashed", "exited"}

=============================================================================
