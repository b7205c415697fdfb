----------------------------- MODULE TimeCommand -----------------------------
(***************************************************************************)
(* The event loop of zb time (cmd/src/time_command.rs) over the tracker of *)
(* ThreadTracker, and the processes it traces.                             *)
(*                                                                         *)
(* The kernel: a traced thread that forks, execs or is about to exit stops *)
(* with an event until the tracer has continued it; a new thread is born   *)
(* stopped; a dead one waits to be reaped.  wait4(-1) returns the event of *)
(* any of them: a child may start, exec and die before the event of the    *)
(* fork that made it is seen.  SIGKILL, and the exec or the exit of        *)
(* another thread of its process, reach a thread wherever it is: its       *)
(* pending event is lost, and an exit event may not come.                  *)
(*                                                                         *)
(* The loop continues a thread before it handles its event.  What it then  *)
(* reads from /proc matters for exec events only: they take two steps,     *)
(* Wait and RecordExec, and what the thread does in between is seen.       *)
(*                                                                         *)
(* A thread also stops before a signal is delivered to it, and is          *)
(* continued with the signal.  A real-time signal is none that             *)
(* WaitStatus::from_raw knows: the wait fails, which ends the loop.  What  *)
(* a signal sends to the command before its first exec is left out.        *)
(***************************************************************************)
EXTENDS ThreadTracker

CONSTANTS
    Root,       \* thread id of the command
    MaxExecs,   \* bound on execs after the first one
    Faults      \* which of FaultKinds may happen, once each

VARIABLES
    task,      \* task[t]: the kernel's side of thread t
    tracker,   \* the ThreadTracker
    loop,      \* "top", "wait", "handle", "report"; ends "printed", "panic" or "assert"
    seen,      \* the exec event being handled: the thread id before and after it
    deadline,  \* "none", "set" or "passed"
    term,      \* the terminate flag of the signal handlers
    rootEnd,   \* root_end
    alone,     \* the loop ended because there were no children left
    bound,     \* threads whose chain of spawn events had been seen by now
    sampled,   \* threads whose exit event was seen
    execs,     \* what really was executed: spans, with the command that did it
    faults     \* the Faults that happened, each once at most

loopVars == <<tracker, loop, seen, deadline, rootEnd, alone>>
history == <<bound, sampled, execs, faults>>
vars == <<task, loopVars, term, history>>

\* "kill": SIGKILL to a process; "zap": the exec or exit of a process takes its
\* other threads away; "late": with an exit event of those taken away;
\* "term": a termination signal to zb time; "thread_exec": threads other than the
\* leader exec; "reuse": a thread id is used again, once; "signal": another signal
\* than SIGKILL to a thread.
FaultKinds == {"kill", "zap", "late", "term", "thread_exec", "reuse", "signal"}

ASSUME RootAssumption == IsFiniteSet(Tids) /\ Root \in Tids /\ MaxExecs \in Nat
ASSUME FaultsAssumption == Faults \subseteq FaultKinds

NoEvent == [kind |-> "none"]
Start == [kind |-> "start"]
Spawned(c) == [kind |-> "spawn", child |-> c]
Exec(prev) == [kind |-> "exec", prev |-> prev]
Exiting(how) == [kind |-> "exit", how |-> how]
Dead(how) == [kind |-> "dead", how |-> how]
Signal(known) == [kind |-> "signal", known |-> known]

Unborn == [state |-> "unborn", event |-> NoEvent, leader |-> 0,
           cmd |-> 0, cpu |-> 0, how |-> NotEnded]

Alive(t) == task[t].state \in {"run", "stop"}
Pending(t) == task[t].event # NoEvent
Siblings(t) == {u \in Tids \ {t} : task[u].leader = task[t].leader /\ task[u].state # "unborn"}
Leads(t) == task[t].leader = t

Init ==
    /\ \E first \in {Start, Dead("exited")} :     \* execvp may fail
          task = [t \in Tids |-> IF t # Root THEN Unborn
                                 ELSE [Unborn EXCEPT !.state = IF first = Start THEN "stop" ELSE "zombie",
                                                     !.event = first, !.leader = Root]]
    /\ tracker = NewTracker
    /\ loop = "top" /\ seen = <<>> /\ deadline = "none" /\ term = FALSE
    /\ rootEnd = NotEnded /\ alone = FALSE
    /\ bound = {Root} /\ sampled = {} /\ execs = {} /\ faults = {}
-----------------------------------------------------------------------------
(* The traced processes. *)

\* What the processes do commutes with LookAtClock, and what threads other than the
\* one at hand do with RecordExec too: they move while the tracer waits.
Waiting == loop = "wait"
MayMove(t) == Waiting \/ (loop = "handle" /\ t = seen[1])
Tracing == loop \in {"top", "wait", "handle"}

Fault(kind) == kind \in Faults \ faults /\ faults' = faults \cup {kind}

\* A thread runs for a tick before each exec and before its end, the points at
\* which its CPU time is read.
Halt(t, event) ==
    task' = [task EXCEPT ![t].state = "stop", ![t].event = event, ![t].cpu = @ + 1]

\* fork or vfork (a new leader), or clone of a thread
Spawn(t, c, isFork) ==
    /\ Waiting /\ task[t].state = "run"
    /\ \/ task[c].state = "unborn" /\ UNCHANGED faults
       \/ task[c].state = "gone" /\ Fault("reuse")
    /\ task' = [task EXCEPT ![t].state = "stop", ![t].event = Spawned(c),
                            ![c] = [Unborn EXCEPT !.state = "stop", !.event = Start,
                                       !.cmd = task[t].cmd,
                                       !.leader = IF isFork THEN c ELSE task[t].leader]]
    /\ bound' = bound \ {c}
    /\ sampled' = sampled \ {c}
    /\ UNCHANGED <<loopVars, term, execs>>

ExecsLeft ==
    Cardinality(execs) + Len(seen) \div 2
      + Cardinality({u \in Tids : task[u].event.kind = "exec"}) <= MaxExecs

\* An exec is over when all other threads of the process are.
DoExec(t) ==
    /\ MayMove(t) /\ task[t].state = "run" /\ ExecsLeft
    /\ Leads(t) /\ \A u \in Siblings(t) : task[u].state = "gone"
    /\ Halt(t, Exec(t))
    /\ UNCHANGED <<loopVars, term, history>>

\* A thread that is not the leader takes the place of the dead leader, whose death
\* is not reported; its own thread id is gone.
ThreadExec(t) ==
    LET l == task[t].leader
    IN  /\ Fault("thread_exec") /\ Waiting /\ task[t].state = "run" /\ ExecsLeft
        /\ ~Leads(t) /\ task[l].state = "zombie"
        /\ \A u \in Siblings(t) \ {l} : task[u].state = "gone"
        /\ task' = [task EXCEPT ![l].state = "stop", ![l].event = Exec(t), ![l].cmd = task[t].cmd,
                                ![l].cpu = task[t].cpu + 1,
                                ![t].state = "gone", ![t].how = "exec"]
        /\ UNCHANGED <<loopVars, term, bound, sampled, execs>>

Exit(t, how) ==
    /\ MayMove(t) /\ task[t].state = "run"
    /\ Halt(t, Exiting(how))
    /\ UNCHANGED <<loopVars, term, history>>

\* A thread stops for a signal; real-time signals are not known to nix.
SignalStop(t, known) ==
    /\ Fault("signal") /\ MayMove(t) /\ task[t].state = "run"
    /\ task' = [task EXCEPT ![t].state = "stop", ![t].event = Signal(known)]
    /\ UNCHANGED <<loopVars, term, bound, sampled, execs>>

\* The threads ts are taken out of whatever they do.
TakeAway(ts, how, withEvent) ==
    (withEvent => "late" \in Faults) /\ task' = [u \in Tids |->
                IF u \notin ts THEN task[u]
                ELSE IF task[u].event.kind = "exit"
                     THEN [task[u] EXCEPT !.state = "zombie", !.event = Dead(task[u].event.how)]
                ELSE IF withEvent
                     THEN [task[u] EXCEPT !.state = "stop", !.event = Exiting(how)]
                ELSE [task[u] EXCEPT !.state = "zombie", !.event = Dead(how)]]

\* SIGKILL to the process of t, also while threads of it are stopped.
Kill(t, withEvent) ==
    /\ Fault("kill") /\ MayMove(t) /\ Leads(t)
    /\ LET hit == {u \in Siblings(t) \cup {t} : Alive(u)}
       IN  hit # {} /\ TakeAway(hit, "killed", withEvent)
    /\ UNCHANGED <<loopVars, term, bound, sampled, execs>>

\* Another thread of the process execs or ends the process.
Zap(t, withEvent) ==
    /\ Fault("zap") /\ Waiting /\ Alive(t) /\ task[t].event.kind # "exit"
    /\ \E u \in Siblings(t) : Alive(u)
    /\ TakeAway({t}, "exited", withEvent)
    /\ UNCHANGED <<loopVars, term, bound, sampled, execs>>
-----------------------------------------------------------------------------
(* zb time. *)

\* A leader is reaped last of its process.
Ready(t) ==
    /\ Pending(t)
    /\ task[t].state = "zombie" /\ Leads(t) => \A u \in Siblings(t) : task[u].state = "gone"

Resume(t) == task' = [task EXCEPT ![t].state = "run", ![t].event = NoEvent]

\* The rusage of wait4 is that of the process (and of the children it has waited
\* for, which are left out).
GroupCpu(t) ==
    MapThenSumSet(LAMBDA u : task[u].cpu, {u \in Tids : task[u].leader = task[t].leader})

\* What /proc/<tid>/cmdline says now.
Cmdline(t) ==
    IF task[t].state = "zombie" THEN "none"
    ELSE IF task[t].event.kind = "exec" THEN "next" ELSE "own"

\* A termination signal; once there is a deadline it changes nothing.
Terminate ==
    /\ "term" \in Faults /\ loop \in {"top", "wait"} /\ ~term /\ deadline = "none"
    /\ term' = TRUE
    /\ UNCHANGED <<task, loopVars, history>>

Elapse ==
    /\ loop \in {"top", "wait"} /\ deadline = "set"
    /\ deadline' = "passed"
    /\ UNCHANGED <<task, tracker, loop, seen, term, rootEnd, alone, history>>

\* The flag and the deadline are looked at between two calls of wait4.
LookAtClock ==
    /\ loop = "top"
    /\ deadline' = IF term /\ deadline = "none" THEN "set" ELSE deadline
    /\ loop' = IF deadline = "passed" THEN "report" ELSE "wait"
    /\ UNCHANGED <<task, tracker, seen, term, rootEnd, alone, history>>

\* Stopped: of a command or thread that starts.
SeeStart(t) ==
    /\ task[t].event = Start
    /\ IF \A u \in Tids : tracker.threads[u] = 0
       THEN /\ tracker' = HandleFirstExec(tracker, t)
            /\ task' = [task EXCEPT ![t].state = "run", ![t].event = NoEvent, ![t].cmd = tracker'.root]
            /\ execs' = execs \cup {[span |-> tracker'.root, above |-> 0, bound |-> TRUE]}
       ELSE /\ Resume(t)
            /\ UNCHANGED <<tracker, execs>>
    /\ loop' = "top"
    /\ UNCHANGED <<seen, deadline, rootEnd, bound, sampled>>

\* Mutant of SeeSpawn: the thread that forked is not continued.
SeeSpawnNoResume(t) ==
    /\ task[t].event.kind = "spawn"
    /\ LET c == task[t].event.child
       IN  /\ IF CanBind(tracker, c)
              THEN /\ tracker' = HandleSpawn(tracker, c, t, Leads(c))
                   /\ loop' = "top"
              ELSE /\ loop' = "assert"
                   /\ UNCHANGED tracker
           /\ bound' = IF t \in bound THEN bound \cup {c} ELSE bound
    /\ task' = [task EXCEPT ![t].event = NoEvent]
    /\ UNCHANGED <<seen, deadline, rootEnd, sampled, execs>>

\* PTRACE_EVENT_FORK, VFORK and CLONE
SeeSpawn(t) ==
    /\ task[t].event.kind = "spawn"
    /\ LET c == task[t].event.child
       IN  /\ IF CanBind(tracker, c)
              THEN /\ tracker' = HandleSpawn(tracker, c, t, Leads(c))
                   /\ loop' = "top"
              ELSE /\ loop' = "assert"
                   /\ UNCHANGED tracker
           /\ bound' = IF t \in bound THEN bound \cup {c} ELSE bound
    /\ Resume(t)
    /\ UNCHANGED <<seen, deadline, rootEnd, sampled, execs>>

\* PTRACE_EVENT_EXEC: the thread is continued first.
SeeExec(t) ==
    /\ task[t].event.kind = "exec"
    /\ seen' = <<t, task[t].event.prev>>
    /\ Resume(t)
    /\ loop' = "handle"
    /\ UNCHANGED <<tracker, deadline, rootEnd, bound, sampled, execs>>

\* Mutant of RecordExec: the command line is peeked from the memory of the thread,
\* which fails while it runs.
RecordExecPeek ==
    /\ loop = "handle"
    /\ LET pid  == seen[1]
           prev == seen[2]
           argv == IF task[pid].state = "stop" THEN Cmdline(pid) ELSE "none"
           cpu  == IF prev = pid THEN task[pid].cpu ELSE GroupCpu(pid)
       IN  /\ tracker' = HandleExec(tracker, pid, prev, argv, cpu)
           /\ task' = [task EXCEPT ![pid].cmd = tracker'.threads[pid]]
           /\ execs' = execs \cup {[span |-> tracker'.threads[pid], above |-> task[pid].cmd,
                                    bound |-> pid \in bound]}
    /\ loop' = "top" /\ seen' = <<>>
    /\ UNCHANGED <<deadline, term, rootEnd, alone, bound, sampled, faults>>

\* Then its command line and its CPU time are read.  Of a thread id that is gone
\* the CPU time cannot be read.
RecordExec ==
    /\ loop = "handle"
    /\ LET pid  == seen[1]
           prev == seen[2]
           cpu  == IF prev = pid THEN task[pid].cpu ELSE GroupCpu(pid)
       IN  /\ tracker' = HandleExec(tracker, pid, prev, Cmdline(pid), cpu)
           /\ task' = [task EXCEPT ![pid].cmd = tracker'.threads[pid]]
           /\ execs' = execs \cup {[span |-> tracker'.threads[pid], above |-> task[pid].cmd,
                                    bound |-> pid \in bound]}
    /\ loop' = "top" /\ seen' = <<>>
    /\ UNCHANGED <<deadline, term, rootEnd, alone, bound, sampled, faults>>

\* PTRACE_EVENT_EXIT is taken for a normal exit, of a thread killed by a signal too.
SeeExit(t) ==
    /\ task[t].event.kind = "exit"
    /\ LET how == task[t].event.how
       IN  /\ tracker' = FinishThread(tracker, t, "exited", task[t].cpu)
           /\ task' = [task EXCEPT ![t].state = "zombie", ![t].event = Dead(how)]
    /\ sampled' = sampled \cup {t}
    /\ loop' = "top"
    /\ UNCHANGED <<seen, deadline, rootEnd, bound, execs>>

\* Mutant of SeeDead: a signal ends no span.
SeeDeadExitedOnly(t) ==
    /\ task[t].event.kind = "dead"
    /\ LET how == task[t].event.how
       IN  /\ tracker' = IF how = "killed" THEN tracker
                         ELSE FinishThread(tracker, t, how, GroupCpu(t))
           /\ rootEnd' = IF t = Root THEN how ELSE rootEnd
           /\ deadline' = IF t = Root /\ how # "killed" THEN "set" ELSE deadline
    /\ task' = [task EXCEPT ![t].state = "gone", ![t].event = NoEvent,
                            ![t].how = task[t].event.how]
    /\ loop' = "top"
    /\ UNCHANGED <<seen, bound, sampled, execs>>

\* Exited and Signaled: the thread has been reaped, its CPU time cannot be read.
SeeDead(t) ==
    /\ task[t].event.kind = "dead"
    /\ LET how == task[t].event.how
       IN  /\ tracker' = FinishThread(tracker, t, how, GroupCpu(t))
           /\ rootEnd' = IF t = Root THEN how ELSE rootEnd
           /\ deadline' = IF t = Root /\ how # "killed" THEN "set" ELSE deadline
    /\ task' = [task EXCEPT ![t].state = "gone", ![t].event = NoEvent,
                            ![t].how = task[t].event.how]
    /\ loop' = "top"
    /\ UNCHANGED <<seen, bound, sampled, execs>>

\* Stopped, by a signal: the thread is continued with it.  (The first stop of all is
\* that of SeeStart.)
SeeSignal(t) ==
    /\ task[t].event = Signal(TRUE)
    /\ Resume(t)
    /\ loop' = "top"
    /\ UNCHANGED <<tracker, seen, deadline, rootEnd, bound, sampled, execs>>

\* A status that from_raw cannot read is any other error: the command gets exit
\* code 2, and the thread, like all others, is left as it is.
SeeUnknown(t) ==
    /\ task[t].event = Signal(FALSE)
    /\ loop' = "report" /\ rootEnd' = "exited"
    /\ UNCHANGED <<task, tracker, seen, deadline, bound, sampled, execs>>

\* wait4 returns an event.
Wait(t) ==
    /\ loop = "wait" /\ Ready(t)
    /\ \/ SeeStart(t) \/ SeeSpawn(t) \/ SeeExec(t) \/ SeeExit(t) \/ SeeDead(t)
       \/ SeeSignal(t) \/ SeeUnknown(t)
    /\ UNCHANGED <<term, alone, faults>>

\* Mutant of NoChildren: no children is no reason to stop before the deadline.
NoChildrenAfterDeadline ==
    /\ loop = "wait" /\ deadline # "none"
    /\ \A t \in Tids : task[t].state \in {"unborn", "gone"}
    /\ loop' = "report" /\ alone' = TRUE
    /\ UNCHANGED <<task, tracker, seen, deadline, term, rootEnd, history>>

\* wait4 fails with ECHILD.
NoChildren ==
    /\ loop = "wait"
    /\ \A t \in Tids : task[t].state \in {"unborn", "gone"}
    /\ loop' = "report" /\ alone' = TRUE
    /\ UNCHANGED <<task, tracker, seen, deadline, term, rootEnd, history>>

\* The report unwraps the root, borrows each span mutably on the way down, wants the
\* argv of the root and unwraps the end reason of every command.
Report ==
    /\ loop = "report"
    /\ loop' = IF /\ tracker.root # 0
                  /\ ~BorrowedTwice(tracker)
                  /\ tracker.spans[tracker.root].init = "exec"
                  /\ \A s \in Commands(tracker) : tracker.spans[s].end # NotEnded
               THEN "printed" ELSE "panic"
    /\ UNCHANGED <<task, tracker, seen, deadline, rootEnd, alone, term, history>>

Tracer == LookAtClock \/ (\E t \in Tids : Wait(t)) \/ RecordExec \/ NoChildren \/ Report

Next ==
    \/ Tracer \/ Terminate \/ Elapse
    \/ \E t, c \in Tids, isFork \in BOOLEAN : Spawn(t, c, isFork)
    \/ \E t \in Tids : DoExec(t) \/ ThreadExec(t)
    \/ \E t \in Tids, how \in Ends : Exit(t, how)
    \/ \E t \in Tids, known \in BOOLEAN : SignalStop(t, known)
    \/ \E t \in Tids, withEvent \in BOOLEAN : Kill(t, withEvent) \/ Zap(t, withEvent)

\* zb time runs, and so does the clock; what it traces need not.
Spec == Init /\ [][Next]_vars /\ WF_vars(Tracer) /\ WF_vars(Elapse)
-----------------------------------------------------------------------------
\* Each thread id has stood for one thread.
Stable == faults \cap {"thread_exec", "reuse"} = {}

\* Usage is never negative unless a thread id changed hands.
TypeOK ==
    /\ TrackerType(tracker)
    /\ Stable => \A s \in DOMAIN tracker.spans : tracker.spans[s].usage >= 0
    /\ \A t \in Tids : task[t].state \in {"unborn", "run", "stop", "zombie", "gone"}
    /\ loop \in {"top", "wait", "handle", "report", "printed", "panic", "assert"}
    /\ seen \in {<<>>} \cup (Tids \X Tids)
    /\ deadline \in {"none", "set", "passed"}
    /\ rootEnd \in Ends \cup {NotEnded}
    /\ bound \cup sampled \subseteq Tids

\* What compile_tree walks is a tree, in whatever order the events came, as long as
\* no thread id changes hands: no span is borrowed or added up twice.
TreeSound == Stable => IsTree(tracker)

\* A command executed by a thread whose spawn, and whose ancestors' spawns, had
\* been seen is reported, below the command that executed it; commands that
\* executed too early may be missing in between.
Reported ==
    Stable =>
    LET commands == Commands(tracker)
    IN  \A e \in execs : e.bound /\ e.above # 0 =>
        /\ e.span \in commands
        /\ (\E f \in execs : f.span = e.above /\ f.bound) =>
              CommandAbove(tracker, e.span) = e.above

\* The span of a reaped thread ended as the thread did.
EndReasons ==
    Stable => \A t \in Tids : task[t].state = "gone" =>
        /\ tracker.threads[t] # 0
        /\ tracker.spans[tracker.threads[t]].end = task[t].how

\* A command that came to a normal end is shown under its own name, although its
\* command line is read while it runs already: only a command that executed
\* another right away, or was killed, can be shown under another or none.
NamesRight ==
    Stable => \A t \in sampled : task[t].state = "gone" =>
        LET s == tracker.spans[tracker.threads[t]]
        IN  s.init = "exec" /\ s.end = "exited" => s.argv = "own"

\* The thread at which the wait failed stays stopped.
WaitFailed == \E t \in Tids : task[t].event = Signal(FALSE)

\* zb time fails the assertion of update_parent only after a thread id changed
\* hands.  Its report fails only after that, without a command that started, when
\* something has survived the deadline, or when a real-time signal has ended the
\* loop; and, but for that signal, it says of the command how it ended, if it did.
ReportPrints ==
    /\ loop = "assert" => ~Stable
    /\ loop = "panic" =>
          \/ ~Stable \/ tracker.root = 0
          \/ deadline = "passed" /\ \E t \in Tids : task[t].state \notin {"unborn", "gone"}
          \/ WaitFailed
    /\ loop = "printed" /\ Stable /\ ~WaitFailed => rootEnd = task[Root].how

\* The CPU time of a thread is the sum of that of its spans.  (With two execs it is
\* not: the first part is charged twice.)
CpuCounted(t) ==
    LET own == {s \in DOMAIN tracker.spans : tracker.spans[s].tid = t}
        Usage(s) == tracker.spans[s].usage
    IN  MapThenSumSet(Usage, own) = task[t].cpu

ExecutedOnce(t) == Cardinality({s \in DOMAIN tracker.spans : tracker.spans[s].tid = t}) <= 2

\* In a thread that executes one command no tick is charged to both the span before
\* the exec and the one after it, whenever it is read.
CpuOfOneExec ==
    Stable => \A t \in sampled : task[t].state = "gone" /\ ExecutedOnce(t) => CpuCounted(t)

\* What the report adds up: if every spawn was seen before what the child executed,
\* and every exit, the total of the command is the CPU time of all threads, and the
\* commands shown share it out among them.
TotalCpu ==
    LET born == {t \in Tids : task[t].state # "unborn"}
        commands == Commands(tracker)
        orderly == /\ alone /\ loop = "printed" /\ Stable
                   /\ born \subseteq bound \cap sampled
                   /\ \A t \in born : ExecutedOnce(t)
                   /\ \A e \in execs : e.bound
    IN  orderly => LET total == MapThenSumSet(LAMBDA t : task[t].cpu, born)
                   IN  /\ TreeCpu(tracker)[tracker.root] = total
                       /\ MapThenSumSet(LAMBDA s : SelfCpu(tracker)[s], commands) = total

\* After the command has ended the report follows, though what it left in the
\* background still runs.
EndsAfterRoot == (rootEnd # NotEnded) ~> ~Tracing

\* No traced thread stays stopped while zb time waits for others.
Resumed == \A t \in Tids : task[t].state = "stop" ~> (task[t].state # "stop" \/ ~Tracing)

\* When all that was traced is dead the report follows: nothing is left unreaped.
ReportFollows == (\A t \in Tids : ~Alive(t)) ~> ~Tracing
=============================================================================
