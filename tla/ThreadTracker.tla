---------------------------- MODULE ThreadTracker ----------------------------
(***************************************************************************)
(* The bookkeeping of zb time (cmd/src/thread_tracker.rs): what the        *)
(* handlers of spawn, exec and exit events do to the tracker, as functions *)
(* of a tracker record.                                                    *)
(*                                                                         *)
(*   threads[t]   the number of the span that stands for thread id t now,  *)
(*                0 if t is not in the map                                 *)
(*   spans[s]     every ThreadSpan ever made; its number s is its ordinal  *)
(*   root         the span of the command zb time was given, 0 before      *)
(*                                                                         *)
(* Rc<RefCell<ThreadSpan>> references are span numbers.  Of the resource   *)
(* usage the CPU time is kept, in ticks; the time stamps, the memory and   *)
(* the I/O figures are left out.  Of argv is kept whose it is: that of the *)
(* exec the span stands for, that of the exec after it, or nobody's.       *)
(***************************************************************************)
EXTENDS Integers, Sequences, FiniteSets, FiniteSetsExt

CONSTANT Tids   \* thread ids

Kinds == {"unknown", "forked", "thread", "exec"}   \* ThreadInit
Ends == {"exited", "killed"}                       \* how a thread can end
Reasons == Ends \cup {"exec"}                      \* ThreadEndReason
NotEnded == "running"                              \* end_reason: None
Argvs == {"own", "next", "none"}

NewSpan(tid) ==
    [tid |-> tid, init |-> "unknown", parent |-> 0, children |-> <<>>,
     argv |-> "none", end |-> NotEnded, usage |-> 0]

NewTracker == [threads |-> [t \in Tids |-> 0], spans |-> <<>>, root |-> 0]

GetThread(tr, tid) ==
    IF tr.threads[tid] # 0 THEN tr
    ELSE [tr EXCEPT !.threads[tid] = Len(tr.spans) + 1,
                    !.spans = Append(@, NewSpan(tid))]

\* Mutant of FinishThread: the usage is taken from the initial usage.
FinishThreadBackwards(tr, tid, reason, cpu) ==
    LET t1 == GetThread(tr, tid)
        s  == t1.threads[tid]
    IN  IF t1.spans[s].end = NotEnded
        THEN [t1 EXCEPT !.spans[s].end = reason, !.spans[s].usage = @ - cpu]
        ELSE IF reason = "killed" THEN [t1 EXCEPT !.spans[s].end = reason]
        ELSE t1

\* Mutant of FinishThread: the first reason stays, a signal's too.
FinishThreadOnce(tr, tid, reason, cpu) ==
    LET t1 == GetThread(tr, tid)
        s  == t1.threads[tid]
    IN  IF t1.spans[s].end = NotEnded
        THEN [t1 EXCEPT !.spans[s].end = reason, !.spans[s].usage = cpu - @]
        ELSE t1

\* The first end of a span counts, except that a signal overrides an exit code.
\* cpu is what the scheduler has charged to the thread since it was created;
\* usage holds the initial usage before the end and the span's own after it.
FinishThread(tr, tid, reason, cpu) ==
    LET t1 == GetThread(tr, tid)
        s  == t1.threads[tid]
    IN  IF t1.spans[s].end = NotEnded
        THEN [t1 EXCEPT !.spans[s].end = reason, !.spans[s].usage = cpu - @]
        ELSE IF reason = "killed" THEN [t1 EXCEPT !.spans[s].end = reason]
        ELSE t1

\* The span at the top of the chain of parents of s.
Top(spans, s) ==
    LET top[x \in DOMAIN spans] == IF spans[x].parent = 0 THEN x
                                   ELSE top[spans[x].parent]
    IN  top[s]

\* What update_parent asserts on its way up.
CanBind(tr, tid) ==
    LET ok[x \in DOMAIN tr.spans] ==
            tr.spans[x].parent = 0
            \/ (tr.spans[x].init = "exec" /\ ok[tr.spans[x].parent])
    IN  tr.threads[tid] # 0 => ok[tr.threads[tid]]

\* update_parent climbs to the top, whose parent becomes the spawner: an exec
\* event that came before the spawn event has put a span above this one.
HandleSpawn(tr, tid, parentTid, isFork) ==
    LET t1 == GetThread(GetThread(tr, parentTid), tid)
        p  == t1.threads[parentTid]
        s  == t1.threads[tid]
    IN  [t1 EXCEPT !.spans[Top(t1.spans, s)].parent = p,
                   !.spans[s].init = IF isFork THEN "forked" ELSE "thread",
                   !.spans[p].children = Append(@, s)]

\* The first stop of the command itself: no previous thread.
HandleFirstExec(tr, tid) ==
    LET t1 == GetThread(tr, tid)
        s  == t1.threads[tid]
    IN  [t1 EXCEPT !.spans[s].init = "exec", !.spans[s].argv = "own", !.root = s]

\* Mutant of HandleExec: the thread is not removed from the map.
HandleExecInPlace(tr, pid, prev, argv, cpu) ==
    LET t1 == FinishThread(tr, prev, "exec", cpu)
        s  == t1.threads[prev]
    IN  [t1 EXCEPT !.spans[s].init = "exec", !.spans[s].argv = argv, !.spans[s].parent = s,
                   !.spans[s].children = Append(@, s)]

\* Mutant of HandleExec: the new span is not put below the old one.
HandleExecNoChild(tr, pid, prev, argv, cpu) ==
    LET t1 == FinishThread(tr, prev, "exec", cpu)
        p  == t1.threads[prev]
        t2 == GetThread([t1 EXCEPT !.threads[prev] = 0], pid)
        s  == t2.threads[pid]
    IN  [t2 EXCEPT !.spans[s].init = "exec", !.spans[s].argv = argv, !.spans[s].parent = p,
                   !.spans[s].usage = t2.spans[p].usage]

\* Mutant of HandleExec: the new span starts without initial usage.
HandleExecFromZero(tr, pid, prev, argv, cpu) ==
    LET t1 == FinishThread(tr, prev, "exec", cpu)
        p  == t1.threads[prev]
        t2 == GetThread([t1 EXCEPT !.threads[prev] = 0], pid)
        s  == t2.threads[pid]
    IN  [t2 EXCEPT !.spans[s].init = "exec", !.spans[s].argv = argv, !.spans[s].parent = p,
                   !.spans[p].children = Append(@, s)]

\* The span of the thread that executed ends and stays, as parent of a new one.
\* The exec of a thread other than the leader takes over the leader's thread id:
\* what get_thread then finds is the leader's old span.
HandleExec(tr, pid, prev, argv, cpu) ==
    LET t1 == FinishThread(tr, prev, "exec", cpu)
        p  == t1.threads[prev]
        t2 == GetThread([t1 EXCEPT !.threads[prev] = 0], pid)
        s  == t2.threads[pid]
    IN  [t2 EXCEPT !.spans[s].init = "exec", !.spans[s].argv = argv, !.spans[s].parent = p,
                   !.spans[s].usage = t2.spans[p].usage,
                   !.spans[p].children = Append(@, s)]
-----------------------------------------------------------------------------
(* The tree the report walks (compile_tree, collect_commands). *)

Children(tr, s) == {tr.spans[s].children[i] : i \in DOMAIN tr.spans[s].children}

\* The spans reached from the root, in n steps down at most.
Reached(tr) ==
    LET down[n \in 0..Len(tr.spans)] ==
            IF n = 0 THEN {tr.root} \ {0}
            ELSE LET so_far == down[n - 1]
                 IN  so_far \cup UNION {Children(tr, s) : s \in so_far}
    IN  down[Len(tr.spans)]

Commands(tr) == {s \in Reached(tr) : tr.spans[s].init = "exec"}

\* The command under which collect_commands puts span s: the nearest one above.
CommandAbove(tr, s) ==
    LET reached == Reached(tr)
        above[x \in reached] ==
            IF x = tr.root THEN 0
            ELSE LET up == CHOOSE y \in reached : x \in Children(tr, y)
                 IN  IF tr.spans[up].init = "exec" THEN up ELSE above[up]
    IN  above[s]

\* No span is met twice on the way down, so none is added up twice.
IsTree(tr) ==
    LET reached == Reached(tr)
    IN  /\ \A s \in reached : tr.root \notin Children(tr, s)
        /\ \A s \in reached : \A i, j \in DOMAIN tr.spans[s].children :
              tr.spans[s].children[i] = tr.spans[s].children[j] => i = j
        /\ \A s, u \in reached : s # u => Children(tr, s) \cap Children(tr, u) = {}

\* compile_tree keeps each span borrowed mutably while it visits those below it:
\* a span that is its own descendant cannot be borrowed again.
BorrowedTwice(tr) ==
    \E s \in Reached(tr) : \E c \in Children(tr, s) :
        s \in Reached([tr EXCEPT !.root = c])

\* What compile_tree adds up in usage: the forked processes and the threads below
\* a span, down to the next exec.
SelfCpu(tr) ==
    LET self[s \in DOMAIN tr.spans] ==
            tr.spans[s].usage
            + MapThenSumSet(LAMBDA c : self[c],
                            {c \in Children(tr, s) : tr.spans[c].init \in {"forked", "thread"}})
    IN  self

\* Mutant of TreeCpu: only what was executed below counts.
TreeCpuExecsOnly(tr) ==
    LET tree[s \in DOMAIN tr.spans] ==
            tr.spans[s].usage
            + MapThenSumSet(LAMBDA c : tree[c],
                            {c \in Children(tr, s) : tr.spans[c].init = "exec"})
    IN  tree

\* What it adds up in tree_usage: everything below.
TreeCpu(tr) ==
    LET tree[s \in DOMAIN tr.spans] ==
            tr.spans[s].usage
            + MapThenSumSet(LAMBDA c : tree[c],
                            {c \in Children(tr, s) : tr.spans[c].init # "unknown"})
    IN  tree

TrackerType(tr) ==
    /\ tr.threads \in [Tids -> 0..Len(tr.spans)]
    /\ tr.root \in 0..Len(tr.spans)
    /\ \A s \in DOMAIN tr.spans :
          /\ tr.spans[s].tid \in Tids
          /\ tr.spans[s].init \in Kinds
          /\ tr.spans[s].parent \in 0..Len(tr.spans)
          /\ \A c \in Children(tr, s) : c \in DOMAIN tr.spans
          /\ tr.spans[s].end \in Reasons \cup {NotEnded}
          /\ tr.spans[s].argv \in Argvs
          /\ tr.spans[s].usage \in Int
=============================================================================
