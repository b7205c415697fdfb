-------------------------- MODULE TimeCommandProofs --------------------------
(***************************************************************************)
(* Theorems about the event loop of zb time, for any number of threads, in *)
(* whatever order their events are seen.                                   *)
(***************************************************************************)
EXTENDS TimeCommand, ThreadTrackerProofs, FiniteSetTheorems
-----------------------------------------------------------------------------
(* The CPU time of a process. *)

\* The CPU times of the threads in S, added up.
CpuOf(tk, S) == MapThenSumSet(LAMBDA u : tk[u].cpu, S)

\* They are the sum of a function.
LEMMA CpuSum ==
    ASSUME NEW tk, NEW S, IsFiniteSet(S)
    PROVE  CpuOf(tk, S) = SumOf([u \in S |-> tk[u].cpu], S)
<1> DEFINE v == [u \in S |-> tk[u].cpu]
           Step(f, s) == IF s = {} THEN 0 ELSE tk[Taken(s)].cpu + f[s \ {Taken(s)}]
           f == CHOOSE f : f = [s \in SUBSET S |-> Step(f, s)]
<1>1. CpuOf(tk, S) = f[S]
  BY DEF CpuOf, MapThenSumSet, MapThenFoldSet, Taken
<1>2. \A g : \A s \in SUBSET S : Step(g, s) = SumStep(v, g, s)
  BY Smaller DEF SumStep
<1> HIDE DEF Step, v
<1>3. \A g : Sums(v, S, g) <=> g = [s \in SUBSET S |-> Step(g, s)]
  BY <1>2 DEF Sums
<1>4. Sums(v, S, f)
  BY <1>3, SumsExist
<1> HIDE DEF f
<1> QED  BY <1>1, <1>4, SumValue DEF v

\* The CPU time of a process is a number, and no less than that of each thread.
LEMMA GroupTime ==
    ASSUME IsFiniteSet(Tids), \A u \in Tids : task[u].cpu \in Nat, NEW t \in Tids
    PROVE  GroupCpu(t) \in Nat /\ task[t].cpu <= GroupCpu(t)
<1> DEFINE S == {u \in Tids : task[u].leader = task[t].leader}
           v == [u \in S |-> task[u].cpu]
<1>1. IsFiniteSet(S) /\ t \in S /\ \A u \in S : v[u] = task[u].cpu /\ v[u] \in Nat
  BY FS_Subset
<1>2. GroupCpu(t) = CpuOf(task, S)
  BY DEF GroupCpu, CpuOf, MapThenSumSet, MapThenFoldSet
<1>3. CpuOf(task, S) = SumOf(v, S)
  BY <1>1, CpuSum
<1> HIDE DEF S, v
<1> QED  BY <1>1, <1>2, <1>3, SumNat
-----------------------------------------------------------------------------
(* The inductive invariant. *)

AnyEvent ==
    {NoEvent, Start} \cup {Spawned(c) : c \in Tids} \cup {Exec(u) : u \in Tids}
      \cup {Exiting(how) : how \in Ends} \cup {Dead(how) : how \in Ends}
      \cup {Signal(known) : known \in BOOLEAN}

TaskType ==
    [state : {"unborn", "run", "stop", "zombie", "gone"}, event : AnyEvent,
     leader : Tids \cup {0}, cmd : Nat, cpu : Nat, how : Reasons \cup {NotEnded}]

\* A thread has an event when it is stopped or dead, and only then.  The leader of
\* a process was born before its threads.
TaskInv ==
    /\ task \in [Tids -> TaskType]
    /\ \A t \in Tids :
          /\ task[t].state = "stop" <=> task[t].event.kind \in {"start", "spawn", "exec", "exit", "signal"}
          /\ task[t].state = "zombie" <=> task[t].event.kind = "dead"
          /\ task[t].state = "unborn" => task[t].cpu = 0
          /\ task[t].state # "unborn" => /\ task[t].leader \in Tids
                                         /\ task[task[t].leader].state # "unborn"

LoopInv ==
    /\ loop \in {"top", "wait", "handle", "report", "printed", "panic", "assert"}
    /\ seen \in {<<>>} \cup (Tids \X Tids)
    /\ loop = "handle" => seen \in Tids \X Tids
    /\ deadline \in {"none", "set", "passed"}
    /\ rootEnd \in Ends \cup {NotEnded}
    /\ bound \cup sampled \subseteq Tids
    /\ faults \subseteq FaultKinds

TypeInv == IsTracker(tracker) /\ TaskInv /\ LoopInv

Known(t) == tracker.threads[t] # 0
Handled(t) == loop = "handle" /\ t = seen[1]

\* Spans ended as their threads did, as far as that has been seen.
EndInv ==
    \A t \in Tids :
        /\ task[t].state = "gone" =>
              Known(t) /\ SpanOf(tracker, t).end = task[t].how /\ task[t].how \in Ends
        /\ task[t].state # "gone" /\ Known(t) => SpanOf(tracker, t).end \in {NotEnded, "exited"}

\* The thread of an exec is the last one of its process.
ExecInv ==
    \A t \in Tids :
        /\ task[t].event.kind = "exec" => task[t].event.prev = t
        /\ task[t].event.kind = "exec" => \A u \in Siblings(t) : task[u].state = "gone"
        /\ Handled(t) => /\ seen[2] = t /\ t \notin sampled
                         /\ task[t].state \in {"run", "stop", "zombie"}

\* An exec span has another argv than its own only if its thread will execute
\* again, was killed, or died without an exit event.
NameInv ==
    \A t \in Tids :
        /\ t \in sampled => task[t].state \in {"zombie", "gone"}
        /\ Known(t) /\ SpanOf(tracker, t).init = "exec" /\ SpanOf(tracker, t).argv # "own" =>
              \/ Handled(t)
              \/ task[t].event.kind = "exec"
              \/ task[t].event.kind \in {"exit", "dead"} /\ task[t].event.how = "killed"
              \/ task[t].state = "gone" /\ task[t].how = "killed"
              \/ task[t].state \in {"zombie", "gone"} /\ t \notin sampled

\* What a span is charged was used by its thread.
UsageInv ==
    \A s \in DOMAIN tracker.spans :
        LET span == tracker.spans[s] IN
        /\ span.usage >= 0
        /\ task[span.tid].state # "gone" => span.usage <= task[span.tid].cpu

\* The spawn of t may still be seen.
Awaited(t) == task[t].state = "unborn" \/ \E p \in Tids : task[p].event = Spawned(t)

\* Every thread but the root's is spawned once.
SpawnInv ==
    /\ task[Root].state # "unborn"
    /\ \A p, c \in Tids : task[p].event = Spawned(c) =>
          /\ c # Root /\ c # p /\ task[c].state # "unborn"
          /\ \A q \in Tids : task[q].event = Spawned(c) => q = p

LinkInv ==
    /\ Chained(tracker)
    /\ \A t \in Tids : t = Root \/ Awaited(t) => ~SpawnSeen(tracker, t)

\* The first span is that of the root's thread.
RootInv ==
    /\ tracker.spans = <<>> =>
          /\ \A t \in Tids \ {Root} : task[t].state = "unborn"
          /\ task[Root].event.kind \in {"start", "exit", "dead"} /\ loop # "handle"
    /\ tracker.spans # <<>> => tracker.spans[1].tid = Root
    /\ tracker.root # 0 => tracker.root = 1 /\ tracker.spans # <<>>

StableInv ==
    EndInv /\ ExecInv /\ NameInv /\ UsageInv /\ SpawnInv /\ LinkInv /\ RootInv

TrackInv == TypeInv /\ (Stable => StableInv)

\* What the events hold.
LEMMA EventKinds ==
    /\ NoEvent.kind = "none" /\ Start.kind = "start"
    /\ \A c : Spawned(c).kind = "spawn" /\ Spawned(c).child = c
    /\ \A u : Exec(u).kind = "exec" /\ Exec(u).prev = u
    /\ \A how : Exiting(how).kind = "exit" /\ Exiting(how).how = how
    /\ \A how : Dead(how).kind = "dead" /\ Dead(how).how = how
    /\ \A known : Signal(known).kind = "signal" /\ Signal(known).known = known
  BY DEF NoEvent, Start, Spawned, Exec, Exiting, Dead, Signal

\* Which events there are.
LEMMA Events ==
    /\ NoEvent \in AnyEvent /\ Start \in AnyEvent
    /\ \A t \in Tids : Spawned(t) \in AnyEvent /\ Exec(t) \in AnyEvent
    /\ \A how \in Ends : Exiting(how) \in AnyEvent /\ Dead(how) \in AnyEvent
    /\ \A known \in BOOLEAN : Signal(known) \in AnyEvent
    /\ \A e \in AnyEvent :
          /\ e.kind \in {"none", "start", "spawn", "exec", "exit", "signal", "dead"}
          /\ e.kind = "none" => e = NoEvent
          /\ e.kind = "start" => e = Start
          /\ e.kind = "spawn" => e.child \in Tids /\ e = Spawned(e.child)
          /\ e.kind = "exec" => e.prev \in Tids
          /\ e.kind \in {"exit", "dead"} => e.how \in Ends
  BY EventKinds DEF AnyEvent

\* What is known of a thread.
LEMMA TaskFields ==
    ASSUME TaskInv
    PROVE  /\ task \in [Tids -> TaskType]
           /\ \A t \in Tids :
                 /\ task[t] \in TaskType
                 /\ task[t].state \in {"unborn", "run", "stop", "zombie", "gone"}
                 /\ task[t].event \in AnyEvent
                 /\ task[t].cpu \in Nat
                 /\ task[t].event.kind = "none" <=> task[t].state \in {"unborn", "run", "gone"}
                 /\ task[t].event.kind \in {"start", "spawn", "exec", "exit", "signal"} <=> task[t].state = "stop"
                 /\ task[t].event.kind = "dead" <=> task[t].state = "zombie"
<1>1. task \in [Tids -> TaskType]
  BY DEF TaskInv
<1>2. ASSUME NEW t \in Tids
      PROVE  /\ task[t] \in TaskType
             /\ task[t].state \in {"unborn", "run", "stop", "zombie", "gone"}
             /\ task[t].event \in AnyEvent
             /\ task[t].cpu \in Nat
             /\ task[t].event.kind \in {"none", "start", "spawn", "exec", "exit", "signal", "dead"}
  <2>1. task[t] \in TaskType
    BY <1>1
  <2>2. /\ task[t].state \in {"unborn", "run", "stop", "zombie", "gone"}
        /\ task[t].event \in AnyEvent
        /\ task[t].cpu \in Nat
    BY <2>1 DEF TaskType
  <2> QED  BY <2>1, <2>2, Events
<1>3. ASSUME NEW t \in Tids
      PROVE  /\ task[t].event.kind \in {"start", "spawn", "exec", "exit", "signal"} <=> task[t].state = "stop"
             /\ task[t].event.kind = "dead" <=> task[t].state = "zombie"
  BY DEF TaskInv
<1>4. ASSUME NEW t \in Tids
      PROVE  task[t].event.kind = "none" <=> task[t].state \in {"unborn", "run", "gone"}
  BY <1>2, <1>3
<1> QED  BY <1>1, <1>2, <1>3, <1>4

\* A thread that is not born has a thread's type.
LEMMA UnbornType == Unborn \in TaskType
  BY Events DEF Unborn, TaskType

\* A thread stops with an event after a tick.
LEMMA HaltFacts ==
    ASSUME task \in [Tids -> TaskType], NEW t \in Tids, NEW event \in AnyEvent, Halt(t, event)
    PROVE  /\ task' \in [Tids -> TaskType]
           /\ \A u \in Tids : u # t => task'[u] = task[u]
           /\ task'[t].state = "stop" /\ task'[t].event = event
           /\ task'[t].cpu = task[t].cpu + 1 /\ task'[t].leader = task[t].leader
           /\ task'[t].how = task[t].how
<1> DEFINE r == task[t]
           new == [r EXCEPT !.state = "stop", !.event = event, !.cpu = r.cpu + 1]
<1>1. r \in TaskType
  OBVIOUS
<1>2. new \in TaskType /\ new.state = "stop" /\ new.event = event /\ new.cpu = r.cpu + 1
      /\ new.leader = r.leader /\ new.how = r.how
  <2> DEFINE n == r.cpu + 1
  <2>1. n \in Nat
    BY <1>1 DEF TaskType
  <2> HIDE DEF n, r
  <2>2. LET v == [r EXCEPT !.state = "stop", !.event = event, !.cpu = n] IN
        /\ v \in TaskType /\ v.state = "stop" /\ v.event = event /\ v.cpu = n
        /\ v.leader = r.leader /\ v.how = r.how
    BY <1>1, <2>1 DEF TaskType
  <2> QED  BY <2>2 DEF n
<1>3. task' = [task EXCEPT ![t] = new]
  BY DEF Halt, TaskType
<1> HIDE DEF new
<1> QED  BY <1>2, <1>3

\* A thread stops for a signal.
LEMMA SignalFacts ==
    ASSUME task \in [Tids -> TaskType], NEW t \in Tids, NEW known \in BOOLEAN,
           SignalStop(t, known)
    PROVE  /\ task' \in [Tids -> TaskType]
           /\ \A u \in Tids : u # t => task'[u] = task[u]
           /\ task'[t].state = "stop" /\ task'[t].event = Signal(known)
           /\ task'[t].cpu = task[t].cpu /\ task'[t].leader = task[t].leader
           /\ task'[t].how = task[t].how
<1> DEFINE r == task[t]
           new == [r EXCEPT !.state = "stop", !.event = Signal(known)]
<1>1. r \in TaskType
  OBVIOUS
<1>2. new \in TaskType /\ new.state = "stop" /\ new.event = Signal(known) /\ new.cpu = r.cpu
      /\ new.leader = r.leader /\ new.how = r.how
  BY <1>1, Events DEF TaskType
<1>3. task' = [task EXCEPT ![t] = new]
  BY DEF SignalStop, TaskType
<1> HIDE DEF new
<1> QED  BY <1>2, <1>3

\* A traced thread is continued.
LEMMA ResumeFacts ==
    ASSUME task \in [Tids -> TaskType], NEW t \in Tids, Resume(t)
    PROVE  /\ task' \in [Tids -> TaskType]
           /\ \A u \in Tids : u # t => task'[u] = task[u]
           /\ task'[t].state = "run" /\ task'[t].event = NoEvent
           /\ task'[t].cpu = task[t].cpu /\ task'[t].leader = task[t].leader
           /\ task'[t].how = task[t].how
<1> DEFINE r == task[t]
           new == [r EXCEPT !.state = "run", !.event = NoEvent]
<1>1. r \in TaskType
  OBVIOUS
<1>2. new \in TaskType /\ new.state = "run" /\ new.event = NoEvent /\ new.cpu = r.cpu
      /\ new.leader = r.leader /\ new.how = r.how
  BY <1>1, Events DEF TaskType
<1>3. task' = [task EXCEPT ![t] = new]
  BY DEF Resume, TaskType
<1> HIDE DEF new
<1> QED  BY <1>2, <1>3

\* A thread makes another.
LEMMA SpawnTaskFacts ==
    ASSUME TaskInv, NEW t \in Tids, NEW c \in Tids, NEW isFork \in BOOLEAN,
           Spawn(t, c, isFork)
    PROVE  /\ task' \in [Tids -> TaskType] /\ c # t
           /\ \A u \in Tids : u # t /\ u # c => task'[u] = task[u]
           /\ task'[t].state = "stop" /\ task'[t].event = Spawned(c)
           /\ task'[t].cpu = task[t].cpu /\ task'[t].leader = task[t].leader
           /\ task'[t].how = task[t].how
           /\ task'[c].state = "stop" /\ task'[c].event = Start
           /\ task'[c].cpu = 0
           /\ task'[c].leader = IF isFork THEN c ELSE task[t].leader
<1> DEFINE r == task[t]
           leader == IF isFork THEN c ELSE r.leader
           parent == [r EXCEPT !.state = "stop", !.event = Spawned(c)]
           child == [Unborn EXCEPT !.state = "stop", !.event = Start, !.cmd = r.cmd,
                                   !.leader = leader]
<1>1. r \in TaskType /\ task \in [Tids -> TaskType]
  BY DEF TaskInv
<1>2. c # t
  BY DEF Spawn
<1>3. /\ parent \in TaskType /\ parent.state = "stop" /\ parent.event = Spawned(c)
      /\ parent.cpu = r.cpu /\ parent.leader = r.leader /\ parent.how = r.how
  BY <1>1, Events DEF TaskType
<1>4. /\ child \in TaskType /\ child.state = "stop" /\ child.event = Start
      /\ child.cpu = 0 /\ child.leader = leader
  <2>1. leader \in Tids \cup {0} /\ r.cmd \in Nat
    BY <1>1 DEF TaskType
  <2> HIDE DEF leader, r
  <2>2. Unborn.cpu = 0
    BY DEF Unborn
  <2> QED  BY <2>1, <2>2, UnbornType, Events DEF TaskType
<1>5. task' = [task EXCEPT ![t] = parent, ![c] = child]
  <2>1. task' = [task EXCEPT ![t].state = "stop", ![t].event = Spawned(c), ![c] = child]
    BY DEF Spawn
  <2> HIDE DEF child
  <2> QED  BY <1>1, <2>1 DEF TaskType
<1> HIDE DEF child, parent
<1> QED  BY <1>1, <1>2, <1>3, <1>4, <1>5

\* Threads are taken out of whatever they do.
LEMMA TakeAwayFacts ==
    ASSUME TaskInv, NEW ts \in SUBSET Tids, NEW how \in Ends, NEW withEvent \in BOOLEAN,
           TakeAway(ts, how, withEvent)
    PROVE  /\ task' \in [Tids -> TaskType]
           /\ \A u \in Tids \ ts : task'[u] = task[u]
           /\ \A u \in ts :
                 /\ task'[u].cpu = task[u].cpu /\ task'[u].leader = task[u].leader
                 /\ task'[u].how = task[u].how
                 /\ \/ /\ task[u].event.kind = "exit"
                       /\ task'[u].state = "zombie" /\ task'[u].event = Dead(task[u].event.how)
                    \/ /\ task[u].event.kind # "exit"
                       /\ task'[u].state = "stop" /\ task'[u].event = Exiting(how)
                    \/ /\ task[u].event.kind # "exit"
                       /\ task'[u].state = "zombie" /\ task'[u].event = Dead(how)
<1> DEFINE Dies(r) == [r EXCEPT !.state = "zombie", !.event = Dead(r.event.how)]
           Stops(r) == [r EXCEPT !.state = "stop", !.event = Exiting(how)]
           Falls(r) == [r EXCEPT !.state = "zombie", !.event = Dead(how)]
           New(u) == IF u \notin ts THEN task[u]
                     ELSE IF task[u].event.kind = "exit" THEN Dies(task[u])
                     ELSE IF withEvent THEN Stops(task[u]) ELSE Falls(task[u])
<1>1. \A u \in Tids : task[u] \in TaskType /\ task[u].event \in AnyEvent
  BY TaskFields
<1>2. ASSUME NEW r \in TaskType
      PROVE  /\ r.event.kind = "exit" =>
                   /\ Dies(r) \in TaskType /\ Dies(r).cpu = r.cpu /\ Dies(r).leader = r.leader
                   /\ Dies(r).how = r.how
                   /\ Dies(r).state = "zombie" /\ Dies(r).event = Dead(r.event.how)
             /\ Stops(r) \in TaskType /\ Stops(r).cpu = r.cpu /\ Stops(r).leader = r.leader
             /\ Stops(r).how = r.how
             /\ Stops(r).state = "stop" /\ Stops(r).event = Exiting(how)
             /\ Falls(r) \in TaskType /\ Falls(r).cpu = r.cpu /\ Falls(r).leader = r.leader
             /\ Falls(r).how = r.how
             /\ Falls(r).state = "zombie" /\ Falls(r).event = Dead(how)
  <2>1. ASSUME r.event.kind = "exit"
        PROVE  /\ Dies(r) \in TaskType /\ Dies(r).cpu = r.cpu /\ Dies(r).leader = r.leader
               /\ Dies(r).how = r.how
               /\ Dies(r).state = "zombie" /\ Dies(r).event = Dead(r.event.how)
    <3>1. Dead(r.event.how) \in AnyEvent
      BY <2>1, Events DEF TaskType
    <3> QED  BY <3>1 DEF TaskType
  <2>2. /\ Stops(r) \in TaskType /\ Stops(r).cpu = r.cpu /\ Stops(r).leader = r.leader
        /\ Stops(r).how = r.how
        /\ Stops(r).state = "stop" /\ Stops(r).event = Exiting(how)
    BY Events DEF TaskType
  <2>3. /\ Falls(r) \in TaskType /\ Falls(r).cpu = r.cpu /\ Falls(r).leader = r.leader
        /\ Falls(r).how = r.how
        /\ Falls(r).state = "zombie" /\ Falls(r).event = Dead(how)
    BY Events DEF TaskType
  <2> HIDE DEF Dies, Stops, Falls
  <2> QED  BY <2>1, <2>2, <2>3
<1>3. task' = [u \in Tids |-> New(u)]
  BY DEF TakeAway
<1> HIDE DEF Dies, Stops, Falls
<1>4. \A u \in Tids : task'[u] = New(u) /\ New(u) \in TaskType
  BY <1>1, <1>2, <1>3
<1>5. task' \in [Tids -> TaskType]
  <2> HIDE DEF New
  <2> QED  BY <1>3, <1>4
<1>6. \A u \in Tids \ ts : task'[u] = task[u]
  BY <1>4
<1>7. ASSUME NEW u \in ts
      PROVE  /\ task'[u].cpu = task[u].cpu /\ task'[u].leader = task[u].leader
             /\ task'[u].how = task[u].how
             /\ \/ /\ task[u].event.kind = "exit"
                   /\ task'[u].state = "zombie" /\ task'[u].event = Dead(task[u].event.how)
                \/ /\ task[u].event.kind # "exit"
                   /\ task'[u].state = "stop" /\ task'[u].event = Exiting(how)
                \/ /\ task[u].event.kind # "exit"
                   /\ task'[u].state = "zombie" /\ task'[u].event = Dead(how)
  <2>1. CASE task[u].event.kind = "exit"
    BY <1>1, <1>2, <1>4, <2>1
  <2>2. CASE task[u].event.kind # "exit" /\ withEvent
    BY <1>1, <1>2, <1>4, <2>2
  <2>3. CASE task[u].event.kind # "exit" /\ ~withEvent
    BY <1>1, <1>2, <1>4, <2>3
  <2> QED  BY <2>1, <2>2, <2>3
<1> HIDE DEF New
<1> QED  BY <1>5, <1>6, <1>7

\* A thread that is about to exit dies.
LEMMA ExitTaskFacts ==
    ASSUME TaskInv, NEW t \in Tids, SeeExit(t)
    PROVE  /\ task' \in [Tids -> TaskType]
           /\ \A u \in Tids : u # t => task'[u] = task[u]
           /\ task'[t].state = "zombie" /\ task'[t].event = Dead(task[t].event.how)
           /\ task'[t].cpu = task[t].cpu /\ task'[t].leader = task[t].leader
           /\ task'[t].how = task[t].how
           /\ task[t].event.how \in Ends
<1> DEFINE r == task[t]
           how == r.event.how
           new == [r EXCEPT !.state = "zombie", !.event = Dead(how)]
<1>1. task \in [Tids -> TaskType] /\ r \in TaskType /\ r.event \in AnyEvent
  BY TaskFields
<1>2. how \in Ends
  BY <1>1, Events DEF SeeExit
<1>3. task' = [task EXCEPT ![t] = new]
  BY <1>1 DEF SeeExit, TaskType
<1>4. /\ new \in TaskType /\ new.state = "zombie" /\ new.event = Dead(how)
      /\ new.cpu = r.cpu /\ new.leader = r.leader /\ new.how = r.how
  <2>1. Dead(how) \in AnyEvent
    BY <1>2, Events
  <2> HIDE DEF how
  <2> QED  BY <1>1, <2>1 DEF TaskType
<1> HIDE DEF new
<1> QED  BY <1>1, <1>2, <1>3, <1>4

\* A dead thread is reaped.
LEMMA DeadTaskFacts ==
    ASSUME TaskInv, NEW t \in Tids, SeeDead(t)
    PROVE  /\ task' \in [Tids -> TaskType]
           /\ \A u \in Tids : u # t => task'[u] = task[u]
           /\ task'[t].state = "gone" /\ task'[t].event = NoEvent
           /\ task'[t].how = task[t].event.how
           /\ task'[t].cpu = task[t].cpu /\ task'[t].leader = task[t].leader
           /\ task[t].event.how \in Ends
<1> DEFINE r == task[t]
           how == r.event.how
           new == [r EXCEPT !.state = "gone", !.event = NoEvent, !.how = how]
<1>1. task \in [Tids -> TaskType] /\ r \in TaskType /\ r.event \in AnyEvent
  BY TaskFields
<1>2. how \in Ends
  BY <1>1, Events DEF SeeDead
<1>3. task' = [task EXCEPT ![t] = new]
  BY <1>1 DEF SeeDead, TaskType
<1>4. /\ new \in TaskType /\ new.state = "gone" /\ new.event = NoEvent /\ new.how = how
      /\ new.cpu = r.cpu /\ new.leader = r.leader
  <2>1. how \in Reasons \cup {NotEnded}
    BY <1>2 DEF Reasons
  <2> HIDE DEF how
  <2> QED  BY <1>1, <2>1, Events DEF TaskType
<1> HIDE DEF new
<1> QED  BY <1>1, <1>2, <1>3, <1>4

\* The command starts.
LEMMA FirstExecTaskFacts ==
    ASSUME TaskInv, NEW t \in Tids, NEW n \in Nat,
           task' = [task EXCEPT ![t].state = "run", ![t].event = NoEvent, ![t].cmd = n]
    PROVE  /\ task' \in [Tids -> TaskType]
           /\ \A u \in Tids : u # t => task'[u] = task[u]
           /\ task'[t].state = "run" /\ task'[t].event = NoEvent
           /\ task'[t].cpu = task[t].cpu /\ task'[t].leader = task[t].leader
           /\ task'[t].how = task[t].how
<1> DEFINE r == task[t]
           new == [r EXCEPT !.state = "run", !.event = NoEvent, !.cmd = n]
<1>1. task \in [Tids -> TaskType] /\ r \in TaskType
  BY TaskFields
<1>2. task' = [task EXCEPT ![t] = new]
  BY <1>1 DEF TaskType
<1>3. /\ new \in TaskType /\ new.state = "run" /\ new.event = NoEvent
      /\ new.cpu = r.cpu /\ new.leader = r.leader /\ new.how = r.how
  BY <1>1, Events DEF TaskType
<1> HIDE DEF new
<1> QED  BY <1>1, <1>2, <1>3

\* A thread's command is another one.
LEMMA CmdFacts ==
    ASSUME TaskInv, NEW t \in Tids, NEW n \in Nat, task' = [task EXCEPT ![t].cmd = n]
    PROVE  /\ task' \in [Tids -> TaskType]
           /\ \A u \in Tids : u # t => task'[u] = task[u]
           /\ task'[t].state = task[t].state /\ task'[t].event = task[t].event
           /\ task'[t].cpu = task[t].cpu /\ task'[t].leader = task[t].leader
           /\ task'[t].how = task[t].how
<1> DEFINE r == task[t]
           new == [r EXCEPT !.cmd = n]
<1>1. task \in [Tids -> TaskType] /\ r \in TaskType
  BY TaskFields
<1>2. task' = [task EXCEPT ![t] = new]
  BY <1>1 DEF TaskType
<1>3. /\ new \in TaskType /\ new.state = r.state /\ new.event = r.event
      /\ new.cpu = r.cpu /\ new.leader = r.leader /\ new.how = r.how
  BY <1>1 DEF TaskType
<1> HIDE DEF new
<1> QED  BY <1>1, <1>2, <1>3

\* A thread takes the leader's place.
LEMMA ThreadExecFacts ==
    ASSUME TaskInv, NEW t \in Tids, ThreadExec(t), task[t].leader \in Tids
    PROVE  /\ task' \in [Tids -> TaskType]
           /\ LET l == task[t].leader IN
              /\ l # t
              /\ \A u \in Tids : u # t /\ u # l => task'[u] = task[u]
              /\ task'[l].state = "stop" /\ task'[l].event = Exec(t)
              /\ task'[t].state = "gone" /\ task'[t].event = NoEvent
<1> DEFINE r == task[t]
           l == r.leader
           n == r.cpu + 1
           cmd == r.cmd
           new == [task[l] EXCEPT !.state = "stop", !.event = Exec(t), !.cmd = cmd, !.cpu = n]
           old == [r EXCEPT !.state = "gone", !.how = "exec"]
<1>1. task \in [Tids -> TaskType] /\ r \in TaskType /\ task[l] \in TaskType
  BY TaskFields
<1>2. l # t /\ r.state = "run" /\ r.event \in AnyEvent /\ r.event.kind = "none"
  BY TaskFields DEF ThreadExec, Leads
<1>3. n \in Nat /\ cmd \in Nat /\ Exec(t) \in AnyEvent
  BY <1>1, Events DEF TaskType
<1>4. /\ new \in TaskType /\ new.state = "stop" /\ new.event = Exec(t)
  <2> HIDE DEF n, cmd, l
  <2> QED  BY <1>1, <1>3 DEF TaskType
<1>5. /\ old \in TaskType /\ old.state = "gone" /\ old.event = NoEvent
  <2>1. r.event = NoEvent
    BY <1>2, Events
  <2>2. "exec" \in Reasons
    BY DEF Reasons
  <2> HIDE DEF r
  <2> QED  BY <1>1, <2>1, <2>2 DEF TaskType
<1>6. task' = [task EXCEPT ![l] = new, ![t] = old]
  <2>1. task' = [task EXCEPT ![l].state = "stop", ![l].event = Exec(t), ![l].cmd = cmd,
                             ![l].cpu = n, ![t].state = "gone", ![t].how = "exec"]
    BY DEF ThreadExec
  <2> HIDE DEF cmd, n, l
  <2> QED  BY <1>1, <1>2, <2>1 DEF TaskType
<1> HIDE DEF new, old
<1> QED  BY <1>1, <1>2, <1>4, <1>5, <1>6
-----------------------------------------------------------------------------
(* Types. *)

\* The types hold at first.
LEMMA InitTypes == Init => TypeInv
<1> SUFFICES ASSUME Init
             PROVE  TypeInv
  OBVIOUS
<1> USE RootAssumption
<1>1. PICK first \in {Start, Dead("exited")} :
          task = [t \in Tids |-> IF t # Root THEN Unborn
                                 ELSE [Unborn EXCEPT !.state = IF first = Start THEN "stop" ELSE "zombie",
                                                     !.event = first, !.leader = Root]]
  BY DEF Init
<1> DEFINE state == IF first = Start THEN "stop" ELSE "zombie"
           new == [Unborn EXCEPT !.state = state, !.event = first, !.leader = Root]
<1>2. /\ new \in TaskType /\ new.state = state /\ new.event = first /\ new.leader = Root
  <2>1. state \in {"stop", "zombie"} /\ first \in AnyEvent
    BY Events DEF Ends
  <2> HIDE DEF state
  <2> QED  BY <2>1, UnbornType DEF TaskType
<1>3. \A t \in Tids : task[t] = IF t # Root THEN Unborn ELSE new
  BY <1>1
<1> HIDE DEF new
<1>4. task \in [Tids -> TaskType]
  BY <1>1, <1>2, UnbornType DEF new
<1>5. /\ Unborn.state = "unborn" /\ Unborn.event.kind = "none" /\ Unborn.cpu = 0
  BY EventKinds DEF Unborn
<1>6. /\ state = "stop" => first.kind = "start"
      /\ state = "zombie" => first.kind = "dead"
      /\ state \in {"stop", "zombie"}
  BY EventKinds
<1> HIDE DEF state
<1>7. TaskInv
  BY <1>2, <1>3, <1>4, <1>5, <1>6 DEF TaskInv
<1>8. IsTracker(tracker)
  BY NewTrackerType DEF Init
<1>9. LoopInv
  BY DEF Init, LoopInv
<1> QED  BY <1>7, <1>8, <1>9 DEF TypeInv

\* One thread changed to a state that fits its event.
LEMMA OneMoved ==
    ASSUME TaskInv, NEW t \in Tids, task' \in [Tids -> TaskType],
           \A u \in Tids : u # t => task'[u] = task[u],
           task'[t].state = "stop" <=> task'[t].event.kind \in {"start", "spawn", "exec", "exit", "signal"},
           task'[t].state = "zombie" <=> task'[t].event.kind = "dead",
           task'[t].state # "unborn", task[t].state # "unborn",
           task'[t].leader = task[t].leader
    PROVE  TaskInv'
<1>1. \A u \in Tids : task'[u].state # "unborn" <=> task[u].state # "unborn"
  OBVIOUS
<1>2. \A u \in Tids :
          task'[u].state # "unborn" => /\ task'[u].leader \in Tids
                                       /\ task'[task'[u].leader].state # "unborn"
  BY <1>1 DEF TaskInv
<1>3. \A u \in Tids :
          /\ task'[u].state = "stop" <=> task'[u].event.kind \in {"start", "spawn", "exec", "exit", "signal"}
          /\ task'[u].state = "zombie" <=> task'[u].event.kind = "dead"
          /\ task'[u].state = "unborn" => task'[u].cpu = 0
  BY DEF TaskInv
<1> QED  BY <1>2, <1>3 DEF TaskInv

\* The threads that move.
LEMMA ProcessTypes ==
    ASSUME TaskInv, NEW t \in Tids
    PROVE  /\ \A c \in Tids, isFork \in BOOLEAN : Spawn(t, c, isFork) => TaskInv'
           /\ DoExec(t) \/ ThreadExec(t) => TaskInv'
           /\ \A how \in Ends : Exit(t, how) => TaskInv'
           /\ \A known \in BOOLEAN : SignalStop(t, known) => TaskInv'
           /\ \A withEvent \in BOOLEAN : Kill(t, withEvent) \/ Zap(t, withEvent) => TaskInv'
<1>0. task \in [Tids -> TaskType]
  BY TaskFields
<1>1. ASSUME NEW c \in Tids, NEW isFork \in BOOLEAN, Spawn(t, c, isFork)
      PROVE  TaskInv'
  <2>1. /\ task' \in [Tids -> TaskType] /\ c # t
        /\ \A u \in Tids : u # t /\ u # c => task'[u] = task[u]
        /\ task'[t].state = "stop" /\ task'[t].event = Spawned(c)
        /\ task'[t].leader = task[t].leader
        /\ task'[c].state = "stop" /\ task'[c].event = Start
        /\ task'[c].leader = IF isFork THEN c ELSE task[t].leader
    BY <1>1, SpawnTaskFacts
  <2>2. task[t].state = "run"
    BY <1>1 DEF Spawn
  <2>3. \A u \in Tids : task[u].state # "unborn" => task'[u].state # "unborn"
    BY <2>1
  <2>4. task[t].leader \in Tids /\ task[task[t].leader].state # "unborn"
    BY <2>2 DEF TaskInv
  <2>5. \A u \in Tids :
          task'[u].state # "unborn" => /\ task'[u].leader \in Tids
                                       /\ task'[task'[u].leader].state # "unborn"
    BY <2>1, <2>2, <2>3, <2>4 DEF TaskInv
  <2>6. \A u \in Tids :
          /\ task'[u].state = "stop" <=> task'[u].event.kind \in {"start", "spawn", "exec", "exit", "signal"}
          /\ task'[u].state = "zombie" <=> task'[u].event.kind = "dead"
          /\ task'[u].state = "unborn" => task'[u].cpu = 0
    BY <2>1, EventKinds DEF TaskInv
  <2> QED  BY <2>1, <2>5, <2>6 DEF TaskInv
<1>2. ASSUME DoExec(t)
      PROVE  TaskInv'
  <2>1. Halt(t, Exec(t)) /\ Exec(t) \in AnyEvent /\ task[t].state = "run"
    BY <1>2, Events DEF DoExec
  <2>2. /\ task' \in [Tids -> TaskType]
        /\ \A u \in Tids : u # t => task'[u] = task[u]
        /\ task'[t].state = "stop" /\ task'[t].event = Exec(t)
        /\ task'[t].leader = task[t].leader
    BY <1>0, <2>1, HaltFacts
  <2> QED  BY <2>1, <2>2, EventKinds, OneMoved
<1>3. ASSUME ThreadExec(t)
      PROVE  TaskInv'
  <2> DEFINE l == task[t].leader
  <2>1. task[t].state = "run" /\ task[l].state = "zombie"
    BY <1>3 DEF ThreadExec
  <2>2. l \in Tids
    BY <2>1 DEF TaskInv
  <2>3. /\ task' \in [Tids -> TaskType] /\ l # t
        /\ \A u \in Tids : u # t /\ u # l => task'[u] = task[u]
        /\ task'[l].state = "stop" /\ task'[l].event = Exec(t)
        /\ task'[t].state = "gone" /\ task'[t].event = NoEvent
    BY <1>3, <2>2, ThreadExecFacts
  <2>4. task'[l].leader = task[l].leader /\ task'[t].leader = task[t].leader
    <3>1. task' = [task EXCEPT ![l].state = "stop", ![l].event = Exec(t), ![l].cmd = task[t].cmd,
                                ![l].cpu = task[t].cpu + 1,
                                ![t].state = "gone", ![t].how = "exec"]
      BY <1>3 DEF ThreadExec
    <3>2. task[t] \in TaskType /\ task[l] \in TaskType
      BY <1>0, <2>2
    <3> HIDE DEF l
    <3> QED  BY <1>0, <2>2, <2>3, <3>1, <3>2 DEF TaskType
  <2> HIDE DEF l
  <2>5. \A u \in Tids : /\ task'[u].leader = task[u].leader
                        /\ task'[u].state # "unborn" <=> task[u].state # "unborn"
    BY <2>1, <2>3, <2>4
  <2>6. \A u \in Tids :
          task'[u].state # "unborn" => /\ task'[u].leader \in Tids
                                       /\ task'[task'[u].leader].state # "unborn"
    BY <2>5 DEF TaskInv
  <2>7. \A u \in Tids :
          /\ task'[u].state = "stop" <=> task'[u].event.kind \in {"start", "spawn", "exec", "exit", "signal"}
          /\ task'[u].state = "zombie" <=> task'[u].event.kind = "dead"
          /\ task'[u].state = "unborn" => task'[u].cpu = 0
    BY <2>3, EventKinds DEF TaskInv
  <2> QED  BY <2>3, <2>6, <2>7 DEF TaskInv
<1>4. ASSUME NEW how \in Ends, Exit(t, how)
      PROVE  TaskInv'
  <2>1. Halt(t, Exiting(how)) /\ Exiting(how) \in AnyEvent /\ task[t].state = "run"
    BY <1>4, Events DEF Exit
  <2>2. /\ task' \in [Tids -> TaskType]
        /\ \A u \in Tids : u # t => task'[u] = task[u]
        /\ task'[t].state = "stop" /\ task'[t].event = Exiting(how)
        /\ task'[t].leader = task[t].leader
    BY <1>0, <2>1, HaltFacts
  <2> QED  BY <2>1, <2>2, EventKinds, OneMoved
<1>5. ASSUME NEW ts \in SUBSET Tids, NEW how \in Ends, NEW withEvent \in BOOLEAN,
             TakeAway(ts, how, withEvent), \A u \in ts : Alive(u)
      PROVE  TaskInv'
  <2>1. /\ task' \in [Tids -> TaskType]
        /\ \A u \in Tids \ ts : task'[u] = task[u]
        /\ \A u \in ts :
              /\ task'[u].leader = task[u].leader
              /\ \/ task'[u].state = "zombie" /\ task'[u].event = Dead(task[u].event.how)
                 \/ task'[u].state = "stop" /\ task'[u].event = Exiting(how)
                 \/ task'[u].state = "zombie" /\ task'[u].event = Dead(how)
    BY <1>5, TakeAwayFacts
  <2>2. \A u \in Tids : /\ task'[u].leader = task[u].leader
                        /\ task'[u].state # "unborn" <=> task[u].state # "unborn"
    BY <1>5, <2>1 DEF Alive
  <2>3. \A u \in Tids :
          task'[u].state # "unborn" => /\ task'[u].leader \in Tids
                                       /\ task'[task'[u].leader].state # "unborn"
    BY <2>2 DEF TaskInv
  <2>4. \A u \in Tids :
          /\ task'[u].state = "stop" <=> task'[u].event.kind \in {"start", "spawn", "exec", "exit", "signal"}
          /\ task'[u].state = "zombie" <=> task'[u].event.kind = "dead"
          /\ task'[u].state = "unborn" => task'[u].cpu = 0
    BY <2>1, EventKinds DEF TaskInv
  <2> QED  BY <2>1, <2>3, <2>4 DEF TaskInv
<1>6. ASSUME NEW withEvent \in BOOLEAN, Kill(t, withEvent)
      PROVE  TaskInv'
  <2> DEFINE hit == {u \in Siblings(t) \cup {t} : Alive(u)}
  <2>1. TakeAway(hit, "killed", withEvent)
    BY <1>6 DEF Kill
  <2>2. hit \in SUBSET Tids /\ \A u \in hit : Alive(u)
    BY DEF Siblings
  <2> HIDE DEF hit
  <2> QED  BY <1>5, <2>1, <2>2 DEF Ends
<1>7. ASSUME NEW withEvent \in BOOLEAN, Zap(t, withEvent)
      PROVE  TaskInv'
  <2>1. TakeAway({t}, "exited", withEvent) /\ Alive(t)
    BY <1>7 DEF Zap
  <2> QED  BY <1>5, <2>1 DEF Ends
<1>8. ASSUME NEW known \in BOOLEAN, SignalStop(t, known)
      PROVE  TaskInv'
  <2>1. task[t].state = "run"
    BY <1>8 DEF SignalStop
  <2>2. /\ task' \in [Tids -> TaskType]
        /\ \A u \in Tids : u # t => task'[u] = task[u]
        /\ task'[t].state = "stop" /\ task'[t].event = Signal(known)
        /\ task'[t].leader = task[t].leader
    BY <1>0, <1>8, SignalFacts
  <2> QED  BY <2>1, <2>2, EventKinds, OneMoved
<1> QED  BY <1>1, <1>2, <1>3, <1>4, <1>6, <1>7, <1>8

\* Times that zb time reads.
LEMMA TimeTypes ==
    ASSUME TaskInv, NEW t \in Tids
    PROVE  task[t].cpu \in Nat /\ GroupCpu(t) \in Nat /\ task[t].cpu <= GroupCpu(t)
<1>1. \A u \in Tids : task[u].cpu \in Nat
  BY TaskFields
<1> QED  BY <1>1, GroupTime, RootAssumption

\* The events that are seen.
LEMMA SeeTypes ==
    ASSUME TypeInv, NEW t \in Tids, loop = "wait"
    PROVE  /\ SeeStart(t) => IsTracker(tracker)' /\ TaskInv'
           /\ SeeSpawn(t) => IsTracker(tracker)' /\ TaskInv'
           /\ SeeExec(t) => IsTracker(tracker)' /\ TaskInv'
           /\ SeeExit(t) => IsTracker(tracker)' /\ TaskInv'
           /\ SeeDead(t) => IsTracker(tracker)' /\ TaskInv'
           /\ SeeSignal(t) \/ SeeUnknown(t) => IsTracker(tracker)' /\ TaskInv'
<1>1. /\ IsTracker(tracker) /\ TaskInv
      /\ task \in [Tids -> TaskType]
      /\ task[t].event \in AnyEvent
      /\ task[t].event.kind = "none" <=> task[t].state \in {"unborn", "run", "gone"}
  BY TaskFields DEF TypeInv
<1>2. ASSUME Resume(t), task[t].event.kind # "none"
      PROVE  TaskInv'
  <2>1. /\ task' \in [Tids -> TaskType]
        /\ \A u \in Tids : u # t => task'[u] = task[u]
        /\ task'[t].state = "run" /\ task'[t].event = NoEvent
        /\ task'[t].leader = task[t].leader
    BY <1>1, <1>2, ResumeFacts
  <2> QED  BY <1>1, <1>2, <2>1, EventKinds, OneMoved
<1>3. ASSUME SeeStart(t)
      PROVE  IsTracker(tracker)' /\ TaskInv'
  <2>1. task[t].event.kind = "start"
    BY <1>3, EventKinds DEF SeeStart
  <2>2. CASE \A u \in Tids : tracker.threads[u] = 0
    <3>1. /\ tracker' = HandleFirstExec(tracker, t)
          /\ task' = [task EXCEPT ![t].state = "run", ![t].event = NoEvent,
                                  ![t].cmd = tracker'.root]
      BY <1>3, <2>2 DEF SeeStart
    <3>2. IsTracker(tracker')
      BY <1>1, <3>1, FirstExecResult
    <3>3. tracker'.root \in Nat
      BY <3>2 DEF IsTracker
    <3>4. /\ task' \in [Tids -> TaskType]
          /\ \A u \in Tids : u # t => task'[u] = task[u]
          /\ task'[t].state = "run" /\ task'[t].event = NoEvent
          /\ task'[t].leader = task[t].leader
      BY <1>1, <3>1, <3>3, FirstExecTaskFacts
    <3>5. TaskInv'
      BY <1>1, <2>1, <3>4, EventKinds, OneMoved
    <3> QED  BY <3>2, <3>5
  <2>3. CASE ~\A u \in Tids : tracker.threads[u] = 0
    <3>1. Resume(t) /\ tracker' = tracker
      BY <1>3, <2>3 DEF SeeStart
    <3>2. TaskInv'
      BY <1>2, <2>1, <3>1
    <3> QED  BY <1>1, <3>1, <3>2
  <2> QED  BY <2>2, <2>3
<1>4. ASSUME SeeSpawn(t)
      PROVE  IsTracker(tracker)' /\ TaskInv'
  <2> DEFINE c == task[t].event.child
  <2>1. task[t].event.kind = "spawn" /\ Resume(t) /\ c \in Tids
    BY <1>1, <1>4, Events DEF SeeSpawn
  <2>2. \/ tracker' = HandleSpawn(tracker, c, t, Leads(c))
        \/ tracker' = tracker
    BY <1>4 DEF SeeSpawn
  <2>3. Leads(c) \in BOOLEAN
    BY DEF Leads
  <2> HIDE DEF c
  <2>4. IsTracker(tracker')
    BY <1>1, <2>1, <2>2, <2>3, SpawnResult
  <2>5. TaskInv'
    BY <1>2, <2>1
  <2> QED  BY <2>4, <2>5
<1>5. ASSUME SeeExec(t)
      PROVE  IsTracker(tracker)' /\ TaskInv'
  <2>1. task[t].event.kind = "exec" /\ Resume(t) /\ tracker' = tracker
    BY <1>5 DEF SeeExec
  <2>2. TaskInv'
    BY <1>2, <2>1
  <2> QED  BY <1>1, <2>1, <2>2
<1>6. ASSUME SeeExit(t)
      PROVE  IsTracker(tracker)' /\ TaskInv'
  <2>1. tracker' = FinishThread(tracker, t, "exited", task[t].cpu) /\ task[t].event.kind = "exit"
    BY <1>6 DEF SeeExit
  <2>2. task[t].cpu \in Int /\ "exited" \in Reasons
    BY <1>1, TimeTypes DEF Reasons, Ends
  <2>3. IsTracker(tracker')
    BY <1>1, <2>1, <2>2, FinishResult
  <2>4. /\ task' \in [Tids -> TaskType]
        /\ \A u \in Tids : u # t => task'[u] = task[u]
        /\ task'[t].state = "zombie" /\ task'[t].event = Dead(task[t].event.how)
        /\ task'[t].leader = task[t].leader
    BY <1>1, <1>6, ExitTaskFacts
  <2>5. TaskInv'
    BY <1>1, <2>1, <2>4, EventKinds, OneMoved
  <2> QED  BY <2>3, <2>5
<1>7. ASSUME SeeDead(t)
      PROVE  IsTracker(tracker)' /\ TaskInv'
  <2>1. /\ tracker' = FinishThread(tracker, t, task[t].event.how, GroupCpu(t))
        /\ task[t].event.kind = "dead"
    BY <1>7 DEF SeeDead
  <2>2. /\ task' \in [Tids -> TaskType]
        /\ \A u \in Tids : u # t => task'[u] = task[u]
        /\ task'[t].state = "gone" /\ task'[t].event = NoEvent
        /\ task'[t].leader = task[t].leader
        /\ task[t].event.how \in Ends
    BY <1>1, <1>7, DeadTaskFacts
  <2>3. GroupCpu(t) \in Int /\ task[t].event.how \in Reasons
    BY <1>1, <2>2, TimeTypes DEF Reasons
  <2>4. IsTracker(tracker')
    BY <1>1, <2>1, <2>3, FinishResult
  <2>5. TaskInv'
    BY <1>1, <2>1, <2>2, EventKinds, OneMoved
  <2> QED  BY <2>4, <2>5
<1>8. ASSUME SeeSignal(t) \/ SeeUnknown(t)
      PROVE  IsTracker(tracker)' /\ TaskInv'
  <2>1. task[t].event.kind = "signal" /\ tracker' = tracker /\ (Resume(t) \/ task' = task)
    BY <1>8 DEF SeeSignal, SeeUnknown, Signal
  <2>2. CASE Resume(t)
    BY <1>1, <1>2, <2>1, <2>2
  <2>3. CASE task' = task
    BY <1>1, <2>1, <2>3 DEF TaskInv
  <2> QED  BY <2>1, <2>2, <2>3
<1> QED  BY <1>3, <1>4, <1>5, <1>6, <1>7, <1>8

\* What is read of a thread that executed.
LEMMA RecordArguments ==
    ASSUME TypeInv, RecordExec
    PROVE  LET pid  == seen[1]
               prev == seen[2]
               cpu  == IF prev = pid THEN task[pid].cpu ELSE GroupCpu(pid)
           IN  /\ pid \in Tids /\ prev \in Tids /\ cpu \in Nat /\ Cmdline(pid) \in Argvs
               /\ tracker' = HandleExec(tracker, pid, prev, Cmdline(pid), cpu)
               /\ IsTracker(tracker')
               /\ task' = [task EXCEPT ![pid].cmd = tracker'.threads[pid]]
               /\ tracker'.threads[pid] \in Nat
<1> DEFINE pid  == seen[1]
           prev == seen[2]
           cpu  == IF prev = pid THEN task[pid].cpu ELSE GroupCpu(pid)
<1>1. pid \in Tids /\ prev \in Tids
  BY DEF TypeInv, LoopInv, RecordExec
<1>2. /\ tracker' = HandleExec(tracker, pid, prev, Cmdline(pid), cpu)
      /\ task' = [task EXCEPT ![pid].cmd = tracker'.threads[pid]]
  BY DEF RecordExec
<1>3. cpu \in Nat
  BY <1>1, TimeTypes DEF TypeInv
<1>4. Cmdline(pid) \in Argvs
  BY DEF Cmdline, Argvs
<1> HIDE DEF pid, prev, cpu
<1>5. IsTracker(tracker') /\ tracker'.threads[pid] \in DOMAIN tracker'.spans
  BY <1>1, <1>2, <1>3, <1>4, ExecType DEF TypeInv
<1>6. tracker'.threads[pid] \in Nat
  BY <1>5, SpanNumbers
<1> QED  BY <1>1, <1>2, <1>3, <1>4, <1>5, <1>6 DEF pid, prev, cpu

\* The loop's own state.
LEMMA LoopTypes ==
    ASSUME TypeInv, [Next]_vars
    PROVE  LoopInv'
<1> USE DEF LoopInv
<1>1. LoopInv
  BY DEF TypeInv
<1>2. CASE UNCHANGED vars
  BY <1>1, <1>2 DEF vars, loopVars, history
<1>3. ASSUME NEW t \in Tids, Wait(t)
      PROVE  LoopInv'
  <2>0. UNCHANGED faults /\ task[t].event \in AnyEvent /\ loop = "wait"
    BY <1>3, TaskFields DEF TypeInv, Wait
  <2>1. CASE SeeStart(t)
    BY <1>1, <2>0, <2>1 DEF SeeStart
  <2>2. CASE SeeSpawn(t)
    <3>1. task[t].event.child \in Tids
      BY <2>0, <2>2, Events DEF SeeSpawn
    <3>2. bound' \subseteq Tids
      BY <1>1, <2>2, <3>1 DEF SeeSpawn
    <3> QED  BY <1>1, <2>0, <2>2, <3>2 DEF SeeSpawn
  <2>3. CASE SeeExec(t)
    <3>1. task[t].event.prev \in Tids
      BY <2>0, <2>3, Events DEF SeeExec
    <3> QED  BY <1>1, <2>0, <2>3, <3>1 DEF SeeExec
  <2>4. CASE SeeExit(t)
    BY <1>1, <2>0, <2>4 DEF SeeExit
  <2>5. CASE SeeDead(t)
    <3>1. task[t].event.how \in Ends
      BY <2>5, DeadTaskFacts DEF TypeInv
    <3>2. rootEnd' \in Ends \cup {NotEnded} /\ deadline' \in {"none", "set", "passed"}
      BY <1>1, <2>5, <3>1 DEF SeeDead
    <3> QED  BY <1>1, <2>0, <2>5, <3>2 DEF SeeDead
  <2>6. CASE SeeSignal(t) \/ SeeUnknown(t)
    BY <1>1, <2>0, <2>6 DEF SeeSignal, SeeUnknown, Ends
  <2> QED  BY <1>3, <2>1, <2>2, <2>3, <2>4, <2>5, <2>6 DEF Wait
<1>4. CASE LookAtClock \/ NoChildren \/ Report \/ RecordExec
  BY <1>1, <1>4 DEF LookAtClock, NoChildren, Report, RecordExec, loopVars, history
<1>5. CASE Terminate \/ Elapse
  BY <1>1, <1>5 DEF Terminate, Elapse, loopVars, history
<1>6. ASSUME NEW t \in Tids, NEW c \in Tids, NEW isFork \in BOOLEAN, Spawn(t, c, isFork)
      PROVE  LoopInv'
  BY <1>1, <1>6, FaultsAssumption DEF Spawn, Fault, loopVars
<1>7. ASSUME NEW t \in Tids, DoExec(t) \/ ThreadExec(t) \/ \E how \in Ends : Exit(t, how)
      PROVE  LoopInv'
  BY <1>1, <1>7, FaultsAssumption DEF DoExec, ThreadExec, Exit, Fault, loopVars, history
<1>8. ASSUME NEW t \in Tids, NEW withEvent \in BOOLEAN, Kill(t, withEvent) \/ Zap(t, withEvent)
      PROVE  LoopInv'
  BY <1>1, <1>8, FaultsAssumption DEF Kill, Zap, Fault, loopVars
<1>9. ASSUME NEW t \in Tids, NEW known \in BOOLEAN, SignalStop(t, known)
      PROVE  LoopInv'
  BY <1>1, <1>9, FaultsAssumption DEF SignalStop, Fault, loopVars
<1> QED  BY <1>2, <1>3, <1>4, <1>5, <1>6, <1>7, <1>8, <1>9 DEF Next, Tracer

\* A step keeps the types.
LEMMA TypeStep == TypeInv /\ [Next]_vars => TypeInv'
<1> SUFFICES ASSUME TypeInv, [Next]_vars
             PROVE  IsTracker(tracker)' /\ TaskInv'
  BY LoopTypes DEF TypeInv
<1>0. IsTracker(tracker) /\ TaskInv
  BY DEF TypeInv
<1>1. ASSUME UNCHANGED <<task, tracker>>
      PROVE  IsTracker(tracker)' /\ TaskInv'
  BY <1>0, <1>1 DEF TaskInv
<1>2. CASE UNCHANGED vars
  BY <1>1, <1>2 DEF vars, loopVars
<1>3. ASSUME NEW t \in Tids, Wait(t)
      PROVE  IsTracker(tracker)' /\ TaskInv'
  BY <1>3, SeeTypes DEF Wait
<1>4. CASE LookAtClock \/ NoChildren \/ Report \/ Terminate \/ Elapse
  BY <1>1, <1>4 DEF LookAtClock, NoChildren, Report, Terminate, Elapse, loopVars
<1>5. CASE RecordExec
  <2> DEFINE pid == seen[1]
  <2>1. /\ pid \in Tids /\ IsTracker(tracker')
        /\ task' = [task EXCEPT ![pid].cmd = tracker'.threads[pid]]
        /\ tracker'.threads[pid] \in Nat
    BY <1>5, RecordArguments
  <2>2. /\ task' \in [Tids -> TaskType]
        /\ \A u \in Tids : u # pid => task'[u] = task[u]
        /\ task'[pid].state = task[pid].state /\ task'[pid].event = task[pid].event
        /\ task'[pid].cpu = task[pid].cpu /\ task'[pid].leader = task[pid].leader
    <3> HIDE DEF pid
    <3> QED  BY <1>0, <2>1, CmdFacts
  <2>3. TaskInv'
    <3> HIDE DEF pid
    <3>1. \A u \in Tids : /\ task'[u].state = task[u].state /\ task'[u].event = task[u].event
                          /\ task'[u].cpu = task[u].cpu /\ task'[u].leader = task[u].leader
      BY <2>1, <2>2
    <3> QED  BY <1>0, <2>2, <3>1 DEF TaskInv
  <2> QED  BY <2>1, <2>3
<1>6. ASSUME NEW t \in Tids, NEW c \in Tids, NEW isFork \in BOOLEAN, Spawn(t, c, isFork)
      PROVE  IsTracker(tracker)' /\ TaskInv'
  BY <1>0, <1>6, ProcessTypes DEF Spawn, loopVars
<1>7. ASSUME NEW t \in Tids, DoExec(t) \/ ThreadExec(t) \/ \E how \in Ends : Exit(t, how)
      PROVE  IsTracker(tracker)' /\ TaskInv'
  BY <1>0, <1>7, ProcessTypes DEF DoExec, ThreadExec, Exit, loopVars
<1>8. ASSUME NEW t \in Tids, NEW withEvent \in BOOLEAN, Kill(t, withEvent) \/ Zap(t, withEvent)
      PROVE  IsTracker(tracker)' /\ TaskInv'
  BY <1>0, <1>8, ProcessTypes DEF Kill, Zap, loopVars
<1>9. ASSUME NEW t \in Tids, NEW known \in BOOLEAN, SignalStop(t, known)
      PROVE  IsTracker(tracker)' /\ TaskInv'
  BY <1>0, <1>9, ProcessTypes DEF SignalStop, loopVars
<1> QED  BY <1>2, <1>3, <1>4, <1>5, <1>6, <1>7, <1>8, <1>9 DEF Next, Tracer
-----------------------------------------------------------------------------
(* What the processes do keeps the invariant. *)

\* What is left of an exec span's name after a step of a thread.
Excused(r) == r.event.kind = "exec" \/ (r.event.kind \in {"exit", "dead"} /\ r.event.how = "killed")

\* Nothing is recorded, and the dead do not move.
LEMMA MovesKeep ==
    ASSUME TypeInv, TypeInv', StableInv, UNCHANGED <<tracker, seen, sampled>>,
           \A u \in Tids : Handled(u)' <=> Handled(u),
           \A u \in Tids :
              /\ task[u].state \in {"zombie", "gone"} => task'[u] = task[u]
              /\ task'[u].state = "gone" => task[u].state = "gone"
              /\ task'[u].state = "unborn" => task[u].state = "unborn"
              /\ task'[u].cpu >= task[u].cpu
              /\ Excused(task[u]) => Excused(task'[u])
              /\ task[u].state # "unborn" => task'[u].state \in {"run", "stop", "zombie", "gone"},
           \A u \in Tids : task'[u].event.kind = "exec" =>
              /\ task'[u].event.prev = u
              /\ \A v \in Siblings(u)' : task'[v].state = "gone",
           \A u \in Tids : Awaited(u)' => Awaited(u),
           SpawnInv', RootInv'
    PROVE  StableInv'
<1>0. /\ EndInv /\ ExecInv /\ NameInv /\ UsageInv /\ LinkInv
      /\ tracker' = tracker /\ seen' = seen /\ sampled' = sampled
  BY DEF StableInv
<1>1. EndInv'
  <2>1. \A u \in Tids : task'[u].state = "gone" <=> task[u].state = "gone"
    OBVIOUS
  <2> QED  BY <1>0, <2>1 DEF EndInv, Known, SpanOf
<1>2. ExecInv'
  <2>1. \A u \in Tids : Handled(u)' <=> Handled(u)
    OBVIOUS
  <2>2. \A u \in Tids : Handled(u) => /\ seen[2] = u /\ u \notin sampled
                                      /\ task[u].state \in {"run", "stop", "zombie"}
    BY <1>0 DEF ExecInv
  <2>3. ASSUME NEW u \in Tids, Handled(u)
        PROVE  task'[u].state \in {"run", "stop", "zombie"}
    BY <2>2, <2>3
  <2> QED  BY <1>0, <2>1, <2>2, <2>3 DEF ExecInv
<1>3. NameInv'
  <2>1. \A u \in Tids : Handled(u)' <=> Handled(u)
    OBVIOUS
  <2>2. \A u \in Tids : u \in sampled' => task'[u].state \in {"zombie", "gone"}
    BY <1>0 DEF NameInv
  <2>3. ASSUME NEW u \in Tids, Known(u)', SpanOf(tracker, u)'.init = "exec",
               SpanOf(tracker, u)'.argv # "own"
        PROVE  \/ Handled(u)'
               \/ Excused(task'[u])
               \/ task'[u].state = "gone" /\ task'[u].how = "killed"
               \/ task'[u].state \in {"zombie", "gone"} /\ u \notin sampled'
    <3>1. Known(u) /\ SpanOf(tracker, u).init = "exec" /\ SpanOf(tracker, u).argv # "own"
      BY <1>0, <2>3 DEF Known, SpanOf
    <3>2. \/ Handled(u)
          \/ Excused(task[u])
          \/ task[u].state = "gone" /\ task[u].how = "killed"
          \/ task[u].state \in {"zombie", "gone"} /\ u \notin sampled
      BY <1>0, <3>1 DEF NameInv, Excused
    <3> QED  BY <1>0, <2>1, <3>2
  <2> QED  BY <2>2, <2>3 DEF NameInv, Excused
<1>4. UsageInv'
  <2> SUFFICES ASSUME NEW s \in DOMAIN tracker.spans
               PROVE  LET span == tracker.spans[s] IN
                      /\ span.usage >= 0
                      /\ task'[span.tid].state # "gone" => span.usage <= task'[span.tid].cpu
    BY <1>0 DEF UsageInv
  <2> DEFINE t == tracker.spans[s].tid
             usage == tracker.spans[s].usage
  <2>1. t \in Tids /\ usage \in Int
    <3>1. tracker.spans[s] \in SpanType
      BY TrackerFields DEF TypeInv
    <3> QED  BY <3>1 DEF SpanType
  <2>2. usage >= 0 /\ (task[t].state # "gone" => usage <= task[t].cpu)
    BY <1>0 DEF UsageInv
  <2>3. task'[t].state # "gone" => task[t].state # "gone"
    BY <2>1
  <2>4. task[t].cpu \in Nat /\ task'[t].cpu \in Nat
    <3>1. TaskInv /\ TaskInv'
      BY DEF TypeInv
    <3>2. task[t].cpu \in Nat
      BY <2>1, <3>1, TaskFields
    <3>3. task'[t] \in TaskType
      BY <2>1, <3>1 DEF TaskInv
    <3> QED  BY <3>2, <3>3 DEF TaskType
  <2>5. task'[t].cpu >= task[t].cpu
    BY <2>1
  <2> HIDE DEF t, usage
  <2>6. task'[t].state # "gone" => usage <= task'[t].cpu
    BY <2>1, <2>2, <2>3, <2>4, <2>5
  <2> QED  BY <2>2, <2>6 DEF t, usage
<1>5. LinkInv'
  BY <1>0 DEF LinkInv
<1> QED  BY <1>1, <1>2, <1>3, <1>4, <1>5 DEF StableInv

\* Nobody makes a thread twice if nobody new does at all.
LEMMA SpawnsKept ==
    ASSUME SpawnInv,
           \A u \in Tids : task'[u].state = "unborn" <=> task[u].state = "unborn",
           \A u, c \in Tids : task'[u].event = Spawned(c) => task[u].event = Spawned(c)
    PROVE  SpawnInv' /\ \A u \in Tids : Awaited(u)' => Awaited(u)
  BY RootAssumption DEF SpawnInv, Awaited

\* A thread that stops for an exec, its exit or a signal.
LEMMA StopKeeps ==
    ASSUME TypeInv, TypeInv', StableInv, NEW t \in Tids, NEW event \in AnyEvent,
           task[t].state = "run", event.kind \in {"exec", "exit", "signal"},
           \A u \in Tids : u # t => task'[u] = task[u],
           task'[t].state = "stop", task'[t].event = event,
           task'[t].cpu \in {task[t].cpu, task[t].cpu + 1}, task'[t].leader = task[t].leader,
           event.kind = "exec" =>
              /\ event.prev = t /\ \A u \in Siblings(t) : task[u].state = "gone",
           UNCHANGED <<tracker, loop, seen, sampled>>
    PROVE  StableInv'
<1>0. TaskInv /\ task \in [Tids -> TaskType]
  BY TaskFields DEF TypeInv
<1>1. /\ \A u \in Tids : u # t => task'[u] = task[u]
      /\ task'[t].state = "stop" /\ task'[t].event = event
      /\ task'[t].cpu \in {task[t].cpu, task[t].cpu + 1} /\ task'[t].leader = task[t].leader
  OBVIOUS
<1>2. task[t].event.kind = "none" /\ \A u \in Tids : task[u].cpu \in Nat
  BY <1>0, TaskFields
<1>3. \A u \in Tids : Siblings(u)' = Siblings(u)
  BY <1>1 DEF Siblings
<1>4. \A u \in Tids :
              /\ task[u].state \in {"zombie", "gone"} => task'[u] = task[u]
              /\ task'[u].state = "gone" => task[u].state = "gone"
              /\ task'[u].state = "unborn" => task[u].state = "unborn"
              /\ task'[u].cpu >= task[u].cpu
              /\ Excused(task[u]) => Excused(task'[u])
              /\ task[u].state # "unborn" => task'[u].state \in {"run", "stop", "zombie", "gone"}
  <2>1. ~Excused(task[t])
    BY <1>2 DEF Excused
  <2>2. \A u \in Tids : task'[u].cpu >= task[u].cpu
    BY <1>1, <1>2
  <2>3. \A u \in Tids : task[u].state \in {"unborn", "run", "stop", "zombie", "gone"}
    BY <1>0, TaskFields
  <2> QED  BY <1>1, <2>1, <2>2, <2>3
<1>5. ASSUME NEW u \in Tids, task'[u].event.kind = "exec"
      PROVE  /\ task'[u].event.prev = u
             /\ \A v \in Siblings(u)' : task'[v].state = "gone"
  <2>1. CASE u = t
    <3>1. \A v \in Siblings(u) : v \in Tids /\ v # t /\ task[v].state = "gone"
      BY <1>1, <1>5, <2>1 DEF Siblings
    <3> QED  BY <1>1, <1>3, <1>5, <2>1, <3>1
  <2>2. CASE u # t
    <3>1. /\ task[u].event.prev = u
          /\ \A v \in Siblings(u) : v \in Tids /\ task[v].state = "gone"
      BY <1>1, <1>5, <2>2 DEF StableInv, ExecInv, Siblings
    <3> QED  BY <1>1, <1>3, <2>2, <3>1
  <2> QED  BY <2>1, <2>2
<1>6. SpawnInv' /\ \A u \in Tids : Awaited(u)' => Awaited(u)
  BY <1>1, EventKinds, SpawnsKept DEF StableInv
<1>7. RootInv'
  BY <1>1, <1>2, RootAssumption DEF StableInv, RootInv
<1>8. \A u \in Tids : Handled(u)' <=> Handled(u)
  BY DEF Handled
<1> QED  BY <1>4, <1>5, <1>6, <1>7, <1>8, MovesKeep

\* Threads that are taken away.
LEMMA TakeAwayKeeps ==
    ASSUME TypeInv, TypeInv', StableInv, NEW ts \in SUBSET Tids, NEW how \in Ends,
           NEW withEvent \in BOOLEAN, TakeAway(ts, how, withEvent),
           \A u \in ts : Alive(u) /\ (Excused(task[u]) => how = "killed"),
           UNCHANGED <<tracker, loop, seen, sampled>>
    PROVE  StableInv'
<1>0. TaskInv /\ task \in [Tids -> TaskType]
  BY TaskFields DEF TypeInv
<1>1. /\ \A u \in Tids \ ts : task'[u] = task[u]
      /\ \A u \in ts :
            /\ task'[u].cpu = task[u].cpu /\ task'[u].leader = task[u].leader
            /\ \/ /\ task[u].event.kind = "exit"
                  /\ task'[u].state = "zombie" /\ task'[u].event = Dead(task[u].event.how)
               \/ /\ task[u].event.kind # "exit"
                  /\ task'[u].state = "stop" /\ task'[u].event = Exiting(how)
               \/ /\ task[u].event.kind # "exit"
                  /\ task'[u].state = "zombie" /\ task'[u].event = Dead(how)
  BY <1>0, TakeAwayFacts
<1>2. \A u \in ts : /\ u \in Tids /\ task[u].state \in {"run", "stop"}
                    /\ task'[u].state \in {"stop", "zombie"}
                    /\ task'[u].event.kind \in {"exit", "dead"}
  BY <1>1, EventKinds DEF Alive
<1>3. \A u \in Tids : task[u].cpu \in Nat
  BY <1>0, TaskFields
<1>4. \A u \in Tids : Siblings(u)' = Siblings(u)
  <2>1. \A u \in Tids : /\ task'[u].leader = task[u].leader
                        /\ task'[u].state = "unborn" <=> task[u].state = "unborn"
    BY <1>1, <1>2
  <2> QED  BY <2>1 DEF Siblings
<1>5. \A u \in ts : Excused(task[u]) => Excused(task'[u])
  <2> SUFFICES ASSUME NEW u \in ts, Excused(task[u])
               PROVE  Excused(task'[u])
    OBVIOUS
  <2>1. how = "killed"
    OBVIOUS
  <2>2. task[u].event.kind = "exit" => task[u].event.how = "killed"
    BY DEF Excused
  <2>3. task'[u].event \in {Dead("killed"), Exiting("killed")}
    BY <1>1, <2>1, <2>2
  <2> QED  BY <2>3, EventKinds DEF Excused
<1>6. \A u \in Tids :
              /\ task[u].state \in {"zombie", "gone"} => task'[u] = task[u]
              /\ task'[u].state = "gone" => task[u].state = "gone"
              /\ task'[u].state = "unborn" => task[u].state = "unborn"
              /\ task'[u].cpu >= task[u].cpu
              /\ Excused(task[u]) => Excused(task'[u])
              /\ task[u].state # "unborn" => task'[u].state \in {"run", "stop", "zombie", "gone"}
  <2>1. \A u \in Tids : task'[u].cpu >= task[u].cpu
    BY <1>1, <1>3
  <2>2. \A u \in Tids : task[u].state \in {"unborn", "run", "stop", "zombie", "gone"}
    BY <1>0, TaskFields
  <2> QED  BY <1>1, <1>2, <1>5, <2>1, <2>2
<1>7. ASSUME NEW u \in Tids, task'[u].event.kind = "exec"
      PROVE  /\ task'[u].event.prev = u
             /\ \A v \in Siblings(u)' : task'[v].state = "gone"
  <2>1. u \notin ts /\ task'[u] = task[u]
    BY <1>1, <1>2, <1>7
  <2>2. /\ task[u].event.prev = u
        /\ \A v \in Siblings(u) : v \in Tids /\ task[v].state = "gone"
    BY <1>7, <2>1 DEF StableInv, ExecInv, Siblings
  <2> QED  BY <1>4, <1>6, <2>1, <2>2
<1>8. SpawnInv' /\ \A u \in Tids : Awaited(u)' => Awaited(u)
  <2>1. \A u, c \in Tids : task'[u].event = Spawned(c) => task[u].event = Spawned(c)
    BY <1>1, <1>2, EventKinds
  <2>2. \A u \in Tids : task'[u].state = "unborn" <=> task[u].state = "unborn"
    BY <1>1, <1>2
  <2> QED  BY <2>1, <2>2, SpawnsKept DEF StableInv
<1>9. RootInv'
  <2>1. \A u \in Tids : task[u].state = "unborn" => task'[u].state = "unborn"
    BY <1>1, <1>2
  <2>2. task[Root].event.kind \in {"start", "exit", "dead"} =>
           task'[Root].event.kind \in {"start", "exit", "dead"}
    BY <1>1, <1>2, RootAssumption
  <2> QED  BY <2>1, <2>2, RootAssumption DEF StableInv, RootInv
<1>10. \A u \in Tids : Handled(u)' <=> Handled(u)
  BY DEF Handled
<1> QED  BY <1>6, <1>7, <1>8, <1>9, <1>10, MovesKeep

\* A thread that makes another.
LEMMA SpawnKeeps ==
    ASSUME TypeInv, TypeInv', StableInv, NEW t \in Tids, NEW c \in Tids,
           NEW isFork \in BOOLEAN, Spawn(t, c, isFork), task[c].state = "unborn"
    PROVE  StableInv'
<1>0. TaskInv /\ TaskInv'
  BY DEF TypeInv
<1>1. /\ c # t
      /\ \A u \in Tids : u # t /\ u # c => task'[u] = task[u]
      /\ task'[t].state = "stop" /\ task'[t].event = Spawned(c)
      /\ task'[t].cpu = task[t].cpu /\ task'[t].leader = task[t].leader
      /\ task'[c].state = "stop" /\ task'[c].event = Start
      /\ task'[c].cpu = 0
      /\ task'[c].leader = IF isFork THEN c ELSE task[t].leader
  BY <1>0, SpawnTaskFacts
<1>2. /\ task[t].state = "run" /\ tracker' = tracker /\ loop' = loop /\ seen' = seen
      /\ sampled' = sampled
  <2>1. c \notin sampled
    BY DEF StableInv, NameInv
  <2> QED  BY <2>1 DEF Spawn, loopVars
<1>3. /\ task[t].event.kind = "none" /\ task[c].event.kind = "none" /\ task[c].cpu = 0
      /\ \A u \in Tids : task[u].cpu \in Nat
      /\ \A u \in Tids : task[u].state \in {"unborn", "run", "stop", "zombie", "gone"}
  BY <1>0, <1>2, TaskFields DEF TaskInv
<1>4. \A u \in Tids :
              /\ task[u].state \in {"zombie", "gone"} => task'[u] = task[u]
              /\ task'[u].state = "gone" => task[u].state = "gone"
              /\ task'[u].state = "unborn" => task[u].state = "unborn"
              /\ task'[u].cpu >= task[u].cpu
              /\ Excused(task[u]) => Excused(task'[u])
              /\ task[u].state # "unborn" => task'[u].state \in {"run", "stop", "zombie", "gone"}
  <2>1. ~Excused(task[t]) /\ ~Excused(task[c])
    BY <1>3 DEF Excused
  <2>2. \A u \in Tids : task'[u].cpu >= task[u].cpu
    BY <1>1, <1>3
  <2> QED  BY <1>1, <1>2, <1>3, <2>1, <2>2
<1>5. ASSUME NEW u \in Tids, task'[u].event.kind = "exec"
      PROVE  /\ task'[u].event.prev = u
             /\ \A v \in Siblings(u)' : task'[v].state = "gone"
  <2>1. u # t /\ u # c /\ task'[u] = task[u]
    BY <1>1, <1>5, EventKinds
  <2>2. /\ task[u].event.prev = u
        /\ \A v \in Siblings(u) : task[v].state = "gone"
    BY <1>5, <2>1 DEF StableInv, ExecInv
  <2>3. task[u].leader # task[t].leader
    <3>1. t \notin Siblings(u)
      BY <1>2, <2>2
    <3> QED  BY <1>2, <2>1, <3>1 DEF Siblings
  <2>4. task[u].leader # c
    <3>1. task[u].state # "unborn"
      BY <1>0, <1>5, <2>1, TaskFields
    <3> QED  BY <1>0, <3>1 DEF TaskInv
  <2>5. Siblings(u)' = Siblings(u)
    <3>1. task'[c].leader # task'[u].leader /\ task'[t].leader # task'[u].leader
      BY <1>1, <2>1, <2>3, <2>4
    <3>2. task[t].leader # task[u].leader /\ task[c].state = "unborn"
      BY <2>3
    <3> QED  BY <1>1, <2>1, <3>1, <3>2 DEF Siblings
  <2> QED  BY <1>4, <2>1, <2>2, <2>5 DEF Siblings
<1>6. SpawnInv
  BY DEF StableInv
<1>7. \A u, d \in Tids : task'[u].event = Spawned(d) =>
         (u = t /\ d = c) \/ (u # t /\ task[u].event = Spawned(d))
  <2>1. \A d : Spawned(d) = Spawned(c) => d = c
    BY EventKinds
  <2> QED  BY <1>1, <2>1, EventKinds
<1>8. \A u \in Tids : task[u].event # Spawned(c)
  BY <1>6 DEF SpawnInv
<1>9. SpawnInv'
  <2>1. c # Root /\ task'[Root].state # "unborn"
    BY <1>1, <1>6, RootAssumption DEF SpawnInv
  <2> SUFFICES ASSUME NEW p \in Tids, NEW d \in Tids, task'[p].event = Spawned(d)
               PROVE  /\ d # Root /\ d # p /\ task'[d].state # "unborn"
                      /\ \A q \in Tids : task'[q].event = Spawned(d) => q = p
    BY <2>1 DEF SpawnInv
  <2>2. CASE p = t /\ d = c
    BY <1>1, <1>7, <1>8, <2>1, <2>2
  <2>3. CASE p # t /\ task[p].event = Spawned(d)
    <3>1. d # c
      BY <1>8, <2>3
    <3>2. /\ d # Root /\ d # p /\ task[d].state # "unborn"
          /\ \A q \in Tids : task[q].event = Spawned(d) => q = p
      BY <1>6, <2>3 DEF SpawnInv
    <3> QED  BY <1>1, <1>7, <3>1, <3>2
  <2> QED  BY <1>7, <2>2, <2>3
<1>10. \A u \in Tids : Awaited(u)' => Awaited(u)
  <2> SUFFICES ASSUME NEW u \in Tids, Awaited(u)'
               PROVE  Awaited(u)
    OBVIOUS
  <2>1. CASE task'[u].state = "unborn"
    BY <1>4, <2>1 DEF Awaited
  <2>2. CASE \E p \in Tids : task'[p].event = Spawned(u)
    BY <1>7, <2>2 DEF Awaited
  <2> QED  BY <2>1, <2>2 DEF Awaited
<1>11. RootInv'
  <2>1. tracker.spans # <<>>
    <3>1. tracker.spans = <<>> =>
            /\ \A u \in Tids \ {Root} : task[u].state = "unborn"
            /\ task[Root].event.kind \in {"start", "exit", "dead"}
      BY DEF StableInv, RootInv
    <3> QED  BY <1>2, <1>3, <3>1
  <2> QED  BY <1>2, <2>1 DEF StableInv, RootInv
<1>12. \A u \in Tids : Handled(u)' <=> Handled(u)
  BY <1>2 DEF Handled
<1> QED  BY <1>2, <1>4, <1>5, <1>9, <1>10, <1>11, <1>12, MovesKeep

\* All that the traced processes do.
LEMMA ProcessesKeep ==
    ASSUME TypeInv, TypeInv', StableInv, Stable', NEW t \in Tids
    PROVE  /\ \A c \in Tids, isFork \in BOOLEAN : Spawn(t, c, isFork) => StableInv'
           /\ DoExec(t) => StableInv'
           /\ ~ThreadExec(t)
           /\ \A how \in Ends : Exit(t, how) => StableInv'
           /\ \A known \in BOOLEAN : SignalStop(t, known) => StableInv'
           /\ \A withEvent \in BOOLEAN : Kill(t, withEvent) \/ Zap(t, withEvent) => StableInv'
<1>0. TaskInv /\ task \in [Tids -> TaskType]
  BY TaskFields DEF TypeInv
<1>1. ASSUME NEW c \in Tids, NEW isFork \in BOOLEAN, Spawn(t, c, isFork)
      PROVE  StableInv'
  <2>1. ~Fault("reuse")
    BY DEF Stable, Fault
  <2>2. task[c].state = "unborn"
    BY <1>1, <2>1 DEF Spawn
  <2> QED  BY <1>1, <2>2, SpawnKeeps
<1>2. ASSUME DoExec(t)
      PROVE  StableInv'
  <2>1. /\ task[t].state = "run" /\ Halt(t, Exec(t))
        /\ \A u \in Siblings(t) : task[u].state = "gone"
        /\ UNCHANGED <<tracker, loop, seen, sampled>>
    BY <1>2 DEF DoExec, loopVars, history
  <2>2. Exec(t) \in AnyEvent /\ Exec(t).kind = "exec" /\ Exec(t).prev = t
    BY Events, EventKinds
  <2> QED  BY <1>0, <2>1, <2>2, HaltFacts, StopKeeps
<1>3. ~ThreadExec(t)
  BY DEF Stable, ThreadExec, Fault
<1>4. ASSUME NEW how \in Ends, Exit(t, how)
      PROVE  StableInv'
  <2>1. /\ task[t].state = "run" /\ Halt(t, Exiting(how))
        /\ UNCHANGED <<tracker, loop, seen, sampled>>
    BY <1>4 DEF Exit, loopVars, history
  <2>2. Exiting(how) \in AnyEvent /\ Exiting(how).kind = "exit"
    BY Events, EventKinds
  <2> QED  BY <1>0, <2>1, <2>2, HaltFacts, StopKeeps
<1>5. ASSUME NEW withEvent \in BOOLEAN, Kill(t, withEvent)
      PROVE  StableInv'
  <2> DEFINE hit == {u \in Siblings(t) \cup {t} : Alive(u)}
  <2>1. TakeAway(hit, "killed", withEvent) /\ UNCHANGED <<tracker, loop, seen, sampled>>
    BY <1>5 DEF Kill, loopVars
  <2>2. hit \in SUBSET Tids /\ \A u \in hit : Alive(u)
    BY DEF Siblings
  <2>3. "killed" \in Ends
    BY DEF Ends
  <2> HIDE DEF hit
  <2> QED  BY <2>1, <2>2, <2>3, TakeAwayKeeps
<1>6. ASSUME NEW withEvent \in BOOLEAN, Zap(t, withEvent)
      PROVE  StableInv'
  <2>1. /\ TakeAway({t}, "exited", withEvent) /\ Alive(t) /\ task[t].event.kind # "exit"
        /\ \E u \in Siblings(t) : Alive(u)
        /\ UNCHANGED <<tracker, loop, seen, sampled>>
    BY <1>6 DEF Zap, loopVars
  <2>2. task[t].event.kind # "exec"
    BY <2>1 DEF StableInv, ExecInv, Alive
  <2>3. task[t].event.kind # "dead"
    BY <1>0, <2>1, TaskFields DEF Alive
  <2>4. ~Excused(task[t])
    BY <2>1, <2>2, <2>3 DEF Excused
  <2>5. "exited" \in Ends /\ {t} \in SUBSET Tids
    BY DEF Ends
  <2> QED  BY <2>1, <2>4, <2>5, TakeAwayKeeps
<1>7. ASSUME NEW known \in BOOLEAN, SignalStop(t, known)
      PROVE  StableInv'
  <2>1. task[t].state = "run" /\ UNCHANGED <<tracker, loop, seen, sampled>>
    BY <1>7 DEF SignalStop, loopVars
  <2>2. Signal(known) \in AnyEvent /\ Signal(known).kind = "signal"
    BY Events, EventKinds
  <2> QED  BY <1>0, <1>7, <2>1, <2>2, SignalFacts, StopKeeps
<1> QED  BY <1>1, <1>2, <1>3, <1>4, <1>5, <1>6, <1>7
-----------------------------------------------------------------------------
(* What zb time does keeps the invariant. *)

\* finish_thread, of a tracker whose spans are chained.
LEMMA FinishSpans ==
    ASSUME NEW tr, IsTracker(tr), Chained(tr), NEW t \in Tids, NEW reason \in Reasons,
           NEW cpu \in Int, NEW q, q = FinishThread(tr, t, reason, cpu)
    PROVE  /\ IsTracker(q) /\ q.root = tr.root /\ Chained(q)
           /\ \A u : SpawnSeen(q, u) <=> SpawnSeen(tr, u)
           /\ q.threads[t] # 0
           /\ \A u \in Tids \ {t} : /\ q.threads[u] = tr.threads[u]
                                    /\ tr.threads[u] # 0 => SpanOf(q, u) = SpanOf(tr, u)
           /\ SpanOf(q, t).init = Before(tr, t).init
           /\ SpanOf(q, t).argv = Before(tr, t).argv
           /\ SpanOf(q, t).end = IF Before(tr, t).end = NotEnded \/ reason = "killed"
                                 THEN reason ELSE Before(tr, t).end
           /\ SpanOf(q, t).usage \in {cpu - Before(tr, t).usage, Before(tr, t).usage}
           /\ \A x \in DOMAIN q.spans :
                 \/ x \in DOMAIN tr.spans /\ q.spans[x] = tr.spans[x]
                 \/ x = q.threads[t] /\ q.spans[x].tid = t
           /\ q.spans # <<>>
           /\ q.spans[1].tid = IF tr.spans = <<>> THEN t ELSE tr.spans[1].tid
<1>1. /\ IsTracker(q) /\ q.root = tr.root /\ SameLinks(tr, q)
      /\ q.threads[t] \in DOMAIN q.spans
      /\ \A u \in Tids : u # t => q.threads[u] = tr.threads[u]
      /\ DOMAIN q.spans \subseteq DOMAIN tr.spans \cup {q.threads[t]}
      /\ SpansKept(tr, q, q.threads[t])
      /\ SpanOf(q, t).init = Before(tr, t).init
      /\ SpanOf(q, t).argv = Before(tr, t).argv
      /\ Before(tr, t).end = NotEnded =>
            /\ SpanOf(q, t).end = reason
            /\ SpanOf(q, t).usage = cpu - Before(tr, t).usage
      /\ Before(tr, t).end # NotEnded =>
            /\ SpanOf(q, t).end = IF reason = "killed" THEN reason ELSE Before(tr, t).end
            /\ SpanOf(q, t).usage = Before(tr, t).usage
  BY FinishResult
<1>2. Chained(q) /\ \A u : SpawnSeen(q, u) <=> SpawnSeen(tr, u)
  BY <1>1, LinksSame
<1>3. /\ q.threads[t] # 0 /\ SpanOf(q, t).tid = t
      /\ \A x \in DOMAIN q.spans : x \in Nat /\ x # 0
      /\ \A u \in Tids : tr.threads[u] # 0 => tr.threads[u] \in DOMAIN tr.spans
  BY <1>1, <1>2, SpanNumbers DEF Chained
<1>4. ASSUME NEW u \in Tids \ {t}, tr.threads[u] # 0
      PROVE  SpanOf(q, u) = SpanOf(tr, u)
  <2>1. tr.threads[u] \in DOMAIN tr.spans /\ q.threads[u] = tr.threads[u]
    BY <1>1, <1>3, <1>4
  <2>2. SpanOf(q, u).tid = u
    BY <1>2, <1>4, <2>1 DEF Chained
  <2>3. q.threads[u] # q.threads[t]
    BY <1>3, <2>2 DEF SpanOf
  <2> QED  BY <1>1, <2>1, <2>3 DEF SpansKept, SpanOf
<1>5. \A x \in DOMAIN q.spans :
                 \/ x \in DOMAIN tr.spans /\ q.spans[x] = tr.spans[x]
                 \/ x = q.threads[t] /\ q.spans[x].tid = t
  BY <1>1, <1>3 DEF SpansKept, SpanOf
<1>6. q.spans # <<>> /\ q.spans[1].tid = IF tr.spans = <<>> THEN t ELSE tr.spans[1].tid
  <2>1. /\ tr.spans \in Seq(SpanType) /\ DOMAIN tr.spans = 1..Len(tr.spans)
        /\ q.spans \in Seq(SpanType) /\ DOMAIN q.spans = 1..Len(q.spans)
        /\ Len(tr.spans) \in Nat /\ Len(q.spans) \in Nat
    BY <1>1, TrackerFields
  <2>2. q.spans # <<>> /\ 1 \in DOMAIN q.spans
    BY <1>1, <2>1
  <2>3. CASE tr.spans = <<>>
    <3>1. 1 \notin DOMAIN tr.spans
      BY <2>3
    <3> QED  BY <1>5, <2>2, <2>3, <3>1
  <2>4. CASE tr.spans # <<>>
    <3>1. 1 \in DOMAIN tr.spans
      BY <2>1, <2>4
    <3> QED  BY <1>1, <2>2, <2>4, <3>1 DEF SameLinks
  <2> QED  BY <2>2, <2>3, <2>4
<1>7. /\ SpanOf(q, t).end = IF Before(tr, t).end = NotEnded \/ reason = "killed"
                            THEN reason ELSE Before(tr, t).end
      /\ SpanOf(q, t).usage \in {cpu - Before(tr, t).usage, Before(tr, t).usage}
  BY <1>1
<1> QED  BY <1>1, <1>2, <1>3, <1>4, <1>5, <1>6, <1>7

\* The span of a thread, or the one it would get, is charged no more than it used.
LEMMA BeforeUsage ==
    ASSUME TypeInv, UsageInv, Chained(tracker), NEW t \in Tids, task[t].state # "gone"
    PROVE  /\ Before(tracker, t).usage \in Int /\ 0 <= Before(tracker, t).usage
           /\ Before(tracker, t).usage <= task[t].cpu
<1>1. task[t].cpu \in Nat
  BY TaskFields DEF TypeInv
<1>2. CASE tracker.threads[t] = 0
  <2>1. Before(tracker, t).usage = 0
    BY <1>2 DEF Before, NewSpan
  <2> QED  BY <1>1, <2>1
<1>3. CASE tracker.threads[t] # 0
  <2>1. tracker.threads[t] \in DOMAIN tracker.spans /\ SpanOf(tracker, t).tid = t
    BY <1>3, SpanNumbers DEF TypeInv, Chained
  <2>2. SpanOf(tracker, t) \in SpanType
    BY <2>1, TrackerFields DEF TypeInv, SpanOf
  <2>3. SpanOf(tracker, t).usage >= 0 /\ SpanOf(tracker, t).usage <= task[t].cpu
    BY <2>1 DEF UsageInv, SpanOf
  <2> QED  BY <1>3, <2>2, <2>3 DEF Before, SpanType
<1> QED  BY <1>2, <1>3

\* The end of a thread: its exit event, or its death.
LEMMA FinishKeeps ==
    ASSUME TypeInv, TypeInv', StableInv, NEW t \in Tids, NEW reason \in Ends, NEW cpu \in Nat,
           tracker' = FinishThread(tracker, t, reason, cpu),
           loop = "wait", loop' = "top",
           \A u \in Tids : u # t => task'[u] = task[u],
           task[t].state \in {"stop", "zombie"}, task'[t].state \in {"zombie", "gone"},
           task'[t].event.kind \in {"none", "dead"},
           task'[t].cpu = task[t].cpu, task'[t].leader = task[t].leader,
           task[t].cpu <= cpu,
           IF task'[t].state = "gone" THEN reason = task'[t].how
           ELSE reason = "exited" /\ cpu = task[t].cpu,
           sampled' \subseteq sampled \cup {t},
           task[t].event.kind # "exec",
           Excused(task[t]) => \/ Excused(task'[t])
                               \/ task'[t].state = "gone" /\ task'[t].how = "killed",
           task[t].state = "zombie" /\ t \notin sampled => t \notin sampled'
    PROVE  StableInv'
<1> DEFINE b == Before(tracker, t)
<1>0. /\ EndInv /\ ExecInv /\ NameInv /\ UsageInv /\ SpawnInv /\ LinkInv /\ RootInv
      /\ IsTracker(tracker) /\ Chained(tracker) /\ reason \in Reasons
      /\ TaskInv /\ TaskInv'
  BY DEF StableInv, LinkInv, TypeInv, Reasons
<1>1. /\ IsTracker(tracker') /\ tracker'.root = tracker.root /\ Chained(tracker')
      /\ \A u : SpawnSeen(tracker', u) <=> SpawnSeen(tracker, u)
      /\ tracker'.threads[t] # 0
      /\ \A u \in Tids \ {t} :
            /\ tracker'.threads[u] = tracker.threads[u]
            /\ tracker.threads[u] # 0 => SpanOf(tracker', u) = SpanOf(tracker, u)
      /\ SpanOf(tracker', t).init = b.init
      /\ SpanOf(tracker', t).argv = b.argv
      /\ SpanOf(tracker', t).end = IF b.end = NotEnded \/ reason = "killed"
                                   THEN reason ELSE b.end
      /\ SpanOf(tracker', t).usage \in {cpu - b.usage, b.usage}
      /\ \A x \in DOMAIN tracker'.spans :
            \/ x \in DOMAIN tracker.spans /\ tracker'.spans[x] = tracker.spans[x]
            \/ x = tracker'.threads[t] /\ tracker'.spans[x].tid = t
      /\ tracker'.spans # <<>>
      /\ tracker'.spans[1].tid = IF tracker.spans = <<>> THEN t ELSE tracker.spans[1].tid
  BY <1>0, FinishSpans
<1>2. /\ b.init = "exec" => tracker.threads[t] # 0 /\ b = SpanOf(tracker, t)
      /\ b.end \in {NotEnded, "exited"}
  <2>1. CASE tracker.threads[t] = 0
    BY <2>1 DEF Before, NewSpan
  <2>2. CASE tracker.threads[t] # 0
    BY <1>0, <2>2 DEF Before, EndInv, Known
  <2> QED  BY <2>1, <2>2
<1> HIDE DEF b
<1>3. EndInv'
  <2>1. SpanOf(tracker', t).end = reason
    BY <1>1, <1>2 DEF Ends, NotEnded
  <2> QED  BY <1>0, <1>1, <2>1 DEF EndInv, Known
<1>4. ExecInv'
  <2>1. \A u \in Tids : Siblings(u)' = Siblings(u)
    BY DEF Siblings
  <2>2. \A u \in Tids : task[u].state = "gone" => task'[u].state = "gone"
    OBVIOUS
  <2>3. \A u \in Tids : ~Handled(u)'
    BY DEF Handled
  <2>4. ASSUME NEW u \in Tids, task'[u].event.kind = "exec"
        PROVE  /\ task'[u].event.prev = u
               /\ \A v \in Siblings(u)' : task'[v].state = "gone"
    <3>1. u # t /\ task'[u] = task[u]
      BY <2>4
    <3>2. /\ task[u].event.prev = u
          /\ \A v \in Siblings(u) : v \in Tids /\ task[v].state = "gone"
      BY <1>0, <2>4, <3>1 DEF ExecInv, Siblings
    <3> QED  BY <2>1, <2>2, <3>1, <3>2
  <2> QED  BY <2>3, <2>4 DEF ExecInv
<1>5. NameInv'
  <2>1. \A u \in Tids : ~Handled(u) /\ ~Handled(u)'
    BY DEF Handled
  <2>2. \A u \in Tids : u \in sampled' => task'[u].state \in {"zombie", "gone"}
    BY <1>0 DEF NameInv
  <2>3. ASSUME NEW u \in Tids, Known(u)', SpanOf(tracker', u).init = "exec",
               SpanOf(tracker', u).argv # "own"
        PROVE  \/ Excused(task'[u])
               \/ task'[u].state = "gone" /\ task'[u].how = "killed"
               \/ task'[u].state \in {"zombie", "gone"} /\ u \notin sampled'
    <3>1. /\ Known(u) /\ SpanOf(tracker, u).init = "exec"
          /\ SpanOf(tracker, u).argv # "own"
      BY <1>1, <1>2, <2>3 DEF Known
    <3>2. \/ Excused(task[u])
          \/ task[u].state = "gone" /\ task[u].how = "killed"
          \/ task[u].state \in {"zombie", "gone"} /\ u \notin sampled
      BY <1>0, <2>1, <3>1 DEF NameInv, Excused
    <3> QED  BY <3>2
  <2> QED  BY <2>1, <2>2, <2>3 DEF NameInv, Excused
<1>6. UsageInv'
  <2>1. /\ b.usage \in Int /\ 0 <= b.usage /\ b.usage <= task[t].cpu
        /\ task[t].cpu \in Nat
    BY <1>0, BeforeUsage, TaskFields DEF b
  <2>2. /\ SpanOf(tracker', t).usage >= 0
        /\ task'[t].state # "gone" => SpanOf(tracker', t).usage <= task'[t].cpu
    BY <1>1, <2>1
  <2>3. ASSUME NEW s \in DOMAIN tracker.spans, tracker'.spans[s] = tracker.spans[s]
        PROVE  LET span == tracker'.spans[s] IN
               /\ span.usage >= 0
               /\ task'[span.tid].state # "gone" => span.usage <= task'[span.tid].cpu
    <3>1. tracker.spans[s].tid \in Tids
      BY <1>0, SpanNumbers
    <3>2. /\ tracker.spans[s].usage >= 0
          /\ task[tracker.spans[s].tid].state # "gone" =>
                tracker.spans[s].usage <= task[tracker.spans[s].tid].cpu
      BY <1>0 DEF UsageInv
    <3> QED  BY <2>3, <3>1, <3>2
  <2> QED  BY <1>1, <2>2, <2>3 DEF UsageInv, SpanOf
<1>7. SpawnInv' /\ \A u \in Tids : Awaited(u)' => Awaited(u)
  <2>1. \A u \in Tids : task'[u].state = "unborn" <=> task[u].state = "unborn"
    OBVIOUS
  <2>2. \A u, c \in Tids : task'[u].event = Spawned(c) => task[u].event = Spawned(c)
    BY EventKinds
  <2> QED  BY <1>0, <2>1, <2>2, SpawnsKept
<1>8. LinkInv'
  BY <1>0, <1>1, <1>7 DEF LinkInv
<1>9. RootInv'
  <2>1. tracker.spans = <<>> => t = Root
    BY <1>0 DEF RootInv
  <2> QED  BY <1>0, <1>1, <2>1 DEF RootInv
<1> QED  BY <1>3, <1>4, <1>5, <1>6, <1>7, <1>8, <1>9 DEF StableInv

\* The clock, the end of the loop, the report.
LEMMA IdleKeeps ==
    ASSUME TypeInv, TypeInv', StableInv, UNCHANGED <<task, tracker, seen, sampled>>,
           loop # "handle", loop' # "handle"
    PROVE  StableInv'
<1>1. \A u \in Tids : Handled(u)' <=> Handled(u)
  BY DEF Handled
<1>2. TaskInv /\ ExecInv /\ SpawnInv /\ RootInv
  BY DEF TypeInv, StableInv
<1>3. \A u \in Tids :
              /\ task'[u].cpu >= task[u].cpu
              /\ task[u].state # "unborn" => task'[u].state \in {"run", "stop", "zombie", "gone"}
  BY <1>2, TaskFields
<1>4. \A u \in Tids : task'[u].event.kind = "exec" =>
              /\ task'[u].event.prev = u
              /\ \A v \in Siblings(u)' : task'[v].state = "gone"
  <2>1. \A u \in Tids : Siblings(u)' = Siblings(u)
    BY DEF Siblings
  <2> QED  BY <1>2, <2>1 DEF ExecInv
<1>5. SpawnInv' /\ \A u \in Tids : Awaited(u)' => Awaited(u)
  BY <1>2, SpawnsKept
<1>6. RootInv'
  BY <1>2 DEF RootInv
<1> QED  BY <1>1, <1>3, <1>4, <1>5, <1>6, MovesKeep

\* A thread goes on, and nothing is recorded.
LEMMA ResumeKeeps ==
    ASSUME TypeInv, TypeInv', StableInv, NEW t \in Tids, Resume(t),
           task[t].event.kind \in {"start", "spawn"}, tracker.spans # <<>>,
           UNCHANGED <<tracker, seen, sampled>>, loop # "handle", loop' # "handle"
    PROVE  StableInv'
<1>0. TaskInv /\ ExecInv /\ SpawnInv /\ RootInv /\ task \in [Tids -> TaskType]
  BY TaskFields DEF TypeInv, StableInv
<1>1. /\ \A u \in Tids : u # t => task'[u] = task[u]
      /\ task'[t].state = "run" /\ task'[t].event = NoEvent
      /\ task'[t].cpu = task[t].cpu /\ task'[t].leader = task[t].leader
  BY <1>0, ResumeFacts
<1>2. /\ task[t].state = "stop" /\ \A u \in Tids : task[u].cpu \in Nat
      /\ \A u \in Tids : task[u].state \in {"unborn", "run", "stop", "zombie", "gone"}
  BY <1>0, TaskFields
<1>3. \A u \in Tids : Handled(u)' <=> Handled(u)
  BY DEF Handled
<1>4. \A u \in Tids :
              /\ task[u].state \in {"zombie", "gone"} => task'[u] = task[u]
              /\ task'[u].state = "gone" => task[u].state = "gone"
              /\ task'[u].state = "unborn" => task[u].state = "unborn"
              /\ task'[u].cpu >= task[u].cpu
              /\ Excused(task[u]) => Excused(task'[u])
              /\ task[u].state # "unborn" => task'[u].state \in {"run", "stop", "zombie", "gone"}
  <2>1. ~Excused(task[t])
    BY DEF Excused
  <2>2. \A u \in Tids : task'[u].cpu >= task[u].cpu
    BY <1>1, <1>2
  <2> QED  BY <1>1, <1>2, <2>1, <2>2
<1>5. ASSUME NEW u \in Tids, task'[u].event.kind = "exec"
      PROVE  /\ task'[u].event.prev = u
             /\ \A v \in Siblings(u)' : task'[v].state = "gone"
  <2>1. u # t /\ task'[u] = task[u]
    BY <1>1, <1>5, EventKinds
  <2>2. /\ task[u].event.prev = u
        /\ \A v \in Siblings(u) : v \in Tids /\ task[v].state = "gone"
    BY <1>0, <1>5, <2>1 DEF ExecInv, Siblings
  <2>3. Siblings(u)' = Siblings(u)
    BY <1>1, <1>2 DEF Siblings
  <2> QED  BY <1>4, <2>1, <2>2, <2>3
<1>6. SpawnInv' /\ \A u \in Tids : Awaited(u)' => Awaited(u)
  <2>1. \A u, c \in Tids : task'[u].event = Spawned(c) => task[u].event = Spawned(c)
    BY <1>1, EventKinds
  <2>2. \A u \in Tids : task'[u].state = "unborn" <=> task[u].state = "unborn"
    BY <1>1, <1>2
  <2> QED  BY <1>0, <2>1, <2>2, SpawnsKept
<1>7. RootInv'
  BY <1>0 DEF RootInv
<1> QED  BY <1>3, <1>4, <1>5, <1>6, <1>7, MovesKeep

\* Without a span every thread but the root's is unborn.
LEMMA NoSpans ==
    ASSUME TypeInv, StableInv
    PROVE  tracker.spans = <<>> <=> \A u \in Tids : tracker.threads[u] = 0
<1>1. /\ DOMAIN tracker.spans = 1..Len(tracker.spans) /\ Len(tracker.spans) \in Nat
      /\ tracker.spans \in Seq(SpanType)
      /\ tracker.threads \in [Tids -> 0..Len(tracker.spans)]
      /\ \A s \in DOMAIN tracker.spans : tracker.spans[s].tid \in Tids
  BY TrackerFields, SpanNumbers DEF TypeInv
<1>2. \A s \in DOMAIN tracker.spans : tracker.threads[tracker.spans[s].tid] # 0
  BY DEF StableInv, LinkInv, Chained
<1>3. tracker.spans # <<>> => 1 \in DOMAIN tracker.spans
  BY <1>1
<1>4. tracker.spans = <<>> => Len(tracker.spans) = 0
  OBVIOUS
<1>5. ASSUME tracker.spans = <<>>, NEW u \in Tids
      PROVE  tracker.threads[u] = 0
  BY <1>1, <1>4, <1>5
<1> QED  BY <1>1, <1>2, <1>3, <1>5

\* The start of the command, or of a thread.
LEMMA SeeStartKeeps ==
    ASSUME TypeInv, TypeInv', StableInv, NEW t \in Tids, loop = "wait", SeeStart(t)
    PROVE  StableInv'
<1>0. /\ TaskInv /\ ExecInv /\ SpawnInv /\ RootInv /\ NameInv /\ LinkInv
      /\ IsTracker(tracker) /\ Chained(tracker)
  BY DEF TypeInv, StableInv, LinkInv
<1>1. /\ task[t].event.kind = "start" /\ loop' = "top" /\ seen' = seen /\ sampled' = sampled
  BY EventKinds DEF SeeStart
<1>2. task[t].state = "stop" /\ task[t].cpu \in Nat
  BY <1>0, <1>1, TaskFields
<1>3. CASE tracker.spans # <<>>
  <2>1. Resume(t) /\ tracker' = tracker
    BY <1>3, NoSpans DEF SeeStart
  <2> QED  BY <1>1, <1>3, <2>1, ResumeKeeps
<1>4. CASE tracker.spans = <<>>
  <2>1. /\ tracker' = HandleFirstExec(tracker, t)
        /\ task' = [task EXCEPT ![t].state = "run", ![t].event = NoEvent,
                                ![t].cmd = tracker'.root]
        /\ \A u \in Tids : tracker.threads[u] = 0
    BY <1>4, NoSpans DEF SeeStart
  <2>2. t = Root /\ \A u \in Tids \ {Root} : task[u].state = "unborn"
    BY <1>0, <1>2, <1>4 DEF RootInv
  <2>3. /\ IsTracker(tracker') /\ tracker'.root = tracker'.threads[t]
        /\ SameLinks(tracker, tracker')
        /\ tracker'.threads[t] \in DOMAIN tracker'.spans
        /\ \A u \in Tids : u # t => tracker'.threads[u] = tracker.threads[u]
        /\ DOMAIN tracker'.spans \subseteq DOMAIN tracker.spans \cup {tracker'.threads[t]}
        /\ tracker.threads[t] = 0 => tracker'.threads[t] = Len(tracker.spans) + 1
        /\ SpanOf(tracker', t).tid = Before(tracker, t).tid
        /\ SpanOf(tracker', t).argv = "own"
        /\ SpanOf(tracker', t).end = Before(tracker, t).end
        /\ SpanOf(tracker', t).usage = Before(tracker, t).usage
    BY <1>0, <2>1, FirstExecResult
  <2>4. /\ tracker'.threads[t] = 1 /\ tracker'.root = 1 /\ DOMAIN tracker'.spans = {1}
    <3>1. Len(tracker.spans) = 0 /\ DOMAIN tracker.spans = {}
      BY <1>4
    <3> QED  BY <2>1, <2>3, <3>1
  <2>5. /\ Before(tracker, t).tid = t /\ Before(tracker, t).end = NotEnded
        /\ Before(tracker, t).usage = 0
    BY <2>1 DEF Before, NewSpan
  <2>6. /\ Chained(tracker') /\ \A u : SpawnSeen(tracker', u) <=> SpawnSeen(tracker, u)
    BY <1>0, <2>3, LinksSame
  <2>7. /\ \A u \in Tids : u # t => task'[u] = task[u]
        /\ task'[t].state = "run" /\ task'[t].event = NoEvent
        /\ task'[t].cpu = task[t].cpu /\ task'[t].leader = task[t].leader
    <3>1. tracker'.root \in Nat
      BY <2>4
    <3> QED  BY <1>0, <2>1, <3>1, FirstExecTaskFacts
  <2>8. EndInv'
    <3>1. \A u \in Tids : u # t => tracker'.threads[u] = 0
      BY <2>1, <2>3
    <3>2. \A u \in Tids : task'[u].state # "gone"
      BY <2>2, <2>7
    <3>3. SpanOf(tracker', t).end = NotEnded
      BY <2>3, <2>5
    <3> QED  BY <3>1, <3>2, <3>3 DEF EndInv, Known
  <2>9. ExecInv'
    <3>1. \A u \in Tids : task'[u].event.kind = "none"
      BY <1>0, <2>2, <2>7, EventKinds, TaskFields
    <3> QED  BY <1>1, <3>1 DEF ExecInv, Handled
  <2>10. NameInv'
    <3>1. \A u \in Tids : u # t => ~Known(u)'
      BY <2>1, <2>3 DEF Known
    <3>2. SpanOf(tracker', t).argv = "own"
      BY <2>3
    <3>3. \A u \in Tids : u \in sampled' => task'[u].state \in {"zombie", "gone"}
      BY <1>0, <1>1, <1>2, <2>7 DEF NameInv
    <3> QED  BY <3>1, <3>2, <3>3 DEF NameInv
  <2>11. UsageInv'
    <3>1. \A s \in DOMAIN tracker'.spans : tracker'.spans[s] = SpanOf(tracker', t)
      BY <2>4 DEF SpanOf
    <3> QED  BY <1>2, <2>3, <2>5, <2>7, <3>1 DEF UsageInv
  <2>12. SpawnInv' /\ \A u \in Tids : Awaited(u)' => Awaited(u)
    <3>1. \A u, c \in Tids : task'[u].event = Spawned(c) => task[u].event = Spawned(c)
      BY <2>7, EventKinds
    <3>2. \A u \in Tids : task'[u].state = "unborn" <=> task[u].state = "unborn"
      BY <1>2, <2>7
    <3> QED  BY <1>0, <3>1, <3>2, SpawnsKept
  <2>13. LinkInv'
    BY <1>0, <2>6, <2>12 DEF LinkInv
  <2>14. RootInv'
    <3>1. tracker'.spans # <<>>
      <4>1. DOMAIN <<>> = {}
        OBVIOUS
      <4>2. DOMAIN tracker'.spans # {}
        BY <2>4
      <4> QED  BY <4>1, <4>2
    <3>2. tracker'.spans[1].tid = Root
      BY <2>2, <2>3, <2>4, <2>5 DEF SpanOf
    <3> QED  BY <2>4, <3>1, <3>2 DEF RootInv
  <2> QED  BY <2>8, <2>9, <2>10, <2>11, <2>12, <2>13, <2>14 DEF StableInv
<1> QED  BY <1>3, <1>4

\* The event of a spawn, before or after those of the child.
LEMMA SeeSpawnKeeps ==
    ASSUME TypeInv, TypeInv', StableInv, NEW t \in Tids, loop = "wait", SeeSpawn(t)
    PROVE  StableInv'
<1> DEFINE c == task[t].event.child
<1>0. /\ TaskInv /\ EndInv /\ ExecInv /\ NameInv /\ UsageInv /\ SpawnInv /\ LinkInv /\ RootInv
      /\ IsTracker(tracker) /\ Chained(tracker) /\ task \in [Tids -> TaskType]
  BY TaskFields DEF TypeInv, StableInv, LinkInv
<1>1. /\ task[t].event.kind = "spawn" /\ Resume(t) /\ seen' = seen /\ sampled' = sampled
  BY DEF SeeSpawn
<1>2. c \in Tids /\ task[t].event = Spawned(c) /\ task[t].state = "stop" /\ task[t].cpu \in Nat
  BY <1>0, <1>1, TaskFields, Events
<1>3. tracker.spans # <<>>
  <2>1. tracker.spans = <<>> =>
            /\ \A u \in Tids \ {Root} : task[u].state = "unborn"
            /\ task[Root].event.kind \in {"start", "exit", "dead"}
    BY <1>0 DEF RootInv
  <2> QED  BY <1>1, <1>2, <2>1
<1>4. CASE ~CanBind(tracker, c)
  <2>1. tracker' = tracker /\ loop' = "assert"
    BY <1>4 DEF SeeSpawn
  <2> QED  BY <1>1, <1>3, <2>1, ResumeKeeps
<1>5. CASE CanBind(tracker, c)
  <2>1. tracker' = HandleSpawn(tracker, c, t, Leads(c)) /\ loop' = "top"
    BY <1>5 DEF SeeSpawn
  <2>2. /\ c # Root /\ c # t /\ task[c].state # "unborn" /\ ~SpawnSeen(tracker, c)
        /\ \A p \in Tids : task[p].event = Spawned(c) => p = t
    <3>1. Awaited(c)
      BY <1>2 DEF Awaited
    <3> HIDE DEF c
    <3> QED  BY <1>0, <1>2, <3>1 DEF SpawnInv, LinkInv
  <2> DEFINE isFork == Leads(c)
  <2>3. isFork \in BOOLEAN /\ tracker' = HandleSpawn(tracker, c, t, isFork)
    BY <2>1 DEF Leads
  <2>4. /\ \A u \in Tids : u # t => task'[u] = task[u]
        /\ task'[t].state = "run" /\ task'[t].event = NoEvent
        /\ task'[t].cpu = task[t].cpu /\ task'[t].leader = task[t].leader
    BY <1>0, <1>1, ResumeFacts
  <2> HIDE DEF c, isFork
  <2>5. /\ IsTracker(tracker') /\ tracker'.root = tracker.root
        /\ DOMAIN tracker.spans \subseteq DOMAIN tracker'.spans
        /\ \A u \in Tids : \/ tracker'.threads[u] = tracker.threads[u]
                           \/ /\ tracker.threads[u] = 0
                              /\ tracker'.threads[u] \in DOMAIN tracker'.spans \ DOMAIN tracker.spans
        /\ \A x \in DOMAIN tracker.spans :
              /\ Lasting(tracker'.spans[x]) = Lasting(tracker.spans[x])
              /\ tracker'.spans[x].init = tracker.spans[x].init \/ tracker'.spans[x].init # "exec"
        /\ \A x \in DOMAIN tracker'.spans \ DOMAIN tracker.spans :
              /\ tracker'.spans[x].end = NotEnded /\ tracker'.spans[x].usage = 0
              /\ tracker'.spans[x].init # "exec"
        /\ Chained(tracker')
        /\ \A u : u # c => (SpawnSeen(tracker', u) <=> SpawnSeen(tracker, u))
    <3>1. IsTracker(tracker) /\ Chained(tracker) /\ c # t /\ ~SpawnSeen(tracker, c)
      BY <1>0, <2>2
    <3>2. c \in Tids /\ t \in Tids
      BY <1>2
    <3> QED  BY <2>3, <3>1, <3>2, SpawnResult, SMTT(30)
  <2>6. /\ \A u \in Tids : tracker.threads[u] # 0 => tracker.threads[u] \in DOMAIN tracker.spans
        /\ \A x \in DOMAIN tracker'.spans : tracker'.spans[x].tid \in Tids
    BY <1>0, <2>5, SpanNumbers
  <2>7. \A x \in DOMAIN tracker.spans :
           /\ tracker'.spans[x].tid = tracker.spans[x].tid
           /\ tracker'.spans[x].argv = tracker.spans[x].argv
           /\ tracker'.spans[x].end = tracker.spans[x].end
           /\ tracker'.spans[x].usage = tracker.spans[x].usage
    BY <2>5 DEF Lasting
  <2>8. ASSUME NEW u \in Tids
        PROVE  \/ /\ tracker.threads[u] # 0 /\ tracker'.threads[u] = tracker.threads[u]
                  /\ SpanOf(tracker', u).end = SpanOf(tracker, u).end
                  /\ SpanOf(tracker', u).argv = SpanOf(tracker, u).argv
                  /\ SpanOf(tracker', u).init # "exec"
                        \/ SpanOf(tracker', u).init = SpanOf(tracker, u).init
               \/ /\ tracker.threads[u] = 0 /\ tracker'.threads[u] # 0
                  /\ SpanOf(tracker', u).end = NotEnded
                  /\ SpanOf(tracker', u).init # "exec"
               \/ tracker.threads[u] = 0 /\ tracker'.threads[u] = 0
    <3>1. \A x \in DOMAIN tracker'.spans : x # 0
      BY <2>5, SpanNumbers
    <3> QED  BY <2>5, <2>6, <2>7, <3>1 DEF SpanOf
  <2>9. \A u \in Tids : /\ task'[u].state = "gone" <=> task[u].state = "gone"
                        /\ task'[u].state = "unborn" <=> task[u].state = "unborn"
    BY <1>2, <2>4
  <2>10. EndInv'
    <3>1. \A u \in Tids : task'[u].state = "gone" => task'[u] = task[u]
      BY <2>4
    <3> QED  BY <1>0, <2>8, <2>9, <3>1 DEF EndInv, Known
  <2>11. ExecInv'
    <3> SUFFICES ASSUME NEW u \in Tids, task'[u].event.kind = "exec"
                 PROVE  /\ task'[u].event.prev = u
                        /\ \A v \in Siblings(u)' : task'[v].state = "gone"
      BY <2>1 DEF ExecInv, Handled
    <3>1. u # t /\ task'[u] = task[u]
      BY <2>4, EventKinds
    <3>2. /\ task[u].event.prev = u
          /\ \A v \in Siblings(u) : v \in Tids /\ task[v].state = "gone"
      BY <1>0, <3>1 DEF ExecInv, Siblings
    <3>3. Siblings(u)' = Siblings(u)
      BY <2>4, <2>9, <3>1 DEF Siblings
    <3> QED  BY <2>9, <3>1, <3>2, <3>3
  <2>12. NameInv'
    <3>1. \A u \in Tids : u \in sampled' => task'[u].state \in {"zombie", "gone"}
      BY <1>0, <1>1, <1>2, <2>4 DEF NameInv
    <3>2. ASSUME NEW u \in Tids, Known(u)', SpanOf(tracker', u).init = "exec",
                 SpanOf(tracker', u).argv # "own"
          PROVE  \/ Excused(task'[u])
                 \/ task'[u].state = "gone" /\ task'[u].how = "killed"
                 \/ task'[u].state \in {"zombie", "gone"} /\ u \notin sampled'
      <4>1. /\ Known(u) /\ SpanOf(tracker, u).init = "exec"
            /\ SpanOf(tracker, u).argv # "own"
        BY <2>8, <3>2 DEF Known
      <4>2. ~Handled(u)
        BY DEF Handled
      <4>3. \/ Excused(task[u])
            \/ task[u].state = "gone" /\ task[u].how = "killed"
            \/ task[u].state \in {"zombie", "gone"} /\ u \notin sampled
        BY <1>0, <4>1, <4>2 DEF NameInv, Excused
      <4>4. u # t
        BY <1>1, <1>2, <4>3 DEF Excused
      <4> QED  BY <1>1, <2>4, <4>3, <4>4
    <3> QED  BY <3>1, <3>2 DEF NameInv, Excused
  <2>13. UsageInv'
    <3>1. \A u \in Tids : task'[u].cpu = task[u].cpu /\ task[u].cpu \in Nat
      BY <1>0, <2>4, TaskFields
    <3>2. \A s \in DOMAIN tracker.spans :
             /\ tracker.spans[s].usage >= 0 /\ tracker.spans[s].tid \in Tids
             /\ task[tracker.spans[s].tid].state # "gone" =>
                   tracker.spans[s].usage <= task[tracker.spans[s].tid].cpu
      BY <1>0, SpanNumbers DEF UsageInv
    <3>3. ASSUME NEW s \in DOMAIN tracker.spans
          PROVE  LET span == tracker'.spans[s] IN
                 /\ span.usage >= 0
                 /\ task'[span.tid].state # "gone" => span.usage <= task'[span.tid].cpu
      BY <2>7, <2>9, <3>1, <3>2
    <3>4. ASSUME NEW s \in DOMAIN tracker'.spans \ DOMAIN tracker.spans
          PROVE  LET span == tracker'.spans[s] IN
                 /\ span.usage >= 0
                 /\ task'[span.tid].state # "gone" => span.usage <= task'[span.tid].cpu
      <4>1. tracker'.spans[s].usage = 0 /\ task'[tracker'.spans[s].tid].cpu \in Nat
        BY <2>5, <2>6, <3>1
      <4> QED  BY <4>1
    <3> QED  BY <3>3, <3>4 DEF UsageInv
  <2>14. /\ \A p, d \in Tids : task'[p].event = Spawned(d) => p # t /\ task[p].event = Spawned(d)
    BY <2>4, EventKinds
  <2>15. SpawnInv' /\ \A u \in Tids : Awaited(u)' => Awaited(u)
    BY <1>0, <2>9, <2>14, SpawnsKept
  <2>16. LinkInv'
    <3>1. task'[c].state # "unborn" /\ \A p \in Tids : task'[p].event # Spawned(c)
      BY <1>2, <2>2, <2>9, <2>14
    <3>2. \A u \in Tids : u = Root \/ Awaited(u)' => u # c
      BY <2>2, <3>1 DEF Awaited
    <3> QED  BY <1>0, <2>5, <2>15, <3>2 DEF LinkInv
  <2>17. RootInv'
    <3>1. 1 \in DOMAIN tracker.spans
      <4>1. tracker.spans \in Seq(SpanType)
        BY <1>0, TrackerFields
      <4> QED  BY <1>3, <4>1
    <3>2. 1 \in DOMAIN tracker'.spans /\ tracker'.spans[1].tid = tracker.spans[1].tid
      BY <2>5, <2>7, <3>1
    <3>3. tracker'.spans # <<>>
      <4>1. DOMAIN <<>> = {}
        OBVIOUS
      <4> QED  BY <3>2, <4>1
    <3> QED  BY <1>0, <1>3, <2>5, <3>2, <3>3 DEF RootInv
  <2> QED  BY <2>10, <2>11, <2>12, <2>13, <2>15, <2>16, <2>17 DEF StableInv
<1> QED  BY <1>4, <1>5

\* The event of an exec: its thread goes on before it is recorded.
LEMMA SeeExecKeeps ==
    ASSUME TypeInv, TypeInv', StableInv, NEW t \in Tids, loop = "wait", SeeExec(t)
    PROVE  StableInv'
<1>0. /\ TaskInv /\ EndInv /\ ExecInv /\ NameInv /\ UsageInv /\ SpawnInv /\ LinkInv /\ RootInv
      /\ task \in [Tids -> TaskType]
  BY TaskFields DEF TypeInv, StableInv
<1>1. /\ task[t].event.kind = "exec" /\ task[t].event.prev = t /\ seen' = <<t, t>>
      /\ Resume(t) /\ loop' = "handle" /\ tracker' = tracker /\ sampled' = sampled
  BY <1>0 DEF SeeExec, ExecInv
<1>2. /\ task[t].state = "stop" /\ \A u \in Tids : task[u].cpu \in Nat
  BY <1>0, <1>1, TaskFields
<1>3. /\ \A u \in Tids : u # t => task'[u] = task[u]
      /\ task'[t].state = "run" /\ task'[t].event = NoEvent
      /\ task'[t].cpu = task[t].cpu /\ task'[t].leader = task[t].leader
  BY <1>0, <1>1, ResumeFacts
<1>4. \A u \in Tids : /\ task'[u].state = "gone" <=> task[u].state = "gone"
                      /\ task'[u].state = "unborn" <=> task[u].state = "unborn"
  BY <1>2, <1>3
<1>5. \A u \in Tids : ~Handled(u) /\ (Handled(u)' <=> u = t)
  BY <1>1 DEF Handled
<1>6. EndInv'
  BY <1>0, <1>1, <1>2, <1>3 DEF EndInv, Known, SpanOf
<1>7. t \notin sampled
  BY <1>0, <1>2 DEF NameInv
<1>8. ExecInv'
  <2>1. ASSUME NEW u \in Tids, task'[u].event.kind = "exec"
        PROVE  /\ task'[u].event.prev = u
               /\ \A v \in Siblings(u)' : task'[v].state = "gone"
    <3>1. u # t /\ task'[u] = task[u]
      BY <1>3, <2>1, EventKinds
    <3>2. /\ task[u].event.prev = u
          /\ \A v \in Siblings(u) : v \in Tids /\ task[v].state = "gone"
      BY <1>0, <2>1, <3>1 DEF ExecInv, Siblings
    <3>3. Siblings(u)' = Siblings(u)
      BY <1>3, <1>4, <3>1 DEF Siblings
    <3> QED  BY <1>4, <3>1, <3>2, <3>3
  <2>2. seen'[2] = t /\ t \notin sampled' /\ task'[t].state = "run"
    BY <1>1, <1>3, <1>7
  <2> QED  BY <1>5, <2>1, <2>2 DEF ExecInv
<1>9. NameInv'
  <2>1. \A u \in Tids : u \in sampled' => task'[u].state \in {"zombie", "gone"}
    BY <1>0, <1>1, <1>3, <1>7 DEF NameInv
  <2>2. ASSUME NEW u \in Tids, Known(u)', SpanOf(tracker', u).init = "exec",
               SpanOf(tracker', u).argv # "own"
        PROVE  \/ Handled(u)'
               \/ Excused(task'[u])
               \/ task'[u].state = "gone" /\ task'[u].how = "killed"
               \/ task'[u].state \in {"zombie", "gone"} /\ u \notin sampled'
    <3>1. Known(u) /\ SpanOf(tracker, u).init = "exec" /\ SpanOf(tracker, u).argv # "own"
      BY <1>1, <2>2 DEF Known
    <3>2. \/ Excused(task[u])
          \/ task[u].state = "gone" /\ task[u].how = "killed"
          \/ task[u].state \in {"zombie", "gone"} /\ u \notin sampled
      BY <1>0, <1>5, <3>1 DEF NameInv, Excused
    <3> QED  BY <1>1, <1>3, <1>5, <3>2
  <2> QED  BY <2>1, <2>2 DEF NameInv, Excused
<1>10. UsageInv'
  <2>1. \A s \in DOMAIN tracker.spans : tracker.spans[s].tid \in Tids
    BY SpanNumbers DEF TypeInv
  <2>2. \A u \in Tids : task'[u].cpu = task[u].cpu
    BY <1>3
  <2> QED  BY <1>0, <1>1, <1>4, <2>1, <2>2 DEF UsageInv
<1>11. SpawnInv' /\ \A u \in Tids : Awaited(u)' => Awaited(u)
  <2>1. \A u, d \in Tids : task'[u].event = Spawned(d) => task[u].event = Spawned(d)
    BY <1>3, EventKinds
  <2> QED  BY <1>0, <1>4, <2>1, SpawnsKept
<1>12. LinkInv'
  BY <1>0, <1>1, <1>11 DEF LinkInv
<1>13. RootInv'
  <2>1. tracker.spans # <<>>
    <3>1. tracker.spans = <<>> =>
            /\ \A u \in Tids \ {Root} : task[u].state = "unborn"
            /\ task[Root].event.kind \in {"start", "exit", "dead"}
      BY <1>0 DEF RootInv
    <3> QED  BY <1>1, <1>2, <3>1
  <2> QED  BY <1>0, <1>1, <2>1 DEF RootInv
<1> QED  BY <1>6, <1>8, <1>9, <1>10, <1>11, <1>12, <1>13 DEF StableInv

\* The two events of an end.
LEMMA SeeEndKeeps ==
    ASSUME TypeInv, TypeInv', StableInv, NEW t \in Tids, loop = "wait",
           SeeExit(t) \/ SeeDead(t)
    PROVE  StableInv'
<1>0. TaskInv /\ task[t].cpu \in Nat /\ GroupCpu(t) \in Nat /\ task[t].cpu <= GroupCpu(t)
  BY TimeTypes DEF TypeInv
<1>1. CASE SeeExit(t)
  <2>1. /\ task[t].event.kind = "exit" /\ loop' = "top" /\ sampled' = sampled \cup {t}
        /\ tracker' = FinishThread(tracker, t, "exited", task[t].cpu)
    BY <1>1 DEF SeeExit
  <2>2. /\ \A u \in Tids : u # t => task'[u] = task[u]
        /\ task'[t].state = "zombie" /\ task'[t].event = Dead(task[t].event.how)
        /\ task'[t].cpu = task[t].cpu /\ task'[t].leader = task[t].leader
    BY <1>0, <1>1, ExitTaskFacts
  <2>3. task[t].state = "stop" /\ task'[t].event.kind = "dead" /\ "exited" \in Ends
    BY <1>0, <2>1, <2>2, TaskFields, EventKinds DEF Ends
  <2>4. Excused(task[t]) => Excused(task'[t])
    BY <2>1, <2>2, EventKinds DEF Excused
  <2>5. IF task'[t].state = "gone" THEN "exited" = task'[t].how
        ELSE "exited" = "exited" /\ task[t].cpu = task[t].cpu
    BY <2>2
  <2> QED  BY <1>0, <2>1, <2>2, <2>3, <2>4, <2>5, FinishKeeps
<1>2. CASE SeeDead(t)
  <2> DEFINE how == task[t].event.how
  <2>1. /\ task[t].event.kind = "dead" /\ loop' = "top" /\ sampled' = sampled
        /\ tracker' = FinishThread(tracker, t, how, GroupCpu(t))
    BY <1>2 DEF SeeDead
  <2>2. /\ \A u \in Tids : u # t => task'[u] = task[u]
        /\ task'[t].state = "gone" /\ task'[t].event = NoEvent /\ task'[t].how = how
        /\ task'[t].cpu = task[t].cpu /\ task'[t].leader = task[t].leader
        /\ how \in Ends
    BY <1>0, <1>2, DeadTaskFacts
  <2>3. task[t].state = "zombie" /\ task'[t].event.kind = "none"
    BY <1>0, <2>1, <2>2, TaskFields, EventKinds
  <2>4. Excused(task[t]) => task'[t].state = "gone" /\ task'[t].how = "killed"
    BY <2>1, <2>2 DEF Excused
  <2> HIDE DEF how
  <2>5. IF task'[t].state = "gone" THEN how = task'[t].how
        ELSE how = "exited" /\ GroupCpu(t) = task[t].cpu
    BY <2>2
  <2> QED  BY <1>0, <2>1, <2>2, <2>3, <2>4, <2>5, FinishKeeps
<1> QED  BY <1>1, <1>2

\* A signal is passed on, or is not known.
LEMMA SeeSignalKeeps ==
    ASSUME TypeInv, TypeInv', StableInv, NEW t \in Tids, loop = "wait",
           SeeSignal(t) \/ SeeUnknown(t)
    PROVE  StableInv'
<1>0. TaskInv /\ task \in [Tids -> TaskType]
  BY TaskFields DEF TypeInv
<1>1. /\ task[t].event.kind = "signal"
      /\ UNCHANGED <<tracker, seen, sampled>> /\ loop # "handle" /\ loop' # "handle"
  BY DEF SeeSignal, SeeUnknown, Signal
<1>2. CASE SeeUnknown(t)
  BY <1>1, <1>2, IdleKeeps DEF SeeUnknown
<1>3. CASE SeeSignal(t)
  <2>1. /\ \A u \in Tids : u # t => task'[u] = task[u]
        /\ task'[t].state = "run" /\ task'[t].event = NoEvent
        /\ task'[t].cpu = task[t].cpu /\ task'[t].leader = task[t].leader
    BY <1>0, <1>3, ResumeFacts DEF SeeSignal
  <2>2. /\ task[t].state = "stop" /\ task'[t].event.kind = "none"
        /\ \A u \in Tids : /\ task[u].cpu \in Nat
                           /\ task[u].state \in {"unborn", "run", "stop", "zombie", "gone"}
    BY <1>0, <1>1, <2>1, TaskFields, EventKinds
  <2>3. \A u \in Tids :
              /\ task[u].state \in {"zombie", "gone"} => task'[u] = task[u]
              /\ task'[u].state = "gone" => task[u].state = "gone"
              /\ task'[u].state = "unborn" => task[u].state = "unborn"
              /\ task'[u].cpu >= task[u].cpu
              /\ Excused(task[u]) => Excused(task'[u])
              /\ task[u].state # "unborn" => task'[u].state \in {"run", "stop", "zombie", "gone"}
    <3>1. ~Excused(task[t])
      BY <1>1 DEF Excused
    <3>2. \A u \in Tids : task'[u].cpu >= task[u].cpu
      BY <2>1, <2>2
    <3> QED  BY <2>1, <2>2, <3>1, <3>2
  <2>4. \A u \in Tids : Siblings(u)' = Siblings(u)
    BY <2>1, <2>2 DEF Siblings
  <2>5. ASSUME NEW u \in Tids, task'[u].event.kind = "exec"
        PROVE  /\ task'[u].event.prev = u
               /\ \A v \in Siblings(u)' : task'[v].state = "gone"
    <3>1. u # t /\ task'[u] = task[u]
      BY <2>1, <2>2, <2>5
    <3>2. /\ task[u].event.prev = u
          /\ \A v \in Siblings(u) : v \in Tids /\ task[v].state = "gone"
      BY <2>5, <3>1 DEF StableInv, ExecInv, Siblings
    <3> QED  BY <2>3, <2>4, <3>1, <3>2
  <2>6. SpawnInv' /\ \A u \in Tids : Awaited(u)' => Awaited(u)
    BY <2>1, <2>2, EventKinds, SpawnsKept DEF StableInv
  <2>7. RootInv'
    BY <1>1, <2>1, <2>2, RootAssumption DEF StableInv, RootInv
  <2>8. \A u \in Tids : Handled(u)' <=> Handled(u)
    BY <1>1 DEF Handled
  <2> QED  BY <1>1, <2>3, <2>5, <2>6, <2>7, <2>8, MovesKeep
<1> QED  BY <1>2, <1>3

\* The exec is recorded, with what is found of the thread by then.
LEMMA RecordExecKeeps ==
    ASSUME TypeInv, TypeInv', StableInv, RecordExec
    PROVE  StableInv'
<1> DEFINE t    == seen[1]
           argv == Cmdline(t)
           cpu  == task[t].cpu
           f    == FinishThread(tracker, t, "exec", cpu)
           b    == Before(tracker, t)
<1>0. /\ TaskInv /\ EndInv /\ ExecInv /\ NameInv /\ UsageInv /\ SpawnInv /\ LinkInv /\ RootInv
      /\ IsTracker(tracker) /\ Chained(tracker)
  BY DEF TypeInv, StableInv, LinkInv
<1>1. /\ loop = "handle" /\ loop' = "top" /\ sampled' = sampled
  BY DEF RecordExec
<1>2. /\ t \in Tids /\ argv \in Argvs /\ tracker'.threads[t] \in Nat
      /\ task' = [task EXCEPT ![t].cmd = tracker'.threads[t]]
  BY RecordArguments
<1>3. Handled(t) /\ seen[2] = t /\ t \notin sampled /\ task[t].state \in {"run", "stop", "zombie"}
  BY <1>0, <1>1, <1>2 DEF Handled, ExecInv
<1>4. tracker' = HandleExec(tracker, t, t, argv, cpu) /\ cpu \in Nat
  BY <1>3, RecordArguments
<1>5. argv # "own" => task[t].event.kind = "exec" \/ task[t].state = "zombie"
  BY DEF Cmdline
<1>6. \A u \in Tids : u # t => ~Handled(u)
  BY DEF Handled
<1> HIDE DEF t, argv, cpu, f, b
<1>7. \A u \in Tids : /\ task'[u].state = task[u].state /\ task'[u].event = task[u].event
                      /\ task'[u].cpu = task[u].cpu /\ task'[u].leader = task[u].leader
                      /\ task'[u].how = task[u].how
  BY <1>0, <1>2, CmdFacts
<1>8. /\ IsTracker(f) /\ f.root = tracker.root
      /\ f.threads[t] # 0
      /\ \A u \in Tids \ {t} :
            /\ f.threads[u] = tracker.threads[u]
            /\ tracker.threads[u] # 0 => SpanOf(f, u) = SpanOf(tracker, u)
      /\ SpanOf(f, t).usage \in {cpu - b.usage, b.usage}
      /\ \A x \in DOMAIN f.spans :
            \/ x \in DOMAIN tracker.spans /\ f.spans[x] = tracker.spans[x]
            \/ x = f.threads[t] /\ f.spans[x].tid = t
      /\ f.spans # <<>>
      /\ f.spans[1].tid = IF tracker.spans = <<>> THEN t ELSE tracker.spans[1].tid
  <2>1. /\ f = FinishThread(tracker, t, "exec", cpu) /\ cpu \in Int
        /\ b = Before(tracker, t)
    BY <1>4 DEF f, b
  <2>2. "exec" \in Reasons
    BY DEF Reasons
  <2> QED  BY <1>0, <1>2, <2>1, <2>2, FinishSpans
<1>9. /\ IsTracker(tracker') /\ tracker'.root = tracker.root
      /\ DOMAIN f.spans \subseteq DOMAIN tracker'.spans
      /\ \A u \in Tids : u # t => tracker'.threads[u] = f.threads[u]
      /\ tracker'.threads[t] \in DOMAIN tracker'.spans
      /\ DOMAIN tracker'.spans \ DOMAIN f.spans = {tracker'.threads[t]}
      /\ \A x \in DOMAIN f.spans : /\ Lasting(tracker'.spans[x]) = Lasting(f.spans[x])
                                   /\ tracker'.spans[x].init = f.spans[x].init
      /\ SpanOf(tracker', t).tid = t /\ SpanOf(tracker', t).init = "exec"
      /\ SpanOf(tracker', t).argv = argv /\ SpanOf(tracker', t).end = NotEnded
      /\ SpanOf(tracker', t).usage = SpanOf(f, t).usage
      /\ Chained(tracker') /\ \A u : SpawnSeen(tracker', u) <=> SpawnSeen(tracker, u)
  <2>1. f = FinishThread(tracker, t, "exec", cpu) /\ cpu \in Int
    BY <1>4 DEF f
  <2>2. t \in Tids /\ argv \in Argvs /\ tracker' = HandleExec(tracker, t, t, argv, cpu)
    BY <1>2, <1>4
  <2> QED  BY <1>0, <2>1, <2>2, ExecResult
<1>10. \A x \in DOMAIN f.spans :
          /\ tracker'.spans[x].tid = f.spans[x].tid
          /\ tracker'.spans[x].argv = f.spans[x].argv
          /\ tracker'.spans[x].end = f.spans[x].end
          /\ tracker'.spans[x].usage = f.spans[x].usage
  BY <1>9 DEF Lasting
<1>11. ASSUME NEW u \in Tids, u # t
       PROVE  /\ tracker'.threads[u] = tracker.threads[u]
              /\ tracker.threads[u] # 0 =>
                    /\ SpanOf(tracker', u).init = SpanOf(tracker, u).init
                    /\ SpanOf(tracker', u).argv = SpanOf(tracker, u).argv
                    /\ SpanOf(tracker', u).end = SpanOf(tracker, u).end
  <2>1. /\ tracker'.threads[u] = f.threads[u] /\ f.threads[u] = tracker.threads[u]
        /\ tracker.threads[u] # 0 => SpanOf(f, u) = SpanOf(tracker, u)
    BY <1>8, <1>9, <1>11
  <2>2. f.threads[u] # 0 => f.threads[u] \in DOMAIN f.spans
    BY <1>8, SpanNumbers
  <2>3. f.threads[u] # 0 =>
           /\ SpanOf(tracker', u).init = SpanOf(f, u).init
           /\ SpanOf(tracker', u).argv = SpanOf(f, u).argv
           /\ SpanOf(tracker', u).end = SpanOf(f, u).end
    BY <1>9, <1>10, <2>1, <2>2 DEF SpanOf
  <2> QED  BY <2>1, <2>3
<1>12. EndInv'
  <2>1. ASSUME NEW u \in Tids, u # t
        PROVE  /\ task'[u].state = "gone" =>
                     /\ tracker'.threads[u] # 0
                     /\ SpanOf(tracker', u).end = task'[u].how /\ task'[u].how \in Ends
               /\ task'[u].state # "gone" /\ tracker'.threads[u] # 0 =>
                     SpanOf(tracker', u).end \in {NotEnded, "exited"}
    BY <1>0, <1>7, <1>11, <2>1 DEF EndInv, Known
  <2>2. task'[t].state # "gone" /\ SpanOf(tracker', t).end = NotEnded
    BY <1>2, <1>3, <1>7, <1>9
  <2> QED  BY <2>1, <2>2 DEF EndInv, Known
<1>13. ExecInv'
  <2>1. \A u \in Tids : Siblings(u)' = Siblings(u)
    BY <1>7 DEF Siblings
  <2>2. \A u \in Tids : \A v \in Siblings(u) : v \in Tids
    BY DEF Siblings
  <2>3. \A u \in Tids : ~Handled(u)'
    BY <1>1 DEF Handled
  <2> QED  BY <1>0, <1>7, <2>1, <2>2, <2>3 DEF ExecInv
<1>14. NameInv'
  <2>1. \A u \in Tids : u \in sampled' => task'[u].state \in {"zombie", "gone"}
    BY <1>0, <1>1, <1>7 DEF NameInv
  <2>2. ASSUME NEW u \in Tids, Known(u)', SpanOf(tracker', u).init = "exec",
               SpanOf(tracker', u).argv # "own"
        PROVE  \/ Excused(task'[u])
               \/ task'[u].state = "gone" /\ task'[u].how = "killed"
               \/ task'[u].state \in {"zombie", "gone"} /\ u \notin sampled'
    <3>1. CASE u = t
      BY <1>1, <1>3, <1>5, <1>7, <1>9, <2>2, <3>1 DEF Excused
    <3>2. CASE u # t
      <4>1. /\ Known(u) /\ SpanOf(tracker, u).init = "exec"
            /\ SpanOf(tracker, u).argv # "own"
        BY <1>11, <2>2, <3>2 DEF Known
      <4>2. \/ Excused(task[u])
            \/ task[u].state = "gone" /\ task[u].how = "killed"
            \/ task[u].state \in {"zombie", "gone"} /\ u \notin sampled
        BY <1>0, <1>6, <3>2, <4>1 DEF NameInv, Excused
      <4> QED  BY <1>1, <1>7, <4>2 DEF Excused
    <3> QED  BY <3>1, <3>2
  <2> QED  BY <2>1, <2>2 DEF NameInv, Excused
<1>15. UsageInv'
  <2>1. b.usage \in Int /\ 0 <= b.usage /\ b.usage <= cpu
    <3>1. task[t].state # "gone"
      BY <1>3
    <3> QED  BY <1>0, <1>2, <3>1, BeforeUsage DEF b, cpu
  <2>2. SpanOf(f, t).usage >= 0 /\ SpanOf(f, t).usage <= cpu
    BY <1>4, <1>8, <2>1
  <2>3. task'[t].cpu = cpu
    BY <1>2, <1>7 DEF cpu
  <2>4. ASSUME NEW s \in DOMAIN f.spans
        PROVE  LET span == tracker'.spans[s] IN
               /\ span.usage >= 0
               /\ task'[span.tid].state # "gone" => span.usage <= task'[span.tid].cpu
    <3>1. /\ tracker'.spans[s].tid = f.spans[s].tid
          /\ tracker'.spans[s].usage = f.spans[s].usage
      BY <1>10
    <3>2. CASE s \in DOMAIN tracker.spans /\ f.spans[s] = tracker.spans[s]
      <4>1. tracker.spans[s].tid \in Tids
        BY <1>0, <3>2, SpanNumbers
      <4>2. /\ tracker.spans[s].usage >= 0
            /\ task[tracker.spans[s].tid].state # "gone" =>
                  tracker.spans[s].usage <= task[tracker.spans[s].tid].cpu
        BY <1>0, <3>2 DEF UsageInv
      <4> QED  BY <1>7, <3>1, <3>2, <4>1, <4>2
    <3>3. CASE s = f.threads[t] /\ f.spans[s].tid = t
      BY <2>2, <2>3, <3>1, <3>3 DEF SpanOf
    <3> QED  BY <1>8, <3>2, <3>3
  <2>5. SpanOf(tracker', t).usage >= 0 /\ SpanOf(tracker', t).usage <= task'[t].cpu
    BY <1>9, <2>2, <2>3
  <2> QED  BY <1>9, <2>4, <2>5 DEF UsageInv, SpanOf
<1>16. SpawnInv' /\ \A u \in Tids : Awaited(u)' => Awaited(u)
  BY <1>0, <1>7, SpawnsKept
<1>17. LinkInv'
  BY <1>0, <1>9, <1>16 DEF LinkInv
<1>18. RootInv'
  <2>1. tracker.spans # <<>> /\ f.spans[1].tid = Root
    BY <1>0, <1>1, <1>8 DEF RootInv
  <2>2. 1 \in DOMAIN f.spans
    <3>1. f.spans \in Seq(SpanType)
      BY <1>8, TrackerFields
    <3> QED  BY <1>8, <3>1
  <2>3. tracker'.spans # <<>>
    <3>1. DOMAIN <<>> = {}
      OBVIOUS
    <3> QED  BY <1>9, <3>1
  <2> QED  BY <1>0, <1>9, <1>10, <2>1, <2>2, <2>3 DEF RootInv
<1> QED  BY <1>12, <1>13, <1>14, <1>15, <1>16, <1>17, <1>18 DEF StableInv
-----------------------------------------------------------------------------
(* The invariant. *)

\* The invariant holds at first.
LEMMA InitStable == Init => StableInv
<1> SUFFICES ASSUME Init
             PROVE  StableInv
  OBVIOUS
<1>0. TypeInv /\ TaskInv
  BY InitTypes DEF TypeInv
<1>1. /\ \A t \in Tids : t # Root => task[t] = Unborn
      /\ task[Root].event \in {Start, Dead("exited")}
      /\ task[Root].state \in {"stop", "zombie"}
  <2>1. PICK first \in {Start, Dead("exited")} :
          task = [t \in Tids |-> IF t # Root THEN Unborn
                                 ELSE [Unborn EXCEPT !.state = IF first = Start THEN "stop" ELSE "zombie",
                                                     !.event = first, !.leader = Root]]
    BY DEF Init
  <2> DEFINE state == IF first = Start THEN "stop" ELSE "zombie"
             new   == [Unborn EXCEPT !.state = state, !.event = first, !.leader = Root]
  <2>2. new.event = first /\ new.state = state /\ state \in {"stop", "zombie"}
    BY DEF Unborn
  <2>3. task[Root] = new /\ \A t \in Tids : t # Root => task[t] = Unborn
    BY <2>1, RootAssumption
  <2> QED  BY <2>2, <2>3
<1>2. /\ \A t \in Tids : tracker.threads[t] = 0
      /\ tracker.spans = <<>> /\ tracker.root = 0 /\ loop = "top" /\ sampled = {}
  BY DEF Init, NewTracker
<1>3. \A t \in Tids : task[t].event.kind \in {"none", "start", "dead"}
  BY <1>1, EventKinds DEF Unborn
<1>4. \A t \in Tids : task[t].state # "gone"
  BY <1>1 DEF Unborn
<1>5. DOMAIN tracker.spans = {}
  BY <1>2
<1>6. EndInv /\ ExecInv /\ NameInv /\ UsageInv
  BY <1>2, <1>3, <1>4, <1>5 DEF EndInv, ExecInv, NameInv, UsageInv, Known, Handled
<1>7. SpawnInv
  BY <1>1, <1>3, EventKinds, RootAssumption DEF SpawnInv
<1>8. LinkInv
  <2>1. \A x, y : ~Linked(tracker, y, x)
    BY <1>5 DEF Linked
  <2> QED  BY <1>2, <1>5, <2>1 DEF LinkInv, Chained, SpawnSeen, Bound
<1>9. RootInv
  BY <1>1, <1>2, EventKinds DEF RootInv, Unborn
<1> QED  BY <1>6, <1>7, <1>8, <1>9 DEF StableInv

\* So it does with its types.
LEMMA TrackInvInit == Init => TrackInv
  BY InitTypes, InitStable DEF TrackInv

\* A fault that happened has happened.
LEMMA StableBefore == [Next]_vars => (Stable' => Stable)
<1> SUFFICES ASSUME [Next]_vars
             PROVE  faults \subseteq faults'
  BY DEF Stable
<1>1. CASE UNCHANGED vars
  BY <1>1 DEF vars, history
<1>2. CASE Tracer
  BY <1>2 DEF Tracer, Wait, LookAtClock, RecordExec, NoChildren, Report, history
<1>3. CASE Terminate \/ Elapse
  BY <1>3 DEF Terminate, Elapse, history
<1>4. ASSUME NEW t \in Tids, NEW c \in Tids, NEW isFork \in BOOLEAN, Spawn(t, c, isFork)
      PROVE  faults \subseteq faults'
  BY <1>4 DEF Spawn, Fault
<1>5. ASSUME NEW t \in Tids, DoExec(t) \/ ThreadExec(t) \/ \E how \in Ends : Exit(t, how)
      PROVE  faults \subseteq faults'
  BY <1>5 DEF DoExec, ThreadExec, Exit, Fault, history
<1>6. ASSUME NEW t \in Tids, NEW withEvent \in BOOLEAN, Kill(t, withEvent) \/ Zap(t, withEvent)
      PROVE  faults \subseteq faults'
  BY <1>6 DEF Kill, Zap, Fault
<1>7. ASSUME NEW t \in Tids, NEW known \in BOOLEAN, SignalStop(t, known)
      PROVE  faults \subseteq faults'
  BY <1>7 DEF SignalStop, Fault
<1> QED  BY <1>1, <1>2, <1>3, <1>4, <1>5, <1>6, <1>7 DEF Next

\* A step keeps the invariant.
LEMMA TrackInvStep == TrackInv /\ [Next]_vars => TrackInv'
<1> SUFFICES ASSUME TypeInv, StableInv, [Next]_vars, Stable'
             PROVE  StableInv'
  BY TypeStep, StableBefore DEF TrackInv
<1>0. TypeInv'
  BY TypeStep
<1>1. CASE UNCHANGED vars
  <2>1. UNCHANGED <<task, tracker, seen, sampled, loop>>
    BY <1>1 DEF vars, loopVars, history
  <2> QED  BY <2>1 DEF StableInv, EndInv, ExecInv, NameInv, UsageInv, SpawnInv, LinkInv, RootInv,
                       Known, Handled, Awaited, Siblings, SpanOf
<1>2. ASSUME NEW t \in Tids, Wait(t)
      PROVE  StableInv'
  BY <1>0, <1>2, SeeStartKeeps, SeeSpawnKeeps, SeeExecKeeps, SeeEndKeeps, SeeSignalKeeps DEF Wait
<1>3. CASE LookAtClock \/ NoChildren \/ Report \/ Terminate \/ Elapse
  <2>1. /\ UNCHANGED <<task, tracker, seen, sampled>> /\ loop # "handle" /\ loop' # "handle"
    BY <1>3 DEF LookAtClock, NoChildren, Report, Terminate, Elapse, loopVars, history
  <2> QED  BY <1>0, <2>1, IdleKeeps
<1>4. CASE RecordExec
  BY <1>0, <1>4, RecordExecKeeps
<1>5. ASSUME NEW t \in Tids, NEW c \in Tids, NEW isFork \in BOOLEAN, Spawn(t, c, isFork)
      PROVE  StableInv'
  BY <1>0, <1>5, ProcessesKeep
<1>6. ASSUME NEW t \in Tids, DoExec(t) \/ ThreadExec(t) \/ \E how \in Ends : Exit(t, how)
      PROVE  StableInv'
  BY <1>0, <1>6, ProcessesKeep
<1>7. ASSUME NEW t \in Tids, NEW withEvent \in BOOLEAN, Kill(t, withEvent) \/ Zap(t, withEvent)
      PROVE  StableInv'
  BY <1>0, <1>7, ProcessesKeep
<1>8. ASSUME NEW t \in Tids, NEW known \in BOOLEAN, SignalStop(t, known)
      PROVE  StableInv'
  BY <1>0, <1>8, ProcessesKeep
<1> QED  BY <1>1, <1>2, <1>3, <1>4, <1>5, <1>6, <1>7, <1>8 DEF Next, Tracer

\* The inductive invariant.
THEOREM TrackInvariant == Spec => []TrackInv
  BY TrackInvInit, TrackInvStep, PTL DEF Spec
-----------------------------------------------------------------------------
(* What it implies. *)

\* Type correctness; and no span is charged a negative time while every thread id
\* has stood for one thread.
THEOREM TypeCorrect == Spec => []TypeOK
<1>1. TrackInv => TypeOK
  <2> SUFFICES ASSUME TrackInv
               PROVE  TypeOK
    OBVIOUS
  <2>1. TypeInv /\ (Stable => UsageInv)
    BY DEF TrackInv, StableInv
  <2>2. TrackerType(tracker)
    BY <2>1 DEF TypeInv, IsTracker
  <2>3. Stable => \A s \in DOMAIN tracker.spans : tracker.spans[s].usage >= 0
    BY <2>1 DEF UsageInv
  <2>4. \A t \in Tids : task[t].state \in {"unborn", "run", "stop", "zombie", "gone"}
    BY <2>1, TaskFields DEF TypeInv
  <2> QED  BY <2>1, <2>2, <2>3, <2>4 DEF TypeOK, TypeInv, LoopInv
<1> QED  BY <1>1, TrackInvariant, PTL

\* What the report walks is a tree, in whatever order the events were seen.
THEOREM TreeIsSound == Spec => []TreeSound
<1>1. TrackInv => TreeSound
  <2> SUFFICES ASSUME TypeInv, StableInv
               PROVE  IsTree(tracker)
    BY DEF TrackInv, TreeSound
  <2>1. IsTracker(tracker) /\ Chained(tracker) /\ ~SpawnSeen(tracker, Root)
    BY RootAssumption DEF TypeInv, StableInv, LinkInv
  <2>2. tracker.root # 0 => tracker.root = 1 /\ tracker.spans[1].tid = Root
    BY DEF StableInv, RootInv
  <2> QED  BY <2>1, <2>2, ChainedIsTree
<1> QED  BY <1>1, TrackInvariant, PTL

\* The span of a reaped thread ended as the thread did.
THEOREM EndsRight == Spec => []EndReasons
<1>1. TrackInv => EndReasons
  BY DEF TrackInv, StableInv, EndInv, EndReasons, Known, SpanOf
<1> QED  BY <1>1, TrackInvariant, PTL

\* A command that came to a normal end is shown under its own name, whatever its
\* thread does between the exec and the reading of the name.
THEOREM NamesShown == Spec => []NamesRight
<1>1. TrackInv => NamesRight
  <2> SUFFICES ASSUME TypeInv, StableInv, NEW t \in sampled, task[t].state = "gone",
                      SpanOf(tracker, t).init = "exec", SpanOf(tracker, t).end = "exited"
               PROVE  SpanOf(tracker, t).argv = "own"
    BY DEF TrackInv, NamesRight, SpanOf
  <2>1. t \in Tids /\ TaskInv
    BY DEF TypeInv, LoopInv
  <2>2. Known(t) /\ task[t].how = "exited"
    BY <2>1 DEF StableInv, EndInv
  <2>3. task[t].event.kind = "none" /\ ~Handled(t)
    BY <2>1, TaskFields DEF StableInv, ExecInv
  <2> QED  BY <2>1, <2>2, <2>3 DEF StableInv, NameInv
<1> QED  BY <1>1, TrackInvariant, PTL
=============================================================================
