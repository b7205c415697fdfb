--------------------------- MODULE TimeReportProofs ---------------------------
(***************************************************************************)
(* Theorems about what zb time reports: the CPU time of a thread is shared *)
(* out among its spans, the report does not fail, the commands in it stand *)
(* below those that executed them, and it adds up to the CPU time of all   *)
(* threads.                                                                *)
(***************************************************************************)
EXTENDS TimeCommandProofs
-----------------------------------------------------------------------------
(* The shares of the spans of a thread in its CPU time. *)

OwnSpans(tr, t) == {x \in DOMAIN tr.spans : tr.spans[x].tid = t}

\* The thread has executed nothing, or once.
Single(tr, t) == OwnSpans(tr, t) = {tr.threads[t]}
Pair(tr, t, p) == p # tr.threads[t] /\ OwnSpans(tr, t) = {p, tr.threads[t]}

\* The span there is now starts where the one before it ended.
Begins(tr, t) ==
    /\ Single(tr, t) => SpanOf(tr, t).usage = 0
    /\ \A p \in OwnSpans(tr, t) : Pair(tr, t, p) => SpanOf(tr, t).usage = tr.spans[p].usage

\* The shares add up to cpu.
Amounts(tr, t, cpu) ==
    /\ Single(tr, t) => SpanOf(tr, t).usage = cpu
    /\ \A p \in OwnSpans(tr, t) :
          Pair(tr, t, p) => tr.spans[p].usage + SpanOf(tr, t).usage = cpu

Counted(t) ==
    /\ t \in sampled => /\ Known(t) /\ SpanOf(tracker, t).end # NotEnded
                        /\ Amounts(tracker, t, task[t].cpu)
    /\ Known(t) /\ SpanOf(tracker, t).end # NotEnded => t \in sampled \/ task[t].state = "gone"
    /\ Known(t) /\ SpanOf(tracker, t).end = NotEnded => Begins(tracker, t)

CpuInv == \A t \in Tids : Counted(t)

\* The span of a thread is one of its spans; a thread without one has none.
LEMMA OwnCurrent ==
    ASSUME NEW tr, IsTracker(tr), Chained(tr), NEW t \in Tids
    PROVE  /\ tr.threads[t] # 0 => tr.threads[t] \in OwnSpans(tr, t)
           /\ tr.threads[t] = 0 => OwnSpans(tr, t) = {}
<1>1. tr.threads[t] # 0 => tr.threads[t] \in DOMAIN tr.spans /\ SpanOf(tr, t).tid = t
  BY SpanNumbers DEF Chained
<1>2. \A x \in DOMAIN tr.spans : tr.threads[tr.spans[x].tid] # 0
  BY DEF Chained
<1> QED  BY <1>1, <1>2 DEF OwnSpans, SpanOf

\* With the same spans and usages the shares are the same.
LEMMA SharesSame ==
    ASSUME NEW tr, NEW q, NEW t, q.threads[t] = tr.threads[t],
           tr.threads[t] \in OwnSpans(tr, t), OwnSpans(q, t) = OwnSpans(tr, t),
           \A x \in OwnSpans(tr, t) : q.spans[x].usage = tr.spans[x].usage
    PROVE  /\ Begins(tr, t) => Begins(q, t)
           /\ \A cpu : Amounts(tr, t, cpu) => Amounts(q, t, cpu)
<1>1. SpanOf(q, t).usage = SpanOf(tr, t).usage
  BY DEF SpanOf
<1>2. /\ Single(q, t) <=> Single(tr, t)
      /\ \A p : Pair(q, t, p) <=> Pair(tr, t, p)
  BY DEF Single, Pair
<1>3. Begins(tr, t) => Begins(q, t)
  BY <1>1, <1>2 DEF Begins
<1>4. \A cpu : Amounts(tr, t, cpu) => Amounts(q, t, cpu)
  BY <1>1, <1>2 DEF Amounts
<1> QED  BY <1>3, <1>4

\* finish_thread: the spans of other threads stay, and the thread has no more than
\* before, but for its first one.
LEMMA FinishOwn ==
    ASSUME NEW tr, IsTracker(tr), Chained(tr), NEW t \in Tids, NEW reason \in Reasons,
           NEW cpu \in Int, NEW q, q = FinishThread(tr, t, reason, cpu)
    PROVE  /\ \A u \in Tids \ {t} :
                 /\ q.threads[u] = tr.threads[u] /\ OwnSpans(q, u) = OwnSpans(tr, u)
                 /\ \A x \in OwnSpans(tr, u) : q.spans[x] = tr.spans[x]
           /\ OwnSpans(q, t) = OwnSpans(tr, t) \cup {q.threads[t]}
           /\ \A x \in OwnSpans(tr, t) : x # q.threads[t] => q.spans[x] = tr.spans[x]
           /\ tr.threads[t] # 0 => q.threads[t] = tr.threads[t]
<1>1. /\ IsTracker(q) /\ SameLinks(tr, q)
      /\ q.threads[t] \in DOMAIN q.spans
      /\ \A u \in Tids : u # t => q.threads[u] = tr.threads[u]
      /\ tr.threads[t] # 0 => q.threads[t] = tr.threads[t]
      /\ DOMAIN q.spans \subseteq DOMAIN tr.spans \cup {q.threads[t]}
      /\ SpansKept(tr, q, q.threads[t])
  BY FinishResult
<1>2. Chained(q)
  BY <1>1, LinksSame
<1>3. q.threads[t] \in OwnSpans(q, t)
  BY <1>1, <1>2, SpanNumbers, OwnCurrent
<1>4. /\ DOMAIN tr.spans \subseteq DOMAIN q.spans
      /\ \A x \in DOMAIN tr.spans : q.spans[x].tid = tr.spans[x].tid
  BY <1>1 DEF SameLinks
<1>5. \A u \in Tids \ {t} : OwnSpans(q, u) = OwnSpans(tr, u)
  BY <1>1, <1>3, <1>4 DEF OwnSpans
<1>6. OwnSpans(q, t) = OwnSpans(tr, t) \cup {q.threads[t]}
  BY <1>1, <1>3, <1>4 DEF OwnSpans
<1>7. \A x \in DOMAIN tr.spans : x # q.threads[t] => q.spans[x] = tr.spans[x]
  BY <1>1 DEF SpansKept
<1>8. \A u \in Tids \ {t} : \A x \in OwnSpans(tr, u) : q.spans[x] = tr.spans[x]
  BY <1>3, <1>4, <1>7 DEF OwnSpans
<1>9. \A x \in OwnSpans(tr, t) : x # q.threads[t] => q.spans[x] = tr.spans[x]
  BY <1>7 DEF OwnSpans
<1> QED  BY <1>1, <1>5, <1>6, <1>8, <1>9

\* The first end of a span settles its share.
LEMMA FinishAmounts ==
    ASSUME NEW tr, IsTracker(tr), Chained(tr), NEW t \in Tids, NEW reason \in Reasons,
           NEW cpu \in Int, NEW q, q = FinishThread(tr, t, reason, cpu),
           tr.threads[t] # 0 => SpanOf(tr, t).end = NotEnded /\ Begins(tr, t)
    PROVE  Amounts(q, t, cpu)
<1>1. /\ OwnSpans(q, t) = OwnSpans(tr, t) \cup {q.threads[t]}
      /\ \A x \in OwnSpans(tr, t) : x # q.threads[t] => q.spans[x] = tr.spans[x]
      /\ tr.threads[t] # 0 => q.threads[t] = tr.threads[t]
  BY FinishOwn
<1>2. Before(tr, t).end = NotEnded
  BY DEF Before, NewSpan
<1>3. SpanOf(q, t).usage = cpu - Before(tr, t).usage
  BY <1>2, FinishResult
<1>4. CASE tr.threads[t] = 0
  <2>1. OwnSpans(q, t) = {q.threads[t]}
    BY <1>1, <1>4, OwnCurrent
  <2>2. SpanOf(q, t).usage = cpu
    BY <1>3, <1>4 DEF Before, NewSpan
  <2> QED  BY <2>1, <2>2 DEF Amounts, Pair
<1>5. CASE tr.threads[t] # 0
  <2>1. /\ q.threads[t] = tr.threads[t] /\ OwnSpans(q, t) = OwnSpans(tr, t)
        /\ tr.threads[t] \in OwnSpans(tr, t)
    BY <1>1, <1>5, OwnCurrent
  <2>2. SpanOf(q, t).usage = cpu - SpanOf(tr, t).usage
    BY <1>3, <1>5 DEF Before
  <2>3. Single(q, t) => SpanOf(q, t).usage = cpu
    BY <1>5, <2>1, <2>2 DEF Single, Begins
  <2>4. ASSUME NEW p \in OwnSpans(q, t), Pair(q, t, p)
        PROVE  q.spans[p].usage + SpanOf(q, t).usage = cpu
    <3>1. Pair(tr, t, p) /\ p \in OwnSpans(tr, t) /\ q.spans[p] = tr.spans[p]
      BY <1>1, <2>1, <2>4 DEF Pair
    <3>2. SpanOf(tr, t).usage = q.spans[p].usage
      BY <1>5, <3>1 DEF Begins
    <3>3. tr.spans[p].usage \in Int
      <4>1. tr.spans[p] \in SpanType
        BY <3>1, TrackerFields DEF OwnSpans
      <4> QED  BY <4>1 DEF SpanType
    <3> QED  BY <2>2, <3>1, <3>2, <3>3
  <2> QED  BY <2>3, <2>4 DEF Amounts
<1> QED  BY <1>4, <1>5
-----------------------------------------------------------------------------
(* Every step keeps the shares. *)

\* A thread whose spans and whose share of events stay.
LEMMA CountedKept ==
    ASSUME IsTracker(tracker), Chained(tracker), NEW u \in Tids, Counted(u),
           tracker'.threads[u] = tracker.threads[u],
           OwnSpans(tracker', u) = OwnSpans(tracker, u),
           \A x \in OwnSpans(tracker, u) :
              /\ tracker'.spans[x].usage = tracker.spans[x].usage
              /\ tracker'.spans[x].end = tracker.spans[x].end,
           u \in sampled' <=> u \in sampled,
           u \in sampled => task'[u].cpu = task[u].cpu,
           task[u].state = "gone" => task'[u].state = "gone"
    PROVE  Counted(u)'
<1>1. CASE Known(u)
  <2>1. tracker.threads[u] \in OwnSpans(tracker, u)
    BY <1>1, OwnCurrent DEF Known
  <2>2. SpanOf(tracker', u).end = SpanOf(tracker, u).end
    BY <2>1 DEF SpanOf
  <2>3. /\ Begins(tracker, u) => Begins(tracker', u)
        /\ \A cpu : Amounts(tracker, u, cpu) => Amounts(tracker', u, cpu)
    BY <2>1, SharesSame
  <2> QED  BY <1>1, <2>2, <2>3 DEF Counted, Known
<1>2. CASE ~Known(u)
  BY <1>2 DEF Counted, Known
<1> QED  BY <1>1, <1>2

\* No span changes, and no dead thread.
LEMMA StillCounted ==
    ASSUME TypeInv, StableInv, CpuInv, UNCHANGED <<tracker, sampled>>,
           \A u \in Tids :
              /\ task[u].state \in {"zombie", "gone"} => task'[u].cpu = task[u].cpu
              /\ task[u].state = "gone" => task'[u].state = "gone"
    PROVE  CpuInv'
<1>1. IsTracker(tracker) /\ Chained(tracker)
  BY DEF TypeInv, StableInv, LinkInv
<1>2. \A u \in Tids : u \in sampled => task[u].state \in {"zombie", "gone"}
  BY DEF StableInv, NameInv
<1>3. ASSUME NEW u \in Tids
      PROVE  Counted(u)'
  <2>1. Counted(u)
    BY DEF CpuInv
  <2>2. u \in sampled => task'[u].cpu = task[u].cpu
    BY <1>2
  <2>3. OwnSpans(tracker', u) = OwnSpans(tracker, u)
    BY DEF OwnSpans
  <2> QED  BY <1>1, <2>1, <2>2, <2>3, CountedKept
<1> QED  BY <1>3 DEF CpuInv

\* The end of a thread.
LEMMA EndCounted ==
    ASSUME TypeInv, TypeInv', StableInv, CpuInv, NEW t \in Tids,
           SeeExit(t) \/ SeeDead(t)
    PROVE  CpuInv'
<1>0. /\ TaskInv /\ task[t].cpu \in Nat /\ GroupCpu(t) \in Nat
      /\ IsTracker(tracker) /\ Chained(tracker) /\ Counted(t)
      /\ t \in sampled => task[t].state \in {"zombie", "gone"}
  BY TimeTypes DEF TypeInv, StableInv, LinkInv, CpuInv, NameInv
<1>1. /\ \A u \in Tids : u # t => task'[u] = task[u]
      /\ task'[t].cpu = task[t].cpu
  BY <1>0, ExitTaskFacts, DeadTaskFacts
<1>2. PICK reason \in Ends, cpu \in Int : tracker' = FinishThread(tracker, t, reason, cpu)
  <2>1. CASE SeeExit(t)
    <3>1. tracker' = FinishThread(tracker, t, "exited", task[t].cpu) /\ "exited" \in Ends
      BY <2>1 DEF SeeExit, Ends
    <3> QED  BY <1>0, <3>1
  <2>2. CASE SeeDead(t)
    <3>1. tracker' = FinishThread(tracker, t, task[t].event.how, GroupCpu(t))
      BY <2>2 DEF SeeDead
    <3>2. task[t].event.how \in Ends
      BY <1>0, <2>2, DeadTaskFacts
    <3> QED  BY <1>0, <3>1, <3>2
  <2> QED  BY <2>1, <2>2
<1>3. reason \in Reasons /\ reason # NotEnded
  BY DEF Reasons, Ends, NotEnded
<1>4. \A u \in Tids \ {t} : u \in sampled' <=> u \in sampled
  BY DEF SeeExit, SeeDead
<1>5. /\ \A u \in Tids \ {t} :
            /\ tracker'.threads[u] = tracker.threads[u]
            /\ OwnSpans(tracker', u) = OwnSpans(tracker, u)
            /\ \A x \in OwnSpans(tracker, u) : tracker'.spans[x] = tracker.spans[x]
      /\ OwnSpans(tracker', t) = OwnSpans(tracker, t) \cup {tracker'.threads[t]}
      /\ \A x \in OwnSpans(tracker, t) :
            x # tracker'.threads[t] => tracker'.spans[x] = tracker.spans[x]
      /\ tracker.threads[t] # 0 => tracker'.threads[t] = tracker.threads[t]
  BY <1>0, <1>2, <1>3, FinishOwn
<1>6. /\ tracker'.threads[t] # 0
      /\ SpanOf(tracker', t).end = IF Before(tracker, t).end = NotEnded \/ reason = "killed"
                                   THEN reason ELSE Before(tracker, t).end
      /\ Before(tracker, t).end # NotEnded =>
            SpanOf(tracker', t).usage = Before(tracker, t).usage
  BY <1>0, <1>2, <1>3, FinishResult, FinishSpans
<1>7. SpanOf(tracker', t).end # NotEnded
  BY <1>3, <1>6
<1>8. ASSUME NEW u \in Tids, u # t
      PROVE  Counted(u)'
  <2>1. Counted(u)
    BY DEF CpuInv
  <2> QED  BY <1>0, <1>1, <1>4, <1>5, <1>8, <2>1, CountedKept
<1>9. CASE SeeExit(t)
  <2>1. task[t].state = "stop" /\ sampled' = sampled \cup {t}
    BY <1>0, <1>9, TaskFields DEF SeeExit
  <2>2. tracker' = FinishThread(tracker, t, "exited", task[t].cpu) /\ "exited" \in Reasons
    BY <1>9 DEF SeeExit, Reasons, Ends
  <2>3. tracker.threads[t] # 0 => SpanOf(tracker, t).end = NotEnded /\ Begins(tracker, t)
    BY <1>0, <2>1 DEF Counted, Known
  <2>4. Amounts(tracker', t, task[t].cpu)
    BY <1>0, <2>2, <2>3, FinishAmounts
  <2>5. Counted(t)'
    BY <1>1, <1>6, <1>7, <2>1, <2>4 DEF Counted, Known
  <2> QED  BY <1>8, <2>5 DEF CpuInv
<1>10. CASE SeeDead(t)
  <2>1. task'[t].state = "gone" /\ sampled' = sampled
    BY <1>0, <1>10, DeadTaskFacts DEF SeeDead
  <2>2. t \in sampled => Amounts(tracker', t, task'[t].cpu)
    <3> SUFFICES ASSUME t \in sampled
                 PROVE  Amounts(tracker', t, task[t].cpu)
      BY <1>1
    <3>1. /\ tracker.threads[t] # 0 /\ SpanOf(tracker, t).end # NotEnded
          /\ Amounts(tracker, t, task[t].cpu)
      BY <1>0 DEF Counted, Known
    <3>2. tracker.threads[t] \in OwnSpans(tracker, t)
      BY <1>0, <3>1, OwnCurrent
    <3>3. /\ tracker'.threads[t] = tracker.threads[t]
          /\ OwnSpans(tracker', t) = OwnSpans(tracker, t)
      BY <1>5, <3>1, <3>2
    <3>4. tracker'.spans[tracker.threads[t]].usage = tracker.spans[tracker.threads[t]].usage
      BY <1>6, <3>1, <3>3 DEF Before, SpanOf
    <3>5. \A x \in OwnSpans(tracker, t) : tracker'.spans[x].usage = tracker.spans[x].usage
      BY <1>5, <3>3, <3>4
    <3> QED  BY <3>1, <3>2, <3>3, <3>5, SharesSame
  <2>3. Counted(t)'
    BY <1>6, <1>7, <2>1, <2>2 DEF Counted, Known
  <2> QED  BY <1>8, <2>3 DEF CpuInv
<1> QED  BY <1>9, <1>10

\* A span that is the only one of its thread and has just begun.
LEMMA FirstSpan ==
    ASSUME NEW q, NEW u, OwnSpans(q, u) = {q.threads[u]}, SpanOf(q, u).usage = 0
    PROVE  Begins(q, u)
  BY DEF Begins, Pair

\* The command starts.
LEMMA StartCounted ==
    ASSUME TypeInv, TypeInv', StableInv, CpuInv, NEW t \in Tids, SeeStart(t)
    PROVE  CpuInv'
<1>0. /\ TaskInv /\ task \in [Tids -> TaskType]
      /\ IsTracker(tracker) /\ Chained(tracker) /\ sampled' = sampled
  BY TaskFields DEF TypeInv, StableInv, LinkInv, SeeStart
<1>1. CASE \A u \in Tids : tracker.threads[u] = 0
  <2> DEFINE q == tracker'
  <2>1. \A u \in Tids : OwnSpans(tracker, u) = {} /\ u \notin sampled'
    BY <1>0, <1>1, OwnCurrent DEF CpuInv, Counted, Known
  <2>2. q = HandleFirstExec(tracker, t)
    BY <1>1 DEF SeeStart
  <2> HIDE DEF q
  <2>3. /\ IsTracker(q) /\ SameLinks(tracker, q)
        /\ q.threads[t] \in DOMAIN q.spans
        /\ \A u \in Tids : u # t => q.threads[u] = tracker.threads[u]
        /\ DOMAIN q.spans \subseteq DOMAIN tracker.spans \cup {q.threads[t]}
        /\ SpanOf(q, t).tid = Before(tracker, t).tid
        /\ SpanOf(q, t).end = Before(tracker, t).end
        /\ SpanOf(q, t).usage = Before(tracker, t).usage
    BY <1>0, <2>2, FirstExecResult
  <2>4. SpanOf(q, t).tid = t /\ SpanOf(q, t).end = NotEnded /\ SpanOf(q, t).usage = 0
    BY <1>1, <2>3 DEF Before, NewSpan
  <2>5. OwnSpans(q, t) = {q.threads[t]}
    BY <2>1, <2>3, <2>4 DEF OwnSpans, SameLinks, SpanOf
  <2>6. Begins(q, t)
    BY <2>4, <2>5, FirstSpan
  <2>7. \A u \in Tids : u # t => q.threads[u] = 0
    BY <1>1, <2>3
  <2> QED  BY <2>1, <2>4, <2>6, <2>7 DEF CpuInv, Counted, Known, q
<1>2. CASE ~\A u \in Tids : tracker.threads[u] = 0
  <2>1. Resume(t) /\ tracker' = tracker /\ task[t].event.kind = "start"
    BY <1>2, EventKinds DEF SeeStart
  <2>2. task[t].state = "stop"
    BY <1>0, <2>1, TaskFields
  <2>3. \A u \in Tids : u # t => task'[u] = task[u]
    BY <1>0, <2>1, ResumeFacts
  <2> QED  BY <1>0, <2>1, <2>2, <2>3, StillCounted
<1> QED  BY <1>1, <1>2

\* The event of a spawn: a thread not heard of before gets its first span.
LEMMA SpawnCounted ==
    ASSUME TypeInv, TypeInv', StableInv, CpuInv, NEW t \in Tids, SeeSpawn(t)
    PROVE  CpuInv'
<1> DEFINE c == task[t].event.child
           q == tracker'
<1>0. /\ TaskInv /\ task \in [Tids -> TaskType]
      /\ IsTracker(tracker) /\ Chained(tracker) /\ sampled' = sampled
  BY TaskFields DEF TypeInv, StableInv, LinkInv, SeeSpawn
<1>1. /\ task[t].state = "stop" /\ c \in Tids
      /\ \A u \in Tids : u # t => task'[u] = task[u]
      /\ task'[t].cpu = task[t].cpu
  BY <1>0, TaskFields, Events, ResumeFacts DEF SeeSpawn
<1>2. CASE tracker' = tracker
  BY <1>0, <1>1, <1>2, StillCounted
<1>3. CASE tracker' = HandleSpawn(tracker, c, t, Leads(c))
  <2>1. q = HandleSpawn(tracker, c, t, Leads(c)) /\ Leads(c) \in BOOLEAN
    BY <1>3 DEF Leads
  <2> HIDE DEF c, q
  <2>2. /\ DOMAIN tracker.spans \subseteq DOMAIN q.spans
        /\ \A u \in Tids : \/ q.threads[u] = tracker.threads[u]
                           \/ /\ tracker.threads[u] = 0
                              /\ q.threads[u] \in DOMAIN q.spans \ DOMAIN tracker.spans
        /\ \A x \in DOMAIN tracker.spans : Lasting(q.spans[x]) = Lasting(tracker.spans[x])
        /\ \A x \in DOMAIN q.spans \ DOMAIN tracker.spans :
              /\ q.spans[x].end = NotEnded /\ q.spans[x].usage = 0
              /\ q.threads[q.spans[x].tid] = x
    <3>1. IsTracker(tracker) /\ c \in Tids /\ t \in Tids
      BY <1>0, <1>1
    <3> QED  BY <2>1, <3>1, SpawnResult, SMTT(30)
  <2>3. \A x \in DOMAIN tracker.spans :
           /\ q.spans[x].tid = tracker.spans[x].tid /\ q.spans[x].end = tracker.spans[x].end
           /\ q.spans[x].usage = tracker.spans[x].usage
    BY <2>2 DEF Lasting
  <2>4. ASSUME NEW u \in Tids, Known(u)
        PROVE  Counted(u)'
    <3>1. /\ q.threads[u] = tracker.threads[u]
          /\ tracker.threads[u] \in OwnSpans(tracker, u)
      BY <1>0, <2>2, <2>4, OwnCurrent DEF Known
    <3>2. OwnSpans(q, u) = OwnSpans(tracker, u)
      BY <2>2, <2>3, <3>1 DEF OwnSpans
    <3>3. \A x \in OwnSpans(tracker, u) :
             q.spans[x].usage = tracker.spans[x].usage /\ q.spans[x].end = tracker.spans[x].end
      BY <2>3 DEF OwnSpans
    <3>4. Counted(u) /\ task'[u].cpu = task[u].cpu
          /\ (task[u].state = "gone" => task'[u].state = "gone")
      BY <1>1 DEF CpuInv
    <3> QED  BY <1>0, <3>1, <3>2, <3>3, <3>4, CountedKept DEF q
  <2>5. ASSUME NEW u \in Tids, ~Known(u)
        PROVE  Counted(u)'
    <3>1. u \notin sampled' /\ OwnSpans(tracker, u) = {}
      BY <1>0, <2>5, OwnCurrent DEF CpuInv, Counted, Known
    <3>2. CASE q.threads[u] = 0
      BY <3>1, <3>2 DEF Counted, Known, q
    <3>3. CASE q.threads[u] # 0
      <4>1. q.threads[u] \in DOMAIN q.spans \ DOMAIN tracker.spans
        BY <2>2, <2>5, <3>3 DEF Known
      <4>2. SpanOf(q, u).end = NotEnded /\ SpanOf(q, u).usage = 0
        BY <2>2, <4>1 DEF SpanOf
      <4>3. Begins(q, u)
        <5>1. \A x \in OwnSpans(q, u) : x = q.threads[u]
          BY <2>2, <2>3, <3>1 DEF OwnSpans
        <5>2. \A x \in OwnSpans(q, u) : ~Pair(q, u, x)
          BY <5>1 DEF Pair
        <5> QED  BY <4>2, <5>2 DEF Begins
      <4> QED  BY <3>1, <4>2, <4>3 DEF Counted, Known, q
    <3> QED  BY <3>2, <3>3
  <2> QED  BY <2>4, <2>5 DEF CpuInv
<1> QED  BY <1>2, <1>3 DEF SeeSpawn

\* The exec is recorded: the new span starts where the one before it ended.
LEMMA ExecCounted ==
    ASSUME TypeInv, TypeInv', StableInv, CpuInv, RecordExec, NEW t, t = seen[1]
    PROVE  CpuInv'
<1> DEFINE argv == Cmdline(t)
           cpu  == task[t].cpu
           f    == FinishThread(tracker, t, "exec", cpu)
           q    == tracker'
<1>0. /\ TaskInv /\ ExecInv /\ IsTracker(tracker) /\ Chained(tracker) /\ sampled' = sampled
      /\ loop = "handle"
  BY DEF TypeInv, StableInv, LinkInv, RecordExec
<1>1. /\ t \in Tids /\ argv \in Argvs /\ tracker'.threads[t] \in Nat
      /\ task' = [task EXCEPT ![t].cmd = tracker'.threads[t]]
  BY RecordArguments
<1>2. seen[2] = t /\ t \notin sampled
  BY <1>0, <1>1 DEF Handled, ExecInv
<1>3. q = HandleExec(tracker, t, t, argv, cpu) /\ cpu \in Int /\ "exec" \in Reasons
  BY <1>2, RecordArguments DEF Reasons
<1>4. f = FinishThread(tracker, t, "exec", cpu)
  OBVIOUS
<1> HIDE DEF argv, cpu, f, q
<1>5. \A u \in Tids : task'[u].state = task[u].state /\ task'[u].cpu = task[u].cpu
  BY <1>0, <1>1, CmdFacts
<1>6. /\ \A u \in Tids \ {t} :
            /\ f.threads[u] = tracker.threads[u] /\ OwnSpans(f, u) = OwnSpans(tracker, u)
            /\ \A x \in OwnSpans(tracker, u) : f.spans[x] = tracker.spans[x]
  BY <1>0, <1>1, <1>3, <1>4, FinishOwn
<1>7. IsTracker(f) /\ Chained(f) /\ f.threads[t] # 0
  BY <1>0, <1>1, <1>3, <1>4, FinishSpans
<1>8. f.threads[t] \in OwnSpans(f, t) /\ f.threads[t] \in DOMAIN f.spans
  BY <1>1, <1>7, OwnCurrent DEF OwnSpans
<1>9. /\ DOMAIN f.spans \subseteq DOMAIN q.spans
      /\ \A u \in Tids : u # t => q.threads[u] = f.threads[u]
      /\ DOMAIN q.spans \ DOMAIN f.spans = {q.threads[t]}
      /\ \A x \in DOMAIN f.spans : Lasting(q.spans[x]) = Lasting(f.spans[x])
      /\ SpanOf(q, t).tid = t /\ SpanOf(q, t).end = NotEnded
      /\ SpanOf(q, t).usage = SpanOf(f, t).usage
  <2>1. /\ IsTracker(tracker) /\ t \in Tids /\ argv \in Argvs /\ cpu \in Int
        /\ q = HandleExec(tracker, t, t, argv, cpu)
        /\ f = FinishThread(tracker, t, "exec", cpu)
    BY <1>0, <1>1, <1>3, <1>4
  <2> QED  BY <2>1, ExecResult, SMTT(30)
<1>10. \A x \in DOMAIN f.spans :
          /\ q.spans[x].tid = f.spans[x].tid /\ q.spans[x].end = f.spans[x].end
          /\ q.spans[x].usage = f.spans[x].usage
  BY <1>9 DEF Lasting
<1>11. OwnSpans(q, t) = OwnSpans(f, t) \cup {q.threads[t]} /\ q.threads[t] \notin OwnSpans(f, t)
  BY <1>9, <1>10 DEF OwnSpans, SpanOf
<1>12. Begins(q, t)
  <2>1. ~Single(q, t)
    BY <1>8, <1>11 DEF Single
  <2>2. ASSUME NEW p \in OwnSpans(q, t), Pair(q, t, p)
        PROVE  SpanOf(q, t).usage = q.spans[p].usage
    <3>1. p = f.threads[t]
      BY <1>8, <1>11, <2>2 DEF Pair
    <3> QED  BY <1>8, <1>9, <1>10, <3>1 DEF SpanOf
  <2> QED  BY <2>1, <2>2 DEF Begins
<1>13. Counted(t)'
  BY <1>0, <1>2, <1>9, <1>12 DEF Counted, q
<1>14. ASSUME NEW u \in Tids, u # t
       PROVE  Counted(u)'
  <2>1. Counted(u) /\ q.threads[u] = tracker.threads[u]
    BY <1>6, <1>9, <1>14 DEF CpuInv
  <2>2. OwnSpans(q, u) = OwnSpans(f, u)
    BY <1>9, <1>10, <1>14 DEF OwnSpans, SpanOf
  <2>3. \A x \in OwnSpans(tracker, u) :
           /\ q.spans[x].usage = tracker.spans[x].usage
           /\ q.spans[x].end = tracker.spans[x].end
    <3>1. \A x \in OwnSpans(tracker, u) : x \in DOMAIN f.spans /\ f.spans[x] = tracker.spans[x]
      BY <1>6, <1>14 DEF OwnSpans
    <3> QED  BY <1>10, <3>1
  <2>4. OwnSpans(q, u) = OwnSpans(tracker, u)
    BY <1>6, <1>14, <2>2
  <2> QED  BY <1>0, <1>5, <2>1, <2>3, <2>4, CountedKept DEF q
<1> QED  BY <1>13, <1>14 DEF CpuInv

\* What the traced processes do touches neither the tracker nor the dead.
LEMMA DeadStay ==
    ASSUME TypeInv, StableInv, Stable', NEW t \in Tids,
           \/ \E c \in Tids, isFork \in BOOLEAN : Spawn(t, c, isFork)
           \/ DoExec(t) \/ ThreadExec(t) \/ \E how \in Ends : Exit(t, how)
           \/ \E known \in BOOLEAN : SignalStop(t, known)
           \/ \E withEvent \in BOOLEAN : Kill(t, withEvent) \/ Zap(t, withEvent)
    PROVE  /\ UNCHANGED <<loopVars, sampled>>
           /\ \A u \in Tids : task[u].state \in {"zombie", "gone"} => task'[u] = task[u]
           /\ \A u \in Tids : task[u].state # "unborn" => task'[u].state # "unborn"
           /\ \A u \in Tids : task'[u].state = "gone" => task[u].state = "gone"
           /\ \A u \in Tids : task[u].state # "unborn" => task'[u].how = task[u].how
<1>0. TaskInv /\ task \in [Tids -> TaskType]
  BY TaskFields DEF TypeInv
<1>1. ASSUME NEW c \in Tids, NEW isFork \in BOOLEAN, Spawn(t, c, isFork)
      PROVE  /\ UNCHANGED <<loopVars, sampled>> /\ task[t].state = "run"
             /\ task'[t].state = "stop" /\ task'[c].state = "stop"
             /\ task'[t].how = task[t].how
             /\ \A u \in Tids : u # t /\ u # c => task'[u] = task[u]
             /\ task[c].state = "unborn"
  <2>1. task[c].state = "unborn"
    BY <1>1 DEF Spawn, Stable, Fault
  <2>2. c \notin sampled
    BY <2>1 DEF StableInv, NameInv
  <2>3. UNCHANGED <<loopVars, sampled>> /\ task[t].state = "run"
    BY <1>1, <2>2 DEF Spawn
  <2> QED  BY <1>0, <1>1, <2>1, <2>3, SpawnTaskFacts
<1>2. ASSUME NEW event \in AnyEvent, task[t].state = "run", Halt(t, event)
      PROVE  /\ task'[t].state = "stop" /\ task'[t].how = task[t].how
             /\ \A u \in Tids : u # t => task'[u] = task[u]
  BY <1>0, <1>2, HaltFacts
<1>3. ~ThreadExec(t)
  BY DEF Stable, ThreadExec, Fault
<1>4. ASSUME DoExec(t) \/ \E how \in Ends : Exit(t, how)
      PROVE  /\ UNCHANGED <<loopVars, sampled>> /\ task[t].state = "run"
             /\ task'[t].state = "stop" /\ task'[t].how = task[t].how
             /\ \A u \in Tids : u # t => task'[u] = task[u]
  <2>1. UNCHANGED <<loopVars, sampled>> /\ task[t].state = "run"
    BY <1>4 DEF DoExec, Exit, history
  <2>2. \E event \in AnyEvent : Halt(t, event)
    BY <1>4, Events DEF DoExec, Exit
  <2> QED  BY <1>2, <2>1, <2>2
<1>5. ASSUME NEW withEvent \in BOOLEAN, Kill(t, withEvent) \/ Zap(t, withEvent)
      PROVE  /\ UNCHANGED <<loopVars, sampled>>
             /\ \E hit \in SUBSET {u \in Tids : Alive(u)}, how \in Ends :
                   TakeAway(hit, how, withEvent)
  <2> DEFINE hit == {u \in Siblings(t) \cup {t} : Alive(u)}
  <2>1. CASE Kill(t, withEvent)
    <3>1. TakeAway(hit, "killed", withEvent) /\ UNCHANGED <<loopVars, sampled>>
      BY <2>1 DEF Kill
    <3>2. hit \in SUBSET {u \in Tids : Alive(u)} /\ "killed" \in Ends
      BY DEF Siblings, Ends
    <3> HIDE DEF hit
    <3> QED  BY <3>1, <3>2
  <2>2. CASE Zap(t, withEvent)
    <3>1. TakeAway({t}, "exited", withEvent) /\ Alive(t) /\ UNCHANGED <<loopVars, sampled>>
      BY <2>2 DEF Zap
    <3>2. {t} \in SUBSET {u \in Tids : Alive(u)} /\ "exited" \in Ends
      BY <3>1 DEF Ends
    <3> QED  BY <3>1, <3>2
  <2> QED  BY <1>5, <2>1, <2>2
<1>6. ASSUME NEW withEvent \in BOOLEAN, NEW hit \in SUBSET {u \in Tids : Alive(u)},
             NEW how \in Ends, TakeAway(hit, how, withEvent)
      PROVE  /\ \A u \in Tids \ hit : task'[u] = task[u]
             /\ \A u \in hit : task'[u].state \in {"stop", "zombie"} /\ task'[u].how = task[u].how
             /\ \A u \in hit : task[u].state \in {"run", "stop"}
  BY <1>0, <1>6, TakeAwayFacts DEF Alive
<1>7. CASE \E c \in Tids, isFork \in BOOLEAN : Spawn(t, c, isFork)
  BY <1>1, <1>7
<1>8. CASE DoExec(t) \/ \E how \in Ends : Exit(t, how)
  BY <1>4, <1>8
<1>9. CASE \E withEvent \in BOOLEAN : Kill(t, withEvent) \/ Zap(t, withEvent)
  <2>1. UNCHANGED <<loopVars, sampled>>
    BY <1>5, <1>9
  <2>2. PICK withEvent \in BOOLEAN, hit \in SUBSET {u \in Tids : Alive(u)}, how \in Ends :
          TakeAway(hit, how, withEvent)
    BY <1>5, <1>9
  <2>3. /\ \A u \in Tids \ hit : task'[u] = task[u]
        /\ \A u \in hit : task'[u].state \in {"stop", "zombie"} /\ task'[u].how = task[u].how
        /\ \A u \in hit : task[u].state \in {"run", "stop"}
    BY <1>6, <2>2
  <2> QED  BY <2>1, <2>3
<1>10. CASE \E known \in BOOLEAN : SignalStop(t, known)
  <2>1. PICK known \in BOOLEAN : SignalStop(t, known)
    BY <1>10
  <2>2. UNCHANGED <<loopVars, sampled>> /\ task[t].state = "run"
    BY <2>1 DEF SignalStop
  <2>3. /\ task'[t].state = "stop" /\ task'[t].how = task[t].how
        /\ \A u \in Tids : u # t => task'[u] = task[u]
    BY <1>0, <2>1, SignalFacts
  <2> QED  BY <2>2, <2>3
<1> QED  BY <1>3, <1>7, <1>8, <1>9, <1>10

\* At first there is nothing to share.
LEMMA InitCounted == Init => CpuInv
  BY DEF Init, NewTracker, CpuInv, Counted, Known

\* A step keeps the shares.
LEMMA CpuStep ==
    TrackInv /\ TrackInv' /\ (Stable => CpuInv) /\ [Next]_vars => (Stable' => CpuInv')
<1> SUFFICES ASSUME TypeInv, TypeInv', StableInv, CpuInv, [Next]_vars, Stable'
             PROVE  CpuInv'
  BY StableBefore DEF TrackInv
<1>1. ASSUME UNCHANGED <<task, tracker, sampled>>
      PROVE  CpuInv'
  BY <1>1, StillCounted
<1>2. CASE UNCHANGED vars
  BY <1>1, <1>2 DEF vars, loopVars, history
<1>3. CASE LookAtClock \/ NoChildren \/ Report \/ Terminate \/ Elapse
  BY <1>1, <1>3 DEF LookAtClock, NoChildren, Report, Terminate, Elapse, loopVars, history
<1>4. ASSUME NEW t \in Tids, Wait(t)
      PROVE  CpuInv'
  <2>1. CASE SeeExec(t) \/ SeeSignal(t)
    <3>1. Resume(t) /\ UNCHANGED <<tracker, sampled>> /\ task[t].event.kind \in {"exec", "signal"}
      BY <2>1 DEF SeeExec, SeeSignal, Signal
    <3>2. task \in [Tids -> TaskType] /\ task[t].state = "stop"
      BY <3>1, TaskFields DEF TypeInv
    <3>3. \A u \in Tids : u # t => task'[u] = task[u]
      BY <3>1, <3>2, ResumeFacts
    <3> QED  BY <3>1, <3>2, <3>3, StillCounted
  <2>2. CASE SeeStart(t) \/ SeeSpawn(t) \/ SeeExit(t) \/ SeeDead(t)
    BY <2>2, StartCounted, SpawnCounted, EndCounted
  <2>3. CASE SeeUnknown(t)
    BY <1>1, <2>3 DEF SeeUnknown
  <2> QED  BY <1>4, <2>1, <2>2, <2>3 DEF Wait
<1>5. CASE RecordExec
  BY <1>5, ExecCounted
<1>6. ASSUME NEW t \in Tids,
             \/ \E c \in Tids, isFork \in BOOLEAN : Spawn(t, c, isFork)
             \/ DoExec(t) \/ ThreadExec(t) \/ \E how \in Ends : Exit(t, how)
             \/ \E known \in BOOLEAN : SignalStop(t, known)
             \/ \E withEvent \in BOOLEAN : Kill(t, withEvent) \/ Zap(t, withEvent)
      PROVE  CpuInv'
  <2>1. /\ UNCHANGED <<loopVars, sampled>>
        /\ \A u \in Tids : task[u].state \in {"zombie", "gone"} => task'[u] = task[u]
    BY <1>6, DeadStay
  <2> QED  BY <2>1, StillCounted DEF loopVars
<1> QED  BY <1>2, <1>3, <1>4, <1>5, <1>6 DEF Next, Tracer

\* With the inductive invariant of the tracker the shares are invariant.
LEMMA CpuInvariant == Spec => [](Stable => CpuInv)
<1>1. Init => (Stable => CpuInv)
  BY InitCounted
<1> QED  BY <1>1, CpuStep, TrackInvariant, PTL DEF Spec
-----------------------------------------------------------------------------
(* What is added up. *)

\* One is left of a set of two elements.
LEMMA AtMostTwo ==
    ASSUME NEW S, IsFiniteSet(S), NEW x \in S, Cardinality(S) <= 2
    PROVE  S = {x} \/ \E p \in S : p # x /\ S = {p, x}
<1> SUFFICES ASSUME NEW p \in S, p # x
             PROVE  S = {p, x}
  OBVIOUS
<1>1. IsFiniteSet(S \ {x}) /\ Cardinality(S \ {x}) = Cardinality(S) - 1
  BY FS_RemoveElement
<1>2. /\ IsFiniteSet((S \ {x}) \ {p})
      /\ Cardinality((S \ {x}) \ {p}) = Cardinality(S \ {x}) - 1
  BY <1>1, FS_RemoveElement
<1>3. Cardinality(S) \in Nat /\ Cardinality((S \ {x}) \ {p}) \in Nat
  BY <1>2, FS_CardinalityType
<1>4. Cardinality((S \ {x}) \ {p}) = 0
  BY <1>1, <1>2, <1>3
<1>5. (S \ {x}) \ {p} = {}
  BY <1>2, <1>4, FS_EmptySet
<1> QED  BY <1>5

\* The usages of the spans in S, added up.
UsageOf(spans, S) == MapThenSumSet(LAMBDA x : spans[x].usage, S)

\* They are the sum of a function.
LEMMA UsageSum ==
    ASSUME NEW spans, NEW S, IsFiniteSet(S), NEW v, \A x \in S : v[x] = spans[x].usage
    PROVE  UsageOf(spans, S) = SumOf(v, S)
<1> DEFINE Step(f, s) == IF s = {} THEN 0 ELSE spans[Taken(s)].usage + f[s \ {Taken(s)}]
           f == CHOOSE f : f = [s \in SUBSET S |-> Step(f, s)]
<1>1. UsageOf(spans, S) = f[S]
  BY DEF UsageOf, MapThenSumSet, MapThenFoldSet, Taken
<1>2. \A g : \A s \in SUBSET S : Step(g, s) = SumStep(v, g, s)
  BY Smaller DEF SumStep
<1> HIDE DEF Step
<1>3. \A g : Sums(v, S, g) <=> g = [s \in SUBSET S |-> Step(g, s)]
  BY <1>2 DEF Sums
<1>4. Sums(v, S, f)
  BY <1>3, SumsExist
<1> HIDE DEF f
<1> QED  BY <1>1, <1>4, SumValue

\* What one span, or two, are charged.
LEMMA SumOfTwo ==
    ASSUME NEW v, NEW p, NEW x, v[p] \in Int, v[x] \in Int
    PROVE  SumOf(v, {p, x}) = IF p = x THEN v[x] ELSE v[p] + v[x]
<1>1. CASE p = x
  BY <1>1, SumOne
<1>2. CASE p # x
  <2> DEFINE S == {p, x}
  <2>1. IsFiniteSet(S)
    <3>1. IsFiniteSet({x}) /\ S = {x} \cup {p}
      BY FS_Singleton
    <3> HIDE DEF S
    <3> QED  BY <3>1, FS_AddElement
  <2>2. S \in SUBSET S /\ p \in S /\ S \ {p} = {x} /\ \A y \in S : v[y] \in Int
    BY <1>2
  <2> HIDE DEF S
  <2>3. SumOf(v, S) = v[p] + SumOf(v, {x})
    BY <2>1, <2>2, SumTake
  <2> QED  BY <1>2, <2>3, SumOne DEF S
<1> QED  BY <1>1, <1>2
-----------------------------------------------------------------------------
(* What it implies. *)

\* The spans of a thread that executes one command, and whose end was seen coming,
\* make up its CPU time.
LEMMA CpuShared ==
    ASSUME TypeInv, StableInv, CpuInv, NEW t \in sampled, ExecutedOnce(t)
    PROVE  SumOf(Usages(tracker), OwnSpans(tracker, t)) = task[t].cpu
<1> DEFINE v   == Usages(tracker)
           own == OwnSpans(tracker, t)
           x   == tracker.threads[t]
           cpu == task[t].cpu
<1>1. t \in Tids /\ IsTracker(tracker) /\ Chained(tracker)
  BY DEF TypeInv, LoopInv, StableInv, LinkInv
<1>2. x \in own /\ Amounts(tracker, t, cpu)
  BY <1>1, OwnCurrent DEF CpuInv, Counted, Known
<1>3. \A s \in own : v[s] = tracker.spans[s].usage /\ v[s] \in Int
  <2>1. \A s \in own : s \in DOMAIN tracker.spans /\ tracker.spans[s] \in SpanType
    BY <1>1, TrackerFields DEF OwnSpans
  <2> QED  BY <2>1 DEF SpanType, Usages
<1>4. IsFiniteSet(own) /\ Cardinality(own) <= 2
  <2>1. IsFiniteSet(DOMAIN tracker.spans)
    BY <1>1, TrackerFields, FS_Interval
  <2>2. own \in SUBSET DOMAIN tracker.spans
    BY DEF OwnSpans
  <2> QED  BY <2>1, <2>2, FS_Subset DEF ExecutedOnce, OwnSpans
<1>5. PICK p \in own : own = {p, x} /\ (p # x => Pair(tracker, t, p))
                       /\ (p = x => Single(tracker, t))
  <2> HIDE DEF own, x
  <2>1. own = {x} \/ \E p \in own : p # x /\ own = {p, x}
    BY <1>2, <1>4, AtMostTwo
  <2> QED  BY <1>2, <2>1 DEF Pair, Single, own, x
<1>6. /\ p = x => v[x] = cpu
      /\ p # x => v[p] + v[x] = cpu
  BY <1>2, <1>3, <1>5 DEF Amounts, SpanOf
<1> HIDE DEF v, own, x, cpu
<1>7. SumOf(v, {p, x}) = IF p = x THEN v[x] ELSE v[p] + v[x]
  <2>1. v[p] \in Int /\ v[x] \in Int
    BY <1>2, <1>3, <1>5
  <2> QED  BY <2>1, SumOfTwo
<1>8. SumOf(v, own) = cpu
  BY <1>5, <1>6, <1>7
<1> QED  BY <1>8 DEF v, own, cpu

\* In a thread that executes one command, and whose end was seen coming, no tick is
\* charged to both the span before the exec and the one after it: the two make up
\* the CPU time of the thread.
THEOREM CpuSharedOut == Spec => []CpuOfOneExec
<1>1. TrackInv /\ (Stable => CpuInv) => CpuOfOneExec
  <2> SUFFICES ASSUME TypeInv, StableInv, CpuInv, NEW t \in sampled, ExecutedOnce(t)
               PROVE  CpuCounted(t)
    BY DEF TrackInv, CpuOfOneExec
  <2> DEFINE v   == Usages(tracker)
             own == OwnSpans(tracker, t)
  <2>1. SumOf(v, own) = task[t].cpu
    BY CpuShared
  <2>2. CpuCounted(t) <=> UsageOf(tracker.spans, own) = task[t].cpu
    BY DEF CpuCounted, UsageOf, MapThenSumSet, MapThenFoldSet, OwnSpans
  <2>3. own \in SUBSET DOMAIN tracker.spans /\ \A s \in own : v[s] = tracker.spans[s].usage
    BY DEF OwnSpans, Usages
  <2>4. IsFiniteSet(own)
    BY <2>3, TrackerFields, FS_Interval, FS_Subset DEF TypeInv
  <2> HIDE DEF v, own
  <2> QED  BY <2>1, <2>2, <2>3, <2>4, UsageSum
<1> QED  BY <1>1, TrackInvariant, CpuInvariant, PTL
-----------------------------------------------------------------------------
(* What the report unwraps. *)

\* A span that its thread has left behind has ended.
OneOpen(tr) ==
    \A x \in DOMAIN tr.spans :
        tr.threads[tr.spans[x].tid] # x => tr.spans[x].end # NotEnded

RootExec(tr) == tr.root # 0 => tr.spans[tr.root].init = "exec"

Orderly(tr) == ExecsAbove(tr) /\ OneOpen(tr) /\ RootExec(tr)

\* finish_thread
LEMMA FinishOrderly ==
    ASSUME NEW tr, IsTracker(tr), Chained(tr), Orderly(tr), NEW t \in Tids,
           NEW reason \in Reasons, NEW cpu \in Int,
           NEW q, q = FinishThread(tr, t, reason, cpu)
    PROVE  Orderly(q) /\ SpanOf(q, t).end # NotEnded
<1>1. /\ q.root = tr.root /\ SameLinks(tr, q)
      /\ q.threads[t] \in DOMAIN q.spans
      /\ \A u \in Tids : u # t => q.threads[u] = tr.threads[u]
      /\ tr.threads[t] # 0 => q.threads[t] = tr.threads[t]
      /\ DOMAIN q.spans \subseteq DOMAIN tr.spans \cup {q.threads[t]}
      /\ SpansKept(tr, q, q.threads[t])
  BY FinishResult
<1>2. /\ q.threads[t] # 0 /\ Chained(q)
      /\ SpanOf(q, t).end = IF Before(tr, t).end = NotEnded \/ reason = "killed"
                            THEN reason ELSE Before(tr, t).end
  BY FinishSpans
<1>3. SpanOf(q, t).end # NotEnded
  BY <1>2 DEF Reasons, Ends, NotEnded
<1>4. ExecsAbove(q)
  BY FinishAbove DEF Orderly
<1>5. OneOpen(q)
  <2> SUFFICES ASSUME NEW x \in DOMAIN q.spans, q.threads[q.spans[x].tid] # x
               PROVE  q.spans[x].end # NotEnded
    BY DEF OneOpen
  <2>1. x # q.threads[t]
    BY <1>2 DEF Chained, SpanOf
  <2>2. x \in DOMAIN tr.spans /\ q.spans[x] = tr.spans[x]
    BY <1>1, <2>1 DEF SpansKept
  <2>3. tr.spans[x].tid \in Tids /\ tr.threads[tr.spans[x].tid] # 0
    BY <2>2, SpanNumbers DEF Chained
  <2>4. q.threads[tr.spans[x].tid] = tr.threads[tr.spans[x].tid]
    BY <1>1, <2>3
  <2> QED  BY <2>2, <2>4 DEF Orderly, OneOpen
<1>6. RootExec(q)
  <2>1. tr.root # 0 => tr.root \in DOMAIN tr.spans
    BY TrackerFields
  <2>2. \A x \in DOMAIN tr.spans : q.spans[x].init = tr.spans[x].init
    BY FinishBegun
  <2> QED  BY <1>1, <2>1, <2>2 DEF Orderly, RootExec
<1> QED  BY <1>3, <1>4, <1>5, <1>6 DEF Orderly

\* handle_exec of the first command
LEMMA FirstExecOrderly ==
    ASSUME NEW tr, IsTracker(tr), Chained(tr), Orderly(tr), NEW t \in Tids,
           \A u \in Tids : tr.threads[u] = 0, NEW q, q = HandleFirstExec(tr, t)
    PROVE  Orderly(q)
<1>1. /\ q.root = q.threads[t] /\ q.threads[t] \in DOMAIN q.spans
      /\ DOMAIN q.spans \subseteq DOMAIN tr.spans \cup {q.threads[t]}
      /\ SpanOf(q, t).tid = Before(tr, t).tid /\ SpanOf(q, t).init = "exec"
  BY FirstExecResult
<1>2. DOMAIN tr.spans = {}
  BY SpanNumbers DEF Chained
<1>3. SpanOf(q, t).tid = t
  BY <1>1 DEF Before, NewSpan
<1>4. OneOpen(q)
  BY <1>1, <1>2, <1>3 DEF OneOpen, SpanOf
<1>5. RootExec(q)
  BY <1>1 DEF RootExec, SpanOf
<1>6. ExecsAbove(q)
  BY FirstExecAbove DEF Orderly
<1> QED  BY <1>4, <1>5, <1>6 DEF Orderly

\* handle_exec
LEMMA ExecOrderly ==
    ASSUME NEW tr, IsTracker(tr), Chained(tr), Orderly(tr), NEW t \in Tids,
           NEW argv \in Argvs, NEW cpu \in Int,
           NEW q, q = HandleExec(tr, t, t, argv, cpu)
    PROVE  Orderly(q)
<1> DEFINE f == FinishThread(tr, t, "exec", cpu)
<1>0. "exec" \in Reasons /\ f = FinishThread(tr, t, "exec", cpu)
  BY DEF Reasons
<1> HIDE DEF f
<1>1. /\ Orderly(f) /\ SpanOf(f, t).end # NotEnded
      /\ IsTracker(f) /\ Chained(f) /\ f.root = tr.root
  BY <1>0, FinishOrderly, FinishSpans
<1>2. /\ q.root = tr.root
      /\ DOMAIN f.spans \subseteq DOMAIN q.spans
      /\ \A u \in Tids : u # t => q.threads[u] = f.threads[u]
      /\ DOMAIN q.spans \ DOMAIN f.spans = {q.threads[t]}
      /\ \A x \in DOMAIN f.spans :
            /\ Lasting(q.spans[x]) = Lasting(f.spans[x])
            /\ q.spans[x].init = f.spans[x].init
      /\ SpanOf(q, t).tid = t
  BY <1>0, ExecResult
<1>3. \A x \in DOMAIN f.spans :
         q.spans[x].tid = f.spans[x].tid /\ q.spans[x].end = f.spans[x].end
  BY <1>2 DEF Lasting
<1>4. OneOpen(q)
  <2> SUFFICES ASSUME NEW x \in DOMAIN q.spans, q.threads[q.spans[x].tid] # x
               PROVE  q.spans[x].end # NotEnded
    BY DEF OneOpen
  <2>1. x \in DOMAIN f.spans
    BY <1>2 DEF SpanOf
  <2>2. q.spans[x].tid = f.spans[x].tid /\ q.spans[x].end = f.spans[x].end
    BY <1>3, <2>1
  <2>3. f.spans[x].tid \in Tids
    BY <1>1, <2>1, SpanNumbers
  <2>4. CASE f.threads[f.spans[x].tid] # x
    BY <1>1, <2>1, <2>2, <2>4 DEF Orderly, OneOpen
  <2>5. CASE f.threads[f.spans[x].tid] = x
    <3>1. f.spans[x].tid = t
      BY <1>2, <2>2, <2>3, <2>5
    <3> QED  BY <1>1, <2>2, <2>5, <3>1 DEF SpanOf
  <2> QED  BY <2>4, <2>5
<1>5. RootExec(q)
  <2>1. f.root # 0 => f.root \in DOMAIN f.spans
    BY <1>1, TrackerFields
  <2> QED  BY <1>1, <1>2, <2>1 DEF Orderly, RootExec
<1>6. ExecsAbove(q)
  BY ExecAbove DEF Orderly
<1> QED  BY <1>4, <1>5, <1>6 DEF Orderly

\* handle_spawn of a thread that is not the root's
LEMMA SpawnOrderly ==
    ASSUME NEW tr, IsTracker(tr), Chained(tr), Orderly(tr), NEW c \in Tids, NEW t \in Tids,
           c # t, ~SpawnSeen(tr, c), NEW isFork \in BOOLEAN,
           tr.root # 0 => tr.spans[tr.root].tid # c,
           NEW q, q = HandleSpawn(tr, c, t, isFork)
    PROVE  Orderly(q)
<1>1. /\ q.root = tr.root
      /\ DOMAIN tr.spans \subseteq DOMAIN q.spans
      /\ \A u \in Tids : \/ q.threads[u] = tr.threads[u]
                         \/ /\ tr.threads[u] = 0
                            /\ q.threads[u] \in DOMAIN q.spans \ DOMAIN tr.spans
      /\ \A x \in DOMAIN tr.spans : Lasting(q.spans[x]) = Lasting(tr.spans[x])
      /\ \A x \in DOMAIN q.spans \ DOMAIN tr.spans : q.threads[q.spans[x].tid] = x
  BY SpawnResult
<1>2. OneOpen(q)
  <2> SUFFICES ASSUME NEW x \in DOMAIN q.spans, q.threads[q.spans[x].tid] # x
               PROVE  q.spans[x].end # NotEnded
    BY DEF OneOpen
  <2>1. x \in DOMAIN tr.spans
    BY <1>1
  <2>2. q.spans[x].tid = tr.spans[x].tid /\ q.spans[x].end = tr.spans[x].end
    BY <1>1, <2>1 DEF Lasting
  <2>3. tr.spans[x].tid \in Tids /\ tr.threads[tr.spans[x].tid] # 0
    BY <2>1, SpanNumbers DEF Chained
  <2>4. tr.threads[tr.spans[x].tid] # x
    BY <1>1, <2>2, <2>3
  <2> QED  BY <2>1, <2>2, <2>4 DEF Orderly, OneOpen
<1>3. RootExec(q)
  <2> DEFINE g == WithBoth(tr, c, t)
             s == g.threads[c]
             r == tr.root
  <2> SUFFICES ASSUME r # 0
               PROVE  q.spans[r].init = "exec"
    BY <1>1 DEF RootExec
  <2>1. /\ IsTracker(g) /\ Grown(tr, g) /\ s \in DOMAIN g.spans /\ Chained(g)
    BY BothThere
  <2>2. \A y \in DOMAIN g.spans : y # s => q.spans[y].init = g.spans[y].init
    BY SpawnChanges
  <2>3. r \in DOMAIN tr.spans
    BY TrackerFields
  <2> HIDE DEF g
  <2>4. r \in DOMAIN g.spans /\ g.spans[r] = tr.spans[r]
    BY <2>1, <2>3 DEF Grown
  <2>5. s # 0 /\ g.spans[s].tid = c
    BY <2>1, SpanNumbers DEF Chained, SpanOf
  <2>6. r # s
    BY <2>4, <2>5
  <2> QED  BY <2>2, <2>4, <2>6 DEF Orderly, RootExec
<1>4. ExecsAbove(q)
  BY SpawnAbove DEF Orderly
<1> QED  BY <1>2, <1>3, <1>4 DEF Orderly

\* No child is left.
Over == \A t \in Tids : task[t].state \in {"unborn", "gone"}

\* A thread with a span has been born.
HeardInv == \A t \in Tids : Known(t) => task[t].state # "unborn"

\* The end of the command is noted when it is reaped, and made up where the wait fails.
RootEndInv == Tracing \/ ~WaitFailed => rootEnd = task[Root].how

\* Once no child is left the report follows, which then fails without a command only;
\* otherwise it follows the deadline or a wait that failed.
FailInv ==
    /\ alone => loop \in {"report", "printed", "panic"} /\ Over
    /\ loop # "assert"
    /\ loop \in {"report", "printed", "panic"} => Over \/ deadline = "passed" \/ WaitFailed
    /\ loop = "panic" /\ Over => tracker.root = 0

ReportInv == Orderly(tracker) /\ HeardInv /\ RootEndInv /\ FailInv

\* The events of one thread are taken at a time, and reaping is the end of it.
LEMMA WaitTask ==
    ASSUME TypeInv, TypeInv', NEW t \in Tids, Wait(t)
    PROVE  /\ \A u \in Tids : u # t => task'[u] = task[u]
           /\ task[t].state \in {"stop", "zombie"}
           /\ task'[t].state \in {"run", "stop", "zombie", "gone"}
           /\ task'[t].state = "gone" => SeeDead(t) /\ task'[t].how = task[t].event.how
           /\ task'[t].state # "gone" => ~SeeDead(t) /\ task'[t].how = task[t].how
<1>0. TaskInv /\ task \in [Tids -> TaskType]
  BY TaskFields DEF TypeInv
<1>1. task[t].event.kind \in {"start", "spawn", "exec", "exit", "signal", "dead"}
  BY EventKinds DEF Wait, SeeStart, SeeSpawn, SeeExec, SeeExit, SeeDead, SeeSignal, SeeUnknown,
                    Signal
<1>2. task[t].state \in {"stop", "zombie"}
  BY <1>0, <1>1, TaskFields
<1>3. CASE Resume(t)
  <2>1. ~SeeDead(t)
    BY <1>0, <1>3, ResumeFacts, DeadTaskFacts
  <2> QED  BY <1>0, <1>2, <1>3, <2>1, ResumeFacts
<1>4. CASE SeeStart(t) /\ ~Resume(t)
  <2>1. task' = [task EXCEPT ![t].state = "run", ![t].event = NoEvent, ![t].cmd = tracker'.root]
    BY <1>4 DEF SeeStart
  <2>2. tracker'.root \in Nat
    BY TrackerFields DEF TypeInv
  <2>3. ~SeeDead(t)
    BY <1>4, EventKinds DEF SeeStart, SeeDead
  <2> QED  BY <1>0, <1>2, <2>1, <2>2, <2>3, FirstExecTaskFacts
<1>5. CASE SeeExit(t)
  <2>1. ~SeeDead(t)
    BY <1>5 DEF SeeExit, SeeDead
  <2> QED  BY <1>0, <1>2, <1>5, <2>1, ExitTaskFacts
<1>6. CASE SeeDead(t)
  BY <1>0, <1>2, <1>6, DeadTaskFacts
<1>7. CASE SeeUnknown(t)
  <2>1. UNCHANGED task /\ ~SeeDead(t)
    BY <1>7 DEF SeeUnknown, SeeDead, Signal
  <2> QED  BY <1>2, <2>1
<1> QED  BY <1>3, <1>4, <1>5, <1>6, <1>7 DEF Wait, SeeSpawn, SeeExec, SeeSignal

\* When no child is left and the command has started, nothing fails.
LEMMA NothingFails ==
    ASSUME TypeInv, StableInv, ReportInv, Over, tracker.root # 0
    PROVE  /\ ~BorrowedTwice(tracker)
           /\ tracker.spans[tracker.root].init = "exec"
           /\ \A s \in Commands(tracker) : tracker.spans[s].end # NotEnded
<1>1. /\ IsTracker(tracker) /\ Chained(tracker) /\ ~SpawnSeen(tracker, Root)
      /\ tracker.root = 1 /\ tracker.spans[1].tid = Root
  BY RootAssumption DEF TypeInv, StableInv, LinkInv, RootInv
<1>2. ~BorrowedTwice(tracker)
  BY <1>1, BorrowedOnce
<1>3. tracker.spans[tracker.root].init = "exec"
  BY DEF ReportInv, Orderly, RootExec
<1>4. ASSUME NEW s \in Commands(tracker)
      PROVE  tracker.spans[s].end # NotEnded
  <2> DEFINE K == DOMAIN tracker.spans
  <2>1. /\ K \in SUBSET DOMAIN tracker.spans /\ tracker.root \in K
        /\ \A y \in K : Children(tracker, y) \subseteq K
    <3>1. /\ K = 1..Len(tracker.spans) /\ tracker.root \in 0..Len(tracker.spans)
          /\ \A y \in K : tracker.spans[y].children \in Seq(K)
      BY <1>1, TrackerFields
    <3>2. tracker.root \in K
      BY <3>1
    <3> HIDE DEF K
    <3>3. \A y \in K : Children(tracker, y) \subseteq K
      BY <3>1 DEF Children
    <3> QED  BY <3>2, <3>3 DEF K
  <2>2. s \in K
    <3>1. Reached(tracker) \subseteq K
      BY <1>1, <2>1, ReachedInside
    <3> QED  BY <1>4, <3>1 DEF Commands
  <2> DEFINE t == tracker.spans[s].tid
  <2>3. t \in Tids /\ Known(t)
    BY <1>1, <2>2, SpanNumbers DEF Chained, Known
  <2>4. task[t].state = "gone"
    BY <2>3 DEF ReportInv, HeardInv, Over
  <2>5. SpanOf(tracker, t).end \in Ends
    BY <2>3, <2>4 DEF StableInv, EndInv
  <2>6. SpanOf(tracker, t).end # NotEnded
    BY <2>5 DEF Ends, NotEnded
  <2>7. CASE tracker.threads[t] = s
    BY <2>6, <2>7 DEF SpanOf
  <2>8. CASE tracker.threads[t] # s
    BY <2>2, <2>8 DEF ReportInv, Orderly, OneOpen
  <2> QED  BY <2>7, <2>8
<1> QED  BY <1>2, <1>3, <1>4

\* An event is taken without a failed assertion, and gives a span to no thread that
\* is not born.
LEMMA WaitOrderly ==
    ASSUME TypeInv, TypeInv', StableInv, ReportInv, NEW t \in Tids, Wait(t)
    PROVE  /\ Orderly(tracker') /\ loop' \in {"top", "handle", "report"}
           /\ loop' = "report" => SeeUnknown(t)
           /\ \A u \in Tids : tracker'.threads[u] # 0 =>
                 Known(u) \/ u = t \/ task[u].state # "unborn"
<1>0. /\ IsTracker(tracker) /\ Chained(tracker) /\ TaskInv /\ SpawnInv /\ RootInv /\ LinkInv
      /\ Orderly(tracker) /\ task[t].cpu \in Nat /\ GroupCpu(t) \in Nat
  BY TimeTypes DEF TypeInv, StableInv, LinkInv, ReportInv
<1>1. CASE /\ tracker' = tracker /\ loop' \in {"top", "handle", "report"}
           /\ loop' = "report" => SeeUnknown(t)
  BY <1>0, <1>1 DEF Known
<1>2. CASE SeeStart(t)
  <2>1. tracker' = tracker \/ /\ tracker' = HandleFirstExec(tracker, t)
                              /\ \A u \in Tids : tracker.threads[u] = 0
    BY <1>2 DEF SeeStart
  <2>2. loop' = "top"
    BY <1>2 DEF SeeStart
  <2>3. CASE /\ tracker' = HandleFirstExec(tracker, t)
             /\ \A u \in Tids : tracker.threads[u] = 0
    <3>1. Orderly(tracker')
      BY <1>0, <2>3, FirstExecOrderly
    <3>2. \A u \in Tids : u # t => tracker'.threads[u] = tracker.threads[u]
      BY <1>0, <2>3, FirstExecResult
    <3> QED  BY <2>2, <3>1, <3>2 DEF Known
  <2> QED  BY <1>1, <2>1, <2>2, <2>3
<1>3. CASE SeeSpawn(t)
  <2> DEFINE c == task[t].event.child
             isFork == Leads(c)
  <2>1. c \in Tids /\ task[t].event = Spawned(c)
    BY <1>0, <1>3, TaskFields, Events DEF SeeSpawn
  <2>2. /\ c # Root /\ c # t /\ task[c].state # "unborn" /\ ~SpawnSeen(tracker, c)
    <3>1. Awaited(c)
      BY <2>1 DEF Awaited
    <3> HIDE DEF c
    <3> QED  BY <1>0, <2>1, <3>1 DEF SpawnInv, LinkInv
  <2>3. CanBind(tracker, c)
    <3> HIDE DEF c
    <3> QED  BY <1>0, <2>1, <2>2, BindsFirst DEF Orderly
  <2>4. tracker' = HandleSpawn(tracker, c, t, isFork) /\ loop' = "top" /\ isFork \in BOOLEAN
    BY <1>3, <2>3 DEF SeeSpawn, Leads
  <2> HIDE DEF c, isFork
  <2>5. tracker.root # 0 => tracker.spans[tracker.root].tid # c
    BY <1>0, <2>2 DEF RootInv
  <2>6. Orderly(tracker')
    BY <1>0, <2>1, <2>2, <2>4, <2>5, SpawnOrderly, SMTT(30)
  <2>7. \A u \in Tids : u # t /\ u # c => tracker'.threads[u] = tracker.threads[u]
    <3> DEFINE g1 == GetThread(tracker, t)
               g == GetThread(g1, c)
    <3>1. IsTracker(g1) /\ \A u \in Tids : u # t => g1.threads[u] = tracker.threads[u]
      BY <1>0, GetFacts
    <3>2. tracker'.threads = g.threads
      <4>1. tracker'.threads = WithBoth(tracker, c, t).threads
        BY <1>0, <2>1, <2>4, SpawnChanges
      <4> QED  BY <4>1 DEF WithBoth
    <3> HIDE DEF g1
    <3>3. \A u \in Tids : u # c => g.threads[u] = g1.threads[u]
      BY <2>1, <3>1, GetFacts
    <3> QED  BY <3>1, <3>2, <3>3
  <2> QED  BY <2>2, <2>4, <2>6, <2>7 DEF Known
<1>4. CASE SeeExec(t)
  BY <1>1, <1>4 DEF SeeExec
<1>7. CASE SeeSignal(t) \/ SeeUnknown(t)
  BY <1>1, <1>7 DEF SeeSignal, SeeUnknown
<1>5. ASSUME SeeExit(t) \/ SeeDead(t)
      PROVE  \E reason \in Ends, cpu \in Int :
                tracker' = FinishThread(tracker, t, reason, cpu)
  <2>1. CASE SeeExit(t)
    <3>1. tracker' = FinishThread(tracker, t, "exited", task[t].cpu) /\ "exited" \in Ends
      BY <2>1 DEF SeeExit, Ends
    <3> QED  BY <1>0, <3>1
  <2>2. CASE SeeDead(t)
    <3>1. tracker' = FinishThread(tracker, t, task[t].event.how, GroupCpu(t))
      BY <2>2 DEF SeeDead
    <3>2. task[t].event.how \in Ends
      BY <1>0, <2>2, DeadTaskFacts
    <3> QED  BY <1>0, <3>1, <3>2
  <2> QED  BY <1>5, <2>1, <2>2
<1>6. CASE SeeExit(t) \/ SeeDead(t)
  <2>1. PICK reason \in Ends, cpu \in Int : tracker' = FinishThread(tracker, t, reason, cpu)
    BY <1>5, <1>6
  <2>2. reason \in Reasons /\ loop' = "top"
    BY <1>6 DEF Reasons, SeeExit, SeeDead
  <2>3. Orderly(tracker')
    BY <1>0, <2>1, <2>2, FinishOrderly
  <2>4. \A u \in Tids : u # t => tracker'.threads[u] = tracker.threads[u]
    BY <1>0, <2>1, <2>2, FinishResult
  <2> QED  BY <2>2, <2>3, <2>4 DEF Known
<1> QED  BY <1>2, <1>3, <1>4, <1>6, <1>7 DEF Wait

\* The event of a thread.
LEMMA WaitReports ==
    ASSUME TypeInv, TypeInv', StableInv, ReportInv, NEW t \in Tids, Wait(t)
    PROVE  ReportInv'
<1>0. /\ HeardInv /\ RootEndInv /\ FailInv /\ task[Root].state # "unborn" /\ Root \in Tids
  BY RootAssumption DEF ReportInv, StableInv, SpawnInv
<1>1. /\ \A u \in Tids : u # t => task'[u] = task[u]
      /\ task[t].state \in {"stop", "zombie"}
      /\ task'[t].state \in {"run", "stop", "zombie", "gone"}
      /\ task'[t].state = "gone" => SeeDead(t) /\ task'[t].how = task[t].event.how
      /\ task'[t].state # "gone" => ~SeeDead(t) /\ task'[t].how = task[t].how
  BY WaitTask
<1>2. /\ Orderly(tracker') /\ loop' \in {"top", "handle", "report"}
      /\ loop' = "report" => SeeUnknown(t)
      /\ \A u \in Tids : tracker'.threads[u] # 0 =>
            Known(u) \/ u = t \/ task[u].state # "unborn"
  BY WaitOrderly
<1>3. HeardInv'
  BY <1>0, <1>1, <1>2 DEF HeardInv, Known
<1>4. ASSUME SeeUnknown(t)
      PROVE  WaitFailed' /\ loop' = "report"
  BY <1>4 DEF SeeUnknown, WaitFailed
<1>5. RootEndInv'
  <2>1. CASE SeeUnknown(t)
    BY <1>4, <2>1 DEF RootEndInv, Tracing
  <2>2. CASE ~SeeUnknown(t)
    <3>1. rootEnd = task[Root].how
      BY <1>0 DEF RootEndInv, Wait, Tracing
    <3>2. CASE t = Root /\ SeeDead(t)
      <4>1. rootEnd' = task[t].event.how
        BY <3>2 DEF SeeDead
      <4> QED  BY <1>1, <3>2, <4>1 DEF RootEndInv
    <3>3. CASE ~(t = Root /\ SeeDead(t))
      <4>1. rootEnd' = rootEnd
        BY <2>2, <3>3 DEF Wait, SeeStart, SeeSpawn, SeeExec, SeeExit, SeeDead, SeeSignal
      <4> QED  BY <1>0, <1>1, <3>1, <3>3, <4>1 DEF RootEndInv
    <3> QED  BY <3>2, <3>3
  <2> QED  BY <2>1, <2>2
<1>6. FailInv'
  <2>1. ~alone /\ alone' = alone
    BY <1>0 DEF Wait, FailInv
  <2> QED  BY <1>2, <1>4, <2>1 DEF FailInv
<1> QED  BY <1>2, <1>3, <1>5, <1>6 DEF ReportInv

\* The exec is recorded.
LEMMA RecordReports ==
    ASSUME TypeInv, StableInv, ReportInv, RecordExec, NEW t, t = seen[1]
    PROVE  ReportInv'
<1> DEFINE cpu == task[t].cpu
           f == FinishThread(tracker, t, "exec", cpu)
<1>0. /\ TaskInv /\ ExecInv /\ IsTracker(tracker) /\ Chained(tracker) /\ Orderly(tracker)
      /\ HeardInv /\ RootEndInv /\ FailInv /\ Root \in Tids
  BY RootAssumption DEF TypeInv, StableInv, LinkInv, ReportInv
<1>1. /\ t \in Tids /\ Cmdline(t) \in Argvs /\ tracker'.threads[t] \in Nat
      /\ task' = [task EXCEPT ![t].cmd = tracker'.threads[t]]
  BY RecordArguments
<1>2. /\ seen[2] = t /\ task[t].state \in {"run", "stop", "zombie"}
      /\ loop = "handle" /\ loop' = "top" /\ UNCHANGED <<rootEnd, alone>>
  BY <1>0, <1>1 DEF Handled, ExecInv, RecordExec
<1>3. tracker' = HandleExec(tracker, t, t, Cmdline(t), cpu) /\ cpu \in Int /\ "exec" \in Reasons
  BY <1>2, RecordArguments DEF Reasons
<1>4. f = FinishThread(tracker, t, "exec", cpu)
  OBVIOUS
<1> HIDE DEF cpu, f
<1>5. Orderly(tracker')
  BY <1>0, <1>1, <1>3, ExecOrderly
<1>6. \A u \in Tids : task'[u].state = task[u].state /\ task'[u].how = task[u].how
  BY <1>0, <1>1, CmdFacts
<1>7. \A u \in Tids : u # t => tracker'.threads[u] = tracker.threads[u]
  <2> DEFINE q == tracker'
  <2>1. /\ IsTracker(tracker) /\ t \in Tids /\ Cmdline(t) \in Argvs
        /\ cpu \in Int /\ "exec" \in Reasons /\ q = HandleExec(tracker, t, t, Cmdline(t), cpu)
    BY <1>0, <1>1, <1>3
  <2> HIDE DEF q
  <2>2. \A u \in Tids : u # t => f.threads[u] = tracker.threads[u]
    BY <1>4, <2>1, FinishResult
  <2>3. \A u \in Tids : u # t => q.threads[u] = f.threads[u]
    BY <1>4, <2>1, ExecResult
  <2> QED  BY <2>2, <2>3 DEF q
<1>8. HeardInv'
  BY <1>0, <1>2, <1>6, <1>7 DEF HeardInv, Known
<1>9. RootEndInv'
  BY <1>0, <1>2, <1>6 DEF RootEndInv, Tracing
<1>10. FailInv'
  BY <1>0, <1>2 DEF FailInv
<1> QED  BY <1>5, <1>8, <1>9, <1>10 DEF ReportInv

\* No event is taken.
LEMMA IdleReports ==
    ASSUME TypeInv, StableInv, ReportInv,
           LookAtClock \/ NoChildren \/ Report \/ Terminate \/ Elapse \/ UNCHANGED vars
    PROVE  ReportInv'
<1>1. UNCHANGED <<task, tracker, rootEnd>>
  BY DEF LookAtClock, NoChildren, Report, Terminate, Elapse, vars, loopVars
<1>2. Orderly(tracker') /\ HeardInv' /\ (WaitFailed' <=> WaitFailed)
  BY <1>1 DEF ReportInv, HeardInv, Known, WaitFailed
<1>4. RootEndInv'
  <2>1. Tracing' => Tracing
    BY DEF LookAtClock, NoChildren, Report, Terminate, Elapse, vars, loopVars, Tracing
  <2> QED  BY <1>1, <1>2, <2>1 DEF ReportInv, RootEndInv
<1>3. FailInv'
  <2>0. FailInv /\ (Over' <=> Over)
    BY <1>1 DEF ReportInv, Over
  <2>1. CASE LookAtClock
    BY <2>0, <2>1 DEF LookAtClock, FailInv
  <2>2. CASE NoChildren
    BY <2>0, <2>2 DEF NoChildren, FailInv, Over
  <2>3. CASE Report
    <3>1. UNCHANGED <<alone, deadline>> /\ loop = "report" /\ loop' \in {"printed", "panic"}
      BY <2>3 DEF Report
    <3>2. ASSUME Over, tracker.root # 0
          PROVE  loop' = "printed"
      BY <2>3, <3>2, NothingFails DEF Report
    <3> QED  BY <1>1, <1>2, <2>0, <3>1, <3>2 DEF FailInv
  <2>4. CASE Terminate \/ Elapse \/ UNCHANGED vars
    <3>1. UNCHANGED <<loop, alone>> /\ (deadline' = deadline \/ deadline' = "passed")
      BY <2>4 DEF Terminate, Elapse, vars, loopVars
    <3> QED  BY <1>1, <1>2, <2>0, <3>1 DEF FailInv
  <2> QED  BY <2>1, <2>2, <2>3, <2>4
<1> QED  BY <1>2, <1>3, <1>4 DEF ReportInv

\* What the traced processes do: they move while the loop runs.
LEMMA ProcessReports ==
    ASSUME TypeInv, StableInv, ReportInv, Stable', NEW t \in Tids,
           \/ \E c \in Tids, isFork \in BOOLEAN : Spawn(t, c, isFork)
           \/ DoExec(t) \/ ThreadExec(t) \/ \E how \in Ends : Exit(t, how)
           \/ \E known \in BOOLEAN : SignalStop(t, known)
           \/ \E withEvent \in BOOLEAN : Kill(t, withEvent) \/ Zap(t, withEvent)
    PROVE  ReportInv'
<1>0. HeardInv /\ RootEndInv /\ FailInv /\ Root \in Tids /\ task[Root].state # "unborn"
  BY RootAssumption DEF ReportInv, StableInv, SpawnInv
<1>1. /\ UNCHANGED loopVars
      /\ \A u \in Tids : task[u].state \in {"zombie", "gone"} => task'[u] = task[u]
      /\ \A u \in Tids : task[u].state # "unborn" => task'[u].state # "unborn"
      /\ \A u \in Tids : task'[u].state = "gone" => task[u].state = "gone"
      /\ \A u \in Tids : task[u].state # "unborn" => task'[u].how = task[u].how
  BY DeadStay
<1>2. loop \in {"wait", "handle"}
  BY DEF Spawn, DoExec, ThreadExec, Exit, SignalStop, Kill, Zap, MayMove, Waiting
<1>3. UNCHANGED <<tracker, loop, rootEnd, alone>>
  BY <1>1 DEF loopVars
<1>4. Orderly(tracker')
  BY <1>3 DEF ReportInv
<1>5. HeardInv'
  BY <1>0, <1>1, <1>3 DEF HeardInv, Known
<1>6. RootEndInv'
  BY <1>0, <1>1, <1>2, <1>3 DEF RootEndInv, Tracing
<1>7. FailInv'
  BY <1>0, <1>2, <1>3 DEF FailInv
<1> QED  BY <1>4, <1>5, <1>6, <1>7 DEF ReportInv

\* At first there are no spans.
LEMMA InitReports == Init => ReportInv
<1> SUFFICES ASSUME Init
             PROVE  ReportInv
  OBVIOUS
<1>1. tracker = NewTracker /\ loop = "top" /\ alone = FALSE /\ rootEnd = NotEnded
  BY DEF Init
<1>2. Orderly(tracker)
  BY <1>1 DEF NewTracker, Orderly, ExecsAbove, OneOpen, RootExec
<1>3. HeardInv
  BY <1>1 DEF NewTracker, HeardInv, Known
<1>4. task[Root].how = NotEnded /\ rootEnd = NotEnded
  <2>1. PICK first \in {Start, Dead("exited")} :
          task = [t \in Tids |-> IF t # Root THEN Unborn
                                 ELSE [Unborn EXCEPT !.state = IF first = Start THEN "stop" ELSE "zombie",
                                                     !.event = first, !.leader = Root]]
    BY DEF Init
  <2> QED  BY <1>1, <2>1, RootAssumption DEF Unborn
<1> QED  BY <1>1, <1>2, <1>3, <1>4 DEF ReportInv, RootEndInv, FailInv

\* A step keeps what the report unwraps.
LEMMA ReportStep ==
    TrackInv /\ TrackInv' /\ (Stable => ReportInv) /\ [Next]_vars => (Stable' => ReportInv')
<1> SUFFICES ASSUME TypeInv, TypeInv', StableInv, ReportInv, [Next]_vars, Stable'
             PROVE  ReportInv'
  BY StableBefore DEF TrackInv
<1>1. CASE LookAtClock \/ NoChildren \/ Report \/ Terminate \/ Elapse \/ UNCHANGED vars
  BY <1>1, IdleReports
<1>2. ASSUME NEW t \in Tids, Wait(t)
      PROVE  ReportInv'
  BY <1>2, WaitReports
<1>3. CASE RecordExec
  BY <1>3, RecordReports
<1>4. ASSUME NEW t \in Tids,
             \/ \E c \in Tids, isFork \in BOOLEAN : Spawn(t, c, isFork)
             \/ DoExec(t) \/ ThreadExec(t) \/ \E how \in Ends : Exit(t, how)
             \/ \E known \in BOOLEAN : SignalStop(t, known)
             \/ \E withEvent \in BOOLEAN : Kill(t, withEvent) \/ Zap(t, withEvent)
      PROVE  ReportInv'
  BY <1>4, ProcessReports
<1> QED  BY <1>1, <1>2, <1>3, <1>4 DEF Next, Tracer

\* With the inductive invariant of the tracker it is invariant.
LEMMA ReportInvariant == Spec => [](Stable => ReportInv)
<1>1. Init => (Stable => ReportInv)
  BY InitReports
<1> QED  BY <1>1, ReportStep, TrackInvariant, PTL DEF Spec

\* As long as every thread id has stood for one thread, update_parent finds its way
\* up to a span without parent.  The report of a command that started fails only when
\* something is left: after the deadline, or after a wait that failed; and unless the
\* wait failed it says how the command ended, or that it has not.
THEOREM PrintsReport == Spec => []ReportPrints
<1>1. TrackInv /\ (Stable => ReportInv) => ReportPrints
  <2> SUFFICES ASSUME Stable, TypeInv, StableInv, ReportInv
               PROVE  /\ loop # "assert"
                      /\ loop = "panic" => \/ tracker.root = 0
                                           \/ deadline = "passed" /\ ~Over
                                           \/ WaitFailed
                      /\ loop = "printed" /\ ~WaitFailed => rootEnd = task[Root].how
    BY DEF TrackInv, ReportPrints, Over
  <2>1. FailInv /\ RootEndInv
    BY DEF ReportInv
  <2> QED  BY <2>1 DEF FailInv, RootEndInv
<1> QED  BY <1>1, TrackInvariant, ReportInvariant, PTL
-----------------------------------------------------------------------------
(* Which commands the report shows, and below which. *)

\* Span s was executed by a thread whose spawns had been seen.
BoundExec(s) == \E e \in execs : e.span = s /\ e.bound

\* A thread whose spawns have been seen stands in the tree.
PlaceInv == tracker.root # 0 => \A u \in bound : Known(u) /\ tracker.threads[u] \in Reached(tracker)

\* So does what it executed, below the command that it was.
ShownInv ==
    \A e \in execs :
        /\ e.span \in DOMAIN tracker.spans /\ e.above \in {0} \cup DOMAIN tracker.spans
        /\ e.bound => e.span \in Reached(tracker) /\ tracker.spans[e.span].init = "exec"
        /\ e.bound /\ BoundExec(e.above) => CommandAbove(tracker, e.span) = e.above

\* The command that a thread is, and the one its span belongs to.
CmdInv ==
    \A u \in Tids :
        /\ task[u].cmd \in {0} \cup DOMAIN tracker.spans
        /\ tracker.root # 0 /\ u \in bound /\ BoundExec(task[u].cmd) =>
              Command(tracker, tracker.threads[u]) = task[u].cmd

\* Until the spawn of a thread is seen its spawner stays what it was, and what the
\* thread has executed by then was executed too early.
ForkInv ==
    \A p, c \in Tids : task[p].event = Spawned(c) =>
        /\ c \notin bound
        /\ BoundExec(task[c].cmd) => task[c].cmd = task[p].cmd

\* While the exec of a thread is handled, the thread makes no other.
HandInv == \A t \in Tids : Handled(t) => task[t].event.kind # "spawn"

\* Before the command starts, or if it never does, it is all there is.
EarlyInv ==
    tracker.root = 0 =>
        /\ loop # "handle" /\ bound \subseteq {Root}
        /\ \A t \in Tids \ {Root} : task[t].state = "unborn"
        /\ task[Root].event.kind \in {"start", "exit", "dead"} \/ task[Root].state = "gone"
        /\ task[Root].event.kind = "start" => tracker.spans = <<>>

AboveInv == PlaceInv /\ ShownInv /\ CmdInv /\ ForkInv /\ HandInv /\ EarlyInv

\* What is reached is a tree.
LEMMA TreeNow == ASSUME TypeInv, StableInv PROVE \E K : TreeIn(tracker, K)
<1>1. IsTracker(tracker) /\ Chained(tracker) /\ ~SpawnSeen(tracker, Root)
  BY RootAssumption DEF TypeInv, StableInv, LinkInv
<1>2. tracker.root # 0 => tracker.root = 1 /\ tracker.spans[1].tid = Root
  BY DEF StableInv, RootInv
<1> QED  BY <1>1, <1>2, ChainedTree

\* It is after a step.
LEMMA TreeNext == ASSUME TypeInv', StableInv' PROVE \E K : TreeIn(tracker', K)
<1>1. IsTracker(tracker') /\ Chained(tracker') /\ ~SpawnSeen(tracker', Root)
  BY RootAssumption DEF TypeInv, StableInv, LinkInv
<1>2. tracker'.root # 0 => tracker'.root = 1 /\ tracker'.spans[1].tid = Root
  BY DEF StableInv, RootInv
<1> QED  BY <1>1, <1>2, ChainedTree

\* If the spans that were reached are where they were, so is what is known of them.
LEMMA Carried ==
    ASSUME TypeInv, TypeInv', StableInv, StableInv', PlaceInv, ShownInv, CmdInv,
           Continued(tracker, tracker'), DOMAIN tracker.spans \subseteq DOMAIN tracker'.spans,
           \A x \in {0} \cup DOMAIN tracker.spans : BoundExec(x)' => BoundExec(x)
    PROVE  /\ \A x \in Reached(tracker) :
                 x \in Reached(tracker') /\ Command(tracker', x) = Command(tracker, x)
           /\ \A e \in execs :
                 /\ e.span \in DOMAIN tracker'.spans
                 /\ e.above \in {0} \cup DOMAIN tracker'.spans
                 /\ e.bound => /\ e.span \in Reached(tracker')
                               /\ tracker'.spans[e.span].init = "exec"
                 /\ e.bound /\ BoundExec(e.above)' => CommandAbove(tracker', e.span) = e.above
           /\ \A u \in Tids : task[u].cmd \in {0} \cup DOMAIN tracker'.spans
           /\ \A u \in bound \cap Tids : tracker.root # 0 =>
                 /\ tracker.threads[u] \in Reached(tracker')
                 /\ \A k : k = task[u].cmd /\ BoundExec(k)' =>
                       Command(tracker', tracker.threads[u]) = k
<1>1. \A x \in Reached(tracker) :
         /\ x \in Reached(tracker')
         /\ CommandAbove(tracker', x) = CommandAbove(tracker, x)
         /\ Command(tracker', x) = Command(tracker, x)
  <2>1. IsTracker(tracker) /\ IsTracker(tracker')
    BY DEF TypeInv
  <2>2. PICK K : TreeIn(tracker, K)
    BY TreeNow
  <2>3. PICK L : TreeIn(tracker', L)
    BY TreeNext
  <2> QED  BY <2>1, <2>2, <2>3, AboveSame
<1>2. \A x \in Reached(tracker) : tracker'.spans[x].init = "exec" <=> tracker.spans[x].init = "exec"
  BY DEF Continued
<1>3. ASSUME NEW e \in execs
      PROVE  /\ e.span \in DOMAIN tracker'.spans
             /\ e.above \in {0} \cup DOMAIN tracker'.spans
             /\ e.bound => /\ e.span \in Reached(tracker')
                           /\ tracker'.spans[e.span].init = "exec"
             /\ e.bound /\ BoundExec(e.above)' => CommandAbove(tracker', e.span) = e.above
  BY <1>1, <1>2 DEF ShownInv
<1>4. \A u \in Tids : task[u].cmd \in {0} \cup DOMAIN tracker'.spans
  BY DEF CmdInv
<1>5. ASSUME NEW u \in bound \cap Tids, tracker.root # 0
      PROVE  /\ tracker.threads[u] \in Reached(tracker')
             /\ \A k : k = task[u].cmd /\ BoundExec(k)' =>
                   Command(tracker', tracker.threads[u]) = k
  BY <1>1, <1>5 DEF PlaceInv, CmdInv
<1> QED  BY <1>1, <1>3, <1>4, <1>5

\* The commands of threads are not touched by most steps.
LEMMA CmdsStay ==
    ASSUME TaskInv, NEW t \in Tids
    PROVE  /\ \A event : Halt(t, event) => \A u \in Tids : task'[u].cmd = task[u].cmd
           /\ \A known : SignalStop(t, known) => \A u \in Tids : task'[u].cmd = task[u].cmd
           /\ Resume(t) => \A u \in Tids : task'[u].cmd = task[u].cmd
           /\ SeeExit(t) \/ SeeDead(t) => \A u \in Tids : task'[u].cmd = task[u].cmd
           /\ \A ts, how : \A withEvent \in BOOLEAN :
                 TakeAway(ts, how, withEvent) => \A u \in Tids : task'[u].cmd = task[u].cmd
           /\ \A c \in Tids, isFork \in BOOLEAN : Spawn(t, c, isFork) =>
                 /\ task'[c].cmd = task[t].cmd
                 /\ \A u \in Tids : u # c => task'[u].cmd = task[u].cmd
<1>1. task \in [Tids -> TaskType] /\ \A u \in Tids : task[u] \in TaskType
  BY TaskFields
<1>2. ASSUME NEW event, Halt(t, event)
      PROVE  \A u \in Tids : task'[u].cmd = task[u].cmd
  BY <1>1, <1>2 DEF Halt, TaskType
<1>7. ASSUME NEW known, SignalStop(t, known)
      PROVE  \A u \in Tids : task'[u].cmd = task[u].cmd
  BY <1>1, <1>7 DEF SignalStop, TaskType
<1>3. ASSUME Resume(t)
      PROVE  \A u \in Tids : task'[u].cmd = task[u].cmd
  BY <1>1, <1>3 DEF Resume, TaskType
<1>4. ASSUME SeeExit(t) \/ SeeDead(t)
      PROVE  \A u \in Tids : task'[u].cmd = task[u].cmd
  BY <1>1, <1>4 DEF SeeExit, SeeDead, TaskType
<1>5. ASSUME NEW ts, NEW how, NEW withEvent \in BOOLEAN, TakeAway(ts, how, withEvent),
             NEW u \in Tids
      PROVE  task'[u].cmd = task[u].cmd
  BY <1>1, <1>5 DEF TakeAway, TaskType
<1>6. ASSUME NEW c \in Tids, NEW isFork \in BOOLEAN, Spawn(t, c, isFork)
      PROVE  /\ task'[c].cmd = task[t].cmd
             /\ \A u \in Tids : u # c => task'[u].cmd = task[u].cmd
  <2>1. c # t
    BY <1>6, SpawnTaskFacts
  <2> QED  BY <1>1, <1>6, <2>1 DEF Spawn, TaskType, Unborn
<1> QED  BY <1>2, <1>3, <1>4, <1>5, <1>6, <1>7

\* Nothing is recorded, and nobody new is waited for.
LEMMA QuietShown ==
    ASSUME AboveInv, UNCHANGED <<tracker, execs, bound>>,
           \A u \in Tids : task'[u].cmd = task[u].cmd,
           \A p, c \in Tids : task'[p].event = Spawned(c) => task[p].event = Spawned(c),
           HandInv', EarlyInv'
    PROVE  AboveInv'
<1>1. PlaceInv'
  BY DEF AboveInv, PlaceInv, Known
<1>2. ShownInv'
  BY DEF AboveInv, ShownInv, BoundExec
<1>3. CmdInv'
  BY DEF AboveInv, CmdInv, BoundExec
<1>4. ForkInv'
  BY DEF AboveInv, ForkInv, BoundExec
<1> QED  BY <1>1, <1>2, <1>3, <1>4 DEF AboveInv

\* Who runs, or makes another, is the command, or was made by it.
LEMMA RunsAfterStart ==
    ASSUME TypeInv, AboveInv, NEW t \in Tids,
           task[t].state = "run" \/ task[t].event.kind \in {"spawn", "exec", "signal"}
    PROVE  tracker.root # 0
<1>1. task[t].state # "unborn" /\ task[t].state # "gone"
  BY TaskFields DEF TypeInv
<1>2. task[t].event.kind \notin {"start", "exit", "dead"}
  BY TaskFields DEF TypeInv
<1> QED  BY <1>1, <1>2 DEF AboveInv, EarlyInv

\* A thread stops for an exec, its exit or a signal.
LEMMA HaltShown ==
    ASSUME TypeInv, AboveInv, NEW t \in Tids, NEW event \in AnyEvent, task[t].state = "run",
           Halt(t, event) \/ \E known \in BOOLEAN : SignalStop(t, known) /\ event = Signal(known),
           event.kind \in {"exec", "exit", "signal"},
           UNCHANGED <<tracker, loop, seen, bound, execs>>
    PROVE  AboveInv'
<1>1. TaskInv
  BY DEF TypeInv
<1>2. /\ \A u \in Tids : task'[u].cmd = task[u].cmd
      /\ \A u \in Tids : u # t => task'[u] = task[u]
      /\ task'[t].event = event
  <2>0. task \in [Tids -> TaskType]
    BY <1>1, TaskFields
  <2>1. CASE Halt(t, event)
    BY <1>1, <2>0, <2>1, CmdsStay, HaltFacts
  <2>2. CASE \E known \in BOOLEAN : SignalStop(t, known) /\ event = Signal(known)
    BY <1>1, <2>0, <2>2, CmdsStay, SignalFacts
  <2> QED  BY <2>1, <2>2
<1>3. \A p, c \in Tids : task'[p].event = Spawned(c) => task[p].event = Spawned(c)
  BY <1>2, EventKinds
<1>4. tracker.root # 0
  BY RunsAfterStart
<1>5. HandInv'
  BY <1>2 DEF AboveInv, HandInv, Handled
<1>6. EarlyInv'
  BY <1>4 DEF EarlyInv
<1> QED  BY <1>2, <1>3, <1>5, <1>6, QuietShown

\* Threads are taken away.
LEMMA TakeAwayShown ==
    ASSUME TypeInv, AboveInv, NEW ts \in SUBSET Tids, NEW how \in Ends,
           NEW withEvent \in BOOLEAN, TakeAway(ts, how, withEvent),
           \A u \in ts : Alive(u),
           UNCHANGED <<tracker, loop, seen, bound, execs>>
    PROVE  AboveInv'
<1>1. TaskInv
  BY DEF TypeInv
<1>2. \A u \in Tids : task'[u].cmd = task[u].cmd
  BY <1>1, RootAssumption, CmdsStay
<1>3. /\ \A u \in Tids \ ts : task'[u] = task[u]
      /\ \A u \in ts : task'[u].event.kind \in {"exit", "dead"}
  <2>1. \A u \in Tids \ ts : task'[u] = task[u]
    BY <1>1, TakeAwayFacts
  <2>2. \A u \in ts : \/ task'[u].event = Dead(task[u].event.how)
                      \/ task'[u].event = Exiting(how)
                      \/ task'[u].event = Dead(how)
    BY <1>1, TakeAwayFacts
  <2> QED  BY <2>1, <2>2, EventKinds
<1>4. \A p, c \in Tids : task'[p].event = Spawned(c) => task[p].event = Spawned(c)
  BY <1>3, EventKinds
<1>5. HandInv'
  BY <1>3 DEF AboveInv, HandInv, Handled
<1>6. EarlyInv'
  <2> SUFFICES ASSUME tracker.root = 0
               PROVE  EarlyInv'
    BY DEF EarlyInv
  <2>1. /\ loop # "handle" /\ bound \subseteq {Root}
        /\ \A t \in Tids \ {Root} : task[t].state = "unborn"
        /\ task[Root].event.kind \in {"start", "exit", "dead"} \/ task[Root].state = "gone"
        /\ task[Root].event.kind = "start" => tracker.spans = <<>>
    BY DEF AboveInv, EarlyInv
  <2>2. \A t \in Tids \ {Root} : task'[t].state = "unborn"
    BY <1>3, <2>1 DEF Alive
  <2>3. /\ task'[Root].event.kind \in {"start", "exit", "dead"} \/ task'[Root].state = "gone"
        /\ task'[Root].event.kind = "start" => tracker.spans = <<>>
    BY <1>3, <2>1, RootAssumption
  <2> QED  BY <2>1, <2>2, <2>3 DEF EarlyInv
<1> QED  BY <1>2, <1>4, <1>5, <1>6, QuietShown

\* A thread makes another: it is waited for, and is the same command.
LEMMA ForkShown ==
    ASSUME TypeInv, StableInv, AboveInv, NEW t \in Tids, NEW c \in Tids,
           NEW isFork \in BOOLEAN, Spawn(t, c, isFork), task[c].state = "unborn"
    PROVE  AboveInv'
<1>1. TaskInv
  BY DEF TypeInv
<1>2. /\ UNCHANGED <<tracker, loop, seen, execs>> /\ bound' = bound \ {c}
      /\ task[t].state = "run" /\ loop = "wait"
  BY DEF Spawn, loopVars, Waiting
<1>3. /\ c # t /\ task'[t].event = Spawned(c) /\ task'[c].event = Start
      /\ \A u \in Tids : u # t /\ u # c => task'[u] = task[u]
      /\ task'[c].cmd = task[t].cmd
      /\ \A u \in Tids : u # c => task'[u].cmd = task[u].cmd
  BY <1>1, SpawnTaskFacts, CmdsStay
<1>4. tracker.root # 0
  BY <1>2, RunsAfterStart
<1>5. \A x : BoundExec(x)' <=> BoundExec(x)
  BY <1>2 DEF BoundExec
<1>6. PlaceInv'
  BY <1>2 DEF AboveInv, PlaceInv, Known
<1>7. ShownInv'
  BY <1>2 DEF AboveInv, ShownInv, BoundExec
<1>8. CmdInv'
  BY <1>2, <1>3 DEF AboveInv, CmdInv, BoundExec
<1>9. ForkInv'
  <2> SUFFICES ASSUME NEW p \in Tids, NEW d \in Tids, task'[p].event = Spawned(d)
               PROVE  /\ d \notin bound'
                      /\ BoundExec(task[d].cmd)' => task'[d].cmd = task'[p].cmd
    BY DEF ForkInv
  <2>1. CASE p = t
    <3>1. d = c
      BY <1>3, <2>1, EventKinds
    <3> QED  BY <1>2, <1>3, <2>1, <3>1
  <2>2. CASE p # t
    <3>1. p # c /\ task[p].event = Spawned(d)
      BY <1>3, <2>2, EventKinds
    <3>2. d # c
      BY <3>1 DEF StableInv, SpawnInv
    <3>3. /\ d \notin bound /\ (BoundExec(task[d].cmd) => task[d].cmd = task[p].cmd)
          /\ task'[d].cmd = task[d].cmd /\ task'[p].cmd = task[p].cmd
      BY <1>3, <3>1, <3>2 DEF AboveInv, ForkInv
    <3> QED  BY <1>2, <3>3 DEF BoundExec
  <2> QED  BY <2>1, <2>2
<1>10. HandInv' /\ EarlyInv'
  BY <1>2, <1>4 DEF HandInv, Handled, EarlyInv
<1> QED  BY <1>6, <1>7, <1>8, <1>9, <1>10 DEF AboveInv

\* All that the traced processes do.
LEMMA ProcessShown ==
    ASSUME TypeInv, TypeInv', StableInv, AboveInv, Stable', NEW t \in Tids,
           \/ \E c \in Tids, isFork \in BOOLEAN : Spawn(t, c, isFork)
           \/ DoExec(t) \/ ThreadExec(t) \/ \E how \in Ends : Exit(t, how)
           \/ \E known \in BOOLEAN : SignalStop(t, known)
           \/ \E withEvent \in BOOLEAN : Kill(t, withEvent) \/ Zap(t, withEvent)
    PROVE  AboveInv'
<1>1. ASSUME NEW c \in Tids, NEW isFork \in BOOLEAN, Spawn(t, c, isFork)
      PROVE  AboveInv'
  <2>1. task[c].state = "unborn"
    BY <1>1 DEF Spawn, Fault, Stable
  <2> QED  BY <1>1, <2>1, ForkShown
<1>2. CASE DoExec(t)
  <2>1. /\ task[t].state = "run" /\ Halt(t, Exec(t))
        /\ UNCHANGED <<tracker, loop, seen, bound, execs>>
    BY <1>2 DEF DoExec, loopVars, history
  <2>2. Exec(t) \in AnyEvent /\ Exec(t).kind = "exec"
    BY Events, EventKinds
  <2> QED  BY <2>1, <2>2, HaltShown
<1>3. ~ThreadExec(t)
  BY ProcessesKeep
<1>4. ASSUME NEW how \in Ends, Exit(t, how)
      PROVE  AboveInv'
  <2>1. /\ task[t].state = "run" /\ Halt(t, Exiting(how))
        /\ UNCHANGED <<tracker, loop, seen, bound, execs>>
    BY <1>4 DEF Exit, loopVars, history
  <2>2. Exiting(how) \in AnyEvent /\ Exiting(how).kind = "exit"
    BY Events, EventKinds
  <2> QED  BY <2>1, <2>2, HaltShown
<1>5. ASSUME NEW withEvent \in BOOLEAN, Kill(t, withEvent)
      PROVE  AboveInv'
  <2> DEFINE hit == {u \in Siblings(t) \cup {t} : Alive(u)}
  <2>1. /\ TakeAway(hit, "killed", withEvent) /\ hit \in SUBSET Tids
        /\ \A u \in hit : Alive(u)
        /\ UNCHANGED <<tracker, loop, seen, bound, execs>>
    BY <1>5 DEF Kill, loopVars, Siblings
  <2>2. "killed" \in Ends
    BY DEF Ends
  <2> HIDE DEF hit
  <2> QED  BY <2>1, <2>2, TakeAwayShown
<1>6. ASSUME NEW withEvent \in BOOLEAN, Zap(t, withEvent)
      PROVE  AboveInv'
  <2>1. /\ TakeAway({t}, "exited", withEvent) /\ {t} \in SUBSET Tids
        /\ \A u \in {t} : Alive(u)
        /\ UNCHANGED <<tracker, loop, seen, bound, execs>>
    BY <1>6 DEF Zap, loopVars
  <2>2. "exited" \in Ends
    BY DEF Ends
  <2> QED  BY <2>1, <2>2, TakeAwayShown
<1>7. ASSUME NEW known \in BOOLEAN, SignalStop(t, known)
      PROVE  AboveInv'
  <2>1. task[t].state = "run" /\ UNCHANGED <<tracker, loop, seen, bound, execs>>
    BY <1>7 DEF SignalStop, loopVars
  <2>2. Signal(known) \in AnyEvent /\ Signal(known).kind = "signal"
    BY Events DEF Signal
  <2> QED  BY <1>7, <2>1, <2>2, HaltShown
<1> QED  BY <1>1, <1>2, <1>3, <1>4, <1>5, <1>6, <1>7

\* No event is taken.
LEMMA IdleShown ==
    ASSUME AboveInv, LookAtClock \/ NoChildren \/ Report \/ Terminate \/ Elapse \/ UNCHANGED vars
    PROVE  AboveInv'
<1>1. /\ UNCHANGED <<task, tracker, seen, bound, execs>>
      /\ loop' = "handle" => loop = "handle"
  BY DEF LookAtClock, NoChildren, Report, Terminate, Elapse, vars, loopVars, history
<1>2. HandInv' /\ EarlyInv'
  BY <1>1 DEF AboveInv, HandInv, Handled, EarlyInv
<1> QED  BY <1>1, <1>2, QuietShown

\* The command starts, or a thread.
LEMMA StartShown ==
    ASSUME TypeInv, TypeInv', StableInv, AboveInv, NEW t \in Tids, Wait(t), SeeStart(t)
    PROVE  AboveInv'
<1>1. /\ TaskInv /\ IsTracker(tracker) /\ loop' = "top" /\ bound' = bound
      /\ task[t].event = Start /\ task[t].event.kind = "start"
  BY EventKinds DEF TypeInv, SeeStart
<1>2. CASE \A u \in Tids : tracker.threads[u] = 0
  <2> DEFINE q == tracker'
             r == q.root
  <2>1. /\ q = HandleFirstExec(tracker, t)
        /\ task' = [task EXCEPT ![t].state = "run", ![t].event = NoEvent, ![t].cmd = r]
        /\ execs' = execs \cup {[span |-> r, above |-> 0, bound |-> TRUE]}
    BY <1>2 DEF SeeStart
  <2> HIDE DEF q
  <2>2. /\ IsTracker(q) /\ r = q.threads[t] /\ r \in DOMAIN q.spans
        /\ SpanOf(q, t).init = "exec"
    BY <1>1, <2>1, FirstExecResult
  <2>3. r \in Nat /\ r # 0
    BY <2>2, SpanNumbers
  <2>4. tracker.spans = <<>> /\ tracker.root = 0
    BY <1>2, NoSpans DEF StableInv, RootInv
  <2>5. /\ bound \subseteq {Root} /\ \A u \in Tids \ {Root} : task[u].state = "unborn"
    BY <2>4 DEF AboveInv, EarlyInv
  <2>6. t = Root /\ \A u \in Tids \ {Root} : task[u].event.kind = "none"
    BY <1>1, <2>5, TaskFields
  <2>7. execs = {} /\ \A u \in Tids : task[u].cmd = 0
    BY <2>4 DEF AboveInv, ShownInv, CmdInv
  <2>8. /\ \A u \in Tids : u # t => task'[u] = task[u]
        /\ task'[t].event = NoEvent
    BY <1>1, <2>1, <2>3, FirstExecTaskFacts
  <2>9. task'[t].cmd = r
    <3>1. task[t] \in TaskType /\ task \in [Tids -> TaskType]
      BY <1>1, TaskFields
    <3> HIDE DEF r
    <3> QED  BY <2>1, <3>1 DEF TaskType
  <2>10. r \in Reached(q) /\ CommandAbove(q, r) = 0
    BY <2>2, <2>3, ReachedClosed, AboveRoot
  <2>11. Command(q, r) = r /\ q.spans[r].init = "exec"
    BY <2>2 DEF Command, SpanOf
  <2>12. execs' = {[span |-> r, above |-> 0, bound |-> TRUE]}
    BY <2>1, <2>7
  <2>13. \A e \in execs' : e.span = r /\ e.above = 0 /\ e.bound
    BY <2>12
  <2> HIDE DEF r
  <2>14. PlaceInv'
    BY <1>1, <2>2, <2>3, <2>5, <2>6, <2>10 DEF PlaceInv, Known, q
  <2>15. ShownInv'
    BY <2>2, <2>10, <2>11, <2>13 DEF ShownInv, q
  <2>16. CmdInv'
    <3> SUFFICES ASSUME NEW u \in Tids
                 PROVE  /\ task'[u].cmd \in {0} \cup DOMAIN q.spans
                        /\ u \in bound => Command(q, q.threads[u]) = task'[u].cmd
      BY <1>1 DEF CmdInv, q
    <3> QED  BY <2>2, <2>5, <2>6, <2>7, <2>8, <2>9, <2>11
  <2>17. ForkInv'
    BY <2>6, <2>8, EventKinds DEF ForkInv
  <2>18. HandInv' /\ EarlyInv'
    BY <1>1, <2>3 DEF HandInv, Handled, EarlyInv, q, r
  <2> QED  BY <2>14, <2>15, <2>16, <2>17, <2>18 DEF AboveInv
<1>3. CASE ~(\A u \in Tids : tracker.threads[u] = 0)
  <2>1. Resume(t) /\ UNCHANGED <<tracker, execs>>
    BY <1>3 DEF SeeStart
  <2>2. /\ \A u \in Tids : task'[u].cmd = task[u].cmd
        /\ \A u \in Tids : u # t => task'[u] = task[u]
        /\ task'[t].event = NoEvent
    BY <1>1, <2>1, CmdsStay, ResumeFacts, TaskFields
  <2>3. \A p, c \in Tids : task'[p].event = Spawned(c) => task[p].event = Spawned(c)
    BY <2>2, EventKinds
  <2>4. tracker.root # 0
    <3>1. tracker.spans # <<>>
      BY <1>3, NoSpans
    <3>2. task[t].state # "unborn"
      BY <1>1, TaskFields
    <3> QED  BY <1>1, <3>1, <3>2 DEF AboveInv, EarlyInv
  <2>5. HandInv' /\ EarlyInv'
    BY <1>1, <2>1, <2>4 DEF HandInv, Handled, EarlyInv
  <2> QED  BY <1>1, <2>1, <2>2, <2>3, <2>5, QuietShown
<1> QED  BY <1>2, <1>3

\* The event of a spawn: the thread is the command its spawner is.
LEMMA SpawnShown ==
    ASSUME TypeInv, TypeInv', StableInv, StableInv', AboveInv, NEW t \in Tids, Wait(t),
           SeeSpawn(t), loop' # "assert"
    PROVE  AboveInv'
<1> DEFINE c == task[t].event.child
           q == tracker'
<1>1. /\ TaskInv /\ IsTracker(tracker) /\ Chained(tracker) /\ IsTracker(q)
      /\ task[t].event.kind = "spawn"
  BY DEF TypeInv, StableInv, LinkInv, SeeSpawn
<1>2. c \in Tids /\ task[t].event = Spawned(c)
  BY <1>1, Events, TaskFields
<1>3. /\ q = HandleSpawn(tracker, c, t, Leads(c)) /\ Leads(c) \in BOOLEAN
      /\ loop' = "top" /\ Resume(t) /\ execs' = execs
      /\ bound' = IF t \in bound THEN bound \cup {c} ELSE bound
  BY DEF SeeSpawn, Leads
<1> HIDE DEF c, q
<1>4. /\ c # Root /\ c # t /\ ~SpawnSeen(tracker, c)
      /\ \A p \in Tids : task[p].event = Spawned(c) => p = t
  <2>1. Awaited(c)
    BY <1>2 DEF Awaited
  <2> QED  BY <1>2, <2>1 DEF StableInv, SpawnInv, LinkInv
<1>5. tracker.root # 0 /\ tracker.spans[tracker.root].tid # c
  BY <1>1, <1>4, RunsAfterStart DEF StableInv, RootInv
<1>6. /\ Continued(tracker, q) /\ DOMAIN tracker.spans \subseteq DOMAIN q.spans
      /\ \A u \in Tids : tracker.threads[u] # 0 => q.threads[u] = tracker.threads[u]
      /\ q.threads[c] \in Children(q, q.threads[t]) /\ q.threads[c] # 0
      /\ q.spans[q.threads[c]].init # "exec"
  BY <1>1, <1>2, <1>3, <1>4, <1>5, SpawnContinued
<1>7. \A x : BoundExec(x)' <=> BoundExec(x)
  BY <1>3 DEF BoundExec
<1>8. /\ \A x \in Reached(tracker) : x \in Reached(q) /\ Command(q, x) = Command(tracker, x)
      /\ \A e \in execs :
            /\ e.span \in DOMAIN q.spans /\ e.above \in {0} \cup DOMAIN q.spans
            /\ e.bound => e.span \in Reached(q) /\ q.spans[e.span].init = "exec"
            /\ e.bound /\ BoundExec(e.above)' => CommandAbove(q, e.span) = e.above
      /\ \A u \in Tids : task[u].cmd \in {0} \cup DOMAIN q.spans
      /\ \A u \in bound \cap Tids :
            /\ tracker.threads[u] \in Reached(q)
            /\ \A k : k = task[u].cmd /\ BoundExec(k)' =>
                  Command(q, tracker.threads[u]) = k
  BY <1>5, <1>6, <1>7, Carried DEF AboveInv, q
<1>9. /\ \A u \in Tids : task'[u].cmd = task[u].cmd
      /\ \A u \in Tids : u # t => task'[u] = task[u]
      /\ task'[t].event = NoEvent
  BY <1>1, <1>3, CmdsStay, ResumeFacts, TaskFields
<1>10. \A u \in bound : u \in Tids /\ tracker.threads[u] # 0 /\ q.threads[u] = tracker.threads[u]
  BY <1>5, <1>6 DEF AboveInv, PlaceInv, Known, TypeInv, LoopInv
<1>11. ASSUME t \in bound
       PROVE  /\ q.threads[c] \in Reached(q)
              /\ Command(q, q.threads[c]) = Command(q, q.threads[t])
  <2>1. q.threads[t] \in Reached(q)
    BY <1>8, <1>10, <1>11
  <2>2. PICK K : TreeIn(q, K)
    BY TreeNext DEF q
  <2>3. q.threads[c] \in Reached(q)
    BY <1>1, <1>6, <2>1, ReachedClosed
  <2>4. CommandAbove(q, q.threads[c]) = Command(q, q.threads[t])
    BY <1>1, <1>6, <2>1, <2>2, AboveIs
  <2> QED  BY <1>6, <2>3, <2>4 DEF Command
<1>12. PlaceInv'
  <2> SUFFICES ASSUME NEW u \in bound'
               PROVE  q.threads[u] # 0 /\ q.threads[u] \in Reached(q)
    BY DEF PlaceInv, Known, q
  <2>1. CASE u \in bound
    BY <1>8, <1>10, <2>1
  <2>2. CASE u \notin bound
    BY <1>3, <1>6, <1>11, <2>2
  <2> QED  BY <2>1, <2>2
<1>13. ShownInv'
  BY <1>3, <1>8 DEF ShownInv, q
<1>14. CmdInv'
  <2> SUFFICES ASSUME NEW u \in Tids, u \in bound', BoundExec(task[u].cmd)'
               PROVE  Command(q, q.threads[u]) = task'[u].cmd
    BY <1>8, <1>9 DEF CmdInv, q
  <2>1. ASSUME NEW v \in bound, NEW k, k = task[v].cmd, BoundExec(k)'
        PROVE  Command(q, q.threads[v]) = k
    BY <1>8, <1>10, <2>1
  <2>2. PICK k : k = task[u].cmd
    OBVIOUS
  <2>3. task'[u].cmd = k
    BY <1>9, <2>2
  <2>4. BoundExec(k)'
    BY <2>3 DEF BoundExec
  <2>5. CASE u \in bound
    BY <2>1, <2>2, <2>3, <2>4, <2>5
  <2>6. CASE u \notin bound
    <3>1. u = c /\ t \in bound
      BY <1>3, <2>6
    <3>2. k = task[t].cmd
      BY <1>2, <1>7, <2>2, <2>4, <3>1 DEF AboveInv, ForkInv
    <3>3. Command(q, q.threads[t]) = k
      BY <2>1, <2>4, <3>1, <3>2
    <3> QED  BY <1>11, <2>3, <3>1, <3>3
  <2> QED  BY <2>5, <2>6
<1>15. ForkInv'
  <2> SUFFICES ASSUME NEW p \in Tids, NEW d \in Tids, task'[p].event = Spawned(d)
               PROVE  /\ d \notin bound'
                      /\ BoundExec(task[d].cmd)' => task'[d].cmd = task'[p].cmd
    BY DEF ForkInv
  <2>1. p # t /\ task[p].event = Spawned(d)
    BY <1>9, EventKinds
  <2>2. d # c
    BY <1>4, <2>1
  <2>3. d \notin bound /\ (BoundExec(task[d].cmd) => task[d].cmd = task[p].cmd)
    BY <2>1 DEF AboveInv, ForkInv
  <2>4. d \notin bound'
    BY <1>3, <2>2, <2>3
  <2> QED  BY <1>3, <1>9, <2>3, <2>4 DEF BoundExec
<1>16. HandInv' /\ EarlyInv'
  <2>1. q.root # 0
    BY <1>5, <1>6 DEF Continued
  <2> QED  BY <1>3, <2>1 DEF HandInv, Handled, EarlyInv, q
<1> QED  BY <1>12, <1>13, <1>14, <1>15, <1>16 DEF AboveInv

\* The event of an exec: its thread goes on.
LEMMA ExecSeenShown ==
    ASSUME TypeInv, AboveInv, NEW t \in Tids, Wait(t), SeeExec(t)
    PROVE  AboveInv'
<1>1. /\ TaskInv /\ task[t].event.kind = "exec" /\ Resume(t)
      /\ seen' = <<t, task[t].event.prev>> /\ UNCHANGED <<tracker, execs, bound>>
  BY DEF TypeInv, SeeExec
<1>2. /\ \A u \in Tids : task'[u].cmd = task[u].cmd
      /\ \A u \in Tids : u # t => task'[u] = task[u]
      /\ task'[t].event = NoEvent
  BY <1>1, CmdsStay, ResumeFacts, TaskFields
<1>3. \A p, c \in Tids : task'[p].event = Spawned(c) => task[p].event = Spawned(c)
  BY <1>2, EventKinds
<1>4. tracker.root # 0
  BY <1>1, RunsAfterStart
<1>5. HandInv' /\ EarlyInv'
  BY <1>1, <1>2, <1>4, EventKinds DEF HandInv, Handled, EarlyInv
<1> QED  BY <1>1, <1>2, <1>3, <1>5, QuietShown

\* A signal: its thread goes on, or the loop is over.
LEMMA SignalShown ==
    ASSUME TypeInv, AboveInv, NEW t \in Tids, Wait(t), SeeSignal(t) \/ SeeUnknown(t)
    PROVE  AboveInv'
<1>1. /\ TaskInv /\ task[t].event.kind = "signal" /\ loop' # "handle"
      /\ UNCHANGED <<tracker, execs, bound>>
  BY DEF TypeInv, SeeSignal, SeeUnknown, Signal
<1>2. /\ \A u \in Tids : task'[u].cmd = task[u].cmd
      /\ \A p, c \in Tids : task'[p].event = Spawned(c) => task[p].event = Spawned(c)
  <2>1. CASE SeeSignal(t)
    <3>1. Resume(t)
      BY <2>1 DEF SeeSignal
    <3>2. /\ \A u \in Tids : task'[u].cmd = task[u].cmd
          /\ \A u \in Tids : u # t => task'[u] = task[u]
          /\ task'[t].event = NoEvent
      BY <1>1, <3>1, CmdsStay, ResumeFacts, TaskFields
    <3> QED  BY <3>2, EventKinds
  <2>2. CASE SeeUnknown(t)
    BY <2>2 DEF SeeUnknown
  <2> QED  BY <2>1, <2>2
<1>3. tracker.root # 0
  BY <1>1, RunsAfterStart
<1>4. HandInv' /\ EarlyInv'
  BY <1>1, <1>3 DEF HandInv, Handled, EarlyInv
<1> QED  BY <1>1, <1>2, <1>4, QuietShown

\* What the end of a thread does to the tracker.
LEMMA EndFinishes ==
    ASSUME TypeInv, NEW t \in Tids, Wait(t), SeeExit(t) \/ SeeDead(t)
    PROVE  \E reason \in Reasons, cpu \in Int : tracker' = FinishThread(tracker, t, reason, cpu)
<1>1. CASE SeeExit(t)
  <2>1. tracker' = FinishThread(tracker, t, "exited", task[t].cpu)
    BY <1>1 DEF SeeExit
  <2>2. "exited" \in Reasons /\ task[t].cpu \in Int
    BY TimeTypes DEF TypeInv, Reasons, Ends
  <2> QED  BY <2>1, <2>2
<1>2. CASE SeeDead(t)
  <2>1. tracker' = FinishThread(tracker, t, task[t].event.how, GroupCpu(t))
    BY <1>2 DEF SeeDead
  <2>2. task[t].event.how \in Reasons /\ GroupCpu(t) \in Int
    BY <1>2, TimeTypes, DeadTaskFacts DEF TypeInv, Reasons
  <2> QED  BY <2>1, <2>2
<1> QED  BY <1>1, <1>2

\* The end of a thread.
LEMMA EndShown ==
    ASSUME TypeInv, TypeInv', StableInv, StableInv', AboveInv, NEW t \in Tids, Wait(t),
           SeeExit(t) \/ SeeDead(t)
    PROVE  AboveInv'
<1> DEFINE q == tracker'
<1>1. /\ TaskInv /\ IsTracker(tracker) /\ loop' = "top" /\ UNCHANGED <<bound, execs>>
      /\ task[t].event.kind \in {"exit", "dead"}
  BY DEF TypeInv, SeeExit, SeeDead
<1>2. PICK reason \in Reasons, cpu \in Int : q = FinishThread(tracker, t, reason, cpu)
  BY EndFinishes
<1> HIDE DEF q
<1>3. /\ Continued(tracker, q) /\ DOMAIN tracker.spans \subseteq DOMAIN q.spans
      /\ q.root = tracker.root
      /\ \A u \in Tids : tracker.threads[u] # 0 => q.threads[u] = tracker.threads[u]
  <2>1. Continued(tracker, q) /\ DOMAIN tracker.spans \subseteq DOMAIN q.spans
    BY <1>1, <1>2, FinishContinued
  <2>2. /\ q.root = tracker.root
        /\ \A u \in Tids : u # t => q.threads[u] = tracker.threads[u]
        /\ tracker.threads[t] # 0 => q.threads[t] = tracker.threads[t]
    BY <1>1, <1>2, FinishResult
  <2> QED  BY <2>1, <2>2
<1>4. \A x : BoundExec(x)' <=> BoundExec(x)
  BY <1>1 DEF BoundExec
<1>5. /\ \A e \in execs :
            /\ e.span \in DOMAIN q.spans /\ e.above \in {0} \cup DOMAIN q.spans
            /\ e.bound => e.span \in Reached(q) /\ q.spans[e.span].init = "exec"
            /\ e.bound /\ BoundExec(e.above)' => CommandAbove(q, e.span) = e.above
      /\ \A u \in Tids : task[u].cmd \in {0} \cup DOMAIN q.spans
      /\ \A u \in bound \cap Tids : tracker.root # 0 =>
            /\ tracker.threads[u] \in Reached(q)
            /\ \A k : k = task[u].cmd /\ BoundExec(k)' =>
                  Command(q, tracker.threads[u]) = k
  BY <1>3, <1>4, Carried DEF AboveInv, q
<1>6. /\ \A u \in Tids : task'[u].cmd = task[u].cmd
      /\ \A u \in Tids : u # t => task'[u] = task[u]
      /\ task'[t].event.kind \in {"none", "dead"}
      /\ task'[t].event.kind = "dead" \/ task'[t].state = "gone"
  BY <1>1, CmdsStay, ExitTaskFacts, DeadTaskFacts, EventKinds
<1>7. ASSUME NEW u \in bound, tracker.root # 0
      PROVE  u \in Tids /\ tracker.threads[u] # 0 /\ q.threads[u] = tracker.threads[u]
  BY <1>3, <1>7 DEF AboveInv, PlaceInv, Known, TypeInv, LoopInv
<1>8. PlaceInv'
  <2> SUFFICES ASSUME NEW u \in bound, tracker.root # 0
               PROVE  q.threads[u] # 0 /\ q.threads[u] \in Reached(q)
    BY <1>1, <1>3 DEF PlaceInv, Known, q
  <2> QED  BY <1>5, <1>7
<1>9. ShownInv'
  BY <1>1, <1>5 DEF ShownInv, q
<1>10. CmdInv'
  <2> SUFFICES ASSUME NEW u \in Tids, tracker.root # 0, u \in bound, BoundExec(task[u].cmd)'
               PROVE  Command(q, q.threads[u]) = task'[u].cmd
    BY <1>1, <1>3, <1>5, <1>6 DEF CmdInv, q
  <2>1. PICK k : k = task[u].cmd
    OBVIOUS
  <2>2. task'[u].cmd = k
    BY <1>6, <2>1
  <2>3. BoundExec(k)'
    BY <2>2 DEF BoundExec
  <2> QED  BY <1>5, <1>7, <2>1, <2>2, <2>3
<1>11. ForkInv'
  <2> SUFFICES ASSUME NEW p \in Tids, NEW d \in Tids, task'[p].event = Spawned(d)
               PROVE  /\ d \notin bound'
                      /\ BoundExec(task[d].cmd)' => task'[d].cmd = task'[p].cmd
    BY DEF ForkInv
  <2>1. task[p].event = Spawned(d)
    BY <1>6, EventKinds
  <2>2. d \notin bound /\ (BoundExec(task[d].cmd) => task[d].cmd = task[p].cmd)
    BY <2>1 DEF AboveInv, ForkInv
  <2> QED  BY <1>1, <1>6, <2>2 DEF BoundExec
<1>12. HandInv'
  BY <1>1 DEF HandInv, Handled
<1>13. EarlyInv'
  <2> SUFFICES ASSUME tracker.root = 0
               PROVE  EarlyInv'
    BY <1>3 DEF EarlyInv, q
  <2>1. bound \subseteq {Root} /\ \A u \in Tids \ {Root} : task[u].state = "unborn"
    BY DEF AboveInv, EarlyInv
  <2>2. t = Root
    BY <1>1, <2>1, TaskFields
  <2>3. \A u \in Tids \ {Root} : task'[u].state = "unborn"
    BY <1>6, <2>1, <2>2
  <2> QED  BY <1>1, <1>6, <2>1, <2>2, <2>3 DEF EarlyInv
<1> QED  BY <1>8, <1>9, <1>10, <1>11, <1>12, <1>13 DEF AboveInv

\* The exec is recorded: what a thread whose spawns have been seen executes stands
\* below the command it was, and what another executes does not count.
LEMMA RecordShown ==
    ASSUME TypeInv, TypeInv', StableInv, StableInv', AboveInv, RecordExec, NEW t, t = seen[1]
    PROVE  AboveInv'
<1> DEFINE q == tracker'
<1>0. PICK s, above : s = q.threads[t] /\ above = task[t].cmd
  OBVIOUS
<1>1. /\ TaskInv /\ ExecInv /\ IsTracker(tracker) /\ Chained(tracker) /\ IsTracker(q)
      /\ loop = "handle" /\ loop' = "top" /\ bound' = bound
      /\ execs' = execs \cup {[span |-> s, above |-> above, bound |-> t \in bound]}
  BY <1>0 DEF TypeInv, StableInv, LinkInv, RecordExec
<1>2. /\ t \in Tids /\ Cmdline(t) \in Argvs /\ task' = [task EXCEPT ![t].cmd = s] /\ s \in Nat
  BY <1>0, RecordArguments
<1>3. seen[2] = t
  BY <1>1, <1>2 DEF Handled, ExecInv
<1>4. q = HandleExec(tracker, t, t, Cmdline(t), task[t].cpu) /\ task[t].cpu \in Int
  BY <1>3, RecordArguments
<1> HIDE DEF q
<1>5. /\ Continued(tracker, q) /\ DOMAIN tracker.spans \subseteq DOMAIN q.spans
      /\ s \in DOMAIN q.spans \ DOMAIN tracker.spans /\ q.spans[s].init = "exec"
      /\ \A u \in Tids : u # t => q.threads[u] = tracker.threads[u]
      /\ tracker.threads[t] # 0 => s \in Children(q, tracker.threads[t])
  <2>1. PICK argv \in Argvs, cpu \in Int : q = HandleExec(tracker, t, t, argv, cpu)
    BY <1>2, <1>4
  <2>2. /\ Continued(tracker, q) /\ DOMAIN tracker.spans \subseteq DOMAIN q.spans
        /\ q.threads[t] \in DOMAIN q.spans \ DOMAIN tracker.spans
        /\ q.spans[q.threads[t]].init = "exec"
        /\ \A u \in Tids : u # t => q.threads[u] = tracker.threads[u]
        /\ tracker.threads[t] # 0 => q.threads[t] \in Children(q, tracker.threads[t])
    BY <1>1, <1>2, <2>1, ExecContinued, SMTT(30)
  <2> QED  BY <1>0, <2>2
<1>6. /\ s # 0 /\ tracker.root # 0
  BY <1>1, <1>5, SpanNumbers DEF AboveInv, EarlyInv
<1>7. \A x \in {0} \cup DOMAIN tracker.spans : BoundExec(x)' => BoundExec(x)
  BY <1>1, <1>5, <1>6 DEF BoundExec
<1>8. /\ \A x \in Reached(tracker) : x \in Reached(q) /\ Command(q, x) = Command(tracker, x)
      /\ \A e \in execs :
            /\ e.span \in DOMAIN q.spans /\ e.above \in {0} \cup DOMAIN q.spans
            /\ e.bound => e.span \in Reached(q) /\ q.spans[e.span].init = "exec"
            /\ e.bound /\ BoundExec(e.above)' => CommandAbove(q, e.span) = e.above
      /\ \A u \in Tids : task[u].cmd \in {0} \cup DOMAIN q.spans
      /\ \A u \in bound \cap Tids :
            /\ tracker.threads[u] \in Reached(q)
            /\ \A k : k = task[u].cmd /\ BoundExec(k)' =>
                  Command(q, tracker.threads[u]) = k
  BY <1>5, <1>6, <1>7, Carried DEF AboveInv, q
<1>9. /\ \A u \in Tids : u # t => task'[u] = task[u]
      /\ task'[t].event = task[t].event /\ task'[t].cmd = s
  <2>1. task[t] \in TaskType /\ task \in [Tids -> TaskType]
    BY <1>1, <1>2, TaskFields
  <2> QED  BY <1>1, <1>2, <2>1, CmdFacts DEF TaskType
<1>10. \A u \in bound : u \in Tids /\ tracker.threads[u] # 0
  BY <1>6 DEF AboveInv, PlaceInv, Known, TypeInv, LoopInv
<1>11. ASSUME t \in bound
       PROVE  /\ s \in Reached(q)
              /\ BoundExec(above)' => CommandAbove(q, s) = above
  <2>1. tracker.threads[t] \in Reached(q) /\ s \in Children(q, tracker.threads[t])
    BY <1>5, <1>8, <1>10, <1>11
  <2>2. PICK K : TreeIn(q, K)
    BY TreeNext DEF q
  <2>3. s \in Reached(q)
    BY <1>1, <2>1, ReachedClosed
  <2>4. CommandAbove(q, s) = Command(q, tracker.threads[t])
    BY <1>1, <2>1, <2>2, AboveIs
  <2>5. Command(q, tracker.threads[t]) = above \/ ~BoundExec(above)'
    BY <1>0, <1>2, <1>8, <1>11
  <2> QED  BY <2>3, <2>4, <2>5
<1>12. ASSUME NEW e, e = [span |-> s, above |-> above, bound |-> t \in bound]
       PROVE  e.span = s /\ e.above = above /\ (e.bound <=> t \in bound)
  BY <1>12
<1>13. PlaceInv'
  <2> SUFFICES ASSUME NEW u \in bound
               PROVE  q.threads[u] # 0 /\ q.threads[u] \in Reached(q)
    BY <1>1 DEF PlaceInv, Known, q
  <2>1. CASE u = t
    BY <1>0, <1>6, <1>11, <2>1
  <2>2. CASE u # t
    BY <1>5, <1>8, <1>10, <2>2
  <2> QED  BY <2>1, <2>2
<1>14. ShownInv'
  <2> SUFFICES ASSUME NEW e \in execs'
               PROVE  /\ e.span \in DOMAIN q.spans /\ e.above \in {0} \cup DOMAIN q.spans
                      /\ e.bound => e.span \in Reached(q) /\ q.spans[e.span].init = "exec"
                      /\ e.bound /\ BoundExec(e.above)' => CommandAbove(q, e.span) = e.above
    BY DEF ShownInv, q
  <2>1. CASE e \in execs
    BY <1>8, <2>1
  <2>2. CASE e = [span |-> s, above |-> above, bound |-> t \in bound]
    <3>1. e.span = s /\ e.above = above /\ (e.bound <=> t \in bound)
      BY <1>12, <2>2
    <3>2. above \in {0} \cup DOMAIN q.spans
      BY <1>0, <1>2, <1>8
    <3>3. BoundExec(e.above)' => BoundExec(above)'
      BY <3>1
    <3> QED  BY <1>5, <1>11, <3>1, <3>2, <3>3
  <2> QED  BY <1>1, <2>1, <2>2
<1>15. CmdInv'
  <2>1. \A u \in Tids : task'[u].cmd \in {0} \cup DOMAIN q.spans
    BY <1>5, <1>8, <1>9
  <2>2. ASSUME NEW u \in Tids, u \in bound, BoundExec(task[u].cmd)'
        PROVE  Command(q, q.threads[u]) = task'[u].cmd
    <3>1. CASE u = t
      BY <1>0, <1>5, <1>9, <3>1 DEF Command
    <3>2. CASE u # t
      <4>1. PICK k : k = task[u].cmd
        OBVIOUS
      <4>2. task'[u].cmd = k
        BY <1>9, <3>2, <4>1
      <4>3. BoundExec(k)'
        BY <2>2, <4>2 DEF BoundExec
      <4>4. Command(q, tracker.threads[u]) = k
        BY <1>8, <2>2, <4>1, <4>3
      <4> QED  BY <1>5, <3>2, <4>2, <4>4
    <3> QED  BY <3>1, <3>2
  <2> QED  BY <1>1, <2>1, <2>2 DEF CmdInv, q
<1>16. \A p \in Tids : p = t => task[p].event.kind # "spawn"
  BY <1>1 DEF AboveInv, HandInv, Handled
<1>17. ForkInv'
  <2> SUFFICES ASSUME NEW p \in Tids, NEW d \in Tids, task'[p].event = Spawned(d)
               PROVE  /\ d \notin bound'
                      /\ BoundExec(task[d].cmd)' => task'[d].cmd = task'[p].cmd
    BY DEF ForkInv
  <2>1. p # t /\ task[p].event = Spawned(d)
    BY <1>9, <1>16, EventKinds
  <2>2. /\ d \notin bound /\ (BoundExec(task[d].cmd) => task[d].cmd = task[p].cmd)
        /\ task'[p].cmd = task[p].cmd
    BY <1>9, <2>1 DEF AboveInv, ForkInv
  <2>3. PICK k : k = task'[d].cmd
    OBVIOUS
  <2>4. BoundExec(task[d].cmd)' => BoundExec(k)'
    BY <2>3 DEF BoundExec
  <2>5. CASE d = t
    <3>1. k = s
      BY <1>9, <2>3, <2>5
    <3>2. ~BoundExec(k)'
      <4>1. \A e \in execs : e.span # s
        BY <1>5 DEF AboveInv, ShownInv
      <4>2. \A e \in execs' : e.span = s => ~e.bound
        <5> SUFFICES ASSUME NEW e \in execs', e.span = s
                     PROVE  ~e.bound
          OBVIOUS
        <5>1. e = [span |-> s, above |-> above, bound |-> t \in bound]
          BY <1>1, <4>1
        <5>2. e.bound <=> t \in bound
          BY <1>12, <5>1
        <5> QED  BY <2>2, <2>5, <5>2
      <4> QED  BY <3>1, <4>2 DEF BoundExec
    <3> QED  BY <1>1, <2>2, <2>4, <3>2
  <2>6. CASE d # t
    <3>1. k = task[d].cmd /\ k \in {0} \cup DOMAIN tracker.spans
      BY <1>9, <2>3, <2>6 DEF AboveInv, CmdInv
    <3>2. BoundExec(k)' => BoundExec(k)
      BY <1>7, <3>1
    <3> QED  BY <1>1, <2>2, <2>3, <2>4, <3>1, <3>2
  <2> QED  BY <2>5, <2>6
<1>18. HandInv' /\ EarlyInv'
  <2>1. q.root # 0
    BY <1>5, <1>6 DEF Continued
  <2> QED  BY <1>1, <2>1 DEF HandInv, Handled, EarlyInv, q
<1> QED  BY <1>13, <1>14, <1>15, <1>17, <1>18 DEF AboveInv

\* At first nothing has been executed.
LEMMA InitShown == Init => AboveInv
<1> SUFFICES ASSUME Init
             PROVE  AboveInv
  OBVIOUS
<1>1. /\ tracker = NewTracker /\ loop = "top" /\ bound = {Root} /\ execs = {}
  BY DEF Init
<1>2. PICK first \in {Start, Dead("exited")} :
          task = [t \in Tids |-> IF t # Root THEN Unborn
                                 ELSE [Unborn EXCEPT !.state = IF first = Start THEN "stop" ELSE "zombie",
                                                     !.event = first, !.leader = Root]]
  BY DEF Init
<1>3. /\ \A t \in Tids : task[t].cmd = 0 /\ task[t].event \in {NoEvent, Start, Dead("exited")}
      /\ \A t \in Tids \ {Root} : task[t].state = "unborn"
      /\ task[Root].event \in {Start, Dead("exited")}
  BY <1>2, RootAssumption DEF Unborn
<1>4. tracker.root = 0 /\ tracker.spans = <<>>
  BY <1>1 DEF NewTracker
<1>5. PlaceInv /\ ShownInv /\ CmdInv
  BY <1>1, <1>3, <1>4 DEF PlaceInv, ShownInv, CmdInv
<1>6. ForkInv /\ HandInv
  BY <1>1, <1>3, EventKinds DEF ForkInv, HandInv, Handled
<1>7. EarlyInv
  BY <1>1, <1>3, <1>4, EventKinds DEF EarlyInv
<1> QED  BY <1>5, <1>6, <1>7 DEF AboveInv

\* A step keeps what is shown.
LEMMA AboveStepKeeps ==
    TrackInv /\ TrackInv' /\ (Stable => ReportInv) /\ (Stable => AboveInv) /\ [Next]_vars
       => (Stable' => AboveInv')
<1> SUFFICES ASSUME TypeInv, TypeInv', StableInv, StableInv', ReportInv, AboveInv,
                    [Next]_vars, Stable'
             PROVE  AboveInv'
  BY StableBefore DEF TrackInv
<1>1. CASE LookAtClock \/ NoChildren \/ Report \/ Terminate \/ Elapse \/ UNCHANGED vars
  BY <1>1, IdleShown
<1>2. ASSUME NEW t \in Tids, Wait(t)
      PROVE  AboveInv'
  <2>1. loop' # "assert"
    BY <1>2, WaitOrderly
  <2>2. \/ SeeStart(t) \/ SeeSpawn(t) \/ SeeExec(t) \/ SeeExit(t) \/ SeeDead(t)
        \/ SeeSignal(t) \/ SeeUnknown(t)
    BY <1>2 DEF Wait
  <2> QED  BY <1>2, <2>1, <2>2, StartShown, SpawnShown, ExecSeenShown, SignalShown, EndShown
<1>3. CASE RecordExec
  BY <1>3, RecordShown
<1>4. ASSUME NEW t \in Tids,
             \/ \E c \in Tids, isFork \in BOOLEAN : Spawn(t, c, isFork)
             \/ DoExec(t) \/ ThreadExec(t) \/ \E how \in Ends : Exit(t, how)
             \/ \E known \in BOOLEAN : SignalStop(t, known)
             \/ \E withEvent \in BOOLEAN : Kill(t, withEvent) \/ Zap(t, withEvent)
      PROVE  AboveInv'
  BY <1>4, ProcessShown
<1> QED  BY <1>1, <1>2, <1>3, <1>4 DEF Next, Tracer

\* With the invariants of the tracker and of the report it is invariant.
LEMMA AboveInvariant == Spec => [](Stable => AboveInv)
<1>1. Init => (Stable => AboveInv)
  BY InitShown
<1> QED  BY <1>1, AboveStepKeeps, TrackInvariant, ReportInvariant, PTL DEF Spec

\* What a thread executes whose spawn, and whose ancestors' spawns, had been seen is
\* among the commands of the report, and below the command that the thread was, in
\* whatever order the other events came.
THEOREM CommandsReported == Spec => []Reported
<1>1. (Stable => AboveInv) => Reported
  BY DEF AboveInv, ShownInv, BoundExec, Reported, Commands
<1> QED  BY <1>1, AboveInvariant, PTL
-----------------------------------------------------------------------------
(* That all is added up. *)

\* What some thread executed was recorded before the spawns that led to it.
TooEarly == \E e \in execs : ~e.bound

\* But for that the spans a thread has left behind are reached.
PastInv ==
    \A x \in DOMAIN tracker.spans : tracker.threads[tracker.spans[x].tid] # x =>
        x \in Reached(tracker) \/ TooEarly

WholeInv == Kinded(tracker) /\ PastInv /\ (loop = "printed" => tracker.root # 0)

\* They stay reached, if those left behind in this step are.
LEMMA PastKept ==
    ASSUME TypeInv, TypeInv', StableInv, StableInv', PastInv, Continued(tracker, tracker'),
           execs \subseteq execs',
           \A x \in DOMAIN tracker'.spans : tracker'.threads[tracker'.spans[x].tid] # x =>
              \/ x \in DOMAIN tracker.spans /\ tracker.threads[tracker.spans[x].tid] # x
              \/ x \in Reached(tracker') \/ TooEarly'
    PROVE  PastInv'
<1>1. TooEarly => TooEarly'
  BY DEF TooEarly
<1>2. \A x \in Reached(tracker) : x \in Reached(tracker')
  <2>1. IsTracker(tracker) /\ IsTracker(tracker')
    BY DEF TypeInv
  <2>2. PICK K : TreeIn(tracker, K)
    BY TreeNow
  <2>3. PICK L : TreeIn(tracker', L)
    BY TreeNext
  <2> QED  BY <2>1, <2>2, <2>3, AboveSame
<1> QED  BY <1>1, <1>2 DEF PastInv

\* A step of a process, of the clock, or of the report.
LEMMA StillWhole ==
    ASSUME WholeInv, UNCHANGED <<tracker, execs>>,
           loop' = "printed" => loop = "printed" \/ tracker.root # 0
    PROVE  WholeInv'
<1>1. PastInv'
  BY DEF WholeInv, PastInv, TooEarly
<1> QED  BY <1>1 DEF WholeInv

\* The command starts: its span is the only one.
LEMMA StartWhole ==
    ASSUME TypeInv, StableInv, WholeInv, NEW t \in Tids, SeeStart(t)
    PROVE  WholeInv'
<1>1. loop' = "top" /\ IsTracker(tracker)
  BY DEF SeeStart, TypeInv
<1>2. CASE \A u \in Tids : tracker.threads[u] = 0
  <2> DEFINE q == tracker'
  <2>1. q = HandleFirstExec(tracker, t)
    BY <1>2 DEF SeeStart
  <2>2. tracker.spans = <<>>
    BY <1>2, NoSpans
  <2> HIDE DEF q
  <2>3. Kinded(q)
    BY <1>1, <2>1, FirstExecKinded DEF WholeInv
  <2>4. /\ DOMAIN q.spans \subseteq {q.threads[t]}
        /\ q.spans[q.threads[t]].tid = t
    <3>1. /\ DOMAIN q.spans \subseteq DOMAIN tracker.spans \cup {q.threads[t]}
          /\ SpanOf(q, t).tid = Before(tracker, t).tid
      BY <1>1, <2>1, FirstExecResult
    <3>2. Before(tracker, t).tid = t
      BY <1>2 DEF Before, NewSpan
    <3> QED  BY <2>2, <3>1, <3>2 DEF SpanOf
  <2>5. PastInv'
    BY <2>4 DEF PastInv, q
  <2> QED  BY <1>1, <2>3, <2>5 DEF WholeInv, q
<1>3. CASE ~(\A u \in Tids : tracker.threads[u] = 0)
  BY <1>1, <1>3, StillWhole DEF SeeStart
<1> QED  BY <1>2, <1>3

\* The event of a spawn: spans are put below others, none is left behind.
LEMMA SpawnWhole ==
    ASSUME TypeInv, TypeInv', StableInv, StableInv', AboveInv, WholeInv, NEW t \in Tids,
           Wait(t), SeeSpawn(t), loop' # "assert"
    PROVE  WholeInv'
<1> DEFINE c == task[t].event.child
           q == tracker'
<1>1. /\ TaskInv /\ IsTracker(tracker) /\ Chained(tracker)
      /\ task[t].event.kind = "spawn"
  BY DEF TypeInv, StableInv, LinkInv, SeeSpawn
<1>2. c \in Tids /\ task[t].event = Spawned(c)
  BY <1>1, Events, TaskFields
<1>3. /\ q = HandleSpawn(tracker, c, t, Leads(c)) /\ Leads(c) \in BOOLEAN
      /\ loop' = "top" /\ execs' = execs
  BY DEF SeeSpawn, Leads
<1> HIDE DEF c, q
<1>4. c # Root /\ c # t /\ ~SpawnSeen(tracker, c)
  <2>1. Awaited(c)
    BY <1>2 DEF Awaited
  <2> QED  BY <1>2, <2>1 DEF StableInv, SpawnInv, LinkInv
<1>5. tracker.root # 0 /\ tracker.spans[tracker.root].tid # c
  BY <1>1, <1>4, RunsAfterStart DEF StableInv, RootInv
<1>6. PICK isFork \in BOOLEAN : q = HandleSpawn(tracker, c, t, isFork)
  BY <1>3
<1>7. Continued(tracker, q) /\ Kinded(q)
  <2>1. Continued(tracker, q)
    BY <1>1, <1>2, <1>4, <1>5, <1>6, SpawnContinued
  <2>2. Kinded(q)
    BY <1>1, <1>2, <1>6, SpawnKinded DEF WholeInv
  <2> QED  BY <2>1, <2>2
<1>8. /\ \A u \in Tids : tracker.threads[u] # 0 => q.threads[u] = tracker.threads[u]
      /\ \A x \in DOMAIN tracker.spans : q.spans[x].tid = tracker.spans[x].tid
      /\ \A x \in DOMAIN q.spans \ DOMAIN tracker.spans : q.threads[q.spans[x].tid] = x
  BY <1>1, <1>2, <1>6, SpawnResult DEF Lasting
<1>9. ASSUME NEW x \in DOMAIN q.spans, q.threads[q.spans[x].tid] # x
      PROVE  x \in DOMAIN tracker.spans /\ tracker.threads[tracker.spans[x].tid] # x
  <2>1. x \in DOMAIN tracker.spans /\ q.spans[x].tid = tracker.spans[x].tid
    BY <1>8, <1>9
  <2>2. tracker.spans[x].tid \in Tids /\ tracker.threads[tracker.spans[x].tid] # 0
    BY <1>1, <2>1, SpanNumbers DEF Chained
  <2> QED  BY <1>8, <1>9, <2>1, <2>2
<1>10. PastInv'
  BY <1>3, <1>7, <1>9, PastKept DEF WholeInv, q
<1> QED  BY <1>3, <1>7, <1>10 DEF WholeInv, q

\* The end of a thread.
LEMMA EndWhole ==
    ASSUME TypeInv, TypeInv', StableInv, StableInv', WholeInv, NEW t \in Tids, Wait(t),
           SeeExit(t) \/ SeeDead(t)
    PROVE  WholeInv'
<1> DEFINE q == tracker'
<1>1. TaskInv /\ IsTracker(tracker) /\ Chained(tracker) /\ loop' = "top" /\ execs' = execs
  BY DEF TypeInv, StableInv, LinkInv, SeeExit, SeeDead
<1>2. PICK reason \in Reasons, cpu \in Int : q = FinishThread(tracker, t, reason, cpu)
  BY EndFinishes
<1> HIDE DEF q
<1>3. Continued(tracker, q) /\ Kinded(q)
  <2>1. Continued(tracker, q)
    BY <1>1, <1>2, FinishContinued
  <2>2. Kinded(q)
    BY <1>1, <1>2, FinishKinded DEF WholeInv
  <2> QED  BY <2>1, <2>2
<1>4. /\ \A u \in Tids : tracker.threads[u] # 0 => q.threads[u] = tracker.threads[u]
      /\ \A x \in DOMAIN tracker.spans : q.spans[x].tid = tracker.spans[x].tid
      /\ DOMAIN q.spans \subseteq DOMAIN tracker.spans \cup {q.threads[t]}
  <2>1. /\ \A u \in Tids : u # t => q.threads[u] = tracker.threads[u]
        /\ tracker.threads[t] # 0 => q.threads[t] = tracker.threads[t]
        /\ DOMAIN q.spans \subseteq DOMAIN tracker.spans \cup {q.threads[t]}
    BY <1>1, <1>2, FinishResult
  <2>2. \A x \in DOMAIN tracker.spans : q.spans[x].tid = tracker.spans[x].tid
    BY <1>1, <1>2, FinishBegun
  <2> QED  BY <2>1, <2>2
<1>5. q.threads[t] \notin DOMAIN tracker.spans => q.spans[q.threads[t]].tid = t
  <2>1. SpanOf(q, t).tid = Before(tracker, t).tid
    BY <1>1, <1>2, FinishResult
  <2>2. tracker.threads[t] # 0 => q.threads[t] \in DOMAIN tracker.spans
    BY <1>1, <1>4, SpanNumbers
  <2> QED  BY <2>1, <2>2 DEF Before, SpanOf, NewSpan
<1>6. ASSUME NEW x \in DOMAIN q.spans, q.threads[q.spans[x].tid] # x
      PROVE  x \in DOMAIN tracker.spans /\ tracker.threads[tracker.spans[x].tid] # x
  <2>1. x \in DOMAIN tracker.spans /\ q.spans[x].tid = tracker.spans[x].tid
    BY <1>4, <1>5, <1>6
  <2>2. tracker.spans[x].tid \in Tids /\ tracker.threads[tracker.spans[x].tid] # 0
    BY <1>1, <2>1, SpanNumbers DEF Chained
  <2> QED  BY <1>4, <1>6, <2>1, <2>2
<1>7. PastInv'
  BY <1>1, <1>3, <1>6, PastKept DEF WholeInv, q
<1> QED  BY <1>1, <1>3, <1>7 DEF WholeInv, q

\* The exec is recorded: the span left behind was reached, or the record says that
\* this was too early.
LEMMA RecordWhole ==
    ASSUME TypeInv, TypeInv', StableInv, StableInv', AboveInv, WholeInv, RecordExec,
           NEW t, t = seen[1]
    PROVE  WholeInv'
<1> DEFINE q == tracker'
<1>0. PICK s, above : s = q.threads[t] /\ above = task[t].cmd
  OBVIOUS
<1>1. /\ TaskInv /\ ExecInv /\ IsTracker(tracker) /\ Chained(tracker)
      /\ loop = "handle" /\ loop' = "top"
      /\ execs' = execs \cup {[span |-> s, above |-> above, bound |-> t \in bound]}
  BY <1>0 DEF TypeInv, StableInv, LinkInv, RecordExec
<1>2. t \in Tids /\ Cmdline(t) \in Argvs
  BY RecordArguments
<1>3. seen[2] = t
  BY <1>1, <1>2 DEF Handled, ExecInv
<1>4. PICK argv \in Argvs, cpu \in Int : q = HandleExec(tracker, t, t, argv, cpu)
  <2>1. q = HandleExec(tracker, t, t, Cmdline(t), task[t].cpu) /\ task[t].cpu \in Int
    BY <1>3, RecordArguments
  <2> QED  BY <1>2, <2>1
<1> HIDE DEF q
<1>5. Continued(tracker, q) /\ Kinded(q)
  <2>1. Continued(tracker, q)
    BY <1>1, <1>2, <1>4, ExecContinued
  <2>2. Kinded(q)
    BY <1>1, <1>2, <1>4, ExecKinded DEF WholeInv
  <2> QED  BY <2>1, <2>2
<1>6. CASE t \notin bound
  <2>1. PICK e : e = [span |-> s, above |-> above, bound |-> t \in bound]
    OBVIOUS
  <2>2. e \in execs' /\ ~e.bound
    BY <1>1, <1>6, <2>1
  <2>3. TooEarly'
    BY <2>2 DEF TooEarly
  <2>4. PastInv'
    BY <2>3 DEF PastInv
  <2> QED  BY <1>1, <1>5, <2>4 DEF WholeInv, q
<1>7. CASE t \in bound
  <2> DEFINE p == tracker.threads[t]
  <2>1. p # 0 /\ p \in Reached(tracker)
    BY <1>1, <1>7 DEF AboveInv, EarlyInv, PlaceInv, Known
  <2>2. p \in Reached(q)
    <3>1. \A x \in Reached(tracker) : x \in Reached(q)
      <4>1. IsTracker(tracker) /\ IsTracker(q)
        BY DEF TypeInv, q
      <4>2. PICK K : TreeIn(tracker, K)
        BY TreeNow
      <4>3. PICK L : TreeIn(q, L)
        BY TreeNext DEF q
      <4> QED  BY <1>5, <4>1, <4>2, <4>3, AboveSame
    <3> QED  BY <2>1, <3>1
  <2>3. /\ \A u \in Tids : u # t => q.threads[u] = tracker.threads[u]
        /\ DOMAIN q.spans \subseteq DOMAIN tracker.spans \cup {s} /\ q.spans[s].tid = t
        /\ \A x \in DOMAIN tracker.spans : q.spans[x].tid = tracker.spans[x].tid
    <3> DEFINE f == FinishThread(tracker, t, "exec", cpu)
    <3>1. f = FinishThread(tracker, t, "exec", cpu) /\ "exec" \in Reasons
      BY DEF Reasons
    <3> HIDE DEF f
    <3>2. /\ DOMAIN f.spans \subseteq DOMAIN tracker.spans \cup {p}
          /\ DOMAIN tracker.spans \subseteq DOMAIN f.spans
          /\ \A x \in DOMAIN tracker.spans : f.spans[x].tid = tracker.spans[x].tid
      <4>1. f.threads[t] = p /\ DOMAIN f.spans \subseteq DOMAIN tracker.spans \cup {f.threads[t]}
        BY <1>1, <1>2, <2>1, <3>1, FinishResult
      <4>2. /\ DOMAIN tracker.spans \subseteq DOMAIN f.spans
            /\ \A x \in DOMAIN tracker.spans : f.spans[x].tid = tracker.spans[x].tid
        BY <1>1, <1>2, <3>1, FinishBegun
      <4> QED  BY <4>1, <4>2
    <3>3. p \in DOMAIN tracker.spans
      BY <1>1, <1>2, <2>1, SpanNumbers
    <3>4. /\ DOMAIN q.spans \ DOMAIN f.spans = {q.threads[t]} /\ SpanOf(q, t).tid = t
          /\ \A x \in DOMAIN f.spans : Lasting(q.spans[x]) = Lasting(f.spans[x])
      BY <1>1, <1>2, <1>4, <3>1, ExecResult
    <3>5. \A x \in DOMAIN f.spans : q.spans[x].tid = f.spans[x].tid
      BY <3>4 DEF Lasting
    <3>6. \A u \in Tids : u # t => q.threads[u] = tracker.threads[u]
      BY <1>1, <1>2, <1>4, ExecContinued
    <3> QED  BY <1>0, <3>2, <3>3, <3>4, <3>5, <3>6 DEF SpanOf
  <2> HIDE DEF p
  <2>4. ASSUME NEW x \in DOMAIN q.spans, q.threads[q.spans[x].tid] # x
        PROVE  \/ x \in DOMAIN tracker.spans /\ tracker.threads[tracker.spans[x].tid] # x
               \/ x \in Reached(q)
    <3>1. x # s
      BY <1>0, <2>3, <2>4
    <3>2. x \in DOMAIN tracker.spans /\ q.spans[x].tid = tracker.spans[x].tid
      BY <2>3, <3>1
    <3>3. tracker.spans[x].tid \in Tids
      BY <1>1, <3>2, SpanNumbers
    <3>4. CASE tracker.spans[x].tid = t
      BY <2>2, <3>2, <3>4 DEF p
    <3>5. CASE tracker.spans[x].tid # t
      BY <2>3, <2>4, <3>2, <3>3, <3>5
    <3> QED  BY <3>4, <3>5
  <2>5. execs \subseteq execs'
    BY <1>1
  <2>6. PastInv'
    BY <1>5, <2>4, <2>5, PastKept DEF WholeInv, q
  <2> QED  BY <1>1, <1>5, <2>6 DEF WholeInv, q
<1> QED  BY <1>6, <1>7

\* A step keeps what is added up together.
LEMMA WholeStep ==
    TrackInv /\ TrackInv' /\ (Stable => ReportInv) /\ (Stable => AboveInv)
      /\ (Stable => WholeInv) /\ [Next]_vars
       => (Stable' => WholeInv')
<1> SUFFICES ASSUME TypeInv, TypeInv', StableInv, StableInv', ReportInv, AboveInv, WholeInv,
                    [Next]_vars, Stable'
             PROVE  WholeInv'
  BY StableBefore DEF TrackInv
<1>1. CASE LookAtClock \/ NoChildren \/ Report \/ Terminate \/ Elapse \/ UNCHANGED vars
  <2>1. /\ UNCHANGED <<tracker, execs>>
        /\ loop' = "printed" => loop = "printed" \/ tracker.root # 0
    BY <1>1 DEF LookAtClock, NoChildren, Report, Terminate, Elapse, vars, loopVars, history
  <2> QED  BY <2>1, StillWhole
<1>2. ASSUME NEW t \in Tids, Wait(t)
      PROVE  WholeInv'
  <2>1. loop' \in {"top", "handle", "report"}
    BY <1>2, WaitOrderly
  <2>2. CASE SeeExec(t) \/ SeeSignal(t) \/ SeeUnknown(t)
    <3>1. UNCHANGED <<tracker, execs>>
      BY <2>2 DEF SeeExec, SeeSignal, SeeUnknown
    <3> QED  BY <2>1, <3>1, StillWhole
  <2>3. CASE SeeStart(t) \/ SeeSpawn(t) \/ SeeExit(t) \/ SeeDead(t)
    BY <1>2, <2>1, <2>3, StartWhole, SpawnWhole, EndWhole
  <2> QED  BY <1>2, <2>2, <2>3 DEF Wait
<1>3. CASE RecordExec
  BY <1>3, RecordWhole
<1>4. ASSUME NEW t \in Tids,
             \/ \E c \in Tids, isFork \in BOOLEAN : Spawn(t, c, isFork)
             \/ DoExec(t) \/ ThreadExec(t) \/ \E how \in Ends : Exit(t, how)
             \/ \E known \in BOOLEAN : SignalStop(t, known)
             \/ \E withEvent \in BOOLEAN : Kill(t, withEvent) \/ Zap(t, withEvent)
      PROVE  WholeInv'
  <2>1. UNCHANGED loopVars
    BY <1>4, DeadStay
  <2>2. execs' = execs
    BY <1>4 DEF Spawn, DoExec, ThreadExec, Exit, SignalStop, Kill, Zap, history
  <2> QED  BY <2>1, <2>2, StillWhole DEF loopVars
<1> QED  BY <1>1, <1>2, <1>3, <1>4 DEF Next, Tracer

\* With the invariants of the tracker, of the report and of the commands in it, it is
\* invariant.
LEMMA WholeInvariant == Spec => [](Stable => WholeInv)
<1>1. Init => (Stable => WholeInv)
  <2>1. ASSUME Init
        PROVE  tracker.spans = <<>> /\ loop = "top"
    BY <2>1 DEF Init, NewTracker
  <2> QED  BY <2>1 DEF WholeInv, Kinded, PastInv
<1> QED  BY <1>1, WholeStep, TrackInvariant, ReportInvariant, AboveInvariant, PTL DEF Spec

\* If no exec was recorded too early, and the spawns of all threads have been seen,
\* what is reached is all there is.
LEMMA AllReached ==
    ASSUME TypeInv, StableInv, ReportInv, AboveInv, WholeInv, loop = "printed", ~TooEarly,
           \A t \in Tids : task[t].state # "unborn" => t \in bound
    PROVE  AllInTree(tracker)
<1>1. IsTracker(tracker) /\ Chained(tracker) /\ tracker.root # 0 /\ Kinded(tracker) /\ PastInv
  BY DEF TypeInv, StableInv, LinkInv, WholeInv
<1>2. ASSUME NEW x \in DOMAIN tracker.spans
      PROVE  x \in Reached(tracker)
  <2>1. PICK t : t = tracker.spans[x].tid
    OBVIOUS
  <2>2. t \in Tids /\ tracker.threads[t] # 0
    BY <1>1, <2>1, SpanNumbers DEF Chained
  <2>3. t \in bound
    BY <2>2 DEF ReportInv, HeardInv, Known
  <2>4. tracker.threads[t] \in Reached(tracker)
    BY <1>1, <2>3 DEF AboveInv, PlaceInv
  <2>5. tracker.threads[t] # x => x \in Reached(tracker)
    BY <1>1, <2>1 DEF PastInv
  <2> QED  BY <2>4, <2>5
<1>3. Reached(tracker) = DOMAIN tracker.spans
  BY <1>1, <1>2, ReachedClosed
<1>4. tracker.spans[tracker.root].init = "exec"
  BY <1>1 DEF ReportInv, Orderly, RootExec
<1>5. \E K : TreeIn(tracker, K)
  BY TreeNow
<1> QED  BY <1>1, <1>3, <1>4, <1>5 DEF AllInTree

\* The CPU times of the threads are the usages of all spans.
LEMMA ThreadsAddUp ==
    ASSUME TypeInv, StableInv, CpuInv, NEW B \in SUBSET sampled,
           \A t \in B : ExecutedOnce(t),
           \A x \in DOMAIN tracker.spans : tracker.spans[x].tid \in B
    PROVE  CpuOf(task, B) = SumOf(Usages(tracker), DOMAIN tracker.spans)
<1> DEFINE D == DOMAIN tracker.spans
           v == Usages(tracker)
           F == [t \in B |-> OwnSpans(tracker, t)]
           g == [t \in B |-> task[t].cpu]
<1>1. IsTracker(tracker) /\ B \subseteq Tids
  BY DEF TypeInv, LoopInv
<1>2. IsFiniteSet(D)
  BY <1>1, TrackerFields, FS_Interval
<1>3. IsFiniteSet(B)
  BY <1>1, RootAssumption, FS_Subset
<1>4. \A x \in D : v[x] \in Int
  <2>1. \A x \in D : tracker.spans[x] \in SpanType
    BY <1>1, TrackerFields
  <2> QED  BY <2>1 DEF Usages, SpanType
<1>5. /\ \A t \in B : F[t] \in SUBSET D
      /\ \A s, t \in B : s # t => F[s] \cap F[t] = {}
      /\ UNION {F[t] : t \in B} = D
  BY DEF OwnSpans
<1>6. \A t \in B : g[t] = SumOf(v, F[t])
  <2> TAKE t \in B
  <2>1. SumOf(v, OwnSpans(tracker, t)) = task[t].cpu
    BY CpuShared
  <2> QED  BY <2>1
<1>7. CpuOf(task, B) = SumOf(g, B)
  BY <1>3, CpuSum
<1> HIDE DEF D, v, F, g
<1>8. SumOf(g, B) = SumOf(v, UNION {F[t] : t \in B})
  BY <1>2, <1>3, <1>4, <1>5, <1>6, SumFamily
<1> QED  BY <1>5, <1>7, <1>8 DEF D, v

\* If every spawn was seen before what the child executed, and every exit, the total
\* that the report gives for the command is the CPU time of all threads, and so is
\* the sum of what it gives for the commands below: nothing is lost, nothing is
\* charged twice.
THEOREM TotalIsShared == Spec => []TotalCpu
<1>1. /\ TrackInv /\ (Stable => ReportInv) /\ (Stable => AboveInv) /\ (Stable => CpuInv)
      /\ (Stable => WholeInv)
      => TotalCpu
  <2> DEFINE born == {t \in Tids : task[t].state # "unborn"}
             total == SumOf(Usages(tracker), DOMAIN tracker.spans)
  <2> SUFFICES ASSUME TypeInv, StableInv, ReportInv, AboveInv, CpuInv, WholeInv,
                      loop = "printed", born \subseteq bound \cap sampled,
                      \A t \in born : ExecutedOnce(t), \A e \in execs : e.bound
               PROVE  /\ TreeCpu(tracker)[tracker.root] = CpuOf(task, born)
                      /\ SumOf(SelfCpu(tracker), Commands(tracker)) = CpuOf(task, born)
    BY DEF TotalCpu, TrackInv, CpuOf, SumOf, MapThenSumSet, MapThenFoldSet
  <2>1. AllInTree(tracker)
    <3>1. ~TooEarly
      BY DEF TooEarly
    <3> QED  BY <3>1, AllReached
  <2>2. /\ TreeCpu(tracker)[tracker.root] = total
        /\ SumOf(SelfCpu(tracker), Commands(tracker)) = total
    BY <2>1, TreeAddsUp DEF TypeInv
  <2>3. CpuOf(task, born) = total
    <3>1. \A x \in DOMAIN tracker.spans : tracker.spans[x].tid \in born
      <4>1. IsTracker(tracker) /\ Chained(tracker)
        BY DEF TypeInv, StableInv, LinkInv
      <4> TAKE x \in DOMAIN tracker.spans
      <4>2. PICK t : t = tracker.spans[x].tid
        OBVIOUS
      <4>3. t \in Tids /\ tracker.threads[t] # 0
        BY <4>1, <4>2, SpanNumbers DEF Chained
      <4> QED  BY <4>2, <4>3 DEF ReportInv, HeardInv, Known
    <3>2. born \in SUBSET sampled
      OBVIOUS
    <3> HIDE DEF born
    <3> QED  BY <3>1, <3>2, ThreadsAddUp
  <2> QED  BY <2>2, <2>3
<1> QED  BY <1>1, TrackInvariant, ReportInvariant, AboveInvariant, CpuInvariant, WholeInvariant,
            PTL
=============================================================================
