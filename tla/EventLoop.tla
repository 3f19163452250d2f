----------------------------- MODULE EventLoop -----------------------------
(***************************************************************************)
(* etlx::events::EventLoop (src/events/loop.cpp): a single-threaded        *)
(* cooperative loop with a bounded FIFO of immediate callbacks and a       *)
(* bounded table of one-shot timers, over one of the two Clock ports: the  *)
(* SimulatedClock of core/time.hpp or the host's MonotonicClock.           *)
(*                                                                         *)
(* A callback is named by the number of the Post/PostAfter call that       *)
(* submitted it.  Its body is arbitrary: while it runs it may Post,        *)
(* PostAfter and Stop any number of times, as client code may between two  *)
(* calls of Run/RunOnce.  Callbacks do not call Run or RunOnce.            *)
(***************************************************************************)
EXTENDS Integers, Sequences

CONSTANTS
  QueueDepth,   \* ETLX_EVENTS_QUEUE_DEPTH, capacity of immediate_
  MaxTimers,    \* ETLX_EVENTS_MAX_TIMERS, capacity of timers_
  Delays,       \* the delays PostAfter is called with, in ms
  ClockKinds,   \* the Clocks a loop may be built on
  MaxPosts,     \* bound: calls of Post and PostAfter in a behaviour
  MaxTime       \* bound: last instant the clock reaches

ASSUME LoopAssumption ==
  /\ QueueDepth \in Nat
  /\ MaxTimers \in Nat
  /\ Delays \subseteq Nat
  /\ ClockKinds \subseteq {"simulated", "host"}
  /\ MaxPosts \in Nat
  /\ MaxTime \in Nat

VARIABLES
  \* the object's members, and the clock it refers to
  immediate,    \* immediate_: callbacks in submission order
  timers,       \* timers_: entries [due, cb] in insertion order
  running,      \* running_
  clock,        \* what clock_.Now() returns
  clockKind,    \* which Clock clock_ is
  \* the activation of Run / RunOnce
  pc,           \* where it is, "client" when there is none
  inRun,        \* was RunOnce called by Run
  batch,        \* immediates RunOnce has still to drain
  now,          \* RunOnce's local `now`
  cur,          \* the callback being invoked, NoCb when none
  \* history
  nextId,       \* number of the next Post/PostAfter call
  accepted,     \* calls that returned Ok
  timed,        \* those of them made to PostAfter
  ran,          \* callbacks that have returned
  mark,         \* nextId when RunOnce entered its current phase
  skipped       \* callbacks of timers that an Advance jumped past

object  == <<immediate, timers, running>>
control == <<pc, inRun, batch, now, cur>>
history == <<nextId, accepted, timed, ran, mark>>
vars    == <<object, clock, clockKind, skipped, control, history>>

NoCb == 0
Ids  == 1..MaxPosts

Init ==
  /\ immediate = <<>> /\ timers = <<>> /\ running = FALSE
  /\ clock = 0 /\ clockKind \in ClockKinds
  /\ pc = "client" /\ inRun = FALSE /\ batch = 0 /\ now = 0 /\ cur = NoCb
  /\ nextId = 1 /\ accepted = {} /\ timed = {} /\ ran = {} /\ mark = 1
  /\ skipped = {}

-----------------------------------------------------------------------------
(* Calls made by client code, or by the body of the callback being run.    *)

UserCode == pc = "client" \/ cur # NoCb

\* Each call takes the next number; only an accepted one is remembered.
Submit(ok) ==
  /\ nextId <= MaxPosts
  /\ nextId' = nextId + 1
  /\ accepted' = IF ok THEN accepted \cup {nextId} ELSE accepted

\* Mutant of Post: a capacity test that lets one callback too many in.
PostOffByOne ==
  LET room == Len(immediate) <= QueueDepth
  IN  /\ UserCode
      /\ Submit(room)
      /\ immediate' = IF room THEN Append(immediate, nextId) ELSE immediate
      /\ UNCHANGED <<timers, running, clock, clockKind, skipped, control, timed, ran, mark>>

Post ==
  LET room == Len(immediate) < QueueDepth
  IN  /\ UserCode
      /\ Submit(room)
      /\ immediate' = IF room THEN Append(immediate, nextId) ELSE immediate
      /\ UNCHANGED <<timers, running, clock, clockKind, skipped, control, timed, ran, mark>>

PostAfter(delay) ==
  LET room  == Len(timers) < MaxTimers
      entry == [due |-> clock + delay, cb |-> nextId]
  IN  /\ UserCode
      /\ clock + delay <= MaxTime
      /\ Submit(room)
      /\ timers' = IF room THEN Append(timers, entry) ELSE timers
      /\ timed' = IF room THEN timed \cup {nextId} ELSE timed
      /\ UNCHANGED <<immediate, running, clock, clockKind, skipped, control, ran, mark>>

Stop ==
  /\ UserCode
  /\ running' = FALSE
  /\ UNCHANGED <<immediate, timers, clock, clockKind, skipped, control,
                 nextId, accepted, timed, ran, mark>>

\* SimulatedClock::Advance: the owner of a simulated clock, the code that set
\* the loop up or a callback, moves it on by a span of its own choice.
Advance(d) ==
  /\ UserCode
  /\ clockKind = "simulated"
  /\ clock + d <= MaxTime
  /\ clock' = clock + d
  /\ skipped' = skipped \cup
       {timers[i].cb : i \in {j \in 1..Len(timers) : timers[j].due < clock + d}}
  /\ UNCHANGED <<object, clockKind, control, history>>

\* The callback's body returns to the loop that invoked it.
CallbackReturn ==
  /\ cur # NoCb
  /\ cur' = NoCb
  /\ ran' = ran \cup {cur}
  /\ UNCHANGED <<object, clock, clockKind, skipped, pc, inRun, batch, now,
                 nextId, accepted, timed, mark>>

-----------------------------------------------------------------------------
(* RunOnce: drain the immediates queued at entry, then fire due timers.    *)

\* Mutant of EnterRunOnce: the drain runs one iteration too many.
EnterRunOnceInclusive ==
  /\ pc' = "drain"
  /\ batch' = Len(immediate) + 1
  /\ mark' = nextId

EnterRunOnce ==
  /\ pc' = "drain"
  /\ batch' = Len(immediate)
  /\ mark' = nextId

RunOnce ==
  /\ pc = "client"
  /\ EnterRunOnce
  /\ UNCHANGED <<object, clock, clockKind, skipped, inRun, now, cur,
                 nextId, accepted, timed, ran>>

\* Mutant of DrainOne: drain until the queue is empty, not a fixed batch.
DrainUntilEmpty ==
  /\ pc = "drain" /\ cur = NoCb
  /\ batch > 0
  /\ cur' = Head(immediate)
  /\ immediate' = Tail(immediate)
  /\ batch' = Len(immediate) - 1
  /\ UNCHANGED <<timers, running, clock, clockKind, skipped, pc, inRun, now, history>>

DrainOne ==
  /\ pc = "drain" /\ cur = NoCb
  /\ batch > 0
  /\ cur' = Head(immediate)
  /\ immediate' = Tail(immediate)
  /\ batch' = batch - 1
  /\ UNCHANGED <<timers, running, clock, clockKind, skipped, pc, inRun, now, history>>

\* The deadline test uses one reading of the clock for the whole timer phase.
ReadNow ==
  /\ pc = "drain" /\ cur = NoCb
  /\ batch = 0
  /\ now' = clock
  /\ pc' = "fire"
  /\ mark' = nextId
  /\ UNCHANGED <<object, clock, clockKind, skipped, inRun, batch, cur,
                 nextId, accepted, timed, ran>>

Due(i) == timers[i].due <= now

\* The table without its i-th entry (etl::vector::erase).
Erase(table, i) ==
  [j \in 1..(Len(table) - 1) |-> IF j < i THEN table[j] ELSE table[j + 1]]

\* Mutant of FireFirstDue: the wrong entry is erased.
FireErasesFirst ==
  /\ pc = "fire" /\ cur = NoCb
  /\ \E i \in 1..Len(timers) : Due(i) /\ cur' = timers[i].cb
  /\ timers' = Tail(timers)
  /\ UNCHANGED <<immediate, running, clock, clockKind, skipped, pc, inRun, batch, now, history>>

\* Mutant of FireFirstDue: the scan takes the last due entry.
FireLastDue ==
  /\ pc = "fire" /\ cur = NoCb
  /\ \E i \in 1..Len(timers) :
       /\ Due(i)
       /\ \A j \in (i + 1)..Len(timers) : ~Due(j)
       /\ cur' = timers[i].cb
       /\ timers' = Erase(timers, i)
  /\ UNCHANGED <<immediate, running, clock, clockKind, skipped, pc, inRun, batch, now, history>>

\* The scan restarts after every callback and takes the first due entry.
FireFirstDue ==
  /\ pc = "fire" /\ cur = NoCb
  /\ \E i \in 1..Len(timers) :
       /\ Due(i)
       /\ \A j \in 1..(i - 1) : ~Due(j)
       /\ cur' = timers[i].cb
       /\ timers' = Erase(timers, i)
  /\ UNCHANGED <<immediate, running, clock, clockKind, skipped, pc, inRun, batch, now, history>>

RunOnceReturn ==
  /\ pc = "fire" /\ cur = NoCb
  /\ \A i \in 1..Len(timers) : ~Due(i)
  /\ pc' = IF inRun THEN "idle" ELSE "client"
  /\ UNCHANGED <<object, clock, clockKind, skipped, inRun, batch, now, cur, history>>

-----------------------------------------------------------------------------
(* Run: RunOnce until stopped or idle, sleeping while only timers pend.    *)

RunReturn ==
  /\ pc' = "client"
  /\ inRun' = FALSE
  /\ running' = FALSE

Run ==
  /\ pc = "client"
  /\ running' = TRUE
  /\ inRun' = TRUE
  /\ pc' = "while"
  /\ UNCHANGED <<immediate, timers, clock, clockKind, skipped, batch, now, cur, history>>

RunIterate ==
  /\ pc = "while"
  /\ running
  /\ EnterRunOnce
  /\ UNCHANGED <<object, clock, clockKind, skipped, inRun, now, cur,
                 nextId, accepted, timed, ran>>

RunStopped ==
  /\ pc = "while"
  /\ ~running
  /\ RunReturn
  /\ UNCHANGED <<immediate, timers, clock, clockKind, skipped, batch, now, cur,
                 nextId, accepted, timed, ran, mark>>

\* Mutant of EarliestTimer: the front of the table.
FrontTimer == 1

\* The index of the soonest timer, the first of equals.
EarliestTimer ==
  CHOOSE i \in 1..Len(timers) :
    /\ \A j \in 1..Len(timers) : timers[i].due <= timers[j].due
    /\ \A j \in 1..(i - 1) : timers[i].due < timers[j].due

\* Mutant of RunIdle: an idle Run goes round again.
RunIdleSpins ==
  /\ pc = "idle"
  /\ pc' = IF immediate = <<>> /\ timers # <<>> THEN "sleep" ELSE "while"
  /\ UNCHANGED <<object, clock, clockKind, skipped, inRun, batch, now, cur, history>>

RunIdle ==
  /\ pc = "idle"
  /\ \/ /\ immediate # <<>>
        /\ pc' = "while"
        /\ UNCHANGED <<inRun, running>>
     \/ /\ immediate = <<>> /\ timers = <<>>
        /\ RunReturn
     \/ /\ immediate = <<>> /\ timers # <<>>
        /\ pc' = "sleep"
        /\ UNCHANGED <<inRun, running>>
  /\ UNCHANGED <<immediate, timers, clock, clockKind, skipped, batch, now, cur,
                 nextId, accepted, timed, ran, mark>>

SleepTarget == timers[EarliestTimer].due

\* SleepUntil returns.  On the host a signal ends nanosleep early and
\* SleepUntil does not resume it.
Wake ==
  /\ pc = "sleep"
  /\ clockKind = "host" \/ clock >= SleepTarget
  /\ pc' = "while"
  /\ UNCHANGED <<object, clock, clockKind, skipped, inRun, batch, now, cur, history>>

\* Time passes: for the simulated clock inside SleepUntil and up to its target
\* (its only other way to move is Advance), for the host's monotonic clock at
\* any moment.
Tick ==
  /\ clock < MaxTime
  /\ \/ clockKind = "host"
     \/ clockKind = "simulated" /\ pc = "sleep" /\ clock < SleepTarget
  /\ clock' = clock + 1
  /\ UNCHANGED <<object, clockKind, skipped, control, history>>

-----------------------------------------------------------------------------

UserCall == Post \/ Stop \/ \E d \in Delays : PostAfter(d) \/ Advance(d)

LoopStep ==
  \/ DrainOne \/ ReadNow \/ FireFirstDue \/ RunOnceReturn
  \/ RunIterate \/ RunStopped \/ RunIdle \/ Wake

Next == UserCall \/ CallbackReturn \/ RunOnce \/ Run \/ LoopStep \/ Tick

Spec == Init /\ [][Next]_vars

\* The loop's thread is scheduled, a callback's body ends, time passes.
\* Nothing obliges client code to call anything.
FairSpec ==
  /\ Spec
  /\ WF_vars(LoopStep)
  /\ WF_vars(CallbackReturn)
  /\ WF_vars(Tick)

-----------------------------------------------------------------------------
(* Properties                                                              *)

Entry == [due : Nat, cb : Ids]

\* The sets of callbacks waiting in the queue and in the table.
Queued   == {immediate[i] : i \in 1..Len(immediate)}
TimerCbs == {timers[i].cb : i \in 1..Len(timers)}
Current  == {cur} \ {NoCb}

\* Type correctness: every member and local stays in its range, and neither
\* container outgrows the fixed capacity of its ETL type.
TypeOK ==
  /\ immediate \in Seq(Ids) /\ Len(immediate) <= QueueDepth
  /\ timers \in Seq(Entry) /\ Len(timers) <= MaxTimers
  /\ running \in BOOLEAN /\ inRun \in BOOLEAN
  /\ clock \in Nat /\ now \in Nat
  /\ pc \in {"client", "while", "drain", "fire", "idle", "sleep"}
  /\ batch \in Nat
  /\ cur \in Ids \cup {NoCb}
  /\ nextId \in 1..(MaxPosts + 1) /\ mark \in 1..(MaxPosts + 1)
  /\ accepted \subseteq Ids /\ timed \subseteq Ids /\ ran \subseteq Ids
  /\ skipped \subseteq Ids

\* Nothing is lost and nothing runs twice: every callback whose Post or
\* PostAfter returned Ok is in exactly one of the queue, the table, the
\* running slot and the set of finished ones; a refused one is in none.
Conservation ==
  /\ accepted = Queued \cup TimerCbs \cup Current \cup ran
  /\ Queued \cap TimerCbs = {}
  /\ (Queued \cup TimerCbs) \cap (Current \cup ran) = {}
  /\ cur \notin ran
  /\ \A i, j \in 1..Len(immediate) : immediate[i] = immediate[j] => i = j
  /\ \A i, j \in 1..Len(timers) : timers[i].cb = timers[j].cb => i = j

\* The drain never pops an empty queue: RunOnce calls front() and pop()
\* batch times without testing empty(), whatever the callbacks do.
DrainSafe == pc = "drain" => batch <= Len(immediate)

\* Immediate callbacks run in the order they were posted, across RunOnce
\* calls: one that has started is older than every one that still waits.
ImmediateFifo ==
  \A a \in (ran \cup Current) \ timed : \A b \in Queued : a < b

\* "A callback may enqueue more work; that runs on the next iteration,
\* keeping each RunOnce bounded" (loop.cpp:32-33): what RunOnce invokes was
\* submitted before the phase (drain or fire) that invokes it began.  The code
\* does not keep this for a timer of delay zero.
RunOnceBounded == cur # NoCb => cur < mark

\* What RunOnce defers, for every delay: an immediate posted during a phase is
\* not invoked in it, and a timer submitted during the timer phase is invoked
\* in it only when its deadline is the very instant the phase read, that is
\* when its delay is zero and the clock has not moved since.
RunOnceDefers ==
  [][(cur' # NoCb /\ cur' >= mark) =>
        \E i \in 1..Len(timers) : timers[i].cb = cur' /\ timers[i].due = now]_cur

\* No timer fires before its deadline by the clock.
NoEarlyFire ==
  [][\A i \in 1..Len(timers) :
        cur' = timers[i].cb => timers[i].due <= clock]_cur

\* A timer is never overtaken by one submitted later with the same or a later
\* deadline.
NoOvertaking ==
  [][\A i, j \in 1..Len(timers) :
        (cur' = timers[i].cb /\ timers[j].cb < timers[i].cb)
          => timers[i].due < timers[j].due]_cur

\* On the simulated clock, where callbacks take no time, Run never sleeps past
\* a deadline: a timer is overdue only because an Advance jumped past it.
OnTime ==
  clockKind = "simulated" =>
    \A i \in 1..Len(timers) : clock <= timers[i].due \/ timers[i].cb \in skipped

\* The test TimersFireInDueOrder: on the simulated clock a timer fires only
\* when no pending timer has a strictly earlier deadline, except one that an
\* Advance jumped past: those fire in the order of the table.
TimersFireInDueOrder ==
  [][clockKind = "simulated" =>
       \A i, j \in 1..Len(timers) :
         cur' = timers[i].cb =>
           timers[i].due <= timers[j].due \/ timers[j].cb \in skipped]_cur

\* Run gives control back once the callbacks stop submitting work: it neither
\* sleeps for ever nor spins, whatever Stop calls and deadlines came together.
RunEventuallyReturns == inRun ~> ~inRun

\* The loop implements the exactly-once executor: an accepted callback is
\* pending while it is in the queue or in the table, and no callback starts
\* while another runs.
Once == INSTANCE OnceExecutor WITH
          pending <- Queued \cup TimerCbs, active <- Current, done <- ran

ImplementsOnce == Once!Spec

-----------------------------------------------------------------------------
(* The inductive invariant behind the theorems of EventLoopProofs.         *)

\* Submission numbers grow along the queue and along the table.
Sorted ==
  /\ \A i, j \in 1..Len(immediate) : i < j => immediate[i] < immediate[j]
  /\ \A i, j \in 1..Len(timers) : i < j => timers[i].cb < timers[j].cb

\* Callbacks of the queue came from Post, those of the table from PostAfter,
\* and every accepted one has a number already given out.
Kinds ==
  /\ Queued \cap timed = {}
  /\ TimerCbs \subseteq timed /\ timed \subseteq accepted
  /\ \A id \in accepted : id < nextId

\* A callback runs only inside RunOnce; the reading of the clock is not ahead
\* of the clock.
Control ==
  /\ cur # NoCb => pc \in {"drain", "fire"}
  /\ now <= clock
  /\ mark <= nextId

\* What the rest of the phase will invoke: the batch at the head of the queue
\* was submitted before the drain, and of the timers due by the phase's `now`
\* a younger one has exactly `now` for its deadline.
Deferred ==
  /\ pc = "drain" => \A i \in 1..batch : immediate[i] < mark
  /\ pc = "fire" => \A i \in 1..Len(timers) :
                      (Due(i) /\ timers[i].cb >= mark) => timers[i].due = now

IInv ==
  /\ TypeOK /\ Conservation /\ DrainSafe /\ ImmediateFifo
  /\ Sorted /\ Kinds /\ Control

=============================================================================
