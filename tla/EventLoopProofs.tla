-------------------------- MODULE EventLoopProofs --------------------------
(***************************************************************************)
(* Theorems about EventLoop, for every queue depth, table size, set of     *)
(* delays and clock.                                                       *)
(***************************************************************************)
EXTENDS EventLoop, SequenceTheorems, WellFoundedInduction, TLAPS

-----------------------------------------------------------------------------
(* Sequences                                                               *)

\* erase() drops one entry, keeps the others and their order.
LEMMA EraseFacts ==
  ASSUME NEW S, NEW t \in Seq(S), NEW i \in 1..Len(t)
  PROVE  /\ Erase(t, i) \in Seq(S)
         /\ Len(Erase(t, i)) = Len(t) - 1
         /\ \A j \in 1..(Len(t) - 1) :
              Erase(t, i)[j] = IF j < i THEN t[j] ELSE t[j + 1]
<1>1. Len(t) \in Nat /\ \A j \in 1..Len(t) : t[j] \in S
  OBVIOUS
<1>2. Len(t) - 1 \in Nat
  BY <1>1
<1>3. Erase(t, i) \in [1..(Len(t) - 1) -> S]
  BY <1>1, <1>2 DEF Erase
<1>4. Erase(t, i) \in Seq(S)
  BY <1>2, <1>3, SeqDef
<1>5. Len(Erase(t, i)) = Len(t) - 1
  BY <1>2, <1>3, <1>4
<1>6. QED
  BY <1>4, <1>5 DEF Erase

-----------------------------------------------------------------------------
(* Type correctness                                                        *)

LEMMA TypeInit == Init => TypeOK
<1> SUFFICES ASSUME Init PROVE TypeOK
  OBVIOUS
<1>1. immediate \in Seq(Ids) /\ Len(immediate) <= QueueDepth
  BY LoopAssumption DEF Init
<1>2. timers \in Seq(Entry) /\ Len(timers) <= MaxTimers
  BY LoopAssumption DEF Init
<1>3. /\ clock \in Nat /\ now \in Nat /\ batch \in Nat
      /\ nextId \in 1..(MaxPosts + 1) /\ mark \in 1..(MaxPosts + 1)
  BY LoopAssumption DEF Init
<1>4. QED
  BY <1>1, <1>2, <1>3 DEF Init, TypeOK

\* Popping the queue is only type-correct because the batch never exceeds it.
LEMMA TypeStep == TypeOK /\ DrainSafe /\ [Next]_vars => TypeOK' /\ DrainSafe'
<1> SUFFICES ASSUME TypeOK, DrainSafe, [Next]_vars PROVE TypeOK' /\ DrainSafe'
  OBVIOUS
<1> USE LoopAssumption
<1>1. CASE Post
  <2>1. nextId \in Ids
    BY <1>1 DEF TypeOK, Post, Submit, Ids
  <2>2. /\ immediate' \in Seq(Ids) /\ Len(immediate') <= QueueDepth
        /\ Len(immediate) <= Len(immediate')
    BY <1>1, <2>1 DEF TypeOK, Post
  <2>3. accepted' \subseteq Ids
    BY <1>1, <2>1 DEF TypeOK, Post, Submit
  <2>4. nextId' \in 1..(MaxPosts + 1)
    BY <1>1, <2>1 DEF TypeOK, Post, Submit, Ids
  <2>5. TypeOK'
    BY <1>1, <2>2, <2>3, <2>4 DEF TypeOK, Post, control
  <2>6. DrainSafe'
    BY <1>1, <2>2 DEF TypeOK, DrainSafe, Post, control
  <2>7. QED
    BY <2>5, <2>6
<1>2. CASE Stop
  BY <1>2 DEF TypeOK, DrainSafe, Stop, control
<1>3. ASSUME NEW d \in Delays, PostAfter(d) PROVE TypeOK' /\ DrainSafe'
  <2>1. nextId \in Ids
    BY <1>3 DEF TypeOK, PostAfter, Submit, Ids
  <2>2. [due |-> clock + d, cb |-> nextId] \in Entry
    BY <2>1 DEF TypeOK, Entry
  <2>3. timers' \in Seq(Entry) /\ Len(timers') <= MaxTimers
    BY <1>3, <2>2 DEF TypeOK, PostAfter
  <2>4. accepted' \subseteq Ids /\ timed' \subseteq Ids
    BY <1>3, <2>1 DEF TypeOK, PostAfter, Submit
  <2>5. nextId' \in 1..(MaxPosts + 1)
    BY <1>3, <2>1 DEF TypeOK, PostAfter, Submit, Ids
  <2>6. QED
    BY <1>3, <2>3, <2>4, <2>5 DEF TypeOK, DrainSafe, PostAfter, control
<1>4. CASE CallbackReturn
  BY <1>4 DEF TypeOK, DrainSafe, CallbackReturn, object
<1>5. CASE RunOnce
  BY <1>5 DEF TypeOK, DrainSafe, RunOnce, EnterRunOnce, object
<1>6. CASE Run
  BY <1>6 DEF TypeOK, DrainSafe, Run, history
<1>7. CASE DrainOne
  <2>1. immediate # <<>>
    BY <1>7 DEF TypeOK, DrainSafe, DrainOne
  <2>2. /\ Head(immediate) \in Ids
        /\ Tail(immediate) \in Seq(Ids)
        /\ Len(Tail(immediate)) = Len(immediate) - 1
    BY <2>1 DEF TypeOK
  <2>3. QED
    BY <1>7, <2>2 DEF TypeOK, DrainSafe, DrainOne, history
<1>8. CASE ReadNow
  BY <1>8 DEF TypeOK, DrainSafe, ReadNow, object
<1>9. CASE FireFirstDue
  <2>1. PICK i \in 1..Len(timers) : cur' = timers[i].cb /\ timers' = Erase(timers, i)
    BY <1>9 DEF FireFirstDue
  <2>2. timers \in Seq(Entry) /\ timers[i] \in Entry
    BY DEF TypeOK
  <2>3. timers[i].cb \in Ids
    BY <2>2 DEF Entry
  <2>4. timers' \in Seq(Entry) /\ Len(timers') = Len(timers) - 1
    BY <2>1, <2>2, EraseFacts
  <2>5. QED
    BY <1>9, <2>1, <2>3, <2>4 DEF TypeOK, DrainSafe, FireFirstDue, history
<1>10. CASE RunOnceReturn
  BY <1>10 DEF TypeOK, DrainSafe, RunOnceReturn, object, history
<1>11. CASE RunIterate
  BY <1>11 DEF TypeOK, DrainSafe, RunIterate, EnterRunOnce, object
<1>12. CASE RunStopped
  BY <1>12 DEF TypeOK, DrainSafe, RunStopped, RunReturn
<1>13. CASE RunIdle
  BY <1>13 DEF TypeOK, DrainSafe, RunIdle, RunReturn
<1>14. CASE Wake
  BY <1>14 DEF TypeOK, DrainSafe, Wake, object, history
<1>15. CASE Tick
  BY <1>15 DEF TypeOK, DrainSafe, Tick, object, control, history
<1>16. CASE UNCHANGED vars
  BY <1>16 DEF TypeOK, DrainSafe, vars, object, control, history
<1>17. ASSUME NEW d \in Delays, Advance(d) PROVE TypeOK' /\ DrainSafe'
  <2>1. \A i \in 1..Len(timers) : timers[i].cb \in Ids
    <3>1. \A i \in 1..Len(timers) : timers[i] \in Entry
      BY DEF TypeOK
    <3>2. QED
      BY <3>1 DEF Entry
  <2>2. skipped' \subseteq Ids
    BY <1>17, <2>1 DEF TypeOK, Advance
  <2>3. QED
    BY <1>17, <2>2 DEF TypeOK, DrainSafe, Advance, object, control, history
<1>18. QED
  BY <1>1, <1>2, <1>3, <1>4, <1>5, <1>6, <1>7, <1>8, <1>9, <1>10, <1>11,
     <1>12, <1>13, <1>14, <1>15, <1>16, <1>17 DEF Next, UserCall, LoopStep

\* Every member keeps its type, and the queue and the table never outgrow the
\* capacities of their ETL containers (Post and PostAfter, loop.cpp:7-17).
THEOREM TypeCorrect == Spec => []TypeOK
<1>1. Init => TypeOK /\ DrainSafe
  BY TypeInit DEF Init, DrainSafe
<1>2. QED
  BY <1>1, TypeStep, PTL DEF Spec

\* RunOnce never calls front() or pop() on an empty queue (loop.cpp:34-40).
THEOREM DrainIsSafe == Spec => []DrainSafe
<1>1. Init => TypeOK /\ DrainSafe
  BY TypeInit DEF Init, DrainSafe
<1>2. QED
  BY <1>1, TypeStep, PTL DEF Spec

-----------------------------------------------------------------------------
(* Where callbacks are: exactly once, in order                             *)

\* The part of the state that says where each accepted callback is.
Whereabouts == <<immediate, timers, cur, nextId, accepted, timed, ran>>

Placed == Conservation /\ ImmediateFifo /\ Sorted /\ Kinds

\* Post: the new number joins the tail of the queue, or nothing moves.
LEMMA PostPlaced ==
  ASSUME TypeOK, Placed, Post PROVE Placed'
<1> USE DEF Placed
<1>1. CASE Len(immediate) >= QueueDepth
  <2>1. UNCHANGED <<immediate, timers, cur, accepted, timed, ran>> /\ nextId' = nextId + 1
    BY <1>1, LoopAssumption DEF Post, Submit, control, TypeOK
  <2>2. Queued' = Queued /\ TimerCbs' = TimerCbs /\ Current' = Current
    BY <2>1 DEF Queued, TimerCbs, Current
  <2>3. \A id \in accepted : id \in Nat /\ id < nextId
    BY DEF Kinds, TypeOK, Ids
  <2>4. Kinds'
    BY <2>1, <2>2, <2>3 DEF Kinds, TypeOK
  <2>5. Sorted' /\ ImmediateFifo' /\ Conservation'
    BY <2>1, <2>2 DEF Conservation, ImmediateFifo, Sorted
  <2>6. QED
    BY <2>4, <2>5
<1>2. CASE Len(immediate) < QueueDepth
  <2>1. /\ immediate' = Append(immediate, nextId)
        /\ accepted' = accepted \cup {nextId}
        /\ nextId' = nextId + 1
        /\ UNCHANGED <<timers, cur, timed, ran>>
    BY <1>2 DEF Post, Submit, control
  <2>2. /\ immediate \in Seq(Ids) /\ nextId \in Nat
        /\ nextId \notin accepted /\ nextId \notin timed
        /\ \A id \in accepted : id \in Nat /\ id < nextId
    <3>1. nextId \notin accepted /\ nextId \in Nat
      BY DEF Kinds, TypeOK
    <3>2. nextId \in Ids
      BY <1>2 DEF Post, Submit, TypeOK, Ids
    <3>3. QED
      BY <3>1, <3>2 DEF Kinds, TypeOK, Ids
  <2>3. /\ Len(immediate') = Len(immediate) + 1
        /\ Len(immediate) \in Nat
        /\ immediate'[Len(immediate) + 1] = nextId
        /\ \A i \in 1..Len(immediate) : immediate'[i] = immediate[i]
    BY <2>1, <2>2
  <2>4. Queued' = Queued \cup {nextId}
    BY <2>3 DEF Queued
  <2>5. TimerCbs' = TimerCbs /\ Current' = Current
    BY <2>1 DEF TimerCbs, Current
  <2>6. Queued \subseteq accepted /\ TimerCbs \subseteq accepted
        /\ Current \subseteq accepted /\ ran \subseteq accepted
    BY DEF Conservation
  <2>7. Sorted'
    <3>1. \A i \in 1..Len(immediate) : immediate[i] < nextId /\ immediate[i] \in Nat
      BY <2>2, <2>6 DEF Queued
    <3>2. \A i, j \in 1..Len(immediate') : i < j => immediate'[i] < immediate'[j]
      BY <2>3, <3>1, <2>2 DEF Sorted
    <3>3. QED
      BY <2>1, <3>2 DEF Sorted
  <2>8. Kinds'
    BY <2>1, <2>2, <2>4, <2>5, <2>6 DEF Kinds
  <2>9. ImmediateFifo'
    BY <2>1, <2>2, <2>4, <2>5, <2>6 DEF ImmediateFifo
  <2>10. Conservation'
    <3>1. /\ accepted' = Queued' \cup TimerCbs' \cup Current' \cup ran'
          /\ Queued' \cap TimerCbs' = {}
          /\ (Queued' \cup TimerCbs') \cap (Current' \cup ran') = {}
          /\ cur' \notin ran'
      BY <2>1, <2>2, <2>4, <2>5, <2>6 DEF Conservation
    <3>2. \A i \in 1..Len(immediate) : immediate[i] # nextId
      BY <2>2, <2>6 DEF Queued
    <3>3. \A i, j \in 1..Len(immediate') : immediate'[i] = immediate'[j] => i = j
      BY <2>3, <3>2 DEF Conservation
    <3>4. \A i, j \in 1..Len(timers') : timers'[i].cb = timers'[j].cb => i = j
      BY <2>1 DEF Conservation
    <3>5. QED
      BY <3>1, <3>3, <3>4 DEF Conservation
  <2>11. QED
    BY <2>7, <2>8, <2>9, <2>10
<1>3. QED
  BY <1>1, <1>2, LoopAssumption DEF TypeOK

\* PostAfter: the new number joins the end of the table, or nothing moves.
LEMMA PostAfterPlaced ==
  ASSUME TypeOK, Placed, NEW d \in Delays, PostAfter(d) PROVE Placed'
<1> USE DEF Placed
<1>1. CASE Len(timers) >= MaxTimers
  <2>1. UNCHANGED <<immediate, timers, cur, accepted, timed, ran>> /\ nextId' = nextId + 1
    BY <1>1, LoopAssumption DEF PostAfter, Submit, control, TypeOK
  <2>2. Queued' = Queued /\ TimerCbs' = TimerCbs /\ Current' = Current
    BY <2>1 DEF Queued, TimerCbs, Current
  <2>3. \A id \in accepted : id \in Nat /\ id < nextId
    BY DEF Kinds, TypeOK, Ids
  <2>4. Kinds'
    BY <2>1, <2>2, <2>3 DEF Kinds, TypeOK
  <2>5. Sorted' /\ ImmediateFifo' /\ Conservation'
    BY <2>1, <2>2 DEF Conservation, ImmediateFifo, Sorted
  <2>6. QED
    BY <2>4, <2>5
<1>2. CASE Len(timers) < MaxTimers
  <2> DEFINE e == [due |-> clock + d, cb |-> nextId]
  <2>1. /\ timers' = Append(timers, e)
        /\ accepted' = accepted \cup {nextId}
        /\ timed' = timed \cup {nextId}
        /\ nextId' = nextId + 1
        /\ UNCHANGED <<immediate, cur, ran>>
    BY <1>2 DEF PostAfter, Submit, control
  <2>2. /\ timers \in Seq(Entry) /\ nextId \in Nat /\ e \in Entry
        /\ nextId \notin accepted
        /\ \A id \in accepted : id \in Nat /\ id < nextId
    <3>1. nextId \notin accepted /\ nextId \in Nat
      BY DEF Kinds, TypeOK
    <3>2. nextId \in Ids
      BY <1>2 DEF PostAfter, Submit, TypeOK, Ids
    <3>3. e \in Entry
      BY <3>2, LoopAssumption DEF TypeOK, Entry
    <3>4. QED
      BY <3>1, <3>2, <3>3 DEF Kinds, TypeOK, Ids
  <2> HIDE DEF e
  <2>3. /\ Len(timers') = Len(timers) + 1
        /\ Len(timers) \in Nat
        /\ timers'[Len(timers) + 1] = e
        /\ \A i \in 1..Len(timers) : timers'[i] = timers[i]
    BY <2>1, <2>2
  <2>4. e.cb = nextId
    BY DEF e
  <2>5. TimerCbs' = TimerCbs \cup {nextId}
    BY <2>3, <2>4 DEF TimerCbs
  <2>6. Queued' = Queued /\ Current' = Current
    BY <2>1 DEF Queued, Current
  <2>7. Queued \subseteq accepted /\ TimerCbs \subseteq accepted
        /\ Current \subseteq accepted /\ ran \subseteq accepted
    BY DEF Conservation
  <2>8. Sorted'
    <3>1. \A i \in 1..Len(timers) : timers[i].cb < nextId /\ timers[i].cb \in Nat
      BY <2>2, <2>7 DEF TimerCbs
    <3>2. ASSUME NEW i \in 1..Len(timers'), NEW j \in 1..Len(timers'), i < j
          PROVE  timers'[i].cb < timers'[j].cb
      <4>1. i \in 1..Len(timers) /\ timers'[i] = timers[i]
        BY <2>3, <3>2
      <4>2. CASE j \in 1..Len(timers)
        BY <2>3, <3>2, <4>1, <4>2 DEF Sorted
      <4>3. CASE j = Len(timers) + 1
        BY <2>3, <2>4, <3>1, <4>1, <4>3
      <4> QED
        BY <2>3, <4>2, <4>3
    <3>3. QED
      BY <2>1, <3>2 DEF Sorted
  <2>9. Kinds'
    BY <2>1, <2>2, <2>5, <2>6, <2>7 DEF Kinds
  <2>10. ImmediateFifo'
    BY <2>1, <2>2, <2>6 DEF ImmediateFifo
  <2>11. Conservation'
    <3>1. /\ accepted' = Queued' \cup TimerCbs' \cup Current' \cup ran'
          /\ Queued' \cap TimerCbs' = {}
          /\ (Queued' \cup TimerCbs') \cap (Current' \cup ran') = {}
          /\ cur' \notin ran'
      BY <2>1, <2>2, <2>5, <2>6, <2>7 DEF Conservation
    <3>2. \A i \in 1..Len(timers) : timers[i].cb # nextId
      BY <2>2, <2>7 DEF TimerCbs
    <3>3. \A i, j \in 1..Len(timers') : timers'[i].cb = timers'[j].cb => i = j
      BY <2>3, <2>4, <3>2 DEF Conservation
    <3>4. \A i, j \in 1..Len(immediate') : immediate'[i] = immediate'[j] => i = j
      BY <2>1 DEF Conservation
    <3>5. QED
      BY <3>1, <3>3, <3>4 DEF Conservation
  <2>12. QED
    BY <2>8, <2>9, <2>10, <2>11
<1>3. QED
  BY <1>1, <1>2, LoopAssumption DEF TypeOK

\* A callback returns: it leaves the running slot for the finished ones.
LEMMA ReturnPlaced ==
  ASSUME TypeOK, Placed, CallbackReturn PROVE Placed'
<1> USE DEF Placed
<1>1. /\ cur # NoCb /\ cur' = NoCb /\ ran' = ran \cup {cur}
      /\ UNCHANGED <<immediate, timers, nextId, accepted, timed>>
  BY DEF CallbackReturn, object
<1>2. /\ Queued' = Queued /\ TimerCbs' = TimerCbs
      /\ Current = {cur} /\ Current' = {}
  BY <1>1 DEF Queued, TimerCbs, Current
<1>3. NoCb \notin ran'
  BY <1>1 DEF TypeOK, Ids, NoCb
<1>4. Sorted' /\ Kinds' /\ ImmediateFifo'
  BY <1>1, <1>2 DEF Sorted, Kinds, ImmediateFifo
<1>5. Conservation'
  BY <1>1, <1>2, <1>3 DEF Conservation
<1>6. QED
  BY <1>4, <1>5

\* The drain moves the head of the queue, its oldest entry, to the slot.
LEMMA DrainPlaced ==
  ASSUME TypeOK, DrainSafe, Placed, DrainOne PROVE Placed'
<1> USE DEF Placed
<1>1. /\ cur = NoCb
      /\ cur' = Head(immediate) /\ immediate' = Tail(immediate)
      /\ UNCHANGED <<timers, nextId, accepted, timed, ran>>
  BY DEF DrainOne, history
<1>2. immediate \in Seq(Ids) /\ immediate # <<>>
  BY DEF TypeOK, DrainSafe, DrainOne
<1>3. /\ Len(immediate) \in Nat \ {0}
      /\ Len(immediate') = Len(immediate) - 1
      /\ cur' = immediate[1]
      /\ \A i \in 1..Len(immediate') : immediate'[i] = immediate[i + 1]
  BY <1>1, <1>2
<1>4. /\ cur' \in Ids /\ cur' # NoCb
      /\ \A i \in 1..Len(immediate) : immediate[i] \in Nat
  <2>1. \A i \in 1..Len(immediate) : immediate[i] \in Ids
    BY <1>2
  <2>2. cur' \in Ids
    BY <1>3, <2>1
  <2>3. QED
    BY <2>1, <2>2 DEF Ids, NoCb
<1>5. /\ Current = {} /\ Current' = {cur'}
      /\ TimerCbs' = TimerCbs
  BY <1>1, <1>4 DEF Current, TimerCbs
<1>6. cur' \in Queued
  BY <1>3 DEF Queued
<1>7. \A q \in Queued' : q \in Queued /\ cur' < q
  <2>1. \A i \in 1..Len(immediate') :
          i + 1 \in 1..Len(immediate) /\ immediate[1] < immediate[i + 1]
    BY <1>3 DEF Sorted
  <2>2. QED
    BY <1>3, <2>1 DEF Queued
<1>8. Queued' = Queued \ {cur'}
  <2>1. cur' \notin Queued'
    BY <1>7, <1>4 DEF Ids
  <2>2. ASSUME NEW q \in Queued, q # cur' PROVE q \in Queued'
    <3>1. PICK i \in 1..Len(immediate) : q = immediate[i]
      BY DEF Queued
    <3>2. i # 1
      BY <1>3, <2>2, <3>1
    <3>3. i - 1 \in 1..Len(immediate') /\ immediate'[i - 1] = immediate[i]
      BY <1>3, <3>2
    <3>4. QED
      BY <3>1, <3>3 DEF Queued
  <2>3. QED
    BY <2>1, <2>2, <1>7
<1>9. Sorted'
  <2>1. \A i, j \in 1..Len(immediate') : i < j => immediate'[i] < immediate'[j]
    <3> SUFFICES ASSUME NEW i \in 1..Len(immediate'), NEW j \in 1..Len(immediate'), i < j
                 PROVE  immediate'[i] < immediate'[j]
      OBVIOUS
    <3>1. i + 1 \in 1..Len(immediate) /\ j + 1 \in 1..Len(immediate) /\ i + 1 < j + 1
      BY <1>3
    <3>2. QED
      BY <3>1, <1>3 DEF Sorted
  <2>2. QED
    BY <1>1, <2>1 DEF Sorted
<1>10. Kinds'
  BY <1>1, <1>5, <1>8 DEF Kinds
<1>11. ImmediateFifo'
  BY <1>1, <1>5, <1>7 DEF ImmediateFifo
<1>12. Conservation'
  <2>1. \A i, j \in 1..Len(immediate') : immediate'[i] = immediate'[j] => i = j
    <3> SUFFICES ASSUME NEW i \in 1..Len(immediate'), NEW j \in 1..Len(immediate'),
                        immediate'[i] = immediate'[j]
                 PROVE  i = j
      OBVIOUS
    <3>1. i + 1 \in 1..Len(immediate) /\ j + 1 \in 1..Len(immediate)
      BY <1>3
    <3>2. i + 1 = j + 1
      BY <3>1, <1>3 DEF Conservation
    <3>3. QED
      BY <3>2, <1>3
  <2>2. \A i, j \in 1..Len(timers') : timers'[i].cb = timers'[j].cb => i = j
    BY <1>1 DEF Conservation
  <2>3. /\ accepted' = Queued' \cup TimerCbs' \cup Current' \cup ran'
        /\ Queued' \cap TimerCbs' = {}
        /\ (Queued' \cup TimerCbs') \cap (Current' \cup ran') = {}
        /\ cur' \notin ran'
    BY <1>1, <1>5, <1>6, <1>8 DEF Conservation
  <2>4. QED
    BY <2>1, <2>2, <2>3 DEF Conservation
<1>13. QED
  BY <1>9, <1>10, <1>11, <1>12

\* The timer phase moves one entry of the table to the slot.
LEMMA FirePlaced ==
  ASSUME TypeOK, Placed, FireFirstDue PROVE Placed'
<1> USE DEF Placed
<1>1. PICK k \in 1..Len(timers) : cur' = timers[k].cb /\ timers' = Erase(timers, k)
  BY DEF FireFirstDue
<1>2. cur = NoCb /\ UNCHANGED <<immediate, nextId, accepted, timed, ran>>
  BY DEF FireFirstDue, history
<1>3. timers \in Seq(Entry) /\ Len(timers) \in Nat
  BY DEF TypeOK
<1>4. /\ Len(timers') = Len(timers) - 1
      /\ \A j \in 1..Len(timers') :
           timers'[j] = IF j < k THEN timers[j] ELSE timers[j + 1]
  BY <1>1, <1>3, EraseFacts
<1>5. cur' \in Ids /\ cur' # NoCb
  <2>1. timers[k] \in Entry
    BY <1>3
  <2>2. QED
    BY <1>1, <2>1 DEF Entry, Ids, NoCb
<1>6. /\ Current = {} /\ Current' = {cur'}
      /\ Queued' = Queued /\ cur' \in TimerCbs
  BY <1>1, <1>2, <1>5 DEF Current, Queued, TimerCbs
<1> DEFINE old(j) == IF j < k THEN j ELSE j + 1
<1>7. \A j \in 1..Len(timers') :
        old(j) \in 1..Len(timers) /\ old(j) # k /\ timers'[j] = timers[old(j)]
  BY <1>3, <1>4
<1>8. \A i, j \in 1..Len(timers') : (i < j => old(i) < old(j)) /\ (old(i) = old(j) => i = j)
  BY <1>3, <1>4
<1>9. TimerCbs' = TimerCbs \ {cur'}
  <2>1. ASSUME NEW q \in TimerCbs' PROVE q \in TimerCbs /\ q # cur'
    <3>1. PICK j \in 1..Len(timers') : q = timers'[j].cb
      BY DEF TimerCbs
    <3>2. q = timers[old(j)].cb /\ old(j) \in 1..Len(timers) /\ old(j) # k
      BY <3>1, <1>7
    <3> HIDE DEF old
    <3>3. QED
      BY <3>2, <1>1 DEF TimerCbs, Conservation
  <2>2. ASSUME NEW q \in TimerCbs, q # cur' PROVE q \in TimerCbs'
    <3>1. PICK i \in 1..Len(timers) : q = timers[i].cb
      BY DEF TimerCbs
    <3>2. i # k
      BY <1>1, <2>2, <3>1
    <3>3. CASE i < k
      <4>1. i \in 1..Len(timers') /\ timers'[i] = timers[i]
        BY <1>3, <1>4, <3>3
      <4>2. QED
        BY <3>1, <4>1 DEF TimerCbs
    <3>4. CASE i > k
      <4>1. i - 1 \in 1..Len(timers') /\ timers'[i - 1] = timers[i]
        BY <1>3, <1>4, <3>4
      <4>2. QED
        BY <3>1, <4>1 DEF TimerCbs
    <3>5. QED
      BY <3>2, <3>3, <3>4
  <2>3. QED
    BY <2>1, <2>2
<1> HIDE DEF old
<1>10. Sorted'
  <2>1. \A i, j \in 1..Len(timers') : i < j => timers'[i].cb < timers'[j].cb
    BY <1>7, <1>8 DEF Sorted
  <2>2. QED
    BY <1>2, <2>1 DEF Sorted
<1>11. Kinds'
  BY <1>2, <1>6, <1>9 DEF Kinds
<1>12. ImmediateFifo'
  <2>1. cur' \in timed'
    BY <1>2, <1>6 DEF Kinds
  <2>2. QED
    BY <1>2, <1>6, <2>1 DEF ImmediateFifo
<1>13. Conservation'
  <2>1. \A i, j \in 1..Len(timers') : timers'[i].cb = timers'[j].cb => i = j
    BY <1>7, <1>8 DEF Conservation
  <2>2. \A i, j \in 1..Len(immediate') : immediate'[i] = immediate'[j] => i = j
    BY <1>2 DEF Conservation
  <2>3. /\ accepted' = Queued' \cup TimerCbs' \cup Current' \cup ran'
        /\ Queued' \cap TimerCbs' = {}
        /\ (Queued' \cup TimerCbs') \cap (Current' \cup ran') = {}
        /\ cur' \notin ran'
    BY <1>2, <1>6, <1>9 DEF Conservation
  <2>4. QED
    BY <2>1, <2>2, <2>3 DEF Conservation
<1>14. QED
  BY <1>10, <1>11, <1>12, <1>13

\* Every other step leaves all callbacks where they are.
LEMMA StayPlaced ==
  ASSUME Placed, UNCHANGED Whereabouts PROVE Placed'
<1>1. Queued' = Queued /\ TimerCbs' = TimerCbs /\ Current' = Current
  BY DEF Whereabouts, Queued, TimerCbs, Current
<1>2. QED
  BY <1>1 DEF Whereabouts, Placed, Conservation, ImmediateFifo, Sorted, Kinds

LEMMA PlacedStep ==
  ASSUME TypeOK, DrainSafe, Placed, [Next]_vars PROVE Placed'
<1>1. CASE Post
  BY <1>1, PostPlaced
<1>2. ASSUME NEW d \in Delays, PostAfter(d) PROVE Placed'
  BY <1>2, PostAfterPlaced
<1>3. CASE CallbackReturn
  BY <1>3, ReturnPlaced
<1>4. CASE DrainOne
  BY <1>4, DrainPlaced
<1>5. CASE FireFirstDue
  BY <1>5, FirePlaced
<1>6. CASE \/ Stop \/ RunOnce \/ Run \/ ReadNow \/ RunOnceReturn \/ RunIterate
           \/ RunStopped \/ RunIdle \/ Wake \/ Tick \/ UNCHANGED vars
  <2>1. UNCHANGED Whereabouts
    BY <1>6 DEF Stop, RunOnce, Run, ReadNow, RunOnceReturn, RunIterate, RunStopped,
        RunIdle, Wake, Tick, Whereabouts, vars, object, control, history
  <2>2. QED
    BY <2>1, StayPlaced
<1>7. ASSUME NEW d \in Delays, Advance(d) PROVE Placed'
  <2>1. UNCHANGED Whereabouts
    BY <1>7 DEF Advance, Whereabouts, object, control, history
  <2>2. QED
    BY <2>1, StayPlaced
<1>8. QED
  BY <1>1, <1>2, <1>3, <1>4, <1>5, <1>6, <1>7 DEF Next, UserCall, LoopStep

-----------------------------------------------------------------------------
(* The inductive invariant                                                 *)

LEMMA ControlStep ==
  ASSUME TypeOK, Control, [Next]_vars PROVE Control'
<1> USE DEF Control, TypeOK
<1>1. CASE Post
  BY <1>1 DEF Post, Submit, control
<1>2. CASE Stop
  BY <1>2 DEF Stop, control
<1>3. ASSUME NEW d \in Delays, PostAfter(d) PROVE Control'
  BY <1>3 DEF PostAfter, Submit, control
<1>4. CASE CallbackReturn
  BY <1>4 DEF CallbackReturn
<1>5. CASE RunOnce \/ RunIterate
  BY <1>5 DEF RunOnce, RunIterate, EnterRunOnce
<1>6. CASE Run
  BY <1>6 DEF Run, history
<1>7. CASE DrainOne
  BY <1>7 DEF DrainOne, history
<1>8. CASE ReadNow
  BY <1>8 DEF ReadNow
<1>9. CASE FireFirstDue
  BY <1>9 DEF FireFirstDue, history
<1>10. CASE RunOnceReturn
  BY <1>10 DEF RunOnceReturn, history
<1>11. CASE RunStopped
  BY <1>11 DEF RunStopped, RunReturn
<1>12. CASE RunIdle
  BY <1>12 DEF RunIdle, RunReturn
<1>13. CASE Wake
  BY <1>13 DEF Wake, history
<1>14. CASE Tick
  BY <1>14 DEF Tick, control, history
<1>15. CASE UNCHANGED vars
  BY <1>15 DEF vars, control, history
<1>16. ASSUME NEW d \in Delays, Advance(d) PROVE Control'
  BY <1>16, LoopAssumption DEF Advance, control, history
<1>17. QED
  BY <1>1, <1>2, <1>3, <1>4, <1>5, <1>6, <1>7, <1>8, <1>9, <1>10, <1>11,
     <1>12, <1>13, <1>14, <1>15, <1>16 DEF Next, UserCall, LoopStep

LEMMA IInvInit == Init => IInv
<1> SUFFICES ASSUME Init PROVE IInv
  OBVIOUS
<1>1. TypeOK
  BY TypeInit
<1>2. Len(immediate) = 0 /\ Len(timers) = 0
  BY DEF Init
<1>3. Queued = {} /\ TimerCbs = {} /\ Current = {}
  BY <1>2 DEF Queued, TimerCbs, Current, Init, NoCb
<1>4. Conservation /\ ImmediateFifo /\ Sorted /\ Kinds
  BY <1>2, <1>3 DEF Init, Conservation, ImmediateFifo, Sorted, Kinds
<1>5. DrainSafe /\ Control
  BY DEF Init, DrainSafe, Control
<1>6. QED
  BY <1>1, <1>4, <1>5 DEF IInv

LEMMA IInvStep == IInv /\ [Next]_vars => IInv'
<1> SUFFICES ASSUME IInv, [Next]_vars PROVE IInv'
  OBVIOUS
<1>1. TypeOK' /\ DrainSafe'
  BY TypeStep DEF IInv
<1>2. Placed'
  BY PlacedStep DEF IInv, Placed
<1>3. Control'
  BY ControlStep DEF IInv
<1>4. QED
  BY <1>1, <1>2, <1>3 DEF IInv, Placed

LEMMA IInvAlways == Spec => []IInv
BY IInvInit, IInvStep, PTL DEF Spec

\* Every accepted callback is in exactly one place, whatever callbacks submit
\* while the queue is drained and the table is scanned (loop.cpp:29-59).
THEOREM NothingLost == Spec => []Conservation
<1>1. IInv => Conservation
  BY DEF IInv
<1>2. QED
  BY <1>1, IInvAlways, PTL

\* Immediate callbacks start in submission order across RunOnce calls.
THEOREM FifoOrder == Spec => []ImmediateFifo
<1>1. IInv => ImmediateFifo
  BY DEF IInv
<1>2. QED
  BY <1>1, IInvAlways, PTL

-----------------------------------------------------------------------------
(* Timers                                                                  *)

\* Only the drain and the timer phase start a callback.
LEMMA StartStep ==
  ASSUME IInv, [Next]_vars, cur' # cur, cur' # NoCb
  PROVE  DrainOne \/ FireFirstDue
<1>1. CASE UserCall \/ Tick \/ UNCHANGED vars
  BY <1>1 DEF UserCall, Post, Stop, PostAfter, Advance, Tick, control, vars
<1>2. CASE CallbackReturn \/ RunOnce \/ Run
  BY <1>2 DEF CallbackReturn, RunOnce, Run
<1>3. CASE ReadNow \/ RunOnceReturn \/ RunIterate \/ RunStopped \/ RunIdle \/ Wake
  BY <1>3 DEF ReadNow, RunOnceReturn, RunIterate, RunStopped, RunIdle, Wake
<1>4. QED
  BY <1>1, <1>2, <1>3 DEF Next, LoopStep

\* The entry whose callback starts was the first due one of the table.
LEMMA FiredEntry ==
  ASSUME IInv, [Next]_vars, cur' # cur, NEW i \in 1..Len(timers), cur' = timers[i].cb
  PROVE  Due(i) /\ \A j \in 1..(i - 1) : ~Due(j)
<1>1. timers[i].cb \in TimerCbs /\ timers[i] \in Entry
  BY DEF IInv, TypeOK, TimerCbs
<1>2. cur' # NoCb
  BY <1>1 DEF Entry, Ids, NoCb
<1>3. ~DrainOne
  <2> SUFFICES ASSUME DrainOne PROVE FALSE
    OBVIOUS
  <2>1. immediate \in Seq(Ids) /\ immediate # <<>> /\ cur' = Head(immediate)
    BY DEF IInv, TypeOK, DrainSafe, DrainOne
  <2>2. cur' = immediate[1] /\ 1 \in 1..Len(immediate)
    BY <2>1
  <2>3. cur' \in Queued
    BY <2>2 DEF Queued
  <2>4. QED
    BY <1>1, <2>3 DEF IInv, Conservation
<1>4. FireFirstDue
  BY <1>2, <1>3, StartStep
<1>5. PICK k \in 1..Len(timers) :
        Due(k) /\ (\A j \in 1..(k - 1) : ~Due(j)) /\ cur' = timers[k].cb
  BY <1>4 DEF FireFirstDue
<1>6. k = i
  BY <1>5 DEF IInv, Conservation
<1>7. QED
  BY <1>5, <1>6

\* A timer's callback never starts before its deadline: the reading of the
\* clock the scan compares with is never ahead of the clock (loop.cpp:43-48).
THEOREM TimersNotEarly == Spec => NoEarlyFire
<1>1. IInv /\ [Next]_vars =>
        [\A i \in 1..Len(timers) : cur' = timers[i].cb => timers[i].due <= clock]_cur
  <2> SUFFICES ASSUME IInv, [Next]_vars, cur' # cur,
                      NEW i \in 1..Len(timers), cur' = timers[i].cb
               PROVE  timers[i].due <= clock
    OBVIOUS
  <2>1. timers[i].due <= now
    BY FiredEntry DEF Due
  <2>2. timers[i] \in Entry
    BY DEF IInv, TypeOK
  <2>3. QED
    BY <2>1, <2>2 DEF IInv, TypeOK, Control, Entry
<1>2. QED
  BY <1>1, IInvAlways, PTL DEF Spec, NoEarlyFire

\* A timer is never overtaken by a later submission whose deadline is not
\* earlier: the scan restarts at the front of the table (loop.cpp:44-57).
THEOREM TimersNotOvertaken == Spec => NoOvertaking
<1>1. IInv /\ [Next]_vars =>
        [\A i, j \in 1..Len(timers) :
           (cur' = timers[i].cb /\ timers[j].cb < timers[i].cb)
             => timers[i].due < timers[j].due]_cur
  <2> SUFFICES ASSUME IInv, [Next]_vars, cur' # cur,
                      NEW i \in 1..Len(timers), NEW j \in 1..Len(timers),
                      cur' = timers[i].cb, timers[j].cb < timers[i].cb
               PROVE  timers[i].due < timers[j].due
    OBVIOUS
  <2>1. timers[i] \in Entry /\ timers[j] \in Entry /\ Len(timers) \in Nat
    BY DEF IInv, TypeOK
  <2>2. timers[i].cb \in Int /\ timers[j].cb \in Int
    BY <2>1 DEF Entry, Ids
  <2>3. j < i
    <3>1. i < j => timers[i].cb < timers[j].cb
      BY DEF IInv, Sorted
    <3>2. i # j
      BY <2>2
    <3>3. QED
      BY <2>1, <2>2, <3>1, <3>2
  <2>4. timers[i].due <= now /\ ~(timers[j].due <= now)
    BY <2>3, <2>1, FiredEntry DEF Due
  <2>5. QED
    BY <2>1, <2>4 DEF Entry, IInv, TypeOK
<1>2. QED
  BY <1>1, IInvAlways, PTL DEF Spec, NoOvertaking

-----------------------------------------------------------------------------
(* Deadlines on the simulated clock                                        *)

\* A set of instants has a least one.
LEMMA LeastNat ==
  ASSUME NEW T \in SUBSET Nat, T # {}
  PROVE  \E x \in T : \A y \in T : x <= y
<1> DEFINE R == OpToRel(<, Nat)
<1>1. IsWellFoundedOn(R, Nat)
  BY NatLessThanWellFounded
<1>2. \A x, y \in Nat : y < x => <<y, x>> \in R
  BY DEF OpToRel
<1> HIDE DEF R
<1>3. \E x \in T : \A y \in T : ~(<<y, x>> \in R)
  BY <1>1, WFMin
<1>4. PICK x \in T : \A y \in T : ~(<<y, x>> \in R)
  BY <1>3
<1>5. ASSUME NEW y \in T PROVE x <= y
  <2>1. ~(y < x)
    BY <1>2, <1>4
  <2> QED
    BY <2>1
<1> QED
  BY <1>4, <1>5

\* The deadline Run sleeps until is the earliest of the table.
LEMMA SleepTargetIsEarliest ==
  ASSUME timers \in Seq(Entry), \A i \in 1..Len(timers) : timers[i].due \in Nat
  PROVE  \A i \in 1..Len(timers) : SleepTarget \in Nat /\ SleepTarget <= timers[i].due
<1> SUFFICES ASSUME NEW k \in 1..Len(timers)
             PROVE  SleepTarget \in Nat /\ SleepTarget <= timers[k].due
  OBVIOUS
<1> DEFINE Dues   == {timers[i].due : i \in 1..Len(timers)}
           Pick(i) == /\ \A j \in 1..Len(timers) : timers[i].due <= timers[j].due
                      /\ \A j \in 1..(i - 1) : timers[i].due < timers[j].due
<1>0. Len(timers) \in Nat
  OBVIOUS
<1>1. PICK m \in Dues : \A y \in Dues : m <= y
  <2>1. timers[k].due \in Dues
    OBVIOUS
  <2>2. Dues \in SUBSET Nat /\ Dues # {}
    BY <2>1
  <2> HIDE DEF Dues
  <2> QED
    BY <2>2, LeastNat
<1> DEFINE First == {i \in 1..Len(timers) : timers[i].due = m}
<1>2. PICK i \in First : \A j \in First : i <= j
  <2>1. First \in SUBSET Nat /\ First # {}
    BY <1>0, <1>1
  <2> HIDE DEF First
  <2> QED
    BY <2>1, LeastNat
<1>3. i \in 1..Len(timers) /\ timers[i].due = m /\ m \in Nat
  BY <1>2
<1>4. \A j \in 1..Len(timers) : timers[i].due <= timers[j].due
  BY <1>1, <1>3
<1>5. ASSUME NEW j \in 1..(i - 1) PROVE timers[i].due < timers[j].due
  <2>1. j \in 1..Len(timers) /\ ~(i <= j)
    BY <1>0, <1>3
  <2>2. timers[j].due # m
    BY <2>1, <1>2
  <2>3. timers[j].due \in Nat /\ timers[i].due <= timers[j].due
    BY <2>1, <1>4
  <2> QED
    BY <2>2, <2>3, <1>3
<1>6. Pick(i)
  BY <1>4, <1>5
<1>7. EarliestTimer \in 1..Len(timers) /\ Pick(EarliestTimer)
  <2> HIDE DEF Pick
  <2>1. EarliestTimer = CHOOSE n \in 1..Len(timers) : Pick(n)
    BY DEF EarliestTimer, Pick
  <2> QED
    BY <1>3, <1>6, <2>1
<1> QED
  BY <1>7 DEF SleepTarget

\* Only an Advance makes a timer of the simulated clock overdue.
LEMMA OnTimeStep ==
  ASSUME IInv, IInv', OnTime, [Next]_vars PROVE OnTime'
<1> SUFFICES ASSUME clockKind' = "simulated", NEW i \in 1..Len(timers')
             PROVE  clock' <= timers'[i].due \/ timers'[i].cb \in skipped'
  BY DEF OnTime
<1>0. /\ timers \in Seq(Entry) /\ Len(timers) \in Nat /\ clock \in Nat
      /\ \A j \in 1..Len(timers) : timers[j] \in Entry /\ timers[j].due \in Nat
  <2>1. timers \in Seq(Entry) /\ Len(timers) \in Nat /\ clock \in Nat
    BY DEF IInv, TypeOK
  <2>2. \A j \in 1..Len(timers) : timers[j] \in Entry
    BY <2>1
  <2> QED
    BY <2>1, <2>2 DEF Entry
<1>1. clockKind = "simulated"
  BY DEF Next, UserCall, LoopStep, Post, Stop, PostAfter, Advance, CallbackReturn, RunOnce,
         Run, DrainOne, ReadNow, FireFirstDue, RunOnceReturn, RunIterate, RunStopped, RunIdle,
         Wake, Tick, vars
<1>2. \A j \in 1..Len(timers) : clock <= timers[j].due \/ timers[j].cb \in skipped
  BY <1>1 DEF OnTime
<1>3. ASSUME NEW d \in Delays, PostAfter(d)
      PROVE  clock' <= timers'[i].due \/ timers'[i].cb \in skipped'
  <2>1. d \in Nat /\ clock' = clock /\ skipped' = skipped
    BY <1>3, LoopAssumption DEF PostAfter
  <2>2. CASE timers' = timers
    BY <1>2, <2>1, <2>2
  <2>3. CASE timers' = Append(timers, [due |-> clock + d, cb |-> nextId])
    <3>1. i \in 1..Len(timers) \/ i = Len(timers) + 1
      BY <1>0, <2>3
    <3>2. CASE i \in 1..Len(timers)
      <4>1. timers'[i] = timers[i]
        BY <1>0, <2>3, <3>2
      <4> QED
        BY <1>2, <2>1, <3>2, <4>1
    <3>3. CASE i = Len(timers) + 1
      BY <1>0, <2>1, <2>3, <3>3
    <3> QED
      BY <3>1, <3>2, <3>3
  <2> QED
    BY <1>3, <2>2, <2>3 DEF PostAfter
<1>4. CASE FireFirstDue
  <2>1. PICK k \in 1..Len(timers) : timers' = Erase(timers, k)
    BY <1>4 DEF FireFirstDue
  <2>2. clock' = clock /\ skipped' = skipped
    BY <1>4 DEF FireFirstDue
  <2>3. \E j \in 1..Len(timers) : timers'[i] = timers[j]
    BY <1>0, <2>1 DEF Erase
  <2> QED
    BY <1>2, <2>2, <2>3
<1>5. CASE Tick
  <2>1. timers' = timers /\ clock' = clock + 1 /\ clock < SleepTarget /\ skipped' = skipped
    BY <1>1, <1>5 DEF Tick, object
  <2>2. i \in 1..Len(timers)
    BY <2>1
  <2>3. SleepTarget \in Nat /\ SleepTarget <= timers[i].due /\ timers[i].due \in Nat
    BY <1>0, <2>2, SleepTargetIsEarliest
  <2> QED
    BY <1>0, <2>1, <2>3
<1>6. ASSUME NEW d \in Delays, Advance(d)
      PROVE  clock' <= timers'[i].due \/ timers'[i].cb \in skipped'
  <2>1. /\ timers' = timers /\ clock' = clock + d /\ d \in Nat
        /\ \A j \in 1..Len(timers) : timers[j].due < clock + d => timers[j].cb \in skipped'
    BY <1>6, LoopAssumption DEF Advance, object
  <2>2. i \in 1..Len(timers)
    BY <2>1
  <2> QED
    BY <1>0, <2>1, <2>2
<1>7. CASE /\ ~Tick /\ ~FireFirstDue
           /\ ~\E d \in Delays : PostAfter(d) \/ Advance(d)
  <2>1. timers' = timers /\ clock' = clock /\ skipped' = skipped
    BY <1>7 DEF Next, UserCall, LoopStep, Post, Stop, CallbackReturn, RunOnce, Run,
         DrainOne, ReadNow, RunOnceReturn, RunIterate, RunStopped, RunIdle,
         Wake, vars, object
  <2> QED
    BY <1>2, <2>1
<1> QED
  BY <1>3, <1>4, <1>5, <1>6, <1>7

\* On the simulated clock Run never sleeps past a deadline (loop.cpp:68-69):
\* a timer is overdue only when its owner's Advance jumped past it, whatever
\* the delays, zero included.
THEOREM TimersOnTime == Spec => []OnTime
<1>1. Init => OnTime
  BY DEF Init, OnTime
<1>2. IInv /\ IInv' /\ OnTime /\ [Next]_vars => OnTime'
  BY OnTimeStep
<1> QED
  BY <1>1, <1>2, IInvAlways, PTL DEF Spec

\* The test TimersFireInDueOrder for every program: the entry that fires has
\* been reached by the clock, and a deadline behind it is one that an Advance
\* jumped past.
THEOREM DueOrder == Spec => TimersFireInDueOrder
<1>1. IInv /\ OnTime /\ [Next]_vars =>
        [clockKind = "simulated" =>
           \A i, j \in 1..Len(timers) :
             cur' = timers[i].cb =>
               timers[i].due <= timers[j].due \/ timers[j].cb \in skipped]_cur
  <2> SUFFICES ASSUME IInv, OnTime, [Next]_vars, cur' # cur, clockKind = "simulated",
                      NEW i \in 1..Len(timers), NEW j \in 1..Len(timers),
                      cur' = timers[i].cb, timers[j].cb \notin skipped
               PROVE  timers[i].due <= timers[j].due
    OBVIOUS
  <2>1. timers[i].due <= now
    BY FiredEntry DEF Due
  <2>2. clock <= timers[j].due
    BY DEF OnTime
  <2>3. timers[i] \in Entry /\ timers[j] \in Entry
    BY DEF IInv, TypeOK
  <2> QED
    BY <2>1, <2>2, <2>3 DEF IInv, TypeOK, Control, Entry
<1> QED
  BY <1>1, IInvAlways, TimersOnTime, PTL DEF Spec, TimersFireInDueOrder

-----------------------------------------------------------------------------
(* What a phase of RunOnce invokes                                         *)

\* Submissions during a phase join what the phase invokes in one case only:
\* Post goes behind the batch, and a timer ends after the phase's `now` unless
\* its delay is zero and the clock still stands at `now`.
LEMMA DeferredStep ==
  ASSUME IInv, IInv', Deferred, [Next]_vars
  PROVE  Deferred'
<1>0. /\ immediate \in Seq(Ids) /\ timers \in Seq(Entry)
      /\ Len(immediate) \in Nat /\ Len(timers) \in Nat /\ batch \in Nat
      /\ now \in Nat /\ clock \in Nat /\ now <= clock
      /\ mark \in Nat /\ nextId \in Nat /\ cur \in Nat
      /\ \A id \in accepted : id \in Nat /\ id < nextId
  BY DEF IInv, TypeOK, Control, Kinds, Ids, NoCb
<1>1. CASE Post
  <2>1. UNCHANGED <<timers, pc, batch, now, cur, mark>>
    BY <1>1 DEF Post, control
  <2>2. pc = "drain" => \A i \in 1..batch : immediate'[i] = immediate[i]
    <3> SUFFICES ASSUME pc = "drain", NEW i \in 1..batch PROVE immediate'[i] = immediate[i]
      OBVIOUS
    <3>1. i \in 1..Len(immediate)
      BY <1>0 DEF IInv, DrainSafe
    <3>2. immediate' = immediate \/ immediate' = Append(immediate, nextId)
      BY <1>1 DEF Post
    <3>3. QED
      BY <3>1, <3>2, <1>0
  <2>3. QED
    BY <2>1, <2>2 DEF Deferred, Due
<1>2. ASSUME NEW d \in Delays, PostAfter(d) PROVE Deferred'
  <2>1. UNCHANGED <<immediate, pc, batch, now, cur, mark>>
    BY <1>2 DEF PostAfter, control
  <2>2. d \in Nat
    BY LoopAssumption
  <2>3. pc = "fire" => \A i \in 1..Len(timers') :
                         (Due(i)' /\ timers'[i].cb >= mark) => timers'[i].due = now
    <3>1. CASE timers' = timers
      BY <3>1, <2>1 DEF Deferred, Due
    <3>2. CASE timers' = Append(timers, [due |-> clock + d, cb |-> nextId])
      <4> SUFFICES ASSUME pc = "fire", NEW i \in 1..Len(timers'), Due(i)',
                          timers'[i].cb >= mark
                   PROVE  timers'[i].due = now
        OBVIOUS
      <4>1. Len(timers') = Len(timers) + 1
        BY <3>2, <1>0
      <4>2. CASE i \in 1..Len(timers)
        <5>1. timers'[i] = timers[i]
          BY <3>2, <4>2, <1>0
        <5>2. QED
          BY <4>2, <5>1, <2>1 DEF Deferred, Due
      <4>3. CASE i = Len(timers) + 1
        <5>1. timers'[i] = [due |-> clock + d, cb |-> nextId]
          BY <3>2, <4>3, <1>0
        <5>2. clock + d <= now
          BY <5>1, <2>1 DEF Due
        <5>3. QED
          BY <5>1, <5>2, <2>2, <1>0
      <4>4. QED
        BY <4>1, <4>2, <4>3, <1>0
    <3>3. QED
      BY <1>2, <3>1, <3>2 DEF PostAfter
  <2>4. QED
    BY <2>1, <2>3 DEF Deferred
<1>3. CASE CallbackReturn
  BY <1>3 DEF CallbackReturn, object, Deferred, Due
<1>4. CASE RunOnce \/ RunIterate
  <2>1. /\ pc' = "drain" /\ batch' = Len(immediate) /\ mark' = nextId
        /\ immediate' = immediate
    BY <1>4 DEF RunOnce, RunIterate, EnterRunOnce, object
  <2>2. \A i \in 1..Len(immediate) : immediate[i] < nextId
    BY <1>0 DEF IInv, Conservation, Queued
  <2>3. QED
    BY <2>1, <2>2 DEF Deferred
<1>5. CASE DrainOne
  <2>1. /\ pc = "drain" /\ pc' = "drain" /\ mark' = mark /\ batch' = batch - 1
        /\ batch > 0 /\ immediate' = Tail(immediate)
    BY <1>5 DEF DrainOne, history
  <2>2. immediate # <<>> /\ batch <= Len(immediate)
    BY <2>1, <1>0 DEF IInv, DrainSafe
  <2>3. \A i \in 1..(Len(immediate) - 1) : immediate'[i] = immediate[i + 1]
    BY <2>1, <2>2, <1>0
  <2>4. \A i \in 1..batch : immediate[i] < mark
    BY <2>1 DEF Deferred
  <2>5. \A i \in 1..batch' : immediate'[i] < mark'
    <3> SUFFICES ASSUME NEW i \in 1..batch' PROVE immediate'[i] < mark'
      OBVIOUS
    <3>1. i + 1 \in 1..batch /\ i \in 1..(Len(immediate) - 1)
      BY <2>1, <2>2, <1>0
    <3>2. QED
      BY <3>1, <2>1, <2>3, <2>4
  <2>6. QED
    BY <2>1, <2>5 DEF Deferred
<1>6. CASE ReadNow
  <2>1. /\ pc' = "fire" /\ mark' = nextId /\ timers' = timers
    BY <1>6 DEF ReadNow, object
  <2>2. \A i \in 1..Len(timers) : timers[i].cb < nextId /\ timers[i].cb \in Nat
    BY <1>0 DEF IInv, Conservation, TimerCbs
  <2>3. QED
    BY <2>1, <2>2, <1>0 DEF Deferred
<1>7. CASE FireFirstDue
  <2>1. PICK k \in 1..Len(timers) :
          Due(k) /\ timers' = Erase(timers, k)
    BY <1>7 DEF FireFirstDue
  <2>2. pc = "fire" /\ UNCHANGED <<pc, now, mark>>
    BY <1>7 DEF FireFirstDue, history
  <2>3. /\ Len(timers') = Len(timers) - 1
        /\ \A j \in 1..Len(timers') :
             timers'[j] = IF j < k THEN timers[j] ELSE timers[j + 1]
    BY <2>1, <1>0, EraseFacts
  <2>4. \A j \in 1..Len(timers') : (Due(j)' /\ timers'[j].cb >= mark') => timers'[j].due = now'
    <3> SUFFICES ASSUME NEW j \in 1..Len(timers'), Due(j)', timers'[j].cb >= mark'
                 PROVE  timers'[j].due = now'
      OBVIOUS
    <3>1. PICK i \in 1..Len(timers) : timers'[j] = timers[i]
      <4>1. j \in 1..Len(timers) /\ j + 1 \in 1..Len(timers)
        BY <2>3, <1>0
      <4>2. QED
        BY <4>1, <2>3
    <3>2. Due(i)
      BY <3>1, <2>2 DEF Due
    <3>3. QED
      BY <3>1, <3>2, <2>2 DEF Deferred
  <2>5. QED
    BY <2>2, <2>4 DEF Deferred
<1>8. CASE Run \/ RunStopped \/ RunIdle \/ Wake \/ RunOnceReturn
  <2>1. pc' \notin {"drain", "fire"}
    BY <1>8 DEF Run, RunStopped, RunIdle, RunReturn, Wake, RunOnceReturn
  <2>2. QED
    BY <2>1 DEF Deferred
<1>9. CASE Stop \/ Tick \/ UNCHANGED vars
  BY <1>9 DEF Stop, Tick, vars, object, control, history, Deferred, Due
<1>10. ASSUME NEW d \in Delays, Advance(d) PROVE Deferred'
  BY <1>10 DEF Advance, object, control, history, Deferred, Due
<1>11. QED
  BY <1>1, <1>2, <1>3, <1>4, <1>5, <1>6, <1>7, <1>8, <1>9, <1>10 DEF Next, UserCall, LoopStep

\* What a phase of RunOnce invokes was submitted before the phase, but for a
\* timer of delay zero submitted while the clock stands still: this is what
\* the code keeps of the comment at loop.cpp:32-33, for every set of delays.
THEOREM LaterWorkDeferred == Spec => RunOnceDefers
<1>1. Init => IInv /\ Deferred
  <2>1. Init => Deferred
    BY DEF Init, Deferred
  <2>2. QED
    BY <2>1, IInvInit
<1>2. IInv /\ Deferred /\ [Next]_vars => IInv' /\ Deferred'
  BY IInvStep, DeferredStep
<1>3. IInv /\ Deferred /\ [Next]_vars =>
        [(cur' # NoCb /\ cur' >= mark) =>
           \E i \in 1..Len(timers) : timers[i].cb = cur' /\ timers[i].due = now]_cur
  <2> SUFFICES ASSUME IInv, Deferred, [Next]_vars, cur' # cur, cur' # NoCb, cur' >= mark
               PROVE  \E i \in 1..Len(timers) : timers[i].cb = cur' /\ timers[i].due = now
    OBVIOUS
  <2>1. CASE DrainOne
    <3>1. /\ immediate \in Seq(Ids) /\ batch \in Nat /\ mark \in Nat
          /\ batch > 0 /\ batch <= Len(immediate) /\ cur' = Head(immediate)
          /\ pc = "drain"
      BY <2>1 DEF IInv, TypeOK, DrainSafe, DrainOne
    <3>2. cur' = immediate[1] /\ 1 \in 1..batch /\ cur' \in Ids
      BY <3>1
    <3>3. cur' < mark
      BY <3>1, <3>2 DEF Deferred
    <3>4. QED
      BY <3>1, <3>2, <3>3 DEF Ids
  <2>2. CASE FireFirstDue
    BY <2>2 DEF FireFirstDue, Deferred
  <2>3. QED
    BY <2>1, <2>2, StartStep
<1>4. QED
  BY <1>1, <1>2, <1>3, PTL DEF Spec, RunOnceDefers

-----------------------------------------------------------------------------
(* Refinement                                                              *)

LEMMA OnceInit == Init => Once!Init
<1> SUFFICES ASSUME Init PROVE Once!Init
  OBVIOUS
<1>1. Len(immediate) = 0 /\ Len(timers) = 0
  BY DEF Init
<1>2. Queued = {} /\ TimerCbs = {} /\ Current = {}
  BY <1>1 DEF Queued, TimerCbs, Current, Init, NoCb
<1>3. QED
  BY <1>2 DEF Once!Init, Init

\* What waits is what was accepted and has not started.
LEMMA PendingIs ==
  ASSUME Conservation
  PROVE  Queued \cup TimerCbs = accepted \ (Current \cup ran)
BY DEF Conservation

LEMMA OnceStep ==
  ASSUME IInv, IInv', [Next]_vars PROVE [Once!Next]_(Once!vars)
<1> DEFINE P == Queued \cup TimerCbs
<1>1. P = accepted \ (Current \cup ran) /\ P' = accepted' \ (Current' \cup ran')
  BY PendingIs DEF IInv, Conservation
<1>2. CASE Post \/ \E d \in Delays : PostAfter(d)
  <2>1. cur' = cur /\ ran' = ran /\ nextId \in Ids
        /\ (accepted' = accepted \/ accepted' = accepted \cup {nextId})
    <3>1. cur' = cur /\ ran' = ran /\ \E ok : Submit(ok)
      BY <1>2 DEF Post, PostAfter, control
    <3>2. nextId \in Ids
      BY <3>1, LoopAssumption DEF Submit, IInv, TypeOK, Ids
    <3>3. QED
      BY <3>1, <3>2 DEF Submit
  <2>2. Current' = Current
    BY <2>1 DEF Current
  <2>3. nextId \notin accepted
    BY DEF IInv, Kinds, TypeOK
  <2>4. nextId \notin P \cup Current \cup ran
    BY <2>3 DEF IInv, Conservation
  <2>5. CASE accepted' = accepted
    BY <1>1, <2>1, <2>2, <2>5 DEF Once!vars
  <2>6. CASE accepted' = accepted \cup {nextId}
    <3>1. P' = P \cup {nextId}
      BY <1>1, <2>1, <2>2, <2>4, <2>6
    <3>2. Once!Accept(nextId)
      BY <2>1, <2>2, <2>4, <3>1 DEF Once!Accept
    <3>3. QED
      BY <2>1, <3>2 DEF Once!Next
  <2>7. QED
    BY <2>1, <2>5, <2>6
<1>3. CASE DrainOne \/ FireFirstDue
  <2>1. cur = NoCb /\ UNCHANGED <<accepted, ran>>
    BY <1>3 DEF DrainOne, FireFirstDue, history
  <2>2. cur' \in Ids /\ cur' # NoCb
    <3>1. CASE DrainOne
      <4>1. immediate \in Seq(Ids) /\ immediate # <<>> /\ cur' = Head(immediate)
        BY <3>1 DEF IInv, TypeOK, DrainSafe, DrainOne
      <4>2. cur' \in Ids
        BY <4>1
      <4>3. QED
        BY <4>2 DEF Ids, NoCb
    <3>2. CASE FireFirstDue
      <4>1. PICK k \in 1..Len(timers) : cur' = timers[k].cb
        BY <3>2 DEF FireFirstDue
      <4>2. timers[k] \in Entry
        BY DEF IInv, TypeOK
      <4>3. QED
        BY <4>1, <4>2 DEF Entry, Ids, NoCb
    <3>3. QED
      BY <1>3, <3>1, <3>2
  <2>3. Current = {} /\ Current' = {cur'}
    BY <2>1, <2>2 DEF Current
  <2>4. cur' \in accepted' /\ cur' \notin ran'
    BY <2>3 DEF IInv, Conservation
  <2>5. cur' \in P /\ P' = P \ {cur'}
    BY <1>1, <2>1, <2>3, <2>4
  <2>6. Once!Start(cur')
    BY <2>1, <2>3, <2>5 DEF Once!Start
  <2>7. QED
    BY <2>2, <2>6 DEF Once!Next
<1>4. CASE CallbackReturn
  <2>1. cur # NoCb /\ cur' = NoCb /\ ran' = ran \cup {cur} /\ accepted' = accepted
    BY <1>4 DEF CallbackReturn
  <2>2. Current = {cur} /\ Current' = {} /\ cur \in Ids
    BY <2>1 DEF Current, IInv, TypeOK
  <2>3. P' = P
    BY <1>1, <2>1, <2>2
  <2>4. Once!Finish(cur)
    BY <2>1, <2>2, <2>3 DEF Once!Finish
  <2>5. QED
    BY <2>2, <2>4 DEF Once!Next
<1>5. CASE \/ Stop \/ RunOnce \/ Run \/ ReadNow \/ RunOnceReturn \/ RunIterate
           \/ RunStopped \/ RunIdle \/ Wake \/ Tick \/ UNCHANGED vars
  <2>1. UNCHANGED <<immediate, timers, cur, ran>>
    BY <1>5 DEF Stop, RunOnce, Run, ReadNow, RunOnceReturn, RunIterate, RunStopped,
        RunIdle, Wake, Tick, vars, object, control, history
  <2>2. QED
    BY <2>1 DEF Once!vars, Queued, TimerCbs, Current
<1>6. ASSUME NEW d \in Delays, Advance(d) PROVE [Once!Next]_(Once!vars)
  <2>1. UNCHANGED <<immediate, timers, cur, ran>>
    BY <1>6 DEF Advance, object, control, history
  <2>2. QED
    BY <2>1 DEF Once!vars, Queued, TimerCbs, Current
<1>7. QED
  BY <1>2, <1>3, <1>4, <1>5, <1>6 DEF Next, UserCall, LoopStep

\* The loop implements the exactly-once executor: a refused submission never
\* runs, an accepted one starts at most once, callbacks never overlap.
THEOREM LoopRunsOnce == Spec => ImplementsOnce
BY IInvInit, IInvStep, OnceInit, OnceStep, PTL DEF Spec, ImplementsOnce, Once!Spec
=============================================================================
