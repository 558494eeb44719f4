-------------------------- MODULE McpDaemonProofs --------------------------
(***************************************************************************)
(* Proofs about the MCP daemon, for any number of connections, requests    *)
(* and tools, any limits and any capacities.                               *)
(*                                                                         *)
(* Counting permits needs more than the count itself: a request is in the  *)
(* workers' hands exactly while it has a handler, and a waiter (Workers),  *)
(* so a permit taken is always that of a request that had none.  The       *)
(* answers rest on the same fact: a frame is sent only by the one thread   *)
(* that has the request, and it leaves that thread's hands with it.        *)
(***************************************************************************)
EXTENDS McpDaemon, TLAPS, FiniteSetTheorems

\* The requests that hold a permit of tool t.
Holders(t) == {r \in Called(t) : handler[r] \in {"running", "returned", "panicked"}}

\* The scheduler hands a request to a handler and to a waiter at once, and
\* what it sends itself, or hands over, is of the kind that calls for it.
Workers ==
  \A r \in Requests :
    /\ handler[r] # "none" <=> at[r] = "workers"
    /\ waiter[r] # "none" <=> at[r] = "workers"
    /\ at[r] \in {"workers", "limited"} => KindOf[r] = "call"
    /\ at[r] = "replying" => KindOf[r] = "inline"

\* The count behind the mutex is the number of holders, and within the limit.
Permits ==
  \A t \in Tools :
    /\ IsFiniteSet(Holders(t))
    /\ active[t] = Cardinality(Holders(t))
    /\ active[t] <= MaxConcurrency[t]

\* What a waiter has decided to answer is true of its handler.
Decided ==
  \A r \in Requests :
    /\ waiter[r] = "Result" => handler[r] \in {"returned", "gone"}
    /\ waiter[r] = "WORKER_DISCONNECTED" => handler[r] = "panicked"

\* Only a request that its thread is done with has been answered.
Answered ==
  \A r \in Requests : answers[r] # <<>> => at[r] = "done" \/ waiter[r] = "done"

DaemonInv == TypeOK /\ Workers /\ Permits

AnswerInv == Decided /\ Answered /\ AnsweredOnceTruthfully

-----------------------------------------------------------------------------

\* Every request has its connection.
LEMMA ConnOfType == ConnOf \in [Requests -> Conns]
<1>1. ASSUME NEW r \in Requests
      PROVE  (CHOOSE c \in Conns : IsOnlyIn(r, c)) \in Conns
  <2>1. \E c \in Conns : IsOnlyIn(r, c)
    BY DaemonAssumption
  <2>2. QED
    BY <2>1
<1>2. QED
  BY <1>1 DEF ConnOf

\* A frame carries the connection of its request.
LEMMA FrameType ==
  ASSUME NEW r \in Requests,
         NEW kind \in Outcomes \cup {"Inline", "RATE_LIMITED", "Health"}
  PROVE  Frame(r, kind) \in Frames
BY ConnOfType DEF Frame, Frames

\* A send puts one frame, addressed to the request's connection, into a
\* channel that has room for it, or none at all.
LEMMA RespondType ==
  ASSUME TypeOK, NEW r \in Requests,
         NEW kind \in Outcomes \cup {"Inline", "RATE_LIMITED", "Health"},
         Respond(r, kind)
  PROVE  /\ channel' \in [Conns -> Seq(Frames)]
         /\ \A c \in Conns : Len(channel'[c]) <= ChannelCapacity
         /\ answers' \in [Requests -> Seq(Frames)]
         /\ \/ answers' = answers
            \/ answers' = [answers EXCEPT ![r] = Append(@, Frame(r, kind))]
         /\ \/ channel' = channel
            \/ channel' = [channel EXCEPT ![ConnOf[r]] = Append(@, Frame(r, kind))]
<1> DEFINE c == ConnOf[r]
           f == Frame(r, kind)
<1>1. c \in Conns /\ f \in Frames
  BY ConnOfType, FrameType
<1> HIDE DEF f
<1>2. CASE UNCHANGED <<channel, answers>>
  BY <1>2 DEF TypeOK
<1>3. CASE /\ Len(channel[c]) < ChannelCapacity
           /\ channel' = [channel EXCEPT ![c] = Append(@, f)]
           /\ answers' = [answers EXCEPT ![r] = Append(@, f)]
  <2>1. /\ Append(channel[c], f) \in Seq(Frames)
        /\ Len(Append(channel[c], f)) = Len(channel[c]) + 1
        /\ Append(answers[r], f) \in Seq(Frames)
    BY <1>1 DEF TypeOK
  <2>2. channel' \in [Conns -> Seq(Frames)] /\ answers' \in [Requests -> Seq(Frames)]
    BY <1>3, <1>1, <2>1 DEF TypeOK
  <2>3. \A d \in Conns : Len(channel'[d]) <= ChannelCapacity
    BY <1>3, <1>1, <2>1, DaemonAssumption DEF TypeOK
  <2>4. QED
    BY <1>3, <2>2, <2>3 DEF f
<1>4. QED
  BY <1>2, <1>3 DEF Respond, f

\* The scheduler takes from a queue that stays within its capacity.
LEMMA TakesType ==
  ASSUME TypeOK, NEW r \in Requests, Takes(r)
  PROVE  queue' \in Seq(Requests) /\ Len(queue') <= QueueCapacity
BY DaemonAssumption DEF TypeOK, Takes

\* Every step keeps the types.
LEMMA TypeOKStep == TypeOK /\ [Next]_vars => TypeOK'
<1> SUFFICES ASSUME TypeOK, [Next]_vars PROVE TypeOK'
  OBVIOUS
<1> USE DEF TypeOK
<1>1. ASSUME NEW r \in Requests, ReaderReads(r) PROVE TypeOK'
  BY <1>1 DEF ReaderReads, Moves, Places
<1>2. ASSUME NEW r \in Requests, ReaderForwards(r) PROVE TypeOK'
  BY <1>2, DaemonAssumption DEF ReaderForwards, Moves, Places
<1>3. ASSUME NEW r \in Requests, ReaderAnswers(r) PROVE TypeOK'
  BY <1>3, RespondType DEF ReaderAnswers, Moves, Places
<1>4. ASSUME NEW r \in Requests, SchedulerSkips(r) \/ SchedulerReplies(r) \/ SchedulerLimits(r)
      PROVE  TypeOK'
  <2>1. PICK to \in Places : at' = [at EXCEPT ![r] = to]
    BY <1>4 DEF SchedulerSkips, SchedulerReplies, SchedulerLimits, Moves, Places
  <2>2. Takes(r)
    BY <1>4 DEF SchedulerSkips, SchedulerReplies, SchedulerLimits
  <2>3. UNCHANGED <<active, handler, waiter, channel, open, receiving, answers, delivered>>
    BY <1>4 DEF SchedulerSkips, SchedulerReplies, SchedulerLimits
  <2>4. QED
    BY <2>1, <2>2, <2>3, TakesType
<1>5. ASSUME NEW r \in Requests, SchedulerSpawns(r) PROVE TypeOK'
  <2>1. queue' \in Seq(Requests) /\ Len(queue') <= QueueCapacity
    BY <1>5, TakesType DEF SchedulerSpawns
  <2>2. ToolOf[r] \in Tools
    BY DaemonAssumption
  <2>3. active' \in [Tools -> Nat]
    BY <1>5, <2>2 DEF SchedulerSpawns
  <2>4. /\ at' \in [Requests -> Places]
        /\ handler' \in [Requests -> {"none", "running", "returned", "gone", "panicked"}]
        /\ waiter' \in [Requests -> {"none", "waiting", "done"} \cup Outcomes]
    BY <1>5 DEF SchedulerSpawns, Moves, Places
  <2>5. UNCHANGED <<channel, open, receiving, answers, delivered>>
    BY <1>5 DEF SchedulerSpawns
  <2>6. QED
    BY <2>1, <2>3, <2>4, <2>5
<1>6. ASSUME NEW r \in Requests, SchedulerSends(r) PROVE TypeOK'
  <2>1. PICK kind \in {"Inline", "RATE_LIMITED"} : Respond(r, kind)
    BY <1>6 DEF SchedulerSends
  <2>2. QED
    BY <1>6, <2>1, RespondType DEF SchedulerSends, Moves, Places
<1>7. ASSUME NEW r \in Requests, HandlerReturns(r) \/ HandlerPanics(r) PROVE TypeOK'
  <2>1. PICK state \in {"returned", "panicked"} : handler' = [handler EXCEPT ![r] = state]
    BY <1>7 DEF HandlerReturns, HandlerPanics
  <2>2. UNCHANGED <<at, queue, active, waiter, channel, open, receiving, answers, delivered>>
    BY <1>7 DEF HandlerReturns, HandlerPanics
  <2>3. QED
    BY <2>1, <2>2
<1>8. ASSUME NEW r \in Requests, HandlerReleases(r) PROVE TypeOK'
  <2>1. ToolOf[r] \in Tools
    BY DaemonAssumption
  <2>2. (IF active[ToolOf[r]] = 0 THEN 0 ELSE active[ToolOf[r]] - 1) \in Nat
    BY <2>1
  <2>3. active' \in [Tools -> Nat]
    BY <1>8, <2>1, <2>2 DEF HandlerReleases
  <2>4. QED
    BY <1>8, <2>3 DEF HandlerReleases
<1>9. ASSUME NEW r \in Requests, WaiterReceives(r) \/ WaiterDisconnected(r) \/ WaiterTimesOut(r)
      PROVE  TypeOK'
  <2>1. PICK outcome \in Outcomes : WaiterStops(r, outcome)
    BY <1>9 DEF WaiterReceives, WaiterDisconnected, WaiterTimesOut, Outcomes
  <2>2. QED
    BY <2>1 DEF WaiterStops
<1>10. ASSUME NEW r \in Requests, WaiterSends(r) PROVE TypeOK'
  <2>1. waiter[r] \in Outcomes /\ Respond(r, waiter[r])
    BY <1>10 DEF WaiterSends
  <2>2. QED
    BY <1>10, <2>1, RespondType DEF WaiterSends
<1>11. ASSUME NEW c \in Conns, WriterWrites(c) PROVE TypeOK'
  <2>1. /\ Head(channel[c]) \in Frames
        /\ Tail(channel[c]) \in Seq(Frames)
        /\ Len(Tail(channel[c])) <= ChannelCapacity
    BY <1>11, DaemonAssumption DEF WriterWrites
  <2>2. Head(channel[c]).request \in Requests
    BY <2>1 DEF Frames
  <2>3. QED
    BY <1>11, <2>1, <2>2 DEF WriterWrites
<1>12. ASSUME NEW c \in Conns, WriterLoses(c) PROVE TypeOK'
  <2>1. /\ Tail(channel[c]) \in Seq(Frames)
        /\ Len(Tail(channel[c])) <= ChannelCapacity
        /\ <<>> \in Seq(Frames) /\ Len(<<>>) <= ChannelCapacity
    BY <1>12, DaemonAssumption DEF WriterLoses
  <2>2. QED
    BY <1>12, <2>1 DEF WriterLoses
<1>13. ASSUME NEW c \in Conns, ClientLeaves(c) PROVE TypeOK'
  BY <1>13 DEF ClientLeaves
<1>14. CASE UNCHANGED vars
  BY <1>14 DEF vars
<1>15. QED
  BY <1>1, <1>2, <1>3, <1>4, <1>5, <1>6, <1>7, <1>8, <1>9, <1>10, <1>11,
     <1>12, <1>13, <1>14
     DEF Next, Scheduler, Reader, Waiter, Writer

-----------------------------------------------------------------------------

\* The hand-over to handler and waiter is one step, and nothing is taken back.
LEMMA WorkersStep == TypeOK /\ Workers /\ [Next]_vars => Workers'
<1> SUFFICES ASSUME TypeOK, Workers, [Next]_vars PROVE Workers'
  OBVIOUS
<1> USE DEF TypeOK, Workers
<1>1. ASSUME NEW r \in Requests, ReaderReads(r) PROVE Workers'
  BY <1>1 DEF ReaderReads, Moves
<1>2. ASSUME NEW r \in Requests, ReaderForwards(r) PROVE Workers'
  BY <1>2 DEF ReaderForwards, Moves
<1>3. ASSUME NEW r \in Requests, ReaderAnswers(r) PROVE Workers'
  BY <1>3 DEF ReaderAnswers, Moves
<1>4. ASSUME NEW r \in Requests, SchedulerSkips(r) PROVE Workers'
  BY <1>4 DEF SchedulerSkips, Moves
<1>5. ASSUME NEW r \in Requests, SchedulerReplies(r) PROVE Workers'
  BY <1>5 DEF SchedulerReplies, Moves
<1>6. ASSUME NEW r \in Requests, SchedulerLimits(r) PROVE Workers'
  BY <1>6 DEF SchedulerLimits, Moves
<1>7. ASSUME NEW r \in Requests, SchedulerSpawns(r) PROVE Workers'
  BY <1>7 DEF SchedulerSpawns, Moves
<1>8. ASSUME NEW r \in Requests, SchedulerSends(r) PROVE Workers'
  <2>1. at[r] \in {"replying", "limited"} /\ at' = [at EXCEPT ![r] = "done"]
    BY <1>8 DEF SchedulerSends, Moves
  <2>2. UNCHANGED <<handler, waiter>>
    BY <1>8 DEF SchedulerSends
  <2>3. QED
    BY <2>1, <2>2
<1>9. ASSUME NEW r \in Requests, HandlerReturns(r) PROVE Workers'
  BY <1>9 DEF HandlerReturns
<1>10. ASSUME NEW r \in Requests, HandlerReleases(r) PROVE Workers'
  BY <1>10 DEF HandlerReleases
<1>11. ASSUME NEW r \in Requests, HandlerPanics(r) PROVE Workers'
  BY <1>11 DEF HandlerPanics
<1>12. ASSUME NEW r \in Requests, NEW outcome \in Outcomes, WaiterStops(r, outcome) PROVE Workers'
  BY <1>12 DEF WaiterStops, Outcomes
<1>13. ASSUME NEW r \in Requests, WaiterSends(r) PROVE Workers'
  BY <1>13 DEF WaiterSends, Outcomes
<1>14. CASE UNCHANGED <<at, handler, waiter>>
  BY <1>14
<1>15. ASSUME NEW c \in Conns, Writer(c) \/ ClientLeaves(c) PROVE UNCHANGED <<at, handler, waiter>>
  BY <1>15 DEF Writer, WriterWrites, WriterLoses, ClientLeaves
<1>16. QED
  BY <1>1, <1>2, <1>3, <1>4, <1>5, <1>6, <1>7, <1>8, <1>9, <1>10, <1>11,
     <1>12, <1>13, <1>14, <1>15
     DEF Next, Scheduler, Reader, Waiter, WaiterReceives, WaiterDisconnected,
         WaiterTimesOut, Outcomes, vars

\* A limit is a positive number.
LEMMA LimitType == \A t \in Tools : MaxConcurrency[t] \in Nat /\ MaxConcurrency[t] > 0
BY DaemonAssumption

\* A permit is taken for a request that held none and below the limit, and
\* given back by one that held it; a handler that returns or panics, and a
\* waiter that gives up, keep the count as it is.
LEMMA PermitsStep == TypeOK /\ Workers /\ Permits /\ [Next]_vars => Permits'
<1> SUFFICES ASSUME TypeOK, Workers, Permits, [Next]_vars PROVE Permits'
  OBVIOUS
<1>1. ASSUME NEW r \in Requests, SchedulerSpawns(r) PROVE Permits'
  <2> DEFINE t == ToolOf[r]
  <2>1. t \in Tools
    BY DaemonAssumption
  <2>2. r \notin Holders(t)
    BY <1>1 DEF SchedulerSpawns, Moves, Workers, Holders, Called
  <2>3. Holders(t)' = Holders(t) \cup {r}
    BY <1>1 DEF SchedulerSpawns, Holders, Called, TypeOK
  <2>4. \A u \in Tools \ {t} : Holders(u)' = Holders(u)
    BY <1>1 DEF SchedulerSpawns, Holders, Called, TypeOK
  <2>5. /\ active'[t] = active[t] + 1
        /\ \A u \in Tools \ {t} : active'[u] = active[u]
    BY <1>1, <2>1 DEF SchedulerSpawns, TypeOK
  <2>0. active[t] \in Nat /\ active[t] < MaxConcurrency[t]
    <3>1. ~(active[t] >= MaxConcurrency[t])
      BY <1>1 DEF SchedulerSpawns, AtLimit
    <3>2. QED
      BY <2>1, <3>1, LimitType DEF TypeOK
  <2>6. IsFiniteSet(Holders(t)') /\ active'[t] = Cardinality(Holders(t)')
    BY <2>1, <2>2, <2>3, <2>5, FS_AddElement DEF Permits
  <2>7. active'[t] <= MaxConcurrency[t]
    BY <2>1, <2>5, <2>0, LimitType
  <2>8. QED
    BY <2>4, <2>5, <2>6, <2>7 DEF Permits
<1>2. ASSUME NEW r \in Requests, HandlerReleases(r) PROVE Permits'
  <2> DEFINE t == ToolOf[r]
  <2>1. t \in Tools
    BY DaemonAssumption
  <2>2. r \in Holders(t)
    BY <1>2 DEF HandlerReleases, Workers, Holders, Called
  <2>3. Holders(t)' = Holders(t) \ {r}
    BY <1>2 DEF HandlerReleases, Holders, Called, TypeOK
  <2>4. \A u \in Tools \ {t} : Holders(u)' = Holders(u)
    BY <1>2 DEF HandlerReleases, Holders, Called, TypeOK
  <2>5. /\ IsFiniteSet(Holders(t)') /\ Cardinality(Holders(t)') \in Nat
        /\ Cardinality(Holders(t)') = active[t] - 1
    BY <2>1, <2>2, <2>3, FS_RemoveElement, FS_CardinalityType DEF Permits
  <2>6. /\ active'[t] = active[t] - 1
        /\ \A u \in Tools \ {t} : active'[u] = active[u]
    BY <1>2, <2>1, <2>5 DEF HandlerReleases, TypeOK
  <2>7. active'[t] <= MaxConcurrency[t]
    BY <2>1, <2>6, DaemonAssumption DEF TypeOK, Permits
  <2>8. QED
    BY <2>4, <2>5, <2>6, <2>7 DEF Permits
<1>3. ASSUME NEW r \in Requests, HandlerReturns(r) \/ HandlerPanics(r) PROVE Permits'
  <2>1. \A t \in Tools : Holders(t)' = Holders(t)
    BY <1>3 DEF HandlerReturns, HandlerPanics, Holders, Called, TypeOK
  <2>2. UNCHANGED active
    BY <1>3 DEF HandlerReturns, HandlerPanics
  <2>3. QED
    BY <2>1, <2>2 DEF Permits
<1>4. CASE UNCHANGED <<active, handler>>
  <2>1. \A t \in Tools : Holders(t)' = Holders(t)
    BY <1>4 DEF Holders, Called
  <2>2. QED
    BY <1>4, <2>1 DEF Permits
<1>5. ASSUME NEW r \in Requests, ReaderReads(r) \/ Reader(r) \/ Waiter(r)
      PROVE  UNCHANGED <<active, handler>>
  BY <1>5 DEF ReaderReads, Reader, ReaderForwards, ReaderAnswers, Waiter,
              WaiterReceives, WaiterDisconnected, WaiterTimesOut, WaiterStops, WaiterSends
<1>6. ASSUME NEW r \in Requests,
             SchedulerSkips(r) \/ SchedulerReplies(r) \/ SchedulerLimits(r) \/ SchedulerSends(r)
      PROVE  UNCHANGED <<active, handler>>
  BY <1>6 DEF SchedulerSkips, SchedulerReplies, SchedulerLimits, SchedulerSends
<1>7. ASSUME NEW c \in Conns, Writer(c) \/ ClientLeaves(c)
      PROVE  UNCHANGED <<active, handler>>
  BY <1>7 DEF Writer, WriterWrites, WriterLoses, ClientLeaves
<1>8. QED
  BY <1>1, <1>2, <1>3, <1>4, <1>5, <1>6, <1>7 DEF Next, Scheduler, vars

\* The counting part of the invariant holds of every execution.
LEMMA DaemonInvHolds == Spec => []DaemonInv
<1>1. Init => DaemonInv
  <2> SUFFICES ASSUME Init PROVE DaemonInv
    OBVIOUS
  <2>1. TypeOK
    BY DaemonAssumption DEF Init, TypeOK, Places
  <2>2. Workers
    BY DEF Init, Workers
  <2>3. \A t \in Tools : Holders(t) = {}
    BY DEF Init, Holders, Called
  <2>4. Permits
    <3>1. \A t \in Tools : active[t] = 0 /\ 0 <= MaxConcurrency[t]
      BY LimitType DEF Init
    <3>2. QED
      BY <2>3, <3>1, FS_EmptySet DEF Permits
  <2>5. QED
    BY <2>1, <2>2, <2>4 DEF DaemonInv
<1>2. DaemonInv /\ [Next]_vars => DaemonInv'
  BY TypeOKStep, WorkersStep, PermitsStep DEF DaemonInv
<1>3. QED
  BY <1>1, <1>2, PTL DEF Spec

\* Every variable keeps its type, and the queue and the channels never hold
\* more than their capacity.
THEOREM TypeCorrect == Spec => []TypeOK
BY DaemonInvHolds, PTL DEF DaemonInv

\* The permits counted behind the scheduler's mutex are exactly those of the
\* handlers that have not released theirs, through timeouts and panics.
THEOREM PermitsAccountedHolds == Spec => []PermitsAccounted
<1>1. DaemonInv => PermitsAccounted
  BY DEF DaemonInv, Permits, PermitsAccounted, Holders
<1>2. QED
  BY <1>1, DaemonInvHolds, PTL

\* A tool never has more handlers running than its max_concurrency.
THEOREM RunningWithinLimitHolds == Spec => []RunningWithinLimit
<1>1. DaemonInv => RunningWithinLimit
  <2> SUFFICES ASSUME DaemonInv, NEW t \in Tools
               PROVE  Cardinality({r \in Called(t) : handler[r] = "running"}) <= MaxConcurrency[t]
    BY DEF RunningWithinLimit
  <2> DEFINE run == {r \in Called(t) : handler[r] = "running"}
  <2>1. run \subseteq Holders(t)
    BY DEF Holders
  <2>2. /\ IsFiniteSet(Holders(t)) /\ Cardinality(Holders(t)) = active[t]
        /\ active[t] <= MaxConcurrency[t]
    BY DEF DaemonInv, Permits
  <2>3. IsFiniteSet(run) /\ Cardinality(run) <= Cardinality(Holders(t))
    BY <2>1, <2>2, FS_Subset
  <2>4. Cardinality(run) \in Nat /\ active[t] \in Nat /\ MaxConcurrency[t] \in Nat
    BY <2>3, FS_CardinalityType, DaemonAssumption DEF DaemonInv, TypeOK
  <2>5. QED
    BY <2>2, <2>3, <2>4
<1>2. QED
  BY <1>1, DaemonInvHolds, PTL

-----------------------------------------------------------------------------

\* The steps of the threads that send a frame: who sends it, what it may be
\* and what the sender leaves behind.
LEMMA WhoSends ==
  ASSUME DaemonInv, Decided, Next
  PROVE  \/ UNCHANGED answers
         \/ \E r \in Requests, kind \in Outcomes \cup {"Inline", "RATE_LIMITED", "Health"} :
              /\ Respond(r, kind)
              /\ KindOf[r] # "notify"
              /\ at[r] # "done" /\ waiter[r] # "done"
              /\ at'[r] = "done" \/ waiter'[r] = "done"
              /\ UNCHANGED handler
              /\ kind \in {"RATE_LIMITED", "Inline", "Health"} => handler[r] = "none"
              /\ kind = "Result" => handler[r] \in {"returned", "gone"}
              /\ kind = "WORKER_DISCONNECTED" => handler[r] = "panicked"
<1> DEFINE Sent(r, kind) ==
             /\ Respond(r, kind)
             /\ KindOf[r] # "notify"
             /\ at[r] # "done" /\ waiter[r] # "done"
             /\ at'[r] = "done" \/ waiter'[r] = "done"
             /\ UNCHANGED handler
             /\ kind \in {"RATE_LIMITED", "Inline", "Health"} => handler[r] = "none"
             /\ kind = "Result" => handler[r] \in {"returned", "gone"}
             /\ kind = "WORKER_DISCONNECTED" => handler[r] = "panicked"
<1>1. ASSUME NEW r \in Requests, ReaderAnswers(r) PROVE Sent(r, "Health") \/ UNCHANGED answers
  <2>1. CASE ConnOf[r] \in receiving
    BY <1>1, <2>1 DEF ReaderAnswers, Moves, DaemonInv, TypeOK, Workers
  <2>2. CASE ConnOf[r] \notin receiving
    BY <1>1, <2>2 DEF ReaderAnswers, Respond
  <2>3. QED
    BY <2>1, <2>2
<1>2. ASSUME NEW r \in Requests, Moves(r, "replying", "done"), Respond(r, "Inline"),
             UNCHANGED handler
      PROVE  Sent(r, "Inline")
  BY <1>2 DEF Moves, DaemonInv, TypeOK, Workers
<1>3. ASSUME NEW r \in Requests, Moves(r, "limited", "done"), Respond(r, "RATE_LIMITED"),
             UNCHANGED handler
      PROVE  Sent(r, "RATE_LIMITED")
  BY <1>3 DEF Moves, DaemonInv, TypeOK, Workers
<1>4. ASSUME NEW r \in Requests, WaiterSends(r)
      PROVE  waiter[r] \in Outcomes /\ Sent(r, waiter[r])
  <2>1. waiter[r] \in Outcomes /\ Respond(r, waiter[r]) /\ UNCHANGED handler
    BY <1>4 DEF WaiterSends
  <2>2. at[r] = "workers" /\ KindOf[r] = "call" /\ waiter[r] # "done"
    BY <2>1 DEF DaemonInv, Workers, Outcomes
  <2>3. waiter'[r] = "done"
    BY <1>4 DEF WaiterSends, DaemonInv, TypeOK
  <2>4. QED
    BY <2>1, <2>2, <2>3 DEF Decided, Outcomes
<1>5. ASSUME NEW r \in Requests, SchedulerSends(r)
      PROVE  Sent(r, "Inline") \/ Sent(r, "RATE_LIMITED")
  <2>1. UNCHANGED handler
    BY <1>5 DEF SchedulerSends
  <2>2. QED
    BY <1>5, <2>1, <1>2, <1>3 DEF SchedulerSends
<1>6. ASSUME NEW r \in Requests,
             \/ ReaderReads(r) \/ ReaderForwards(r)
             \/ SchedulerSkips(r) \/ SchedulerReplies(r) \/ SchedulerLimits(r)
             \/ SchedulerSpawns(r)
             \/ HandlerReturns(r) \/ HandlerReleases(r) \/ HandlerPanics(r)
             \/ WaiterReceives(r) \/ WaiterDisconnected(r) \/ WaiterTimesOut(r)
      PROVE  UNCHANGED answers
  BY <1>6 DEF ReaderReads, ReaderForwards, SchedulerSkips, SchedulerReplies,
              SchedulerLimits, SchedulerSpawns, HandlerReturns, HandlerReleases,
              HandlerPanics, WaiterReceives, WaiterDisconnected, WaiterTimesOut,
              WaiterStops
<1>7. ASSUME NEW c \in Conns, Writer(c) \/ ClientLeaves(c) PROVE UNCHANGED answers
  BY <1>7 DEF Writer, WriterWrites, WriterLoses, ClientLeaves
<1> HIDE DEF Sent
<1>8. \/ UNCHANGED answers
      \/ \E r \in Requests : \/ Sent(r, "Health") \/ Sent(r, "Inline")
                             \/ Sent(r, "RATE_LIMITED")
                             \/ waiter[r] \in Outcomes /\ Sent(r, waiter[r])
  BY <1>1, <1>4, <1>5, <1>6, <1>7 DEF Next, Scheduler, Reader, Waiter
<1>9. \/ UNCHANGED answers
      \/ \E r \in Requests, kind \in Outcomes \cup {"Inline", "RATE_LIMITED", "Health"} :
           Sent(r, kind)
  BY <1>8
<1>10. QED
  BY <1>9 DEF Sent

\* How a step may move the threads of a request: a handler starts on a queued
\* request only, a panic and a release are final, a thread that is done stays
\* done, and a waiter decides on what it finds.
Moved(q) ==
  /\ handler[q] = "none" => handler'[q] = "none" \/ at[q] = "queue"
  /\ handler[q] \in {"returned", "gone"} => handler'[q] \in {"returned", "gone"}
  /\ handler[q] = "panicked" => handler'[q] = "panicked"
  /\ at[q] = "done" => at'[q] = "done"
  /\ waiter[q] = "done" => waiter'[q] = "done"
  /\ waiter'[q] = "Result" => waiter[q] = "Result" \/ handler[q] \in {"returned", "gone"}
  /\ waiter'[q] = "WORKER_DISCONNECTED" =>
       waiter[q] = "WORKER_DISCONNECTED" \/ handler[q] = "panicked"

\* Every step moves the threads so.
LEMMA ThreadMoves ==
  ASSUME TypeOK, Workers, [Next]_vars, NEW q \in Requests
  PROVE  Moved(q)
<1> USE DEF TypeOK
<1>1. ASSUME NEW r \in Requests, NEW from \in Places \ {"done"}, NEW to \in Places,
             Moves(r, from, to), UNCHANGED <<handler, waiter>>
      PROVE  Moved(q)
  BY <1>1 DEF Moved, Moves
<1>2. ASSUME NEW r \in Requests, SchedulerSpawns(r) PROVE Moved(q)
  <2>1. CASE r = q
    BY <1>2, <2>1 DEF SchedulerSpawns, Moves, Moved, Workers
  <2>2. CASE r # q
    BY <1>2, <2>2 DEF SchedulerSpawns, Moves, Moved
  <2>3. QED
    BY <2>1, <2>2
<1>3. ASSUME NEW r \in Requests, HandlerReturns(r) PROVE Moved(q)
  BY <1>3 DEF HandlerReturns, Moved
<1>4. ASSUME NEW r \in Requests, HandlerReleases(r) PROVE Moved(q)
  BY <1>4 DEF HandlerReleases, Moved
<1>5. ASSUME NEW r \in Requests, HandlerPanics(r) PROVE Moved(q)
  BY <1>5 DEF HandlerPanics, Moved
<1>6. ASSUME NEW r \in Requests, WaiterReceives(r) PROVE Moved(q)
  BY <1>6 DEF WaiterReceives, WaiterStops, Moved
<1>7. ASSUME NEW r \in Requests, WaiterDisconnected(r) PROVE Moved(q)
  BY <1>7 DEF WaiterDisconnected, WaiterStops, Moved
<1>8. ASSUME NEW r \in Requests, WaiterTimesOut(r) PROVE Moved(q)
  BY <1>8 DEF WaiterTimesOut, WaiterStops, Moved
<1>9. ASSUME NEW r \in Requests, WaiterSends(r) PROVE Moved(q)
  BY <1>9 DEF WaiterSends, Moved
<1>10. CASE UNCHANGED <<at, handler, waiter>>
  BY <1>10 DEF Moved
<1>11. ASSUME NEW c \in Conns, Writer(c) \/ ClientLeaves(c) PROVE UNCHANGED <<at, handler, waiter>>
  BY <1>11 DEF Writer, WriterWrites, WriterLoses, ClientLeaves
<1>12. ASSUME NEW r \in Requests, ReaderReads(r) \/ Reader(r) PROVE Moved(q)
  <2>1. UNCHANGED <<handler, waiter>>
    BY <1>12 DEF ReaderReads, Reader, ReaderForwards, ReaderAnswers
  <2>2. \E from \in Places \ {"done"}, to \in Places : Moves(r, from, to)
    BY <1>12 DEF ReaderReads, Reader, ReaderForwards, ReaderAnswers, Places
  <2>3. QED
    BY <2>1, <2>2, <1>1
<1>13. ASSUME NEW r \in Requests,
              SchedulerSkips(r) \/ SchedulerReplies(r) \/ SchedulerLimits(r) \/ SchedulerSends(r)
       PROVE  Moved(q)
  <2>1. UNCHANGED <<handler, waiter>>
    BY <1>13 DEF SchedulerSkips, SchedulerReplies, SchedulerLimits, SchedulerSends
  <2>2. \E from \in Places \ {"done"}, to \in Places : Moves(r, from, to)
    BY <1>13 DEF SchedulerSkips, SchedulerReplies, SchedulerLimits, SchedulerSends, Places
  <2>3. QED
    BY <2>1, <2>2, <1>1
<1>14. QED
  BY <1>2, <1>3, <1>4, <1>5, <1>6, <1>7, <1>8, <1>9, <1>10, <1>11, <1>12, <1>13
     DEF Next, Scheduler, Waiter, vars

\* The frames in a channel stay those of its connection.
LEMMA ChannelStep ==
  ASSUME TypeOK, [Next]_vars,
         \A c \in Conns : \A i \in DOMAIN channel[c] : channel[c][i].conn = c
  PROVE  \A c \in Conns : \A i \in DOMAIN channel'[c] : channel'[c][i].conn = c
<1> DEFINE Own(ch) == \A c \in Conns : \A i \in DOMAIN ch[c] : ch[c][i].conn = c
<1>1. ASSUME NEW r \in Requests,
             NEW kind \in Outcomes \cup {"Inline", "RATE_LIMITED", "Health"},
             Respond(r, kind)
      PROVE  Own(channel')
  <2> DEFINE d == ConnOf[r]
             f == Frame(r, kind)
  <2>1. d \in Conns /\ f.conn = d /\ f \in Frames
    BY ConnOfType, FrameType DEF Frame
  <2>2. channel' = channel \/ channel' = [channel EXCEPT ![d] = Append(@, f)]
    BY <1>1 DEF Respond
  <2> HIDE DEF f
  <2>3. CASE channel' = [channel EXCEPT ![d] = Append(@, f)]
    <3> SUFFICES ASSUME NEW c \in Conns, NEW i \in DOMAIN channel'[c] PROVE channel'[c][i].conn = c
      OBVIOUS
    <3>1. CASE c = d
      <4>1. channel'[c] = Append(channel[c], f)
        BY <2>1, <2>3, <3>1 DEF TypeOK
      <4>2. channel[c] \in Seq(Frames)
        BY DEF TypeOK
      <4>3. i \in 1 .. Len(channel[c]) + 1
        BY <2>1, <4>1, <4>2
      <4>4. channel'[c][i] = IF i <= Len(channel[c]) THEN channel[c][i] ELSE f
        BY <2>1, <4>1, <4>2, <4>3
      <4>5. QED
        BY <2>1, <3>1, <4>2, <4>3, <4>4
    <3>2. CASE c # d
      BY <2>1, <2>3, <3>2 DEF TypeOK
    <3>3. QED
      BY <3>1, <3>2
  <2>4. QED
    BY <2>2, <2>3
<1>2. ASSUME NEW c \in Conns, Writer(c) PROVE Own(channel')
  <2>1. channel[c] \in Seq(Frames) /\ channel[c] # <<>>
    BY <1>2 DEF Writer, WriterWrites, WriterLoses, TypeOK
  <2>2. PICK rest \in {Tail(channel[c]), <<>>} : channel' = [channel EXCEPT ![c] = rest]
    BY <1>2 DEF Writer, WriterWrites, WriterLoses
  <2>3. \A i \in DOMAIN rest : rest[i].conn = c
    <3>1. CASE rest = <<>>
      BY <3>1
    <3>2. CASE rest = Tail(channel[c])
      BY <2>1, <3>2
    <3>3. QED
      BY <3>1, <3>2
  <2>4. QED
    BY <2>2, <2>3 DEF TypeOK
<1>3. ASSUME UNCHANGED channel PROVE Own(channel')
  BY <1>3
<1>4. ASSUME NEW r \in Requests, WaiterSends(r) PROVE Own(channel')
  BY <1>1, <1>4 DEF WaiterSends
<1>5. ASSUME NEW r \in Requests, ReaderAnswers(r) \/ SchedulerSends(r) PROVE Own(channel')
  <2>1. PICK kind \in {"Inline", "RATE_LIMITED", "Health"} : Respond(r, kind)
    BY <1>5 DEF ReaderAnswers, SchedulerSends
  <2>2. QED
    BY <1>1, <2>1
<1>6. ASSUME NEW r \in Requests,
             \/ ReaderReads(r) \/ ReaderForwards(r)
             \/ SchedulerSkips(r) \/ SchedulerReplies(r) \/ SchedulerLimits(r)
             \/ SchedulerSpawns(r)
             \/ HandlerReturns(r) \/ HandlerReleases(r) \/ HandlerPanics(r)
             \/ WaiterReceives(r) \/ WaiterDisconnected(r) \/ WaiterTimesOut(r)
      PROVE  UNCHANGED channel
  BY <1>6 DEF ReaderReads, ReaderForwards, SchedulerSkips, SchedulerReplies,
              SchedulerLimits, SchedulerSpawns, HandlerReturns, HandlerReleases,
              HandlerPanics, WaiterReceives, WaiterDisconnected, WaiterTimesOut,
              WaiterStops
<1>7. ASSUME NEW c \in Conns, ClientLeaves(c) PROVE UNCHANGED channel
  BY <1>7 DEF ClientLeaves
<1> HIDE DEF Own
<1>8. Own(channel')
  BY <1>2, <1>3, <1>4, <1>5, <1>6, <1>7 DEF Next, Scheduler, Reader, Waiter, vars
<1>9. QED
  BY <1>8 DEF Own

\* The frame of a request that is sent is the only one it ever has, and
\* remains true of its handler whatever the handler still does.
LEMMA AnswerStep == DaemonInv /\ AnswerInv /\ [Next]_vars => AnswerInv'
<1> SUFFICES ASSUME DaemonInv, AnswerInv, [Next]_vars PROVE AnswerInv'
  OBVIOUS
<1>1. TypeOK /\ Workers /\ Decided /\ Answered /\ AnsweredOnceTruthfully
  BY DEF DaemonInv, AnswerInv
<1>2. \A q \in Requests : Moved(q)
  BY <1>1, ThreadMoves
<1>3. Decided'
  BY <1>1, <1>2 DEF Decided, Moved
<1> DEFINE True(q, a, h) ==
             /\ a.conn = ConnOf[q]
             /\ KindOf[q] # "notify"
             /\ a.kind \in {"RATE_LIMITED", "Inline", "Health"} => h = "none"
             /\ a.kind = "Result" => h \in {"returned", "gone"}
             /\ a.kind = "WORKER_DISCONNECTED" => h = "panicked"
           Once(q, s, h) ==
             Len(s) <= 1 /\ \A i \in DOMAIN s : True(q, s[i], h)
<1>4. ASSUME NEW q \in Requests, answers'[q] = answers[q]
      PROVE  /\ answers'[q] # <<>> => at'[q] = "done" \/ waiter'[q] = "done"
             /\ Once(q, answers'[q], handler'[q])
  <2>1. answers[q] # <<>> => at'[q] = "done" \/ waiter'[q] = "done"
    BY <1>1, <1>2 DEF Answered, Moved
  <2>2. answers[q] # <<>> => at[q] # "queue"
    BY <1>1 DEF Answered, Workers
  <2>3. Once(q, answers[q], handler[q])
    BY <1>1 DEF AnsweredOnceTruthfully
  <2>4. answers[q] \in Seq(Frames)
    BY <1>1 DEF TypeOK
  <2>5. CASE answers[q] = <<>>
    BY <2>5, <1>4
  <2>6. CASE answers[q] # <<>>
    <3>1. /\ handler[q] = "none" => handler'[q] = "none"
          /\ handler[q] \in {"returned", "gone"} => handler'[q] \in {"returned", "gone"}
          /\ handler[q] = "panicked" => handler'[q] = "panicked"
      BY <2>2, <2>6, <1>2 DEF Moved
    <3>2. QED
      BY <1>4, <2>1, <2>3, <3>1
  <2>7. QED
    BY <2>5, <2>6
<1>5. ASSUME NEW r \in Requests,
             NEW kind \in Outcomes \cup {"Inline", "RATE_LIMITED", "Health"},
             answers' = [answers EXCEPT ![r] = Append(@, Frame(r, kind))],
             KindOf[r] # "notify",
             at[r] # "done" /\ waiter[r] # "done",
             at'[r] = "done" \/ waiter'[r] = "done",
             UNCHANGED handler,
             kind \in {"RATE_LIMITED", "Inline", "Health"} => handler[r] = "none",
             kind = "Result" => handler[r] \in {"returned", "gone"},
             kind = "WORKER_DISCONNECTED" => handler[r] = "panicked",
             NEW q \in Requests
      PROVE  /\ answers'[q] # <<>> => at'[q] = "done" \/ waiter'[q] = "done"
             /\ Once(q, answers'[q], handler'[q])
  <2>1. CASE q # r
    BY <1>4, <1>5, <2>1, <1>1 DEF TypeOK
  <2>2. CASE q = r
    <3> DEFINE f == Frame(r, kind)
    <3>1. answers[r] = <<>>
      BY <1>1, <1>5 DEF Answered
    <3>2. answers'[r] = Append(<<>>, f)
      BY <1>1, <1>5, <3>1 DEF TypeOK
    <3>3. True(r, f, handler'[r])
      BY <1>5 DEF Frame
    <3>4. f \in Frames
      BY FrameType
    <3> HIDE DEF f, True
    <3>5. Len(answers'[r]) = 1 /\ DOMAIN answers'[r] = {1} /\ answers'[r][1] = f
      BY <3>2, <3>4
    <3>6. QED
      BY <2>2, <3>3, <3>5, <1>5
  <2>3. QED
    BY <2>1, <2>2
<1>6. ASSUME NEW q \in Requests
      PROVE  /\ answers'[q] # <<>> => at'[q] = "done" \/ waiter'[q] = "done"
             /\ Once(q, answers'[q], handler'[q])
  <2>1. CASE UNCHANGED vars
    BY <1>4, <2>1 DEF vars
  <2>2. CASE Next
    <3>1. CASE UNCHANGED answers
      BY <1>4, <3>1
    <3>2. CASE ~ UNCHANGED answers
      <4>1. PICK r \in Requests, kind \in Outcomes \cup {"Inline", "RATE_LIMITED", "Health"} :
              /\ Respond(r, kind)
              /\ KindOf[r] # "notify"
              /\ at[r] # "done" /\ waiter[r] # "done"
              /\ at'[r] = "done" \/ waiter'[r] = "done"
              /\ UNCHANGED handler
              /\ kind \in {"RATE_LIMITED", "Inline", "Health"} => handler[r] = "none"
              /\ kind = "Result" => handler[r] \in {"returned", "gone"}
              /\ kind = "WORKER_DISCONNECTED" => handler[r] = "panicked"
        BY <1>1, <2>2, <3>2, WhoSends
      <4>2. answers' = [answers EXCEPT ![r] = Append(@, Frame(r, kind))]
        BY <3>2, <4>1 DEF Respond
      <4>3. QED
        BY <4>1, <4>2, <1>5
    <3>3. QED
      BY <3>1, <3>2
  <2>3. QED
    BY <2>1, <2>2
<1>7. Answered'
  BY <1>6 DEF Answered
<1>8. \A c \in Conns : \A i \in DOMAIN channel'[c] : channel'[c][i].conn = c
  BY <1>1, ChannelStep DEF AnsweredOnceTruthfully
<1>9. AnsweredOnceTruthfully'
  BY <1>6, <1>8 DEF AnsweredOnceTruthfully
<1>10. QED
  BY <1>3, <1>7, <1>9 DEF AnswerInv

\* A request is answered at most once, on its own connection and by what is
\* true of its handler: no late result follows a TIMEOUT, and a call that is
\* answered RATE_LIMITED has not run and never will.
THEOREM AnsweredOnceTruthfullyHolds == Spec => []AnsweredOnceTruthfully
<1>1. Init => AnswerInv
  <2> SUFFICES ASSUME Init PROVE AnswerInv
    OBVIOUS
  <2>1. /\ \A r \in Requests : answers[r] = <<>> /\ waiter[r] = "none"
        /\ \A c \in Conns : channel[c] = <<>>
    BY DEF Init
  <2>2. AnsweredOnceTruthfully
    BY <2>1 DEF AnsweredOnceTruthfully
  <2>3. QED
    BY <2>1, <2>2 DEF AnswerInv, Decided, Answered
<1>2. DaemonInv /\ AnswerInv /\ [Next]_vars => AnswerInv'
  BY AnswerStep
<1>3. AnswerInv => AnsweredOnceTruthfully
  BY DEF AnswerInv
<1>4. QED
  BY <1>1, <1>2, <1>3, DaemonInvHolds, PTL DEF Spec
============================================================================
