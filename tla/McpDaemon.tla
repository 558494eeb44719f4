----------------------------- MODULE McpDaemon -----------------------------
(***************************************************************************)
(* The MCP daemon: connections (prism-mcpd/src/daemon.rs) and the tool     *)
(* scheduler (prism-mcp-core/src/scheduler.rs).                            *)
(*                                                                         *)
(* Every connection has a reader thread, which moves one line at a time    *)
(* from the socket to the bounded work queue of the daemon, and a writer   *)
(* thread, which moves frames from the bounded response channel of the     *)
(* connection to the socket.  The one scheduler thread takes requests from *)
(* the queue, answers most of them itself, and for a tool call takes a     *)
(* permit of the tool and starts two threads: the handler, which runs the  *)
(* tool and gives the permit back, and the waiter, which answers with the  *)
(* handler's result or, past the tool's timeout, without it.               *)
(*                                                                         *)
(* Every send into a channel blocks while the channel is full.  Requests   *)
(* and answers are abstracted to who asked and what kind of answer it is.  *)
(***************************************************************************)
EXTENDS Naturals, Sequences, FiniteSets

CONSTANTS
  Conns,
  Requests,
  Tools,
  Script,          \* connection -> the requests its client sends, in order
  KindOf,          \* request -> what its method makes of it, one of Kinds
  ToolOf,          \* request -> the tool that a "call" names
  MaxConcurrency,  \* tool -> ToolLimit.max_concurrency
  QueueCapacity,   \* of the work queue (256 in the code)
  ChannelCapacity, \* of a response channel (64 in the code)
  MaxPanics        \* bound: handlers that panic

\* "health" is answered by the reader, "notify" by nobody, "inline" by the
\* scheduler (initialize, ping, tools/list, unknown method or tool, a frame
\* that does not parse, arguments that semantic admission refuses).
Kinds == {"call", "inline", "notify", "health"}

\* r is sent once, and on connection c.
IsOnlyIn(r, c) ==
  /\ \E i \in DOMAIN Script[c] : Script[c][i] = r
  /\ \A d \in Conns : \A i \in DOMAIN Script[d], j \in DOMAIN Script[c] :
       Script[d][i] = r /\ Script[c][j] = r => d = c /\ i = j

ConnOf == [r \in Requests |-> CHOOSE c \in Conns : IsOnlyIn(r, c)]

ASSUME DaemonAssumption ==
  /\ Script \in [Conns -> Seq(Requests)]
  /\ \A r \in Requests : \E c \in Conns : IsOnlyIn(r, c)
  /\ KindOf \in [Requests -> Kinds]
  /\ ToolOf \in [Requests -> Tools]
  /\ MaxConcurrency \in [Tools -> Nat \ {0}]
  /\ QueueCapacity \in Nat \ {0}
  /\ ChannelCapacity \in Nat \ {0}
  /\ MaxPanics \in Nat

VARIABLES
  at,        \* request -> which part of the daemon has its frame
  queue,     \* the work queue
  active,    \* tool -> permits taken, the map behind the scheduler's mutex
  handler,   \* request -> its handler thread
  waiter,    \* request -> its waiter thread
  channel,   \* connection -> frames in its response channel
  open,      \* connections whose client is there
  receiving, \* connections whose writer thread still has the receiver
  answers,   \* history: frames put into a channel, per request
  delivered  \* requests whose answer was written to a socket with a client

vars == <<at, queue, active, handler, waiter, channel, open, receiving,
          answers, delivered>>

\* "lost": the reader could not answer it, and has ended.
Places == {"client", "reader", "queue", "replying", "limited", "workers", "done",
           "lost"}

Outcomes == {"Result", "TIMEOUT", "WORKER_DISCONNECTED"}

Frames == [request : Requests, conn : Conns,
           kind : Outcomes \cup {"Inline", "RATE_LIMITED", "Health"}]

TypeOK ==
  /\ at \in [Requests -> Places]
  /\ queue \in Seq(Requests) /\ Len(queue) <= QueueCapacity
  /\ active \in [Tools -> Nat]
  /\ handler \in [Requests -> {"none", "running", "returned", "gone", "panicked"}]
  /\ waiter \in [Requests -> {"none", "waiting", "done"} \cup Outcomes]
  /\ channel \in [Conns -> Seq(Frames)]
  /\ \A c \in Conns : Len(channel[c]) <= ChannelCapacity
  /\ open \subseteq Conns
  /\ receiving \subseteq Conns
  /\ answers \in [Requests -> Seq(Frames)]
  /\ delivered \subseteq Requests

Init ==
  /\ at = [r \in Requests |-> "client"]
  /\ queue = <<>>
  /\ active = [t \in Tools |-> 0]
  /\ handler = [r \in Requests |-> "none"]
  /\ waiter = [r \in Requests |-> "none"]
  /\ channel = [c \in Conns |-> <<>>]
  /\ open = Conns
  /\ receiving = Conns
  /\ answers = [r \in Requests |-> <<>>]
  /\ delivered = {}

-----------------------------------------------------------------------------

Frame(r, kind) == [request |-> r, conn |-> ConnOf[r], kind |-> kind]

\* Mutant: an unbounded channel.
RespondUnbounded(r, kind) ==
  LET c == ConnOf[r] IN
  /\ channel' = [channel EXCEPT ![c] = Append(@, Frame(r, kind))]
  /\ answers' = [answers EXCEPT ![r] = Append(@, Frame(r, kind))]

\* Sender::send: waits for room, fails at once when the writer has gone.
Respond(r, kind) ==
  LET c == ConnOf[r] IN
  \/ /\ c \in receiving
     /\ Len(channel[c]) < ChannelCapacity
     /\ channel' = [channel EXCEPT ![c] = Append(@, Frame(r, kind))]
     /\ answers' = [answers EXCEPT ![r] = Append(@, Frame(r, kind))]
  \/ /\ c \notin receiving
     /\ UNCHANGED <<channel, answers>>

Moves(r, from, to) ==
  /\ at[r] = from
  /\ at' = [at EXCEPT ![r] = to]

(***************************************************************************)
(* A client and its connection.                                            *)
(***************************************************************************)

\* The reader has one line at a time, and reads on what is in the socket after
\* the client has gone; a line that it never reads was never sent, or is cut.
ReaderReads(r) ==
  /\ \E i \in DOMAIN Script[ConnOf[r]] :
       /\ Script[ConnOf[r]][i] = r
       /\ \A j \in 1 .. i - 1 : at[Script[ConnOf[r]][j]] \notin {"client", "reader", "lost"}
  /\ Moves(r, "client", "reader")
  /\ UNCHANGED <<queue, active, handler, waiter, channel, open, receiving,
                 answers, delivered>>

ReaderForwards(r) ==
  /\ KindOf[r] # "health"
  /\ Moves(r, "reader", "queue")
  /\ Len(queue) < QueueCapacity
  /\ queue' = Append(queue, r)
  /\ UNCHANGED <<active, handler, waiter, channel, open, receiving,
                 answers, delivered>>

ReaderAnswers(r) ==
  /\ KindOf[r] = "health"
  /\ Moves(r, "reader", IF ConnOf[r] \in receiving THEN "done" ELSE "lost")
  /\ Respond(r, "Health")
  /\ UNCHANGED <<queue, active, handler, waiter, open, receiving, delivered>>

\* Blocks while the client does not read: the frame is written when it does.
WriterWrites(c) ==
  /\ c \in open /\ channel[c] # <<>>
  /\ delivered' = delivered \cup {Head(channel[c]).request}
  /\ channel' = [channel EXCEPT ![c] = Tail(@)]
  /\ UNCHANGED <<at, queue, active, handler, waiter, open, receiving, answers>>

\* The client has gone: the frame is lost in the buffer, whose flush errors
\* are ignored, or writeln fails and the thread ends, the channel with it.
WriterLoses(c) ==
  /\ c \notin open /\ channel[c] # <<>>
  /\ \/ /\ channel' = [channel EXCEPT ![c] = Tail(@)]
        /\ UNCHANGED receiving
     \/ /\ channel' = [channel EXCEPT ![c] = <<>>]
        /\ receiving' = receiving \ {c}
  /\ UNCHANGED <<at, queue, active, handler, waiter, open, answers, delivered>>

ClientLeaves(c) ==
  /\ c \in open
  /\ open' = open \ {c}
  /\ UNCHANGED <<at, queue, active, handler, waiter, channel, receiving,
                 answers, delivered>>

(***************************************************************************)
(* The scheduler thread.                                                   *)
(***************************************************************************)

\* The scheduler sends RATE_LIMITED inside the block that locks `active`.
MutexHeld == \E r \in Requests : at[r] = "limited"

SchedulerIdle == \A r \in Requests : at[r] \notin {"replying", "limited"}

Takes(r) ==
  /\ SchedulerIdle
  /\ queue # <<>> /\ r = Head(queue)
  /\ queue' = Tail(queue)

SchedulerSkips(r) ==
  /\ Takes(r)
  /\ KindOf[r] = "notify"
  /\ Moves(r, "queue", "done")
  /\ UNCHANGED <<active, handler, waiter, channel, open, receiving, answers,
                 delivered>>

SchedulerReplies(r) ==
  /\ Takes(r)
  /\ KindOf[r] = "inline"
  /\ Moves(r, "queue", "replying")
  /\ UNCHANGED <<active, handler, waiter, channel, open, receiving, answers,
                 delivered>>

\* Mutant: the limit is compared with > and lets one more in.
AtLimitOff(t) == active[t] > MaxConcurrency[t]

AtLimit(t) == active[t] >= MaxConcurrency[t]

SchedulerLimits(r) ==
  /\ Takes(r)
  /\ KindOf[r] = "call" /\ AtLimit(ToolOf[r])
  /\ Moves(r, "queue", "limited")
  /\ UNCHANGED <<active, handler, waiter, channel, open, receiving, answers,
                 delivered>>

SchedulerSpawns(r) ==
  /\ Takes(r)
  /\ KindOf[r] = "call" /\ ~AtLimit(ToolOf[r])
  /\ Moves(r, "queue", "workers")
  /\ active' = [active EXCEPT ![ToolOf[r]] = @ + 1]
  /\ handler' = [handler EXCEPT ![r] = "running"]
  /\ waiter' = [waiter EXCEPT ![r] = "waiting"]
  /\ UNCHANGED <<channel, open, receiving, answers, delivered>>

SchedulerSends(r) ==
  /\ \/ Moves(r, "replying", "done") /\ Respond(r, "Inline")
     \/ Moves(r, "limited", "done") /\ Respond(r, "RATE_LIMITED")
  /\ UNCHANGED <<queue, active, handler, waiter, open, receiving, delivered>>

(***************************************************************************)
(* The handler and the waiter of a tool call.                              *)
(***************************************************************************)

\* The result goes into a channel of its own that always has room; it is lost
\* when the waiter has stopped waiting.
HandlerReturns(r) ==
  /\ handler[r] = "running"
  /\ handler' = [handler EXCEPT ![r] = "returned"]
  /\ UNCHANGED <<at, queue, active, waiter, channel, open, receiving, answers,
                 delivered>>

HandlerReleases(r) ==
  /\ handler[r] = "returned"
  /\ ~MutexHeld
  /\ handler' = [handler EXCEPT ![r] = "gone"]
  /\ active' = [active EXCEPT ![ToolOf[r]] = IF @ = 0 THEN 0 ELSE @ - 1]
  /\ UNCHANGED <<at, queue, waiter, channel, open, receiving, answers, delivered>>

\* A panic unwinds the handler past its release.
HandlerPanics(r) ==
  /\ handler[r] = "running"
  /\ Cardinality({q \in Requests : handler[q] = "panicked"}) < MaxPanics
  /\ handler' = [handler EXCEPT ![r] = "panicked"]
  /\ UNCHANGED <<at, queue, active, waiter, channel, open, receiving, answers,
                 delivered>>

WaiterStops(r, outcome) ==
  /\ waiter[r] = "waiting"
  /\ waiter' = [waiter EXCEPT ![r] = outcome]
  /\ UNCHANGED <<at, queue, active, handler, channel, open, receiving, answers,
                 delivered>>

WaiterReceives(r) ==
  handler[r] \in {"returned", "gone"} /\ WaiterStops(r, "Result")

WaiterDisconnected(r) ==
  handler[r] = "panicked" /\ WaiterStops(r, "WORKER_DISCONNECTED")

\* Mutants: recv instead of recv_timeout; the waiter gives the permit back.
WaiterNeverTimesOut(r) == FALSE

WaiterTimesOutReleasing(r) ==
  /\ handler[r] \in {"running", "panicked"} /\ waiter[r] = "waiting"
  /\ waiter' = [waiter EXCEPT ![r] = "TIMEOUT"]
  /\ active' = [active EXCEPT ![ToolOf[r]] = IF @ = 0 THEN 0 ELSE @ - 1]
  /\ UNCHANGED <<at, queue, handler, channel, open, receiving, answers, delivered>>

\* recv_timeout: the deadline passes with no result there.  The handler runs
\* on and keeps its permit.
WaiterTimesOut(r) ==
  handler[r] \in {"running", "panicked"} /\ WaiterStops(r, "TIMEOUT")

\* Mutant: after a TIMEOUT answer the late result is sent as well.
WaiterSendsLate(r) ==
  /\ waiter[r] \in Outcomes
  /\ waiter' = [waiter EXCEPT ![r] = IF @ = "TIMEOUT" THEN "waiting" ELSE "done"]
  /\ Respond(r, waiter[r])
  /\ UNCHANGED <<at, queue, active, handler, open, receiving, delivered>>

WaiterSends(r) ==
  /\ waiter[r] \in Outcomes
  /\ waiter' = [waiter EXCEPT ![r] = "done"]
  /\ Respond(r, waiter[r])
  /\ UNCHANGED <<at, queue, active, handler, open, receiving, delivered>>

-----------------------------------------------------------------------------

Reader(r) == ReaderForwards(r) \/ ReaderAnswers(r)

Writer(c) == WriterWrites(c) \/ WriterLoses(c)

Scheduler == \E r \in Requests : \/ SchedulerSkips(r)
                                 \/ SchedulerReplies(r)
                                 \/ SchedulerLimits(r)
                                 \/ SchedulerSpawns(r)
                                 \/ SchedulerSends(r)

Waiter(r) == \/ WaiterReceives(r)
             \/ WaiterDisconnected(r)
             \/ WaiterTimesOut(r)
             \/ WaiterSends(r)

Next ==
  \/ Scheduler
  \/ \E r \in Requests : \/ ReaderReads(r)
                         \/ Reader(r)
                         \/ Waiter(r)
                         \/ HandlerReturns(r)
                         \/ HandlerReleases(r)
                         \/ HandlerPanics(r)
  \/ \E c \in Conns : Writer(c) \/ ClientLeaves(c)

Spec == Init /\ [][Next]_vars

\* The daemon's threads run whenever they can, and a client that stays reads
\* what is written to it.  Clients need not send, and a handler need not
\* return: no thread waits for one without a timeout.
FairSpec ==
  /\ Spec
  /\ WF_vars(Scheduler)
  /\ \A r \in Requests : /\ WF_vars(Reader(r))
                         /\ WF_vars(Waiter(r))
                         /\ WF_vars(HandlerReleases(r))
  /\ \A c \in Conns : WF_vars(Writer(c))

-----------------------------------------------------------------------------
(***************************************************************************)
(* Properties.                                                             *)
(***************************************************************************)

Called(t) == {r \in Requests : KindOf[r] = "call" /\ ToolOf[r] = t}

\* A tool never runs more often at once than its limit, although callers are
\* answered TIMEOUT, and may retry, while the handler they gave up on runs.
RunningWithinLimit ==
  \A t \in Tools :
    Cardinality({r \in Called(t) : handler[r] = "running"}) <= MaxConcurrency[t]

\* The permits taken are those of handlers that have not released: running,
\* returned and waiting for the mutex, or lost to a panic.
PermitsAccounted ==
  \A t \in Tools :
    active[t] = Cardinality({r \in Called(t) : handler[r] \in {"running", "returned", "panicked"}})

\* A request is answered at most once, on its own connection, and the answer
\* is true of the handler: RATE_LIMITED means the tool never ran for it, a
\* result that it returned, WORKER_DISCONNECTED that it panicked; and a
\* TIMEOUT is not followed by the late result.
AnsweredOnceTruthfully ==
  /\ \A r \in Requests :
       /\ Len(answers[r]) <= 1
       /\ \A i \in DOMAIN answers[r] :
            LET a == answers[r][i] IN
            /\ a.conn = ConnOf[r]
            /\ KindOf[r] # "notify"
            /\ a.kind \in {"RATE_LIMITED", "Inline", "Health"} => handler[r] = "none"
            /\ a.kind = "Result" => handler[r] \in {"returned", "gone"}
            /\ a.kind = "WORKER_DISCONNECTED" => handler[r] = "panicked"
  /\ \A c \in Conns : \A i \in DOMAIN channel[c] : channel[c][i].conn = c

\* Every request that wants an answer gets one while its client stays,
\* whatever tools hang or panic, clients leave, and channels run full.
EveryRequestAnswered ==
  \A r \in {q \in Requests : KindOf[q] # "notify"} :
    at[r] = "reader" ~> (r \in delivered \/ ConnOf[r] \notin open)
============================================================================
