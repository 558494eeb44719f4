------------------------ MODULE InferenceServerProofs ------------------------
(***************************************************************************)
(* Proofs about the inference server, for any number of sessions, models   *)
(* and generations, any token limit and any channel capacity.              *)
(*                                                                         *)
(* The four safety properties are about what generations do to each other  *)
(* through the cancellation set and the runtime's cache, so each needs     *)
(* what the history variables record (Shared: whoever runs beside another, *)
(* or starts before the one before has cleared its session's cancellation, *)
(* is marked) and what the shared state holds for a generation that has    *)
(* been alone: its cancellation stays requested until it ends (Pending),   *)
(* a request not yet spent is one more than its victims (Unspent), and the *)
(* cache holds only its tokens (Clean).                                    *)
(***************************************************************************)
EXTENDS InferenceServer, TLAPS, FiniteSetTheorems

\* The task has yet to clear the cancellation of its session.
Alive(g) == Running(g) \/ Returning(g)

\* It has nothing more to send.
Over(g) == gen[g].pc \in {"Returning", "Ended"}

\* The task counts what it sends: an Idle one has sent nothing, one that has
\* sampled a token is below the limit, and only tokens sent overshoot.
Counted ==
    \A g \in Gens :
        /\ gen[g].pc = "Idle" => gen[g].event = "Status" /\ g \notin asked
        /\ gen[g].event = "Status" => ~Over(g) /\ gen[g].generated = 0
        /\ gen[g].event = "Token" => gen[g].generated < MaxTokens
        /\ overshoot[g] <= gen[g].generated
        /\ g \notin asked => overshoot[g] = 0

\* What the stream of g holds at each point of its task.
StreamOf(g) ==
    LET st == stream[g] IN
    /\ gen[g].event = "Status" => st = <<>>
    /\ Len(st) <= gen[g].generated + (IF Over(g) THEN 2 ELSE 1)
    /\ \A i \in DOMAIN st :
         /\ st[i] = "Status" <=> i = 1
         /\ st[i] \in Terminal => Over(g) /\ i = Len(st)
    /\ gen[g].rx = "Open" /\ gen[g].event # "Status" => st # <<>>
    /\ gen[g].rx = "Open" /\ Over(g) => st[Len(st)] = gen[g].event

Streams == \A g \in Gens : StreamOf(g)

\* Of two generations of a session that are not both over, the later one is
\* marked, and whoever still runs; of two that run on a runtime, both are.
Shared ==
    \A g, h \in Gens : g # h =>
        /\ gen[g].session = gen[h].session /\ Alive(g) /\ Alive(h) =>
             /\ Running(g) => g \notin Alone
             /\ g \notin Alone \/ h \notin Alone
        /\ Running(g) /\ Running(h) /\ Runtime(g) = Runtime(h) => g \in overlapped

\* A generation alone on its session that was asked to stop still finds the
\* request, and has sent at most the token it had sampled.
Pending ==
    \A g \in Alone :
        /\ g \in asked /\ Running(g) => gen[g].session \in cancelled
        /\ overshoot[g] <= 1
        /\ overshoot[g] = 1 /\ Running(g) => gen[g].event # "Token"

\* Every victim has its request, and a request that nobody is ending on is
\* one more.
Unspent ==
    \A s \in Sessions :
        /\ IsFiniteSet(Victims(s))
        /\ Cardinality(Victims(s)) <= cancels[s]
        /\ s \in cancelled /\ (\A g \in Victims(s) : ~Alive(g)) =>
             Cardinality(Victims(s)) < cancels[s]

\* A generation alone on its runtime finds only its own tokens in the cache.
Clean ==
    \A g \in Gens \ overlapped :
        Running(g) /\ gen[g].event = "Token" => cache[Runtime(g)] \subseteq {g}

-----------------------------------------------------------------------------
(* What the steps of a task do to its record and to the shared state.       *)

Tasks == [pc : {"Idle", "Waiting", "Returning", "Ended"}, session : Sessions,
          generated : 0 .. MaxTokens, event : Events, rx : {"Open", "Dropped"}]

\* The record of g becomes r, and those of the others stay.
Becomes(g, r) ==
    /\ gen' \in [Gens -> Tasks]
    /\ gen'[g] = r
    /\ \A h \in Gens \ {g} : gen'[h] = gen[h]

\* A session has a model, and a task has a session.
LEMMA RuntimeType ==
    ASSUME TypeOK, NEW g \in Gens
    PROVE  gen[g] \in Tasks /\ gen[g].session \in Sessions /\ Runtime(g) \in Models
BY ServerAssumption DEF TypeOK, Tasks, Runtime

\* ThenSend sets the two fields that the task goes on with.
LEMMA ThenSendBecomes ==
    ASSUME TypeOK, NEW g \in Gens, NEW e \in Events, NEW n \in 0 .. MaxTokens,
           ThenSend(g, e, n)
    PROVE  Becomes(g, [gen[g] EXCEPT !.event = e, !.generated = n])
BY DEF TypeOK, ThenSend, Becomes, Tasks

\* A task that sends goes on at the loop head, or to report an error.
Advances(g, e, n) ==
    /\ Becomes(g, [gen[g] EXCEPT !.event = e, !.generated = n])
    /\ n = (IF gen[g].event = "Status" THEN 0 ELSE gen[g].generated + 1)
    /\ e = "Token" => n < MaxTokens /\ gen[g].session \notin cancelled
    /\ e = "Cancelled" => gen[g].session \in cancelled

\* The head of the decode loop polls the limit before the cancellation set.
LEMMA LoopHeadAdvances ==
    ASSUME TypeOK, NEW g \in Gens, NEW n \in 0 .. MaxTokens, LoopHead(g, n),
           n = (IF gen[g].event = "Status" THEN 0 ELSE gen[g].generated + 1)
    PROVE  \E e \in Events \ {"Status"} : Advances(g, e, n)
<1>1. n \in Nat /\ MaxTokens \in Nat
  BY ServerAssumption
<1>2. CASE n >= MaxTokens
  <2>1. ThenSend(g, "Done", n)
    BY <1>2 DEF LoopHead
  <2>2. Advances(g, "Done", n)
    BY <2>1, ThenSendBecomes DEF Advances, Events, Terminal
  <2>3. QED
    BY <2>2 DEF Events, Terminal
<1>3. CASE n < MaxTokens /\ gen[g].session \in cancelled
  <2>1. ThenSend(g, "Cancelled", n)
    BY <1>1, <1>3 DEF LoopHead
  <2>2. Advances(g, "Cancelled", n)
    BY <1>3, <2>1, ThenSendBecomes DEF Advances, Events, Terminal
  <2>3. QED
    BY <2>2 DEF Events, Terminal
<1>4. CASE n < MaxTokens /\ gen[g].session \notin cancelled
  <2>1. PICK e \in {"Token", "Done", "Error"} : ThenSend(g, e, n)
    BY <1>1, <1>4 DEF LoopHead
  <2>2. Advances(g, e, n)
    BY <1>4, <2>1, ThenSendBecomes DEF Advances, Events, Terminal
  <2>3. QED
    BY <2>2 DEF Events, Terminal
<1>5. QED
  BY <1>1, <1>2, <1>3, <1>4

\* The status event, sent or not, is followed by the prefill.
LEMMA SendStatusAdvances ==
    ASSUME TypeOK, NEW g \in Gens, SendStatus(g)
    PROVE  \E e \in Events \ {"Status"} :
             /\ Advances(g, e, 0)
             /\ \/ cache' = [cache EXCEPT ![Runtime(g)] = {g}]
                \/ cache' = cache /\ e # "Token"
<1>1. gen[g].event = "Status" /\ Prefill(g) /\ 0 \in 0 .. MaxTokens
  BY ServerAssumption DEF SendStatus
<1>2. CASE cache' = [cache EXCEPT ![Runtime(g)] = {g}] /\ LoopHead(g, 0)
  <2>1. \E e \in Events \ {"Status"} : Advances(g, e, 0)
    BY <1>1, <1>2, LoopHeadAdvances
  <2>2. QED
    BY <1>2, <2>1
<1>3. CASE cache' = cache /\ ThenSend(g, "Error", 0)
  <2>1. Advances(g, "Error", 0)
    BY <1>1, <1>3, ThenSendBecomes DEF Advances, Events, Terminal
  <2>2. QED
    BY <1>3, <2>1 DEF Events, Terminal
<1>4. QED
  BY <1>1, <1>2, <1>3 DEF Prefill

\* A token that is sent is followed by the decode step.
LEMMA SendTokenAdvances ==
    ASSUME TypeOK, Counted, NEW g \in Gens, SendToken(g), gen[g].rx # "Dropped"
    PROVE  /\ \E e \in Events \ {"Status"} : Advances(g, e, gen[g].generated + 1)
           /\ cache' \in {cache, [cache EXCEPT ![Runtime(g)] = @ \cup {g}]}
<1> DEFINE n == gen[g].generated + 1
<1>1. gen[g].event = "Token" /\ Decode(g)
  BY DEF SendToken
<1>2. n \in 0 .. MaxTokens /\ n = (IF gen[g].event = "Status" THEN 0 ELSE gen[g].generated + 1)
  BY <1>1, ServerAssumption, RuntimeType DEF Counted, Tasks
<1>3. CASE LoopHead(g, n)
  BY <1>1, <1>2, <1>3, LoopHeadAdvances DEF Decode
<1>4. CASE ThenSend(g, "Error", n)
  <2>1. Advances(g, "Error", n)
    BY <1>2, <1>4, ThenSendBecomes DEF Advances, Events, Terminal
  <2>2. QED
    BY <1>1, <2>1 DEF Decode, Events, Terminal
<1>5. QED
  BY <1>1, <1>3, <1>4 DEF Decode

\* A task returns with its last event, or with a token that nobody receives.
Ends(g) ==
    /\ SendFinal(g) \/ (SendToken(g) /\ gen[g].rx = "Dropped")
    /\ Becomes(g, [gen[g] EXCEPT !.pc = "Returning"])
    /\ UNCHANGED <<session, cancelled, cache, cancels, asked, overshoot, crowded, hurried,
                   overlapped, foreign>>

\* Either way its cleanup is still to come.
LEMMA EndBecomes ==
    ASSUME TypeOK, NEW g \in Gens, SendFinal(g) \/ (SendToken(g) /\ gen[g].rx = "Dropped")
    PROVE  Ends(g)
<1>1. Return(g) /\ UNCHANGED <<session, cancelled, cache, cancels, asked, overshoot, crowded,
                              hurried, overlapped, foreign>>
  BY DEF SendFinal, SendToken, history, requests, sharing
<1>2. Becomes(g, [gen[g] EXCEPT !.pc = "Returning"])
  BY <1>1 DEF Return, TypeOK, Becomes, Tasks
<1>3. QED
  BY <1>1, <1>2 DEF Ends

\* The cleanup touches the task's pc and the cancellation of its session.
LEMMA CleanupBecomes ==
    ASSUME TypeOK, NEW g \in Gens, Cleanup(g)
    PROVE  /\ Becomes(g, [gen[g] EXCEPT !.pc = "Ended"])
           /\ cancelled' = cancelled \ {gen[g].session}
           /\ UNCHANGED <<session, stream, unread, cache, cancels, asked, overshoot, crowded,
                          hurried, overlapped, foreign>>
<1>1. Becomes(g, [gen[g] EXCEPT !.pc = "Ended"])
  BY DEF Cleanup, TypeOK, Becomes, Tasks
<1>2. QED
  BY <1>1 DEF Cleanup, history, requests, sharing

\* generate spawns the task on a session.
LEMMA GenerateBecomes ==
    ASSUME TypeOK, NEW g \in Gens, NEW s \in Sessions, Generate(g, s)
    PROVE  Becomes(g, [gen[g] EXCEPT !.pc = "Waiting", !.session = s])
BY DEF Generate, TypeOK, Becomes, Tasks

\* The receiver goes with its handler.
LEMMA DropBecomes ==
    ASSUME TypeOK, NEW g \in Gens, DropReceiver(g)
    PROVE  Becomes(g, [gen[g] EXCEPT !.rx = "Dropped"])
BY DEF DropReceiver, TypeOK, Becomes, Tasks

\* Every step is one of these, the first that of a client or a handler that
\* touches no task.
LEMMA StepCases ==
    ASSUME TypeOK, [Next]_vars
    PROVE  \/ UNCHANGED <<cancelled, gen, stream, cache, cancels, asked, overshoot,
                          crowded, hurried, overlapped, foreign>>
           \/ \E s \in Sessions : Cancel(s)
           \/ \E g \in Gens, s \in Sessions : Generate(g, s)
           \/ \E g \in Gens : SendStatus(g)
           \/ \E g \in Gens : SendToken(g) /\ gen[g].rx # "Dropped"
           \/ \E g \in Gens : Ends(g)
           \/ \E g \in Gens : Cleanup(g)
           \/ \E g \in Gens : DropReceiver(g)
<1>1. ASSUME NEW s \in Sessions, CreateSession(s) \/ CloseSession(s)
      PROVE  UNCHANGED <<cancelled, gen, stream, cache, cancels, asked, overshoot,
                         crowded, hurried, overlapped, foreign>>
  BY <1>1 DEF CreateSession, CloseSession, history, requests, sharing
<1>2. ASSUME NEW g \in Gens, Receive(g)
      PROVE  UNCHANGED <<cancelled, gen, stream, cache, cancels, asked, overshoot,
                         crowded, hurried, overlapped, foreign>>
  BY <1>2 DEF Receive, history, requests, sharing
<1>3. ASSUME NEW g \in Gens, SendFinal(g) \/ (SendToken(g) /\ gen[g].rx = "Dropped") PROVE Ends(g)
  BY <1>3, EndBecomes
<1>4. QED
  BY <1>1, <1>2, <1>3 DEF Next, Task, vars

-----------------------------------------------------------------------------

\* A send appends one event to the stream and leaves its channel in bounds.
LEMMA SendType ==
    ASSUME TypeOK, NEW g \in Gens, NEW e \in Events, Send(g, e)
    PROVE  /\ stream' \in [Gens -> Seq(Events)]
           /\ unread' \in [Gens -> 0 .. ChannelCap]
           /\ \A h \in Gens \ {g} : stream'[h] = stream[h]
           /\ \/ gen[g].rx = "Open" /\ stream'[g] = Append(stream[g], e)
              \/ gen[g].rx = "Dropped" /\ stream'[g] = stream[g]
<1>1. CASE UNCHANGED <<stream, unread>> /\ gen[g].rx = "Dropped"
  BY <1>1 DEF TypeOK
<1>2. CASE /\ unread[g] < ChannelCap /\ gen[g].rx = "Open"
           /\ stream' = [stream EXCEPT ![g] = Append(@, e)]
           /\ unread' = [unread EXCEPT ![g] = @ + 1]
  <2>1. Append(stream[g], e) \in Seq(Events) /\ unread[g] + 1 \in 0 .. ChannelCap
    BY <1>2, ServerAssumption DEF TypeOK
  <2>2. QED
    BY <1>2, <2>1 DEF TypeOK
<1>3. QED
  BY <1>1, <1>2 DEF Send

\* Every step keeps the types; the counters stay in range because a token is
\* sampled below the limit only.
LEMMA TypeOKStep == TypeOK /\ Counted /\ [Next]_vars => TypeOK'
<1> SUFFICES ASSUME TypeOK, Counted, [Next]_vars PROVE TypeOK'
  OBVIOUS
<1> USE DEF TypeOK
<1>1. ASSUME NEW s \in Sessions, CreateSession(s) PROVE TypeOK'
  BY <1>1 DEF CreateSession, history, requests, sharing
<1>2. ASSUME NEW s \in Sessions, CloseSession(s) PROVE TypeOK'
  BY <1>2 DEF CloseSession, history, requests, sharing
<1>3. ASSUME NEW s \in Sessions, Cancel(s) PROVE TypeOK'
  <2>1. cancels' \in [Sessions -> 0 .. MaxCancels]
    BY <1>3, ServerAssumption DEF Cancel
  <2>2. QED
    BY <1>3, <2>1 DEF Cancel, sharing
<1>4. ASSUME NEW g \in Gens, NEW s \in Sessions, Generate(g, s) PROVE TypeOK'
  <2>1. gen' \in [Gens -> Tasks]
    BY <1>4, GenerateBecomes DEF Becomes
  <2>2. overlapped' \subseteq Gens /\ crowded' \subseteq Gens /\ hurried' \subseteq Gens
    BY <1>4 DEF Generate, Joined
  <2>3. QED
    BY <1>4, <2>1, <2>2 DEF Generate, requests, Tasks
<1>5. ASSUME NEW g \in Gens, SendStatus(g) PROVE TypeOK'
  <2>1. PICK e \in Events \ {"Status"} :
             /\ Advances(g, e, 0)
             /\ \/ cache' = [cache EXCEPT ![Runtime(g)] = {g}]
                \/ cache' = cache /\ e # "Token"
    BY <1>5, SendStatusAdvances
  <2>2. gen' \in [Gens -> Tasks] /\ cache' \in [Models -> SUBSET Gens]
    <3>1. gen' \in [Gens -> Tasks]
      BY <2>1 DEF Advances, Becomes
    <3>2. Runtime(g) \in Models
      BY RuntimeType
    <3>3. cache' \in [Models -> SUBSET Gens]
      <4>1. CASE cache' = cache
        BY <4>1
      <4>2. CASE cache' = [cache EXCEPT ![Runtime(g)] = {g}]
        BY <3>2, <4>2
      <4>3. QED
        BY <2>1, <4>1, <4>2
    <3>4. QED
      BY <3>1, <3>3
  <2>3. stream' \in [Gens -> Seq(Events)] /\ unread' \in [Gens -> 0 .. ChannelCap]
    BY <1>5, SendType DEF SendStatus, Events
  <2>4. QED
    BY <1>5, <2>2, <2>3 DEF SendStatus, history, requests, sharing, Tasks
<1>6. ASSUME NEW g \in Gens, SendToken(g), gen[g].rx # "Dropped" PROVE TypeOK'
  <2>1. PICK e \in Events \ {"Status"} : Advances(g, e, gen[g].generated + 1)
    BY <1>6, SendTokenAdvances
  <2>2. gen' \in [Gens -> Tasks] /\ cache' \in [Models -> SUBSET Gens]
    <3>1. gen' \in [Gens -> Tasks]
      BY <2>1 DEF Advances, Becomes
    <3>2. Runtime(g) \in Models /\ cache' \in {cache, [cache EXCEPT ![Runtime(g)] = @ \cup {g}]}
      BY <1>6, SendTokenAdvances, RuntimeType
    <3>3. cache' \in [Models -> SUBSET Gens]
      <4>1. CASE cache' = cache
        BY <4>1
      <4>2. CASE cache' = [cache EXCEPT ![Runtime(g)] = @ \cup {g}]
        BY <3>2, <4>2
      <4>3. QED
        BY <3>2, <4>1, <4>2
    <3>4. QED
      BY <3>1, <3>3
  <2>3. stream' \in [Gens -> Seq(Events)] /\ unread' \in [Gens -> 0 .. ChannelCap]
    BY <1>6, SendType DEF SendToken, Events
  <2>4. overshoot' \in [Gens -> 0 .. MaxTokens]
    <3>1. overshoot[g] + 1 \in 0 .. MaxTokens
      BY <1>6, ServerAssumption DEF SendToken, Counted
    <3>2. QED
      BY <1>6, <3>1 DEF SendToken
  <2>5. foreign' \subseteq Gens
    BY <1>6 DEF SendToken, Decode
  <2>6. UNCHANGED <<session, cancelled, cancels, asked, crowded, hurried, overlapped>>
    BY <1>6 DEF SendToken, requests, sharing
  <2>7. QED
    BY <2>2, <2>3, <2>4, <2>5, <2>6 DEF Tasks
<1>7. ASSUME NEW g \in Gens, Ends(g) PROVE TypeOK'
  <2>1. stream' \in [Gens -> Seq(Events)] /\ unread' \in [Gens -> 0 .. ChannelCap]
    BY <1>7, SendType DEF Ends, SendFinal, SendToken, Events
  <2>2. QED
    BY <1>7, <2>1 DEF Ends, Becomes, Tasks
<1>8. ASSUME NEW g \in Gens, Receive(g) PROVE TypeOK'
  BY <1>8, ServerAssumption DEF Receive, history, requests, sharing
<1>9. ASSUME NEW g \in Gens, DropReceiver(g) PROVE TypeOK'
  <2>1. gen' \in [Gens -> Tasks]
    BY <1>9, DropBecomes DEF Becomes
  <2>2. unread' \in [Gens -> 0 .. ChannelCap]
    BY <1>9, ServerAssumption DEF DropReceiver
  <2>3. QED
    BY <1>9, <2>1, <2>2 DEF DropReceiver, history, requests, sharing, Tasks
<1>10. ASSUME NEW g \in Gens, Cleanup(g) PROVE TypeOK'
  BY <1>10, CleanupBecomes DEF Becomes, Tasks
<1>11. CASE UNCHANGED vars
  BY <1>11 DEF vars
<1>12. QED
  BY <1>1, <1>2, <1>3, <1>4, <1>5, <1>6, <1>7, <1>8, <1>9, <1>10, <1>11, EndBecomes
     DEF Next, Task

-----------------------------------------------------------------------------

\* The fields of the task that goes on, and of the others.
LEMMA AdvanceFields ==
    ASSUME TypeOK, NEW g \in Gens, NEW e, NEW n, Advances(g, e, n)
    PROVE  /\ gen'[g].pc = gen[g].pc /\ gen'[g].session = gen[g].session
           /\ gen'[g].rx = gen[g].rx /\ gen'[g].event = e /\ gen'[g].generated = n
           /\ \A h \in Gens \ {g} : gen'[h] = gen[h]
BY RuntimeType DEF Advances, Becomes, Tasks

\* A task that ends has sent its status event, and keeps all but its pc.
LEMMA EndFields ==
    ASSUME TypeOK, NEW g \in Gens, Ends(g)
    PROVE  /\ gen[g].pc = "Waiting" /\ gen'[g].pc = "Returning"
           /\ gen'[g].session = gen[g].session /\ gen'[g].rx = gen[g].rx
           /\ gen'[g].event = gen[g].event /\ gen'[g].generated = gen[g].generated
           /\ gen[g].event # "Status"
           /\ \A h \in Gens \ {g} : gen'[h] = gen[h]
<1>1. gen[g].pc = "Waiting" /\ gen[g].event # "Status"
  BY DEF Ends, SendFinal, SendToken, Running, Terminal
<1>2. QED
  BY <1>1, RuntimeType DEF Ends, Becomes, Tasks

\* A task that cleans up.
LEMMA CleanupFields ==
    ASSUME TypeOK, NEW g \in Gens, Cleanup(g)
    PROVE  /\ gen[g].pc = "Returning" /\ gen'[g].pc = "Ended"
           /\ gen'[g].session = gen[g].session /\ gen'[g].rx = gen[g].rx
           /\ gen'[g].event = gen[g].event /\ gen'[g].generated = gen[g].generated
           /\ \A h \in Gens \ {g} : gen'[h] = gen[h]
<1>1. gen[g].pc = "Returning"
  BY DEF Cleanup, Returning
<1>2. QED
  BY <1>1, CleanupBecomes, RuntimeType DEF Becomes, Tasks

\* A task that starts.
LEMMA GenerateFields ==
    ASSUME TypeOK, NEW g \in Gens, NEW s \in Sessions, Generate(g, s)
    PROVE  /\ gen[g].pc = "Idle" /\ gen'[g].pc = "Waiting"
           /\ gen'[g].session = s /\ gen'[g].rx = gen[g].rx
           /\ gen'[g].event = gen[g].event /\ gen'[g].generated = gen[g].generated
           /\ \A h \in Gens \ {g} : gen'[h] = gen[h]
<1>1. gen[g] \in Tasks /\ gen[g].pc = "Idle"
  BY RuntimeType DEF Generate
<1>2. Becomes(g, [gen[g] EXCEPT !.pc = "Waiting", !.session = s])
  BY GenerateBecomes
<1>3. QED
  BY <1>1, <1>2 DEF Becomes, Tasks

\* A task whose receiver goes.
LEMMA DropFields ==
    ASSUME TypeOK, NEW g \in Gens, DropReceiver(g)
    PROVE  /\ gen'[g].pc = gen[g].pc /\ gen'[g].rx = "Dropped" /\ gen[g].pc \in {"Waiting", "Returning"}
           /\ gen'[g].session = gen[g].session
           /\ gen'[g].event = gen[g].event /\ gen'[g].generated = gen[g].generated
           /\ \A h \in Gens \ {g} : gen'[h] = gen[h]
BY DropBecomes, RuntimeType DEF DropReceiver, Running, Returning, Becomes, Tasks

\* Counting is kept: Status comes first and once, a sampled token is below the
\* limit, and every token that overshoots was generated.
LEMMA CountedStep == TypeOK /\ Counted /\ [Next]_vars => Counted'
<1> SUFFICES ASSUME TypeOK, Counted, [Next]_vars PROVE Counted'
  OBVIOUS
<1>0. \A h \in Gens : overshoot[h] \in Nat /\ gen[h].generated \in Nat
  BY RuntimeType, ServerAssumption DEF TypeOK, Tasks
<1>1. CASE UNCHANGED <<gen, asked, overshoot>>
  BY <1>1 DEF Counted, Over
<1>2. ASSUME NEW s \in Sessions, Cancel(s) PROVE Counted'
  BY <1>2 DEF Cancel, Counted, Over, Running
<1>3. ASSUME NEW g \in Gens, NEW s \in Sessions, Generate(g, s) PROVE Counted'
  <2>1. UNCHANGED <<asked, overshoot>>
    BY <1>3 DEF Generate, requests
  <2>2. QED
    BY <1>3, <2>1, GenerateFields DEF Counted, Over
<1>4. ASSUME NEW g \in Gens, SendStatus(g) PROVE Counted'
  <2>1. PICK e \in Events \ {"Status"} : Advances(g, e, 0)
    BY <1>4, SendStatusAdvances
  <2>2. UNCHANGED <<asked, overshoot>> /\ gen[g].pc = "Waiting" /\ gen[g].event = "Status"
    BY <1>4 DEF SendStatus, history, requests, Running
  <2>3. e = "Token" => 0 < MaxTokens
    BY <2>1 DEF Advances
  <2>4. QED
    BY <2>1, <2>2, <2>3, AdvanceFields DEF Counted, Over
<1>5. ASSUME NEW g \in Gens, SendToken(g), gen[g].rx # "Dropped" PROVE Counted'
  <2> DEFINE n == gen[g].generated + 1
  <2>1. PICK e \in Events \ {"Status"} : Advances(g, e, n)
    BY <1>5, SendTokenAdvances
  <2>2. UNCHANGED asked /\ gen[g].pc = "Waiting" /\ gen[g].event = "Token"
    BY <1>5 DEF SendToken, requests, Running
  <2>3. e = "Token" => n < MaxTokens
    BY <2>1 DEF Advances
  <2>4. /\ \A h \in Gens \ {g} : overshoot'[h] = overshoot[h]
        /\ overshoot'[g] = IF g \in asked THEN overshoot[g] + 1 ELSE overshoot[g]
    BY <1>5 DEF SendToken, TypeOK
  <2>5. QED
    BY <1>0, <2>1, <2>2, <2>3, <2>4, AdvanceFields DEF Counted, Over
<1>6. ASSUME NEW g \in Gens, Ends(g) PROVE Counted'
  <2>1. UNCHANGED <<asked, overshoot>>
    BY <1>6 DEF Ends
  <2>2. QED
    BY <1>6, <2>1, EndFields DEF Counted, Over
<1>7. ASSUME NEW g \in Gens, DropReceiver(g) PROVE Counted'
  <2>1. UNCHANGED <<asked, overshoot>>
    BY <1>7 DEF DropReceiver, history, requests
  <2>2. QED
    BY <1>7, <2>1, DropFields DEF Counted, Over
<1>8. ASSUME NEW g \in Gens, Cleanup(g) PROVE Counted'
  <2>1. UNCHANGED <<asked, overshoot>>
    BY <1>8, CleanupBecomes
  <2>2. QED
    BY <1>8, <2>1, CleanupFields DEF Counted, Over
<1>9. QED
  BY <1>1, <1>2, <1>3, <1>4, <1>5, <1>6, <1>7, <1>8, StepCases

\* Whoever starts beside a running generation is marked with it.
LEMMA SharedStep == TypeOK /\ Counted /\ Shared /\ [Next]_vars => Shared'
<1> SUFFICES ASSUME TypeOK, Counted, Shared, [Next]_vars PROVE Shared'
  OBVIOUS
<1>1. ASSUME UNCHANGED <<crowded, hurried, overlapped>>,
             \A h \in Gens : /\ gen'[h].session = gen[h].session
                             /\ gen'[h].pc = "Waiting" => gen[h].pc = "Waiting"
                             /\ gen'[h].pc = "Returning" => gen[h].pc \in {"Waiting", "Returning"}
      PROVE  Shared'
  <2>1. Alone' = Alone
    BY <1>1 DEF Alone
  <2>2. \A h \in Gens : /\ Running(h)' => Running(h)
                        /\ Alive(h)' => Alive(h)
                        /\ Runtime(h)' = Runtime(h)
    BY <1>1 DEF Alive, Running, Returning, Runtime
  <2>3. QED
    BY <1>1, <2>1, <2>2 DEF Shared
<1>2. CASE UNCHANGED <<gen, crowded, hurried, overlapped>>
  BY <1>1, <1>2
<1>3. ASSUME NEW s \in Sessions, Cancel(s) PROVE Shared'
  BY <1>1, <1>3 DEF Cancel, sharing
<1>4. ASSUME NEW g \in Gens, NEW s \in Sessions, Generate(g, s) PROVE Shared'
  <2> DEFINE beside == {h \in Gens : Running(h) /\ gen[h].session = s}
             running == {h \in Gens : Running(h) /\ Runtime(h) = ModelOf[s]}
  <2>1. /\ crowded \subseteq crowded' /\ beside \subseteq crowded'
        /\ beside # {} => g \in crowded'
    BY <1>4 DEF Generate, Joined
  <2>2. /\ overlapped \subseteq overlapped' /\ running \subseteq overlapped'
        /\ running # {} => g \in overlapped'
    BY <1>4 DEF Generate, Joined
  <2>3. /\ hurried \subseteq hurried'
        /\ (\E h \in Gens : Returning(h) /\ gen[h].session = s) => g \in hurried'
    BY <1>4 DEF Generate
  <2>4. /\ \A h \in Gens : h \notin Alone => h \notin Alone'
        /\ \A h \in Gens : Running(h) /\ gen[h].session = s => h \notin Alone' /\ g \notin Alone'
        /\ \A h \in Gens : Returning(h) /\ gen[h].session = s => g \notin Alone'
    BY <2>1, <2>3 DEF Alone
  <2>5. \A h \in Gens \ {g} : /\ Running(h)' = Running(h) /\ Returning(h)' = Returning(h)
                              /\ Alive(h)' = Alive(h) /\ Runtime(h)' = Runtime(h)
                              /\ gen'[h].session = gen[h].session
    BY <1>4, GenerateFields DEF Alive, Running, Returning, Runtime
  <2>6. gen'[g].session = s /\ Runtime(g)' = ModelOf[s]
    BY <1>4, GenerateFields DEF Runtime
  <2>7. ASSUME NEW h \in Gens, NEW k \in Gens, h # k, h # g, k # g
        PROVE  /\ gen'[h].session = gen'[k].session /\ Alive(h)' /\ Alive(k)' =>
                    /\ Running(h)' => h \notin Alone'
                    /\ h \notin Alone' \/ k \notin Alone'
               /\ Running(h)' /\ Running(k)' /\ Runtime(h)' = Runtime(k)' => h \in overlapped'
    BY <2>2, <2>4, <2>5, <2>7 DEF Shared
  <2>8. ASSUME NEW h \in Gens, h # g
        PROVE  /\ gen'[h].session = s /\ Alive(h)' =>
                    /\ Running(h)' => h \notin Alone'
                    /\ g \notin Alone'
               /\ Running(h)' /\ Runtime(h)' = Runtime(g)' => h \in overlapped' /\ g \in overlapped'
    BY <2>2, <2>4, <2>5, <2>6, <2>8 DEF Alive
  <2>9. QED
    BY <2>6, <2>7, <2>8 DEF Shared
<1>5. ASSUME NEW g \in Gens, SendStatus(g) PROVE Shared'
  <2>1. UNCHANGED <<crowded, hurried, overlapped>>
    BY <1>5 DEF SendStatus, history, sharing
  <2>2. QED
    BY <1>1, <1>5, <2>1, SendStatusAdvances, AdvanceFields
<1>6. ASSUME NEW g \in Gens, SendToken(g), gen[g].rx # "Dropped" PROVE Shared'
  <2>1. UNCHANGED <<crowded, hurried, overlapped>>
    BY <1>6 DEF SendToken, sharing
  <2>2. QED
    BY <1>1, <1>6, <2>1, SendTokenAdvances, AdvanceFields
<1>7. ASSUME NEW g \in Gens, Ends(g) PROVE Shared'
  BY <1>1, <1>7, EndFields DEF Ends
<1>8. ASSUME NEW g \in Gens, DropReceiver(g) PROVE Shared'
  BY <1>1, <1>8, DropFields DEF DropReceiver, history, sharing
<1>9. ASSUME NEW g \in Gens, Cleanup(g) PROVE Shared'
  BY <1>1, <1>9, CleanupFields, CleanupBecomes
<1>10. QED
  BY <1>2, <1>3, <1>4, <1>5, <1>6, <1>7, <1>8, <1>9, StepCases

\* What every later proof about the server builds on.
ServerInv == TypeOK /\ Counted /\ Shared

\* It holds of every execution.
LEMMA ServerInvHolds == Spec => []ServerInv
<1>1. Init => ServerInv
  <2> SUFFICES ASSUME Init PROVE ServerInv
    OBVIOUS
  <2>1. (CHOOSE s \in Sessions : TRUE) \in Sessions
    BY ServerAssumption
  <2>2. Idle \in Tasks
    BY <2>1, ServerAssumption DEF Idle, Tasks, Events
  <2>3. TypeOK
    BY <2>2, ServerAssumption DEF Init, TypeOK, Tasks
  <2>4. \A g \in Gens : gen[g].pc = "Idle" /\ gen[g].event = "Status" /\ gen[g].generated = 0
    BY DEF Init, Idle
  <2>5. Counted /\ Shared
    BY <2>4 DEF Init, Counted, Over, Shared, Alive, Running, Returning
  <2>6. QED
    BY <2>3, <2>5 DEF ServerInv
<1>2. ServerInv /\ [Next]_vars => ServerInv'
  BY TypeOKStep, CountedStep, SharedStep DEF ServerInv
<1>3. QED
  BY <1>1, <1>2, PTL DEF Spec

\* Every variable keeps its type: no channel runs over, no generation counts
\* past max_new_tokens.
THEOREM TypeCorrect == Spec => []TypeOK
BY ServerInvHolds, PTL DEF ServerInv

-----------------------------------------------------------------------------

\* An event appended to the stream of a task that goes on, or ends.
LEMMA AppendShape ==
    ASSUME NEW st \in Seq(Events), NEW e \in Events
    PROVE  /\ Append(st, e) \in Seq(Events) /\ Append(st, e) # <<>>
           /\ Len(Append(st, e)) = Len(st) + 1
           /\ DOMAIN Append(st, e) = 1 .. Len(st) + 1
           /\ \A i \in 1 .. Len(st) : Append(st, e)[i] = st[i]
           /\ Append(st, e)[Len(st) + 1] = e
           /\ DOMAIN st = 1 .. Len(st) /\ Len(st) \in Nat
           /\ st # <<>> <=> Len(st) > 0
OBVIOUS

\* A stream grows by the event its task was to send, and only then.
LEMMA StreamsStep == TypeOK /\ Counted /\ Streams /\ [Next]_vars => Streams'
<1> SUFFICES ASSUME TypeOK, Counted, Streams, [Next]_vars PROVE Streams'
  OBVIOUS
<1>1. ASSUME NEW h \in Gens, gen'[h] = gen[h], stream'[h] = stream[h] PROVE StreamOf(h)'
  BY <1>1 DEF Streams, StreamOf, Over
<1>0. ASSUME NEW g \in Gens
      PROVE  /\ stream[g] \in Seq(Events) /\ gen[g].generated \in Nat
             /\ gen[g].event \in Events /\ gen[g].rx \in {"Open", "Dropped"}
  BY RuntimeType, ServerAssumption DEF TypeOK, Tasks
<1>2. CASE UNCHANGED <<gen, stream>>
  BY <1>1, <1>2 DEF Streams
<1>3. ASSUME NEW s \in Sessions, Cancel(s) PROVE Streams'
  BY <1>1, <1>3 DEF Cancel, Streams
<1>4. ASSUME NEW g \in Gens, NEW s \in Sessions, Generate(g, s) PROVE Streams'
  <2>1. UNCHANGED stream
    BY <1>4 DEF Generate
  <2>2. gen[g].event = "Status"
    BY <1>4, GenerateFields DEF Counted
  <2>3. StreamOf(g)'
    BY <1>4, <2>1, <2>2, GenerateFields DEF Streams, StreamOf, Over
  <2>4. QED
    BY <1>1, <1>4, <2>1, <2>3, GenerateFields DEF Streams
<1>5. ASSUME NEW g \in Gens, SendStatus(g) PROVE Streams'
  <2>1. PICK e \in Events \ {"Status"} : Advances(g, e, 0)
    BY <1>5, SendStatusAdvances
  <2>2. gen[g].event = "Status" /\ gen[g].pc = "Waiting" /\ Send(g, "Status") /\ "Status" \in Events
    BY <1>5 DEF SendStatus, Running, Events
  <2>3. stream[g] = <<>>
    BY <2>2 DEF Streams, StreamOf, Over
  <2>4. /\ \A h \in Gens \ {g} : stream'[h] = stream[h]
        /\ \/ gen[g].rx = "Open" /\ stream'[g] = Append(<<>>, "Status")
           \/ gen[g].rx = "Dropped" /\ stream'[g] = <<>>
    BY <2>2, <2>3, SendType
  <2>5. StreamOf(g)'
    <3>1. CASE gen[g].rx = "Open"
      <4>1. stream'[g] = <<"Status">>
        BY <2>4, <3>1
      <4>2. QED
        BY <2>1, <2>2, <3>1, <4>1, AdvanceFields DEF StreamOf, Over, Terminal
    <3>2. CASE gen[g].rx = "Dropped"
      BY <2>1, <2>2, <2>4, <3>2, AdvanceFields DEF StreamOf, Over
    <3>3. QED
      BY <2>4, <3>1, <3>2
  <2>6. QED
    BY <1>1, <2>1, <2>4, <2>5, AdvanceFields DEF Streams
<1>6. ASSUME NEW g \in Gens, SendToken(g), gen[g].rx # "Dropped" PROVE Streams'
  <2> DEFINE st == stream[g]
  <2>1. PICK e \in Events \ {"Status"} : Advances(g, e, gen[g].generated + 1)
    BY <1>6, SendTokenAdvances
  <2>2. gen[g].event = "Token" /\ gen[g].pc = "Waiting" /\ Send(g, "Token") /\ "Token" \in Events
    BY <1>6 DEF SendToken, Running, Events
  <2>3. /\ \A h \in Gens \ {g} : stream'[h] = stream[h]
        /\ gen[g].rx = "Open" /\ stream'[g] = Append(st, "Token")
    BY <1>6, <2>2, SendType
  <2>4. StreamOf(g) /\ st \in Seq(Events) /\ gen[g].generated \in Nat
    BY <1>0 DEF Streams
  <2>5. /\ Len(st) <= gen[g].generated + 1 /\ st # <<>>
        /\ \A i \in DOMAIN st : (st[i] = "Status" <=> i = 1) /\ st[i] \notin Terminal
    BY <2>2, <2>3, <2>4 DEF StreamOf, Over
  <2>6. StreamOf(g)'
    <3> DEFINE new == stream'[g]
    <3>1. /\ Len(new) = Len(st) + 1 /\ DOMAIN new = 1 .. Len(st) + 1
          /\ \A i \in 1 .. Len(st) : new[i] = st[i]
          /\ new[Len(st) + 1] = "Token" /\ new # <<>>
          /\ DOMAIN st = 1 .. Len(st) /\ Len(st) \in Nat /\ Len(st) > 0
      BY <2>2, <2>3, <2>4, <2>5, AppendShape
    <3>2. "Token" \notin Terminal
      BY DEF Terminal
    <3>3. \A i \in DOMAIN new : (new[i] = "Status" <=> i = 1) /\ new[i] \notin Terminal
      BY <2>5, <3>1, <3>2
    <3>4. /\ gen'[g].pc = "Waiting" /\ gen'[g].event # "Status"
          /\ gen'[g].generated = gen[g].generated + 1
      BY <2>1, <2>2, AdvanceFields
    <3>5. Len(new) <= gen'[g].generated + 1
      BY <2>4, <2>5, <3>1, <3>4
    <3> HIDE DEF new
    <3>6. QED
      BY <3>1, <3>3, <3>4, <3>5 DEF StreamOf, Over, new
  <2>7. QED
    BY <1>1, <2>1, <2>3, <2>6, AdvanceFields DEF Streams
<1>7. ASSUME NEW g \in Gens, Ends(g) PROVE Streams'
  <2> DEFINE st == stream[g]
             e == gen[g].event
  <2>1. StreamOf(g) /\ st \in Seq(Events) /\ gen[g].generated \in Nat
        /\ e \in Events /\ gen[g].rx \in {"Open", "Dropped"}
    BY <1>0 DEF Streams
  <2>2. Send(g, e)
    BY <1>7 DEF Ends, SendFinal, SendToken
  <2>3. /\ \A h \in Gens \ {g} : stream'[h] = stream[h]
        /\ \/ gen[g].rx = "Open" /\ stream'[g] = Append(st, e)
           \/ gen[g].rx = "Dropped" /\ stream'[g] = st
    BY <2>1, <2>2, SendType
  <2>4. /\ gen[g].pc = "Waiting" /\ gen'[g].pc = "Returning" /\ gen'[g].rx = gen[g].rx
        /\ gen'[g].event = e /\ gen'[g].generated = gen[g].generated /\ e # "Status"
    BY <1>7, EndFields
  <2>5. /\ Len(st) <= gen[g].generated + 1
        /\ \A i \in DOMAIN st : (st[i] = "Status" <=> i = 1) /\ st[i] \notin Terminal
        /\ gen[g].rx = "Open" => st # <<>>
    BY <2>1, <2>4 DEF StreamOf, Over
  <2>6. CASE gen[g].rx = "Open"
    <3> DEFINE new == stream'[g]
    <3>1. /\ Len(new) = Len(st) + 1 /\ DOMAIN new = 1 .. Len(st) + 1
          /\ \A i \in 1 .. Len(st) : new[i] = st[i]
          /\ new[Len(st) + 1] = e /\ new # <<>>
          /\ DOMAIN st = 1 .. Len(st) /\ Len(st) \in Nat /\ Len(st) > 0
      BY <2>1, <2>3, <2>5, <2>6, AppendShape
    <3>2. \A i \in DOMAIN new : /\ new[i] = "Status" <=> i = 1
                                /\ new[i] \in Terminal => i = Len(new)
      BY <2>4, <2>5, <3>1
    <3>3. Len(new) <= gen'[g].generated + 2
      BY <2>1, <2>4, <2>5, <3>1
    <3>4. new[Len(new)] = gen'[g].event
      BY <2>4, <3>1
    <3> HIDE DEF new
    <3>5. StreamOf(g)'
      BY <2>4, <3>1, <3>2, <3>3, <3>4 DEF StreamOf, Over, new
    <3>6. QED
      BY <1>1, <1>7, <2>3, <3>5, EndFields DEF Streams
  <2>7. CASE gen[g].rx = "Dropped"
    <3>1. Len(st) \in Nat /\ Len(st) <= gen[g].generated + 2
      BY <2>1, <2>5
    <3>2. StreamOf(g)'
      BY <2>3, <2>4, <2>5, <2>7, <3>1 DEF StreamOf, Over
    <3>3. QED
      BY <1>1, <1>7, <2>3, <3>2, EndFields DEF Streams
  <2>8. QED
    BY <2>1, <2>6, <2>7
<1>8. ASSUME NEW g \in Gens, DropReceiver(g) PROVE Streams'
  <2>1. UNCHANGED stream
    BY <1>8 DEF DropReceiver
  <2>2. StreamOf(g)'
    BY <1>8, <2>1, DropFields DEF Streams, StreamOf, Over
  <2>3. QED
    BY <1>1, <1>8, <2>1, <2>2, DropFields DEF Streams
<1>9. ASSUME NEW g \in Gens, Cleanup(g) PROVE Streams'
  <2>1. UNCHANGED stream
    BY <1>9, CleanupBecomes
  <2>2. StreamOf(g)'
    BY <1>9, <2>1, CleanupFields DEF Streams, StreamOf, Over
  <2>3. QED
    BY <1>1, <1>9, <2>1, <2>2, CleanupFields DEF Streams
<1>10. QED
  BY <1>2, <1>3, <1>4, <1>5, <1>6, <1>7, <1>8, <1>9, StepCases

\* A stream opens with its status event, holds at most max_new_tokens tokens,
\* and ends with the one terminal event of a task that was heard to the end.
THEOREM StreamEndsOnceHolds == Spec => []StreamEndsOnce
<1>1. Init => Streams
  <2> SUFFICES ASSUME Init, NEW g \in Gens PROVE StreamOf(g)
    BY DEF Streams
  <2>1. stream[g] = <<>> /\ gen[g].event = "Status" /\ gen[g].pc = "Idle" /\ gen[g].generated = 0
    BY DEF Init, Idle
  <2>2. QED
    BY <2>1 DEF StreamOf, Over
<1>2. ServerInv /\ Streams /\ [Next]_vars => Streams'
  BY StreamsStep DEF ServerInv
<1>3. ServerInv /\ Streams => StreamEndsOnce
  <2> SUFFICES ASSUME TypeOK, Streams, NEW g \in Gens
               PROVE  /\ \A i \in DOMAIN stream[g] :
                           /\ stream[g][i] = "Status" <=> i = 1
                           /\ stream[g][i] \in Terminal => i = Len(stream[g])
                      /\ Len(stream[g]) <= MaxTokens + 2
                      /\ gen[g].pc \in {"Returning", "Ended"} /\ gen[g].rx = "Open" =>
                           stream[g][Len(stream[g])] = gen[g].event
    BY DEF StreamEndsOnce, ServerInv
  <2>1. StreamOf(g)
    BY DEF Streams
  <2>2. /\ gen[g].generated \in Nat /\ gen[g].generated <= MaxTokens
        /\ MaxTokens \in Nat /\ Len(stream[g]) \in Nat
    BY RuntimeType, ServerAssumption DEF TypeOK, Tasks
  <2>3. Len(stream[g]) <= MaxTokens + 2
    BY <2>1, <2>2 DEF StreamOf, Over
  <2>4. QED
    BY <2>1, <2>3 DEF StreamOf, Over
<1>4. QED
  BY <1>1, <1>2, <1>3, ServerInvHolds, PTL DEF Spec

-----------------------------------------------------------------------------

\* A cancellation asked of a lone generation is cleared by itself only, and
\* the loop head that follows its next token finds it.
LEMMA PendingStep == ServerInv /\ Pending /\ [Next]_vars => Pending'
<1> SUFFICES ASSUME TypeOK, Counted, Shared, Pending, [Next]_vars PROVE Pending'
  BY DEF ServerInv
<1>0. \A g \in Gens : overshoot[g] \in Nat
  BY ServerAssumption DEF TypeOK
<1>1. ASSUME UNCHANGED <<asked, overshoot, crowded, hurried>>, cancelled \subseteq cancelled',
             \A h \in Gens : /\ gen'[h].session = gen[h].session
                             /\ gen'[h].pc = gen[h].pc /\ gen'[h].event = gen[h].event
      PROVE  Pending'
  BY <1>1 DEF Pending, Alone, Running
<1>2. CASE UNCHANGED <<cancelled, gen, asked, overshoot, crowded, hurried>>
  BY <1>1, <1>2
<1>3. ASSUME NEW s \in Sessions, Cancel(s) PROVE Pending'
  <2>1. UNCHANGED <<gen, overshoot, crowded, hurried>>
    BY <1>3 DEF Cancel, sharing
  <2>2. QED
    BY <1>3, <2>1 DEF Pending, Alone, Cancel, Running, Counted
<1>4. ASSUME NEW g \in Gens, NEW s \in Sessions, Generate(g, s) PROVE Pending'
  <2>1. UNCHANGED <<cancelled, asked, overshoot>> 
        /\ crowded \subseteq crowded' /\ hurried \subseteq hurried'
    BY <1>4 DEF Generate, requests, Joined
  <2>2. gen'[g].event # "Token" /\ overshoot[g] = 0 /\ g \notin asked
    <3>1. gen[g].pc = "Idle" /\ gen'[g].event = "Status" /\ gen[g].generated = 0
      BY <1>4, GenerateFields DEF Counted
    <3>2. QED
      BY <1>0, <3>1 DEF Counted
  <2>3. QED
    BY <1>4, <2>1, <2>2, GenerateFields DEF Pending, Alone, Running
<1>5. ASSUME NEW g \in Gens, SendStatus(g) PROVE Pending'
  <2>1. PICK e \in Events \ {"Status"} : Advances(g, e, 0)
    BY <1>5, SendStatusAdvances
  <2>2. UNCHANGED <<cancelled, asked, overshoot, crowded, hurried>>
    BY <1>5 DEF SendStatus, history, requests, sharing
  <2>3. overshoot[g] = 0
    BY <1>0, <1>5 DEF SendStatus, Counted
  <2>4. QED
    BY <2>1, <2>2, <2>3, AdvanceFields DEF Pending, Alone, Running
<1>6. ASSUME NEW g \in Gens, SendToken(g), gen[g].rx # "Dropped" PROVE Pending'
  <2>1. PICK e \in Events \ {"Status"} : Advances(g, e, gen[g].generated + 1)
    BY <1>6, SendTokenAdvances
  <2>2. UNCHANGED <<cancelled, asked>> /\ Alone' = Alone /\ gen[g].event = "Token" /\ Running(g)
    BY <1>6 DEF SendToken, requests, sharing, Alone
  <2>3. /\ \A h \in Gens \ {g} : overshoot'[h] = overshoot[h]
        /\ overshoot'[g] = IF g \in asked THEN overshoot[g] + 1 ELSE overshoot[g]
    BY <1>6 DEF SendToken, TypeOK
  <2>4. e = "Token" => gen[g].session \notin cancelled
    BY <2>1 DEF Advances
  <2>5. ASSUME g \in Alone
        PROVE  /\ g \in asked => gen[g].session \in cancelled
               /\ overshoot[g] = 0
    BY <1>0, <2>2, <2>5 DEF Pending
  <2>6. ASSUME g \in Alone
        PROVE  /\ overshoot'[g] <= 1
               /\ overshoot'[g] = 1 => e # "Token"
    BY <2>3, <2>4, <2>5, <2>6
  <2>7. ASSUME NEW h \in Alone', h # g
        PROVE  /\ h \in asked' /\ Running(h)' => gen'[h].session \in cancelled'
               /\ overshoot'[h] <= 1
               /\ overshoot'[h] = 1 /\ Running(h)' => gen'[h].event # "Token"
    BY <2>1, <2>2, <2>3, <2>7, AdvanceFields DEF Pending, Alone, Running
  <2>8. ASSUME g \in Alone'
        PROVE  /\ g \in asked' /\ Running(g)' => gen'[g].session \in cancelled'
               /\ overshoot'[g] <= 1
               /\ overshoot'[g] = 1 /\ Running(g)' => gen'[g].event # "Token"
    BY <2>1, <2>2, <2>5, <2>6, <2>8, AdvanceFields DEF Running
  <2>9. QED
    BY <2>7, <2>8 DEF Pending
<1>7. ASSUME NEW g \in Gens, Ends(g) PROVE Pending'
  <2>1. UNCHANGED <<cancelled, asked, overshoot>> /\ Alone' = Alone
    BY <1>7 DEF Ends, Alone
  <2>2. QED
    BY <1>7, <2>1, EndFields DEF Pending, Alone, Running
<1>8. ASSUME NEW g \in Gens, DropReceiver(g) PROVE Pending'
  <2>1. UNCHANGED <<cancelled, asked, overshoot, crowded, hurried>>
    BY <1>8 DEF DropReceiver, history, requests, sharing
  <2>2. QED
    BY <1>1, <1>8, <2>1, DropFields
<1>9. ASSUME NEW g \in Gens, Cleanup(g) PROVE Pending'
  <2>1. /\ cancelled' = cancelled \ {gen[g].session}
        /\ UNCHANGED <<asked, overshoot>> /\ Alone' = Alone
    BY <1>9, CleanupBecomes DEF Alone
  <2>2. \A h \in Alone : h # g /\ Running(h) => gen[h].session # gen[g].session
    BY <1>9 DEF Shared, Alone, Alive, Cleanup
  <2>3. QED
    BY <1>9, <2>1, <2>2, CleanupFields DEF Pending, Alone, Running
<1>10. QED
  BY <1>2, <1>3, <1>4, <1>5, <1>6, <1>7, <1>8, <1>9, StepCases

\* A generation that has its session to itself, from the cleanup of the one
\* before to its own end, sends at most one token more after a cancel request,
\* whatever the other sessions do and however often it asks.
THEOREM CancelStopsSoonHolds == Spec => []CancelStopsSoon
<1>1. Init => Pending
  BY DEF Init, Pending, Alone
<1>2. ServerInv /\ Pending => CancelStopsSoon
  BY DEF Pending, CancelStopsSoon
<1>3. QED
  BY <1>1, <1>2, PendingStep, ServerInvHolds, PTL DEF Spec

-----------------------------------------------------------------------------

\* A prefill empties the cache of everyone else's tokens, and whoever adds to
\* it afterwards is marked together with the generation it disturbs.
LEMMA CleanStep ==
    ServerInv /\ Clean /\ AloneSeesOwnContext /\ [Next]_vars => Clean' /\ AloneSeesOwnContext'
<1> SUFFICES ASSUME TypeOK, Counted, Shared, Clean, AloneSeesOwnContext, [Next]_vars
             PROVE  Clean' /\ AloneSeesOwnContext'
  BY DEF ServerInv
<1>1. ASSUME UNCHANGED <<cache, foreign>>, overlapped \subseteq overlapped',
             \A h \in Gens : Running(h)' /\ gen'[h].event = "Token" =>
                 Running(h) /\ gen[h].event = "Token" /\ gen'[h].session = gen[h].session
      PROVE  Clean' /\ AloneSeesOwnContext'
  BY <1>1 DEF Clean, AloneSeesOwnContext, Runtime
<1>2. CASE UNCHANGED <<cache, gen, foreign, overlapped>>
  BY <1>1, <1>2 DEF Running
<1>3. ASSUME NEW s \in Sessions, Cancel(s) PROVE Clean' /\ AloneSeesOwnContext'
  BY <1>1, <1>3 DEF Cancel, sharing, Running
<1>4. ASSUME NEW g \in Gens, NEW s \in Sessions, Generate(g, s)
      PROVE  Clean' /\ AloneSeesOwnContext'
  <2>1. UNCHANGED <<cache, foreign>> /\ overlapped \subseteq overlapped'
    BY <1>4 DEF Generate, Joined
  <2>2. gen'[g].event = "Status"
    BY <1>4, GenerateFields DEF Counted
  <2>3. QED
    BY <1>1, <1>4, <2>1, <2>2, GenerateFields DEF Running
<1>5. ASSUME NEW g \in Gens, UNCHANGED overlapped, Running(g),
             NEW e, NEW n, Advances(g, e, n),
             \A m \in Models \ {Runtime(g)} : cache'[m] = cache[m],
             g \notin overlapped /\ e = "Token" => cache'[Runtime(g)] \subseteq {g}
      PROVE  Clean'
  <2>1. \A h \in Gens : Runtime(h)' = Runtime(h) /\ Running(h)' = Running(h)
    BY <1>5, AdvanceFields DEF Runtime, Running
  <2>2. ASSUME NEW h \in Gens \ overlapped, h # g, Running(h), gen[h].event = "Token"
        PROVE  cache'[Runtime(h)] \subseteq {h}
    <3>1. Runtime(h) # Runtime(g)
      BY <1>5, <2>2 DEF Shared
    <3>2. QED
      BY <1>5, <2>2, <3>1, RuntimeType DEF Clean
  <2>3. QED
    BY <1>5, <2>1, <2>2, AdvanceFields DEF Clean
<1>6. ASSUME NEW g \in Gens, SendStatus(g) PROVE Clean' /\ AloneSeesOwnContext'
  <2>1. PICK e \in Events \ {"Status"} :
             /\ Advances(g, e, 0)
             /\ \/ cache' = [cache EXCEPT ![Runtime(g)] = {g}]
                \/ cache' = cache /\ e # "Token"
    BY <1>6, SendStatusAdvances
  <2>2. UNCHANGED <<foreign, overlapped>> /\ Running(g)
    BY <1>6 DEF SendStatus, history, sharing
  <2>3. /\ \A m \in Models \ {Runtime(g)} : cache'[m] = cache[m]
        /\ e = "Token" => cache'[Runtime(g)] \subseteq {g}
    BY <2>1, RuntimeType DEF TypeOK
  <2>4. Clean'
    BY <1>5, <2>1, <2>2, <2>3
  <2>5. QED
    BY <2>2, <2>4 DEF AloneSeesOwnContext
<1>7. ASSUME NEW g \in Gens, SendToken(g), gen[g].rx # "Dropped"
      PROVE  Clean' /\ AloneSeesOwnContext'
  <2>1. /\ cache' \in {cache, [cache EXCEPT ![Runtime(g)] = @ \cup {g}]}
        /\ \E e \in Events \ {"Status"} : Advances(g, e, gen[g].generated + 1)
    BY <1>7, SendTokenAdvances
  <2>2. UNCHANGED overlapped /\ Running(g) /\ gen[g].event = "Token"
    BY <1>7 DEF SendToken, sharing
  <2>3. g \notin overlapped => cache[Runtime(g)] \subseteq {g}
    BY <2>2 DEF Clean
  <2>4. foreign' = IF cache[Runtime(g)] \subseteq {g} THEN foreign ELSE foreign \cup {g}
    BY <1>7 DEF SendToken, Decode
  <2>5. AloneSeesOwnContext'
    BY <2>2, <2>3, <2>4 DEF AloneSeesOwnContext
  <2>6. Runtime(g) \in Models
    BY RuntimeType
  <2>7. /\ \A m \in Models \ {Runtime(g)} : cache'[m] = cache[m]
        /\ cache'[Runtime(g)] \subseteq cache[Runtime(g)] \cup {g}
    BY <2>1, <2>6 DEF TypeOK
  <2>8. Clean'
    BY <1>5, <2>1, <2>2, <2>3, <2>7
  <2>9. QED
    BY <2>5, <2>8
<1>8. ASSUME NEW g \in Gens, Ends(g) PROVE Clean' /\ AloneSeesOwnContext'
  <2>1. UNCHANGED <<cache, foreign, overlapped>>
    BY <1>8 DEF Ends
  <2>2. QED
    BY <1>1, <1>8, <2>1, EndFields DEF Running
<1>9. ASSUME NEW g \in Gens, DropReceiver(g) PROVE Clean' /\ AloneSeesOwnContext'
  <2>1. UNCHANGED <<cache, foreign, overlapped>>
    BY <1>9 DEF DropReceiver, history, sharing
  <2>2. QED
    BY <1>1, <1>9, <2>1, DropFields DEF Running
<1>10. ASSUME NEW g \in Gens, Cleanup(g) PROVE Clean' /\ AloneSeesOwnContext'
  BY <1>1, <1>10, CleanupBecomes, CleanupFields DEF Running
<1>11. QED
  BY <1>2, <1>3, <1>4, <1>6, <1>7, <1>8, <1>9, <1>10, StepCases

\* A generation that never ran beside another on its runtime decodes on its
\* own tokens only, whatever earlier generations left in the cache.
THEOREM AloneSeesOwnContextHolds == Spec => []AloneSeesOwnContext
<1>1. Init => Clean /\ AloneSeesOwnContext
  <2>1. Init => \A g \in Gens : gen[g].event = "Status"
    BY DEF Init, Idle
  <2>2. QED
    BY <2>1 DEF Init, Clean, AloneSeesOwnContext
<1>2. QED
  BY <1>1, CleanStep, ServerInvHolds, PTL DEF Spec

-----------------------------------------------------------------------------

\* A request ends one lone generation: until that one clears it, whoever else
\* could poll it is marked, and a later request is one more.
LEMMA UnspentStep == ServerInv /\ Unspent /\ [Next]_vars => Unspent'
<1> SUFFICES ASSUME TypeOK, Counted, Shared, Unspent, [Next]_vars PROVE Unspent'
  BY DEF ServerInv
<1> DEFINE Covered(u) ==
             /\ IsFiniteSet(Victims(u))
             /\ Cardinality(Victims(u)) <= cancels[u]
             /\ u \in cancelled /\ (\A g \in Victims(u) : ~Alive(g)) =>
                  Cardinality(Victims(u)) < cancels[u]
<1>0. \A u \in Sessions : Covered(u) /\ cancels[u] \in Nat /\ Cardinality(Victims(u)) \in Nat
  BY FS_CardinalityType, ServerAssumption DEF Unspent, TypeOK
<1>1. ASSUME NEW u \in Sessions, Victims(u)' = Victims(u), cancels'[u] = cancels[u],
             u \in cancelled' => u \in cancelled,
             u \in cancelled' => \A g \in Victims(u) : Alive(g)' = Alive(g)
      PROVE  Covered(u)'
  BY <1>0, <1>1
<1>2. ASSUME Alone' = Alone,
             \A h \in Gens : /\ gen'[h].session = gen[h].session
                             /\ gen'[h].pc = "Idle" <=> gen[h].pc = "Idle"
                             /\ gen'[h].event = "Cancelled" <=> gen[h].event = "Cancelled"
      PROVE  \A u \in Sessions : Victims(u)' = Victims(u)
  <2>1. \A h \in Alone : h \in Gens
    BY DEF Alone
  <2>2. QED
    BY <1>2, <2>1 DEF Victims
<1>3. CASE UNCHANGED <<cancelled, gen, cancels, crowded, hurried>>
  <2>1. \A u \in Sessions : Victims(u)' = Victims(u)
    BY <1>2, <1>3 DEF Alone
  <2>2. \A g \in Gens : Alive(g)' = Alive(g)
    BY <1>3 DEF Alive, Running, Returning
  <2>3. \A u \in Sessions : \A g \in Victims(u) : Alive(g)' = Alive(g)
    BY <2>2 DEF Victims, Alone
  <2>4. QED
    BY <1>1, <1>3, <2>1, <2>3 DEF Unspent
<1>4. ASSUME NEW s \in Sessions, Cancel(s) PROVE Unspent'
  <2>1. /\ UNCHANGED gen /\ Alone' = Alone /\ cancelled' = cancelled \cup {s}
        /\ cancels'[s] = cancels[s] + 1
        /\ \A u \in Sessions \ {s} : cancels'[u] = cancels[u]
    BY <1>4 DEF Cancel, sharing, Alone, TypeOK
  <2>2. \A u \in Sessions : Victims(u)' = Victims(u)
    BY <1>2, <2>1
  <2>3. \A u \in Sessions : \A g \in Victims(u) : Alive(g)' = Alive(g)
    BY <2>1 DEF Alive, Running, Returning
  <2>4. \A u \in Sessions \ {s} : Covered(u)'
    BY <1>1, <2>1, <2>2, <2>3
  <2>5. Covered(s)'
    BY <1>0, <2>1, <2>2
  <2>6. QED
    BY <2>4, <2>5 DEF Unspent
<1>5. ASSUME NEW g \in Gens, NEW s \in Sessions, Generate(g, s) PROVE Unspent'
  <2> DEFINE beside == {h \in Gens : Running(h) /\ gen[h].session = s}
  <2>1. UNCHANGED <<cancelled, cancels>>
    BY <1>5 DEF Generate, requests
  <2>2. /\ Alone' \subseteq Alone /\ Alone \ (beside \cup {g}) \subseteq Alone'
        /\ beside \cap Alone' = {}
    BY <1>5 DEF Generate, Joined, Alone
  <2>3. gen[g].event = "Status" /\ gen'[g].event = "Status"
    BY <1>5, GenerateFields DEF Counted
  <2>4. \A h \in Gens \ {g} : gen'[h] = gen[h]
    BY <1>5, GenerateFields
  <2>5. \A u \in Sessions : Victims(u)' = Victims(u) \cap Alone' /\ g \notin Victims(u)
    BY <2>2, <2>3, <2>4 DEF Victims, Alone
  <2>6. \A u \in Sessions : Victims(u) \subseteq Alone
    BY DEF Victims
  <2>7. \A u \in Sessions : \A v \in Victims(u) : Alive(v)' = Alive(v)
    BY <2>4, <2>5 DEF Alive, Running, Returning, Victims, Alone
  <2>8. ASSUME NEW u \in Sessions, Victims(u) \cap beside = {} PROVE Covered(u)'
    <3>1. Victims(u)' = Victims(u)
      BY <2>2, <2>5, <2>6, <2>8
    <3>2. QED
      BY <1>1, <2>1, <2>7, <3>1
  <2>9. ASSUME NEW u \in Sessions, NEW v \in Victims(u) \cap beside PROVE Covered(u)'
    <3>1. u = s /\ v \in Alone /\ v \notin Alone' /\ Alive(v) /\ v \in Gens
      BY <2>2, <2>9 DEF Victims, Alive
    <3>2. \A w \in Victims(u) \ {v} : w \notin beside
      BY <2>6, <3>1 DEF Shared, Alive, Victims, Alone
    <3>3. Victims(u)' = Victims(u) \ {v}
      BY <2>2, <2>5, <2>6, <3>1, <3>2
    <3>4. /\ IsFiniteSet(Victims(u)')
          /\ Cardinality(Victims(u)') = Cardinality(Victims(u)) - 1
      BY <1>0, <2>9, <3>3, FS_RemoveElement
    <3>5. QED
      BY <1>0, <2>1, <3>4
  <2>10. QED
    BY <2>8, <2>9 DEF Unspent
<1>6. ASSUME NEW g \in Gens, Running(g), gen[g].event \in {"Status", "Token"},
             UNCHANGED <<cancelled, cancels>>, Alone' = Alone,
             NEW e, NEW n, Advances(g, e, n)
      PROVE  Unspent'
  <2>0. PICK s \in Sessions : s = gen[g].session
    BY RuntimeType
  <2>1. e = "Cancelled" => s \in cancelled
    BY <1>6, <2>0 DEF Advances
  <2>2. \A u \in Sessions : g \notin Victims(u)
    BY <1>6 DEF Victims
  <2>3. \A h \in Gens : Alive(h)' = Alive(h)
    BY <1>6, AdvanceFields DEF Alive, Running, Returning
  <2>4. \A u \in Sessions : \A v \in Victims(u) : Alive(v)' = Alive(v)
    BY <2>3 DEF Victims, Alone
  <2>5. ASSUME NEW u \in Sessions, u # s \/ e # "Cancelled" \/ g \notin Alone PROVE Covered(u)'
    <3>1. Victims(u)' = Victims(u)
      BY <1>6, <2>0, <2>5, AdvanceFields DEF Victims, Alone
    <3>2. QED
      BY <1>1, <1>6, <2>4, <3>1
  <2>6. ASSUME e = "Cancelled", g \in Alone PROVE Covered(s)'
    <3>1. Victims(s)' = Victims(s) \cup {g}
      BY <1>6, <2>0, <2>6, AdvanceFields DEF Victims, Alone, Running
    <3>2. \A v \in Victims(s) : ~Alive(v)
      BY <1>6, <2>0, <2>2, <2>6 DEF Victims, Alone, Alive, Shared
    <3>3. Cardinality(Victims(s)) < cancels[s]
      BY <1>0, <2>1, <2>6, <3>2
    <3>4. /\ IsFiniteSet(Victims(s)')
          /\ Cardinality(Victims(s)') = Cardinality(Victims(s)) + 1
      BY <1>0, <2>2, <3>1, FS_AddElement
    <3>5. g \in Victims(s)' /\ Alive(g)'
      BY <1>6, <2>3, <3>1 DEF Alive
    <3>6. Cardinality(Victims(s)') <= cancels'[s]
      BY <1>0, <1>6, <3>3, <3>4
    <3>7. QED
      BY <3>4, <3>5, <3>6
  <2>7. QED
    BY <2>5, <2>6 DEF Unspent
<1>7. ASSUME NEW g \in Gens, SendStatus(g) PROVE Unspent'
  <2>1. UNCHANGED <<cancelled, cancels>> /\ Alone' = Alone /\ Running(g) /\ gen[g].event = "Status"
    BY <1>7 DEF SendStatus, history, requests, sharing, Alone
  <2>2. QED
    BY <1>6, <1>7, <2>1, SendStatusAdvances
<1>8. ASSUME NEW g \in Gens, SendToken(g), gen[g].rx # "Dropped" PROVE Unspent'
  <2>1. UNCHANGED <<cancelled, cancels>> /\ Alone' = Alone /\ Running(g) /\ gen[g].event = "Token"
    BY <1>8 DEF SendToken, requests, sharing, Alone
  <2>2. QED
    BY <1>6, <1>8, <2>1, SendTokenAdvances
<1>9. ASSUME NEW g \in Gens, Ends(g) PROVE Unspent'
  <2>1. UNCHANGED <<cancelled, cancels>> /\ Alone' = Alone
    BY <1>9 DEF Ends, Alone
  <2>2. \A u \in Sessions : Victims(u)' = Victims(u)
    BY <1>2, <1>9, <2>1, EndFields
  <2>3. \A h \in Gens : Alive(h)' = Alive(h)
    BY <1>9, EndFields DEF Alive, Running, Returning
  <2>4. \A u \in Sessions : \A v \in Victims(u) : Alive(v)' = Alive(v)
    BY <2>3 DEF Victims, Alone
  <2>5. QED
    BY <1>1, <2>1, <2>2, <2>4 DEF Unspent
<1>10. ASSUME NEW g \in Gens, DropReceiver(g) PROVE Unspent'
  <2>1. UNCHANGED <<cancelled, cancels>> /\ Alone' = Alone
    BY <1>10 DEF DropReceiver, history, requests, sharing, Alone
  <2>2. \A u \in Sessions : Victims(u)' = Victims(u)
    BY <1>2, <1>10, <2>1, DropFields
  <2>3. \A u \in Sessions : \A v \in Victims(u) : Alive(v)' = Alive(v)
    BY <1>10, DropFields DEF Victims, Alone, Alive, Running, Returning
  <2>4. QED
    BY <1>1, <2>1, <2>2, <2>3 DEF Unspent
<1>11. ASSUME NEW g \in Gens, Cleanup(g) PROVE Unspent'
  <2>1. cancelled' = cancelled \ {gen[g].session} /\ UNCHANGED cancels /\ Alone' = Alone
    BY <1>11, CleanupBecomes DEF Alone
  <2>2. \A u \in Sessions : Victims(u)' = Victims(u)
    BY <1>2, <1>11, <2>1, CleanupFields
  <2>3. ASSUME NEW u \in Sessions, u \in cancelled', NEW v \in Victims(u)
        PROVE  Alive(v)' = Alive(v)
    BY <1>11, <2>1, <2>3, CleanupFields DEF Victims, Alone, Alive, Running, Returning
  <2>4. QED
    BY <1>1, <2>1, <2>2, <2>3 DEF Unspent
<1>12. QED
  BY <1>3, <1>4, <1>5, <1>7, <1>8, <1>9, <1>10, <1>11, StepCases

\* Among generations that had their session to themselves, from the cleanup of
\* the one before to their own end, a cancel request ends at most one.
THEOREM OneCancelOneVictimHolds == Spec => []OneCancelOneVictim
<1>1. Init => Unspent
  <2> SUFFICES ASSUME Init PROVE Unspent
    OBVIOUS
  <2>1. \A s \in Sessions : Victims(s) = {}
    BY DEF Init, Idle, Victims, Alone
  <2>2. \A s \in Sessions : cancels[s] = 0 /\ s \notin cancelled
    BY DEF Init
  <2>3. QED
    BY <2>1, <2>2, FS_EmptySet DEF Unspent
<1>2. Unspent => OneCancelOneVictim
  BY DEF Unspent, OneCancelOneVictim, Victims
<1>3. QED
  BY <1>1, <1>2, UnspentStep, ServerInvHolds, PTL DEF Spec
=============================================================================
