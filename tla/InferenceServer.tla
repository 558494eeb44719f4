-------------------------- MODULE InferenceServer --------------------------
(***************************************************************************)
(* The inference server of the daemon (crates/prism-ecs-server/src/runtime):*)
(* sessions, the session-keyed cancellation set, and the generation tasks.  *)
(* A generation is a task of its own:                                       *)
(* it streams events into a bounded channel that an HTTP or WebSocket       *)
(* handler drains, polls the cancellation set between tokens, and runs      *)
(* prefill and decode on the runtime of its model.  That runtime is one     *)
(* object per model with one KV cache behind a mutex; every generation of   *)
(* the model uses it.                                                       *)
(*                                                                          *)
(* Tokens, logits and prompts are abstracted: a cache is the set of the     *)
(* generations whose tokens are in it, a sampled token is any token or EOS, *)
(* and any backend call may fail.  The cache modelled is the one of the     *)
(* direct forward path (no canonical runtime, no execution graph).  The KV  *)
(* epochs and dispatch records that generate writes are left out: nothing   *)
(* of the server reads them.                                                *)
(***************************************************************************)
EXTENDS Naturals, Sequences, FiniteSets

CONSTANTS
    Sessions,      \* session ids (fresh uuids in the code)
    Gens,          \* generate requests
    Models,        \* registered models that have a live runtime
    ModelOf,       \* session -> the model named by its admission receipt
    MaxTokens,     \* max_new_tokens of every request
    ChannelCap,    \* capacity of the event channel (64 in the code)
    Interrupted,   \* bound: the sessions that clients close or cancel
    MaxCancels     \* bound: cancel requests explored per session

ASSUME ServerAssumption ==
    /\ Sessions # {}
    /\ ModelOf \in [Sessions -> Models]
    /\ MaxTokens \in Nat
    /\ ChannelCap \in Nat \ {0}
    /\ Interrupted \subseteq Sessions
    /\ MaxCancels \in Nat

VARIABLES
    session,       \* session manager: state of each session
    cancelled,     \* cancellation manager: the set of cancelled session ids
    cache,         \* per model: the generations whose tokens its cache holds
    gen,           \* per request: the generation task
    stream,        \* per request: the events sent into its channel so far
    unread,        \* per request: how many of them the handler has yet to read
    cancels,       \* history: cancel requests received for each session
    asked,         \* history: generations running when one of them arrived
    overshoot,     \* history: tokens each of those has sent since
    crowded,       \* history: generations that ran beside another of their session
    hurried,       \* history: generations that started before an earlier one of
                   \* their session had cleared its cancellation
    overlapped,    \* history: generations that shared their runtime with another
    foreign        \* history: generations that decoded on another one's tokens

vars == <<session, cancelled, cache, gen, stream, unread,
          cancels, asked, overshoot, crowded, hurried, overlapped, foreign>>

(* The history variables, by the action that writes them: Cancel writes the *)
(* first two, Generate the next three.                                      *)
requests == <<cancels, asked>>
sharing == <<crowded, hurried, overlapped>>
history == <<requests, sharing, overshoot, foreign>>

(* The event that reports a cancellation is an Error in the code.           *)
Terminal == {"Done", "Error", "Cancelled"}
Events == {"Status", "Token"} \cup Terminal

Idle == [pc |-> "Idle", session |-> CHOOSE s \in Sessions : TRUE,
         generated |-> 0, event |-> "Status", rx |-> "Open"]

Running(g) == gen[g].pc = "Waiting"

(* The task has sent its last event and not yet dropped its cleanup guard.   *)
Returning(g) == gen[g].pc = "Returning"

Runtime(g) == ModelOf[gen[g].session]

(* g starts while the generations in others run.                            *)
Joined(shared, g, others) ==
    IF others = {} THEN shared ELSE shared \cup others \cup {g}

TypeOK ==
    /\ session \in [Sessions -> {"Absent", "Ready", "Closed"}]
    /\ cancelled \subseteq Sessions
    /\ cache \in [Models -> SUBSET Gens]
    /\ gen \in [Gens -> [pc : {"Idle", "Waiting", "Returning", "Ended"}, session : Sessions,
                         generated : 0 .. MaxTokens, event : Events,
                         rx : {"Open", "Dropped"}]]
    /\ stream \in [Gens -> Seq(Events)]
    /\ unread \in [Gens -> 0 .. ChannelCap]
    /\ cancels \in [Sessions -> 0 .. MaxCancels]
    /\ asked \subseteq Gens
    /\ overshoot \in [Gens -> 0 .. MaxTokens]
    /\ crowded \subseteq Gens
    /\ hurried \subseteq Gens
    /\ overlapped \subseteq Gens
    /\ foreign \subseteq Gens

Init ==
    /\ session = [s \in Sessions |-> "Absent"]
    /\ cancelled = {}
    /\ cache = [m \in Models |-> {}]
    /\ gen = [g \in Gens |-> Idle]
    /\ stream = [g \in Gens |-> <<>>]
    /\ unread = [g \in Gens |-> 0]
    /\ cancels = [s \in Sessions |-> 0]
    /\ asked = {}
    /\ overshoot = [g \in Gens |-> 0]
    /\ crowded = {}
    /\ hurried = {}
    /\ overlapped = {}
    /\ foreign = {}

-----------------------------------------------------------------------------
(* The requests of clients.                                                  *)

(* Admission inserts the session in state Ready with its receipt.  Memory   *)
(* pressure never refuses one: nothing sets it.                              *)
CreateSession(s) ==
    /\ session[s] = "Absent"
    /\ session' = [session EXCEPT ![s] = "Ready"]
    /\ UNCHANGED <<cancelled, cache, gen, stream, unread, history>>

(* close_session keeps the entry and its receipt, and touches neither the   *)
(* session's epochs nor its running generations.                             *)
CloseSession(s) ==
    /\ s \in Interrupted
    /\ session[s] = "Ready"
    /\ session' = [session EXCEPT ![s] = "Closed"]
    /\ UNCHANGED <<cancelled, cache, gen, stream, unread, history>>

(* cancel inserts whatever session id the request names.                     *)
Cancel(s) ==
    /\ s \in Interrupted /\ cancels[s] < MaxCancels
    /\ cancels' = [cancels EXCEPT ![s] = @ + 1]
    /\ cancelled' = cancelled \cup {s}
    /\ asked' = asked \cup {g \in Gens : Running(g) /\ gen[g].session = s}
    /\ UNCHANGED <<session, cache, gen, stream, unread, sharing,
                   overshoot, foreign>>

(* generate: the admission receipt must exist (a closed session still has    *)
(* one), the epoch is created, filled and sealed, and the task spawned.      *)
Generate(g, s) ==
    /\ gen[g].pc = "Idle"
    /\ session[s] # "Absent"
    /\ gen' = [gen EXCEPT ![g].pc = "Waiting", ![g].session = s]
    /\ overlapped' = Joined(overlapped, g, {h \in Gens : Running(h) /\ Runtime(h) = ModelOf[s]})
    /\ crowded' = Joined(crowded, g, {h \in Gens : Running(h) /\ gen[h].session = s})
    /\ hurried' = hurried \cup {k \in {g} : \E h \in Gens : Returning(h) /\ gen[h].session = s}
    /\ UNCHANGED <<session, cancelled, cache, stream, unread, requests,
                   overshoot, foreign>>

-----------------------------------------------------------------------------
(* The generation task.  It gives up the processor where it awaits room in  *)
(* its channel, so it is Waiting with one of the events Status, Token or a   *)
(* terminal one to send, and a step goes from one send to the next wait.     *)
(* Within a step it uses the runtime's cache once and then the cancellation  *)
(* set once, each under its own mutex; whatever other tasks do in between    *)
(* commutes with one of the two, so the step is modelled as atomic.  The     *)
(* drop of its cleanup guard comes after its last send, in a step of its own: *)
(* the handler can forward the event, and its client act on it, before.      *)

\* Mutant: a sender that is not told that its receiver has gone.
SendBlind(g, event) ==
    /\ unread[g] < ChannelCap
    /\ stream' = [stream EXCEPT ![g] = Append(@, event)]
    /\ unread' = [unread EXCEPT ![g] = @ + 1]

(* tx.send(event).await: waits for room; fails at once when the receiving    *)
(* handler has gone.                                                         *)
Send(g, event) ==
    \/ /\ gen[g].rx = "Open"
       /\ unread[g] < ChannelCap
       /\ stream' = [stream EXCEPT ![g] = Append(@, event)]
       /\ unread' = [unread EXCEPT ![g] = @ + 1]
    \/ /\ gen[g].rx = "Dropped"
       /\ UNCHANGED <<stream, unread>>

(* The task goes on to send event, n tokens into its answer.                 *)
ThenSend(g, event, n) ==
    gen' = [gen EXCEPT ![g].event = event, ![g].generated = n]

\* Mutant: cancellation is polled before the first token only.
LoopHeadPollOnce(g, n) ==
    IF n >= MaxTokens
    THEN ThenSend(g, "Done", n)
    ELSE IF n = 0 /\ gen[g].session \in cancelled
         THEN ThenSend(g, "Cancelled", n)
         ELSE \E next \in {"Token", "Done", "Error"} : ThenSend(g, next, n)

\* Mutant: an off-by-one in the token limit.
LoopHeadOneMore(g, n) ==
    IF n > MaxTokens
    THEN ThenSend(g, "Done", n)
    ELSE IF gen[g].session \in cancelled
         THEN ThenSend(g, "Cancelled", n)
         ELSE \E next \in {"Token", "Done", "Error"} : ThenSend(g, next, n)

(* The head of the decode loop with n tokens sent: the token limit, the      *)
(* cancellation poll, then sampling, whose outcome is a token, EOS or an     *)
(* error.                                                                    *)
LoopHead(g, n) ==
    IF n >= MaxTokens
    THEN ThenSend(g, "Done", n)
    ELSE IF gen[g].session \in cancelled
         THEN ThenSend(g, "Cancelled", n)
         ELSE \E next \in {"Token", "Done", "Error"} : ThenSend(g, next, n)

\* Mutant: a prefill that appends to the cache it finds.
PrefillReuse(g) ==
    \/ /\ cache' = [cache EXCEPT ![Runtime(g)] = @ \cup {g}]
       /\ LoopHead(g, 0)
    \/ UNCHANGED cache /\ ThenSend(g, "Error", 0)

(* run_prefill replaces the runtime's cache by one with this prompt; on an   *)
(* error nothing is stored.                                                  *)
Prefill(g) ==
    \/ /\ cache' = [cache EXCEPT ![Runtime(g)] = {g}]
       /\ LoopHead(g, 0)
    \/ UNCHANGED cache /\ ThenSend(g, "Error", 0)

(* run_decode appends to whatever cache the runtime holds; a failing step    *)
(* may have appended already.                                                *)
Decode(g) ==
    LET n == gen[g].generated + 1
        appended == [cache EXCEPT ![Runtime(g)] = @ \cup {g}]
    IN  /\ \/ cache' = appended /\ LoopHead(g, n)
           \/ cache' \in {cache, appended} /\ ThenSend(g, "Error", n)
        /\ foreign' = IF cache[Runtime(g)] \subseteq {g} THEN foreign
                                                         ELSE foreign \cup {g}

(* The task has nothing more to do: `return`, or the end of its block.       *)
Return(g) == gen' = [gen EXCEPT ![g].pc = "Returning"]

SendStatus(g) ==
    /\ Running(g) /\ gen[g].event = "Status"
    /\ Send(g, "Status")
    /\ Prefill(g)
    /\ UNCHANGED <<session, cancelled, history>>

(* A token that cannot be delivered ends the task without a terminal event.  *)
SendToken(g) ==
    /\ Running(g) /\ gen[g].event = "Token"
    /\ Send(g, "Token")
    /\ IF gen[g].rx = "Dropped"
       THEN /\ Return(g)
            /\ UNCHANGED <<cache, overshoot, foreign>>
       ELSE /\ Decode(g)
            /\ overshoot' = IF g \in asked THEN [overshoot EXCEPT ![g] = @ + 1]
                                           ELSE overshoot
    /\ UNCHANGED <<session, cancelled, requests, sharing>>

\* Mutant: try_send, which loses the terminal event on a full channel.
SendFinalTry(g) ==
    /\ Running(g) /\ gen[g].event \in Terminal
    /\ IF unread[g] < ChannelCap
       THEN Send(g, gen[g].event)
       ELSE UNCHANGED <<stream, unread>>
    /\ Return(g)
    /\ UNCHANGED <<session, cancelled, cache, history>>

SendFinal(g) ==
    /\ Running(g) /\ gen[g].event \in Terminal
    /\ Send(g, gen[g].event)
    /\ Return(g)
    /\ UNCHANGED <<session, cancelled, cache, history>>

\* Mutant: the task ends without its cleanup guard.
CleanupForgotten(g) ==
    /\ Returning(g)
    /\ gen' = [gen EXCEPT ![g].pc = "Ended"]
    /\ UNCHANGED <<session, cancelled, cache, stream, unread, history>>

(* CancellationCleanup is dropped: it clears the session's cancellation,     *)
(* whoever it was meant for.                                                 *)
Cleanup(g) ==
    /\ Returning(g)
    /\ gen' = [gen EXCEPT ![g].pc = "Ended"]
    /\ cancelled' = cancelled \ {gen[g].session}
    /\ UNCHANGED <<session, cache, stream, unread, history>>

Task(g) == SendStatus(g) \/ SendToken(g) \/ SendFinal(g) \/ Cleanup(g)

-----------------------------------------------------------------------------
(* The handler that forwards the stream to its client.                       *)

Receive(g) ==
    /\ gen[g].rx = "Open"
    /\ unread[g] > 0
    /\ unread' = [unread EXCEPT ![g] = @ - 1]
    /\ UNCHANGED <<session, cancelled, cache, gen, stream, history>>

(* The client goes away: the handler returns and drops the receiver.         *)
DropReceiver(g) ==
    /\ Running(g) \/ Returning(g)
    /\ gen[g].rx = "Open"
    /\ gen' = [gen EXCEPT ![g].rx = "Dropped"]
    /\ unread' = [unread EXCEPT ![g] = 0]
    /\ UNCHANGED <<session, cancelled, cache, stream, history>>

Next ==
    \/ \E s \in Sessions : CreateSession(s) \/ CloseSession(s) \/ Cancel(s)
    \/ \E g \in Gens, s \in Sessions : Generate(g, s)
    \/ \E g \in Gens : Task(g) \/ Receive(g) \/ DropReceiver(g)

Spec == Init /\ [][Next]_vars

(* A spawned task is polled whenever it can go on, and the handlers read     *)
(* until the stream ends.  Clients owe nothing.                              *)
FairSpec ==
    /\ Spec
    /\ \A g \in Gens : WF_vars(Task(g)) /\ WF_vars(Receive(g))

-----------------------------------------------------------------------------
(* Properties.                                                               *)

(* Generations that had their session to themselves, from the cleanup of the *)
(* one before to their own last event.                                       *)
Alone == Gens \ (crowded \cup hurried)

(* Those of them that a cancellation of the session s ended.                 *)
Victims(s) == {g \in Alone : /\ gen[g].session = s
                             /\ gen[g].pc # "Idle"
                             /\ gen[g].event = "Cancelled"}

(* A generation that has its session to itself sends at most one more token *)
(* after a cancel request for it: the one it had already sampled, although   *)
(* the request is recorded for the session and cleared by whoever ends.      *)
CancelStopsSoon == \A g \in Alone : overshoot[g] <= 1

(* Among generations that have their session to themselves, one cancel       *)
(* request ends at most one, however late it arrives: a request that stays   *)
(* behind is cleared with the generation that it ends.                       *)
OneCancelOneVictim ==
    \A s \in Sessions : Cardinality(Victims(s)) <= cancels[s]

(* A generation that never shared the runtime with a running one decodes on  *)
(* its own tokens only: run_prefill leaves nothing of earlier generations,   *)
(* ended, failed or abandoned, in the cache.                                 *)
AloneSeesOwnContext == foreign \subseteq overlapped

(* A stream opens with the status event, carries at most max_new_tokens      *)
(* tokens, and has nothing after its terminal event; a task that ended with  *)
(* its receiver still there sent one.                                        *)
StreamEndsOnce ==
    \A g \in Gens :
        /\ \A i \in DOMAIN stream[g] :
              /\ stream[g][i] = "Status" <=> i = 1
              /\ stream[g][i] \in Terminal => i = Len(stream[g])
        /\ Len(stream[g]) <= MaxTokens + 2
        /\ gen[g].pc \in {"Returning", "Ended"} /\ gen[g].rx = "Open" =>
              stream[g][Len(stream[g])] = gen[g].event

(* Every generation ends, and a handler that stays gets the terminal event,  *)
(* however full the channel runs and whoever cancels.                        *)
EveryStreamEnds ==
    \A g \in Gens :
        Running(g) ~> /\ gen[g].pc = "Ended"
                      /\ \/ gen[g].rx = "Dropped"
                         \/ unread[g] = 0 /\ stream[g][Len(stream[g])] \in Terminal

(* The decode steps of a generation run on the KV pages of that generation:  *)
(* what the dispatch metadata is said to prove.                              *)
DecodeUsesOwnPages == foreign = {}
=============================================================================
