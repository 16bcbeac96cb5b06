--------------------------- MODULE PartialServer ---------------------------
(***************************************************************************)
(* Partial rollout below the Rollouter: the agent loops of the samples in  *)
(* generation, the LLM servers with their table of cancellable requests,   *)
(* and the cancel / drain / reset / copy / resume cycle of one parameter   *)
(* synchronization.                                                        *)
(*                                                                         *)
(* A request of a server runs as two asyncio tasks, one that generates and *)
(* one that waits for the cancel event of the request; the call returns    *)
(* when either is done.  Every critical section of the server is free of   *)
(* awaits except reset_prefix_cache, whose await only delays those who     *)
(* come for the lock, so a section is one action.                          *)
(*                                                                         *)
(* The responses of a sample are tasks under one asyncio.gather, which     *)
(* raises with the first of them and leaves the others running.            *)
(*                                                                         *)
(* A token is the position in its context it was generated for, the        *)
(* version of the weights that generated it, and whether it ended the      *)
(* generation; the log-probability of a token is named by the token.       *)
(***************************************************************************)
EXTENDS Integers, Sequences, FiniteSets, Functions

CONSTANTS Samples,         \* the samples in generation
          N,               \* rollout.n, the responses generated per sample
          Servers,         \* the LLM servers
          PromptLen,       \* [Samples -> 1 .. PromptLength]
          PromptLength,    \* rollout.prompt_length
          ResponseLength,  \* rollout.response_length
          MaxVersion,      \* bound: number of parameter synchronizations
          MaxFailures,     \* bound: generations that raise
          None

ASSUME SizesAssumption ==
    /\ N \in Nat \ {0}
    /\ PromptLength \in Nat
    /\ ResponseLength \in Nat \ {0}
    /\ PromptLen \in [Samples -> 1 .. PromptLength]
    /\ MaxVersion \in Nat
    /\ MaxFailures \in Nat

Responses == Samples \X (1 .. N)

\* A request id is a response and a number.  A request leaves an entry behind
\* only when a synchronization cancels it, which bounds the numbers needed.
RequestIds == 1 .. MaxVersion + 1
Requests   == Responses \X RequestIds

\* init of vLLMHttpServerBase: max_model_len is set to the sum.
MaxModelLen == PromptLength + ResponseLength

VARIABLES
    \* the Rollouter and the synchronizer
    phase,            \* where the synchronization stands
    pending,          \* servers that have not answered the call of the phase
    version,          \* current_param_version
    weights,          \* version of the weights the servers hold
    status,           \* of a sample: queued, active, done or lost
    param_version,    \* param_version stored in the batch of a sample
    \* the agent loops
    pc,               \* of a response: idle, called, generating, generated,
                      \* returned, raised
    output,           \* FullyAsyncAgentLoopOutput of a response, or None
    \* the servers
    paused,           \* [Servers -> BOOLEAN]
    cancel_event,     \* per server: request id -> has its event been set
    req_output,       \* per server: request id -> tokens of the last output
    server,           \* the server that generates for a response, or None
    request           \* the request id of a response in flight, or 0

rolloutVars == <<phase, pending, version, weights, status, param_version>>
agentVars   == <<pc, output>>
serverVars  == <<paused, cancel_event, req_output, server, request>>
vars        == <<rolloutVars, agentVars, serverVars>>

Token  == [pos : Nat, version : 0 .. MaxVersion, last : BOOLEAN]
Output == [response : Seq(Token), log_probs : Seq(Token), is_cancel : BOOLEAN,
           start : 0 .. MaxVersion, end : 0 .. MaxVersion]

ASSUME NoneAssumption == None \notin Output

Init ==
    /\ phase = "running" /\ pending = {}
    /\ version = 0 /\ weights = 0
    /\ status = [s \in Samples |-> "queued"]
    /\ param_version = [s \in Samples |-> 0]
    /\ pc = [r \in Responses |-> "idle"]
    /\ output = [r \in Responses |-> None]
    /\ paused = [sv \in Servers |-> FALSE]
    /\ cancel_event = [sv \in Servers |-> <<>>]
    /\ req_output = [sv \in Servers |-> <<>>]
    /\ server = [r \in Responses |-> None]
    /\ request = [r \in Responses |-> 0]

-----------------------------------------------------------------------------
(* The agent loop of one response. *)

\* A response is generated (again) unless it was finished in an earlier round.
MustGenerate(r) == output[r] = None \/ output[r].is_cancel

\* The tokens the response has so far; they are appended to the prompt.
Generated(r) == IF output[r] = None THEN <<>> ELSE output[r].response

ContextLen(r) == PromptLen[r[1]] + Len(Generated(r))

\* max_tokens that _generate_step asks of the engine.
MaxTokens(r) == MaxModelLen - ContextLen(r)

Truncated(seq) == SubSeq(seq, 1, IF Len(seq) < ResponseLength
                                 THEN Len(seq) ELSE ResponseLength)

\* Mutant: the log-probabilities of a resumed response are those of its last
\* round.
AgentOutputForgets(r, tokens, cancelled) ==
    [response  |-> Truncated(Generated(r) \o tokens),
     log_probs |-> tokens,
     is_cancel |-> cancelled,
     start     |-> IF output[r] = None THEN param_version[r[1]]
                                       ELSE output[r].start,
     end       |-> param_version[r[1]]]

\* Mutant: a resumed response starts at the version of its last round.
AgentOutputRestarts(r, tokens, cancelled) ==
    [response  |-> Truncated(Generated(r) \o tokens),
     log_probs |-> (IF output[r] = None THEN <<>> ELSE output[r].log_probs)
                   \o tokens,
     is_cancel |-> cancelled,
     start     |-> param_version[r[1]],
     end       |-> param_version[r[1]]]

\* The output run() builds from the tokens of a round: appended to those of
\* the rounds before and cut to response_length; log_probs is not cut.
AgentOutput(r, tokens, cancelled) ==
    [response  |-> Truncated(Generated(r) \o tokens),
     log_probs |-> (IF output[r] = None THEN <<>> ELSE output[r].log_probs)
                   \o tokens,
     is_cancel |-> cancelled,
     start     |-> IF output[r] = None THEN param_version[r[1]]
                                       ELSE output[r].start,
     end       |-> param_version[r[1]]]

-----------------------------------------------------------------------------
(* generate_for_partial of a server. *)

Current(r) == <<r, request[r]>>

\* uuid4(): a request id that no table holds.
FreshId(r) == CHOOSE k \in RequestIds :
                  \A sv \in Servers : <<r, k>> \notin DOMAIN cancel_event[sv]

\* The server is paused: the call returns at once, with nothing.
GenerateRefused(r, sv) ==
    /\ pc[r] = "called"
    /\ paused[sv]
    /\ output' = [output EXCEPT ![r] = AgentOutput(r, <<>>, TRUE)]
    /\ pc' = [pc EXCEPT ![r] = "returned"]
    /\ UNCHANGED <<rolloutVars, serverVars>>

\* Mutant: the server does not test paused before it registers the request.
GenerateRegisterUntested(r, sv) ==
    /\ pc[r] = "called"
    /\ request' = [request EXCEPT ![r] = FreshId(r)]
    /\ server' = [server EXCEPT ![r] = sv]
    /\ cancel_event' = [cancel_event EXCEPT ![sv] =
           [q \in DOMAIN @ \cup {<<r, request'[r]>>} |->
                IF q \in DOMAIN @ THEN @[q] ELSE FALSE]]
    /\ req_output' = [req_output EXCEPT ![sv] =
           [q \in DOMAIN @ \cup {<<r, request'[r]>>} |->
                IF q \in DOMAIN @ THEN @[q] ELSE <<>>]]
    /\ pc' = [pc EXCEPT ![r] = "generating"]
    /\ UNCHANGED <<rolloutVars, output, paused>>

\* The request enters the tables and its two tasks are created.  The load
\* balancer may choose any server: the request id is new in every round.
GenerateRegister(r, sv) ==
    /\ pc[r] = "called"
    /\ ~paused[sv]
    /\ request' = [request EXCEPT ![r] = FreshId(r)]
    /\ server' = [server EXCEPT ![r] = sv]
    /\ cancel_event' = [cancel_event EXCEPT ![sv] =
           [q \in DOMAIN @ \cup {<<r, request'[r]>>} |->
                IF q \in DOMAIN @ THEN @[q] ELSE FALSE]]
    /\ req_output' = [req_output EXCEPT ![sv] =
           [q \in DOMAIN @ \cup {<<r, request'[r]>>} |->
                IF q \in DOMAIN @ THEN @[q] ELSE <<>>]]
    /\ pc' = [pc EXCEPT ![r] = "generating"]
    /\ UNCHANGED <<rolloutVars, output, paused>>

\* _generate_step receives an output of the engine with one more token.  The
\* engine ends the generation when it likes and at max_tokens; the task ends
\* in the same step, for nothing is awaited after the last output.
GenerateStep(r) ==
    LET tokens == req_output[server[r]][Current(r)]
    IN  /\ pc[r] = "generating"
        /\ Len(tokens) < MaxTokens(r)
        /\ \E last \in BOOLEAN :
              /\ Len(tokens) + 1 = MaxTokens(r) => last
              /\ req_output' = [req_output EXCEPT ![server[r]][Current(r)] =
                     Append(@, [pos |-> ContextLen(r) + Len(tokens) + 1,
                                version |-> weights, last |-> last])]
              /\ pc' = [pc EXCEPT ![r] = IF last THEN "generated" ELSE @]
        /\ UNCHANGED <<rolloutVars, output, paused, cancel_event, server, request>>

\* The engine raises.  The call raises too and removes nothing from the
\* tables; the sample is lost (the Rollouter's TaskFail).
GenerateRaises(r) ==
    /\ pc[r] = "generating"
    /\ Cardinality({q \in Responses : pc[q] = "raised"}) < MaxFailures
    /\ pc' = [pc EXCEPT ![r] = "raised"]
    /\ UNCHANGED <<rolloutVars, output, serverVars>>

\* Mutant: a call counts as cancelled whenever its event has been set, even if
\* the generation ended first.
IsCancelByEvent(r) == cancel_event[server[r]][Current(r)]

\* generation_handle not in done.
IsCancel(r) == pc[r] = "generating"

\* Mutant: a cancelled request stays in the tables.
CleanedWhenFinished(r, table) ==
    [q \in DOMAIN table \ (IF pc[r] = "generating" THEN {} ELSE {Current(r)})
        |-> table[q]]

\* The request is removed, unless the early return for a request without
\* output is taken: then both entries stay.
Cleaned(r, table) ==
    [q \in DOMAIN table \
           (IF req_output[server[r]][Current(r)] = <<>> THEN {} ELSE {Current(r)})
        |-> table[q]]

\* asyncio.wait returns: the generation is done, or the cancel event is set,
\* in which case the generation is cancelled and yields nothing more.
GenerateReturn(r) ==
    LET sv == server[r]
    IN  /\ \/ pc[r] = "generated"
           \/ pc[r] = "generating" /\ cancel_event[sv][Current(r)]
        /\ output' = [output EXCEPT ![r] =
               AgentOutput(r, req_output[sv][Current(r)], IsCancel(r))]
        /\ cancel_event' = [cancel_event EXCEPT ![sv] = Cleaned(r, @)]
        /\ req_output' = [req_output EXCEPT ![sv] = Cleaned(r, @)]
        /\ server' = [server EXCEPT ![r] = None]
        /\ pc' = [pc EXCEPT ![r] = "returned"]
        /\ request' = [request EXCEPT ![r] = 0]
        /\ UNCHANGED <<rolloutVars, paused>>

-----------------------------------------------------------------------------
(* The Rollouter's tasks. *)

OfSample(s) == {r \in Responses : r[1] = s}

\* The Rollouter's lock: pause() and resume() hold it over their calls of the
\* servers; update_param_version() is one step here.
LockHeld == phase \in {"cancelling", "resuming"}

\* A task starts: the batch is stamped with the version, and the agent loops
\* of the responses that are not finished call a server.  Between pause() and
\* resume() a task starts when the monitor wakes the processor (MonUnpause of
\* the module Rollouter).
TaskStart(s) ==
    /\ ~LockHeld
    /\ status[s] = "queued"
    /\ status' = [status EXCEPT ![s] = "active"]
    /\ param_version' = [param_version EXCEPT ![s] = version]
    /\ pc' = [r \in Responses |->
                 IF r \notin OfSample(s) THEN pc[r]
                 ELSE IF MustGenerate(r) THEN "called" ELSE "returned"]
    /\ UNCHANGED <<phase, pending, version, weights, output, serverVars>>

\* All responses of a sample have returned.
TaskEnd(s) ==
    /\ status[s] = "active"
    /\ \A r \in OfSample(s) : pc[r] = "returned"
    /\ status' = [status EXCEPT ![s] =
           IF \E r \in OfSample(s) : output[r].is_cancel THEN "queued" ELSE "done"]
    /\ pc' = [r \in Responses |-> IF r \in OfSample(s) THEN "idle" ELSE pc[r]]
    /\ UNCHANGED <<phase, pending, version, weights, param_version, output,
                   serverVars>>

\* One response has raised, and gather raises with it: the task ends and the
\* sample is lost.  Its other responses go on, but nobody waits for them.
TaskRaises(s) ==
    /\ status[s] = "active"
    /\ \E r \in OfSample(s) : pc[r] = "raised"
    /\ status' = [status EXCEPT ![s] = "lost"]
    /\ UNCHANGED <<phase, pending, version, weights, param_version, agentVars,
                   serverVars>>

-----------------------------------------------------------------------------
(* One parameter synchronization. *)

Advance(from, to) == phase = from /\ phase' = to

\* pause() takes the lock and calls cancel() of every server.
PauseBegin ==
    /\ Advance("running", "cancelling")
    /\ weights < MaxVersion
    /\ pending' = Servers
    /\ UNCHANGED <<version, weights, status, param_version, agentVars, serverVars>>

\* Mutant: cancel() pauses the server and leaves the events alone.
CancelPausesOnly(sv) ==
    /\ phase = "cancelling" /\ sv \in pending
    /\ pending' = pending \ {sv}
    /\ paused' = [paused EXCEPT ![sv] = TRUE]
    /\ UNCHANGED <<phase, version, weights, status, param_version, agentVars,
                   cancel_event, req_output, server, request>>

\* cancel() of one server: it refuses new requests and sets every event of
\* its table, those of the entries left behind included.
Cancel(sv) ==
    /\ phase = "cancelling" /\ sv \in pending
    /\ pending' = pending \ {sv}
    /\ paused' = [paused EXCEPT ![sv] = TRUE]
    /\ cancel_event' = [cancel_event EXCEPT ![sv] = [q \in DOMAIN @ |-> TRUE]]
    /\ UNCHANGED <<phase, version, weights, status, param_version, agentVars,
                   req_output, server, request>>

\* Mutant: pause() does not wait for the active tasks.
DrainedAtOnce == pending = {}

\* Every server has answered and gather(active_tasks) has returned.
Drained == pending = {} /\ \A s \in Samples : status[s] # "active"

\* pause() resets the prefix caches, of which the model has nothing, and ends.
PauseEnd ==
    /\ Drained
    /\ Advance("cancelling", "copying")
    /\ UNCHANGED <<pending, version, weights, status, param_version, agentVars,
                   serverVars>>

\* sync_rollout_weights: the servers hold the next version of the weights.
SyncWeights ==
    /\ Advance("copying", "copied")
    /\ weights' = weights + 1
    /\ UNCHANGED <<pending, version, status, param_version, agentVars, serverVars>>

\* update_param_version takes the lock and sets the version.  Its return
\* starts resume(), which takes the lock, wakes the processor and resumes every
\* server.
UpdateParamVersion ==
    /\ Advance("copied", "resuming")
    /\ version' = weights
    /\ pending' = Servers
    /\ UNCHANGED <<weights, status, param_version, agentVars, serverVars>>

Resume(sv) ==
    /\ phase = "resuming" /\ sv \in pending
    /\ pending' = pending \ {sv}
    /\ paused' = [paused EXCEPT ![sv] = FALSE]
    /\ UNCHANGED <<phase, version, weights, status, param_version, agentVars,
                   cancel_event, req_output, server, request>>

ResumeEnd ==
    /\ pending = {}
    /\ Advance("resuming", "running")
    /\ UNCHANGED <<pending, version, weights, status, param_version, agentVars,
                   serverVars>>

-----------------------------------------------------------------------------

Call(r) == \E sv \in Servers : GenerateRefused(r, sv) \/ GenerateRegister(r, sv)

Synchronize ==
    \/ PauseBegin \/ PauseEnd \/ SyncWeights \/ UpdateParamVersion \/ ResumeEnd
    \/ \E sv \in Servers : Cancel(sv) \/ Resume(sv)

Next ==
    \/ \E r \in Responses : \/ Call(r) \/ GenerateStep(r)
                            \/ GenerateRaises(r) \/ GenerateReturn(r)
    \/ \E s \in Samples : TaskStart(s) \/ TaskEnd(s) \/ TaskRaises(s)
    \/ Synchronize

Spec == Init /\ [][Next]_vars

\* Calls are delivered, event loops run what is ready, and the synchronizer
\* goes on once it has begun.  Nothing is assumed of the engine: GenerateStep
\* may never happen.
FairSpec ==
    /\ Spec
    /\ \A r \in Responses : WF_vars(Call(r) \/ GenerateReturn(r))
    /\ \A s \in Samples : WF_vars(TaskEnd(s) \/ TaskRaises(s))
    /\ WF_vars(Synchronize /\ phase # "running")

-----------------------------------------------------------------------------
(* Properties. *)

\* The variables have their types; a response is at most response_length long.
TypeOK ==
    /\ phase \in {"running", "cancelling", "copying", "copied", "resuming"}
    /\ pending \subseteq Servers
    /\ version \in 0 .. MaxVersion /\ weights \in 0 .. MaxVersion
    /\ status \in [Samples -> {"queued", "active", "done", "lost"}]
    /\ param_version \in [Samples -> 0 .. MaxVersion]
    /\ pc \in [Responses -> {"idle", "called", "generating", "generated",
                             "returned", "raised"}]
    /\ output \in [Responses -> Output \cup {None}]
    /\ \A r \in Responses : Len(Generated(r)) <= ResponseLength
    /\ paused \in [Servers -> BOOLEAN]
    /\ server \in [Responses -> Servers \cup {None}]
    /\ request \in [Responses -> RequestIds \cup {0}]
    /\ \A sv \in Servers :
          /\ DOMAIN cancel_event[sv] \subseteq Requests
          /\ DOMAIN req_output[sv] = DOMAIN cancel_event[sv]
          /\ \A q \in DOMAIN cancel_event[sv] :
                /\ cancel_event[sv][q] \in BOOLEAN
                /\ req_output[sv][q] \in Seq(Token)

\* From the moment pause() resets the caches until resume() starts, no sample
\* that may still be delivered is generated: the weights are never changed under
\* a generation whose tokens are used, although the Rollouter can start tasks
\* in that time.  What may still run are the other responses of a sample that
\* failed, for which pause() does not wait; their servers have cancelled them.
QuietDuringCopy ==
    phase \in {"copying", "copied"} =>
        \A r \in Responses : pc[r] \in {"generating", "generated"} =>
            /\ status[r[1]] = "lost"
            /\ cancel_event[server[r]][Current(r)]

\* However often a response was interrupted, its tokens are those the engine
\* generated for the positions that follow the prompt, in order, without a gap
\* or a repetition, and log_probs[i] belongs to response[i].
TokensAreContiguous ==
    \A r \in Responses : output[r] # None =>
        /\ Len(output[r].log_probs) >= Len(output[r].response)
        /\ \A i \in 1 .. Len(output[r].response) :
              /\ output[r].response[i].pos = PromptLen[r[1]] + i
              /\ output[r].log_probs[i] = output[r].response[i]

\* A generation that has ended is never resumed: no token follows a last one,
\* and the engine is never asked for fewer than one token, which it refuses.
NothingAfterTheLastToken ==
    \A r \in Responses :
        /\ \A i \in 1 .. Len(Generated(r)) - 1 : ~Generated(r)[i].last
        /\ pc[r] = "called" => MaxTokens(r) >= 1

\* The version range of a response covers its tokens, up to one version: a
\* task started between pause() and update_param_version() carries the old
\* version and may reach a server after it has resumed with the new weights.
\* It cannot be off by two, because the next pause() waits for the task, unless
\* the sample is lost, when nobody waits for its responses or uses them.
VersionsBracketTokens ==
    \A r \in Responses : output[r] # None =>
        /\ output[r].start <= output[r].end
        /\ \A i \in 1 .. Len(output[r].response) :
              LET v == output[r].response[i].version
              IN  /\ output[r].start <= v
                  /\ status[r[1]] # "lost" => v <= output[r].end + 1

InFlight(q) ==
    pc[q[1]] \in {"generating", "generated"} /\ q[2] = request[q[1]]

\* An entry of the tables outlives its call only if the call returned before
\* its first token, or raised; in particular an entry that holds tokens
\* belongs to a call in flight or to one that raised.
OnlyEmptyRequestsLeak ==
    \A sv \in Servers : \A q \in DOMAIN cancel_event[sv] :
        \/ InFlight(q)
        \/ req_output[sv][q] = <<>>
        \/ pc[q[1]] = "raised"

\* pause() ends although the engine may never produce another token: the
\* cancel events end every call that was registered, and the paused servers
\* refuse those that were not.
PauseEnds == phase = "cancelling" ~> phase = "copying"

=============================================================================
