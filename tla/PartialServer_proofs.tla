------------------------ MODULE PartialServer_proofs ------------------------
(***************************************************************************)
(* Proofs about partial rollout, for any number of samples, responses and  *)
(* servers: while the weights are copied no server generates but, after a  *)
(* failure, what it has been told to cancel; and what the agent loop       *)
(* builds of a response over its rounds is what the servers generated, in  *)
(* order, within the versions it is stamped with.                          *)
(***************************************************************************)
EXTENDS PartialServer, SequenceTheorems, TLAPS

AtWork == {"generating", "generated"}
Busy   == {"called"} \cup AtWork

\* The control state, as far as the proof needs it.
ControlOK ==
    /\ phase \in {"running", "cancelling", "copying", "copied", "resuming"}
    /\ status \in [Samples -> {"queued", "active", "done", "lost"}]
    /\ pc \in [Responses -> {"idle", "called", "generating", "generated",
                             "returned", "raised"}]
    /\ paused \in [Servers -> BOOLEAN]
    /\ cancel_event = [sv \in Servers |-> cancel_event[sv]]

\* A response that is being generated belongs to an active task, so it cannot
\* outlive the wait of pause() for the active tasks, or to a lost sample.
BusyIsHeld ==
    \A r \in Responses : pc[r] \in Busy => status[r[1]] \in {"active", "lost"}

\* A server that has answered cancel() stays paused until resume(), and every
\* request of its table is cancelled: a paused server registers none.
Answered(sv) ==
    paused[sv] /\ \A q \in DOMAIN cancel_event[sv] : cancel_event[sv][q]

AnsweredIsPaused ==
    /\ phase = "cancelling" => \A sv \in Servers \ pending : Answered(sv)
    /\ phase \in {"copying", "copied"} => \A sv \in Servers : Answered(sv)

OnlyLostRun ==
    phase \in {"copying", "copied"} =>
        \A r \in Responses : pc[r] \in AtWork => status[r[1]] = "lost"

\* The inductive invariant: a request that a task sends while the weights are
\* copied finds its server paused.
Quiet == ControlOK /\ BusyIsHeld /\ AnsweredIsPaused /\ OnlyLostRun

LEMMA QuietInit == Init => Quiet
  BY DEF Init, Quiet, ControlOK, BusyIsHeld, AnsweredIsPaused, OnlyLostRun,
         Busy, AtWork

\* What the invariant needs of a step that leaves synchronization alone.
LEMMA QuietKept ==
  ASSUME Quiet, ControlOK', BusyIsHeld', OnlyLostRun', UNCHANGED <<phase, pending>>,
         \A sv \in Servers : Answered(sv) => Answered(sv)'
  PROVE  Quiet'
  BY DEF Quiet, AnsweredIsPaused

\* Steps of a call to a server.
LEMMA QuietCall ==
  ASSUME Quiet, NEW r \in Responses, NEW sv \in Servers,
         GenerateRefused(r, sv) \/ GenerateRegister(r, sv)
  PROVE  Quiet'
<1>1. CASE GenerateRefused(r, sv)
  BY <1>1 DEF GenerateRefused, Quiet, ControlOK, BusyIsHeld, Answered,
     AnsweredIsPaused, OnlyLostRun, Busy, AtWork, rolloutVars, serverVars
<1>2. CASE GenerateRegister(r, sv)
  <2>1. phase \notin {"copying", "copied"} /\ ~Answered(sv)
    BY <1>2 DEF GenerateRegister, Quiet, AnsweredIsPaused, Answered
  <2>2. /\ UNCHANGED <<rolloutVars, paused>>
        /\ pc[r] = "called" /\ pc' = [pc EXCEPT ![r] = "generating"]
        /\ cancel_event' = [t \in Servers |-> cancel_event'[t]]
        /\ \A t \in Servers : t # sv => cancel_event'[t] = cancel_event[t]
    BY <1>2 DEF GenerateRegister, Quiet, ControlOK
  <2>3. \A t \in Servers : Answered(t) => Answered(t)'
    BY <2>1, <2>2 DEF Answered
  <2>4. ControlOK' /\ BusyIsHeld' /\ OnlyLostRun'
    BY <2>1, <2>2 DEF Quiet, ControlOK, BusyIsHeld, OnlyLostRun, Busy, AtWork, rolloutVars
  <2>5. QED
    BY <2>2, <2>3, <2>4, QuietKept DEF rolloutVars
<1> QED BY <1>1, <1>2

\* Steps of a generation.
LEMMA QuietGenerate ==
  ASSUME Quiet, NEW r \in Responses,
         GenerateStep(r) \/ GenerateRaises(r) \/ GenerateReturn(r)
  PROVE  Quiet'
<1>1. /\ pc[r] \in AtWork
      /\ UNCHANGED <<rolloutVars, paused>>
      /\ \E v \in AtWork \cup {"returned", "raised"} : pc' = [pc EXCEPT ![r] = v]
  BY DEF GenerateStep, GenerateRaises, GenerateReturn, rolloutVars, serverVars,
         Quiet, ControlOK, AtWork
<1>2. \/ cancel_event' = cancel_event
      \/ cancel_event' = [cancel_event EXCEPT ![server[r]] = Cleaned(r, @)]
  BY DEF GenerateStep, GenerateRaises, GenerateReturn, serverVars
<1>3. cancel_event' = [t \in Servers |-> cancel_event'[t]]
  BY <1>2 DEF Quiet, ControlOK
<1>4. \A t \in Servers : Answered(t) => Answered(t)'
  <2>1. ASSUME NEW t \in Servers
        PROVE  \/ cancel_event'[t] = cancel_event[t]
               \/ cancel_event'[t] = Cleaned(r, cancel_event[t])
    BY <1>2 DEF Quiet, ControlOK
  <2>2. ASSUME NEW table, NEW q \in DOMAIN Cleaned(r, table)
        PROVE  q \in DOMAIN table /\ Cleaned(r, table)[q] = table[q]
    BY <2>2 DEF Cleaned
  <2>3. QED
    BY <1>1, <2>1, <2>2 DEF Answered
<1>5. ControlOK' /\ BusyIsHeld' /\ OnlyLostRun'
  BY <1>1, <1>3 DEF Quiet, ControlOK, BusyIsHeld, OnlyLostRun, Busy, AtWork, rolloutVars
<1>6. QED
  BY <1>1, <1>4, <1>5, QuietKept DEF rolloutVars

\* A task starts or ends.
LEMMA QuietTask ==
  ASSUME Quiet, NEW s \in Samples, TaskStart(s) \/ TaskEnd(s) \/ TaskRaises(s)
  PROVE  Quiet'
<1> USE DEF Responses
<1>1. UNCHANGED <<phase, pending, paused, cancel_event>>
  BY DEF TaskStart, TaskEnd, TaskRaises, serverVars
<1>2. \A t \in Servers : Answered(t) => Answered(t)'
  BY <1>1 DEF Answered
<1>3. CASE TaskStart(s) \/ TaskEnd(s)
  <2>1. /\ \A r \in Responses : r[1] = s => pc'[r] \in {"idle", "called", "returned"}
        /\ TaskEnd(s) => \A r \in Responses : r[1] = s => pc'[r] = "idle"
        /\ TaskStart(s) => status'[s] = "active"
    BY <1>3 DEF TaskStart, TaskEnd, OfSample, Quiet, ControlOK
  <2>2. \A r \in Responses : r[1] # s => pc'[r] = pc[r] /\ status'[r[1]] = status[r[1]]
    BY <1>3 DEF TaskStart, TaskEnd, OfSample, Quiet, ControlOK
  <2>3. /\ status' \in [Samples -> {"queued", "active", "done", "lost"}]
        /\ pc' \in [Responses -> {"idle", "called", "generating", "generated",
                             "returned", "raised"}]
    BY <1>3 DEF TaskStart, TaskEnd, OfSample, Quiet, ControlOK
  <2>4. ControlOK' /\ BusyIsHeld' /\ OnlyLostRun'
    BY <1>1, <1>3, <2>1, <2>2, <2>3 DEF Quiet, ControlOK, BusyIsHeld, OnlyLostRun, Busy, AtWork
  <2>5. QED
    BY <1>1, <1>2, <2>4, QuietKept
<1>4. CASE TaskRaises(s)
  <2>1. UNCHANGED pc /\ status' = [status EXCEPT ![s] = "lost"]
    BY <1>4 DEF TaskRaises, agentVars
  <2>2. ControlOK' /\ BusyIsHeld' /\ OnlyLostRun'
    BY <1>1, <2>1 DEF Quiet, ControlOK, BusyIsHeld, OnlyLostRun, Busy, AtWork
  <2>3. QED
    BY <1>1, <1>2, <2>2, QuietKept
<1>5. QED
  BY <1>3, <1>4

\* Steps of the synchronization.
LEMMA QuietSynchronize ==
  ASSUME Quiet, Synchronize
  PROVE  Quiet'
<1> USE DEF Advance, agentVars, serverVars, Answered
<1>1. CASE PauseEnd
  <2>1. \A r \in Responses : pc[r] \in Busy => status[r[1]] = "lost"
    BY <1>1 DEF PauseEnd, Drained, Quiet, BusyIsHeld, Responses
  <2> QED
    BY <1>1, <2>1 DEF PauseEnd, Drained, Quiet, ControlOK, BusyIsHeld,
       AnsweredIsPaused, OnlyLostRun, Busy
<1>2. CASE PauseBegin \/ SyncWeights \/ UpdateParamVersion \/ ResumeEnd
  BY <1>2 DEF PauseBegin, SyncWeights, UpdateParamVersion, ResumeEnd, Quiet,
     ControlOK, BusyIsHeld, AnsweredIsPaused, OnlyLostRun
<1>3. ASSUME NEW sv \in Servers, Cancel(sv)
      PROVE  Quiet'
  <2>1. /\ cancel_event' = [t \in Servers |-> cancel_event'[t]]
        /\ \A t \in Servers : t # sv => cancel_event'[t] = cancel_event[t]
        /\ \A q \in DOMAIN cancel_event'[sv] : cancel_event'[sv][q]
        /\ paused' = [paused EXCEPT ![sv] = TRUE] /\ pending' = pending \ {sv}
        /\ UNCHANGED <<phase, status, pc>> /\ phase = "cancelling"
    BY <1>3 DEF Cancel, Quiet, ControlOK
  <2>2. ControlOK' /\ BusyIsHeld' /\ OnlyLostRun'
    BY <2>1 DEF Quiet, ControlOK, BusyIsHeld, OnlyLostRun
  <2>3. \A t \in Servers : Answered(t) => Answered(t)'
    BY <2>1 DEF Quiet, ControlOK
  <2>4. Answered(sv)'
    BY <2>1 DEF Quiet, ControlOK
  <2>5. QED
    BY <2>1, <2>2, <2>3, <2>4 DEF Quiet, AnsweredIsPaused
<1>4. ASSUME NEW sv \in Servers, Resume(sv)
      PROVE  Quiet'
  BY <1>4 DEF Resume, Quiet, ControlOK, BusyIsHeld, AnsweredIsPaused, OnlyLostRun
<1> QED BY <1>1, <1>2, <1>3, <1>4 DEF Synchronize

-----------------------------------------------------------------------------
(* Responses, rounds and the tables of the servers *)

\* Weights and version differ only between the copy and update_param_version;
\* an active task is stamped with the current version or the one before.
VersionInv ==
    /\ version \in 0 .. MaxVersion /\ weights \in 0 .. MaxVersion
    /\ weights = IF phase = "copied" THEN version + 1 ELSE version
    /\ phase \in {"cancelling", "copying"} => weights < MaxVersion
    /\ param_version \in [Samples -> 0 .. MaxVersion]
    /\ \A s \in Samples :
          /\ param_version[s] <= version
          /\ status[s] = "active" =>
                /\ version <= param_version[s] + 1
                /\ phase \in {"copying", "copied"} => param_version[s] = version

TaskInv ==
    \A r \in Responses :
        /\ pc[r] = "raised" => status[r[1]] \in {"active", "lost"}
        /\ pc[r] \in {"called"} \cup AtWork => MustGenerate(r)

\* What run() has built of a response after some rounds.
OutputOK(r, o) ==
    /\ o \in Output
    /\ Len(o.response) <= ResponseLength
    /\ Len(o.response) <= Len(o.log_probs)
    /\ Len(o.response) < ResponseLength => Len(o.response) = Len(o.log_probs)
    /\ \A i \in 1 .. Len(o.response) :
          /\ o.response[i].pos = PromptLen[r[1]] + i
          /\ o.log_probs[i] = o.response[i]
          /\ o.start <= o.response[i].version
          /\ status[r[1]] # "lost" => o.response[i].version <= o.end + 1
          /\ o.response[i].last => i = Len(o.response) /\ ~o.is_cancel
    /\ o.is_cancel => PromptLen[r[1]] + Len(o.response) < MaxModelLen
    /\ o.start <= o.end /\ o.end <= param_version[r[1]]

OutputInv ==
    /\ output \in [Responses -> Output \cup {None}]
    /\ \A r \in Responses : output[r] # None => OutputOK(r, output[r])

\* The tokens of a round, while it runs and when it has ended.
RoundOK(r, tokens, ended) ==
    /\ tokens \in Seq(Token)
    /\ Len(tokens) <= MaxTokens(r)
    /\ ~ended => Len(tokens) < MaxTokens(r)
    /\ ended => tokens # <<>>
    /\ \A i \in 1 .. Len(tokens) :
          /\ tokens[i].pos = ContextLen(r) + i
          /\ param_version[r[1]] <= tokens[i].version
          /\ tokens[i].version <= weights
          /\ tokens[i].last => i = Len(tokens) /\ ended

Tokens(r) == req_output[server[r]][Current(r)]

FlightInv ==
    /\ DOMAIN server = Responses /\ DOMAIN request = Responses
    /\ \A r \in Responses : pc[r] \in AtWork =>
        /\ server[r] \in Servers
        /\ Current(r) \in DOMAIN cancel_event[server[r]]
        /\ RoundOK(r, Tokens(r), pc[r] = "generated")

\* An entry with tokens belongs to a round in flight or one that raised.
TableInv ==
    /\ cancel_event = [sv \in Servers |-> cancel_event[sv]]
    /\ req_output = [sv \in Servers |-> req_output[sv]]
    /\ \A sv \in Servers :
          /\ req_output[sv] = [q \in DOMAIN cancel_event[sv] |-> req_output[sv][q]]
          /\ \A q \in DOMAIN cancel_event[sv] :
                /\ q[1] \in Responses
                /\ \/ req_output[sv][q] = <<>>
                   \/ pc[q[1]] = "raised"
                   \/ pc[q[1]] \in AtWork /\ q = Current(q[1]) /\ sv = server[q[1]]

RoundInv ==
    /\ Quiet /\ VersionInv /\ TaskInv /\ OutputInv /\ FlightInv /\ TableInv

\* The invariant contains what is to be shown.
LEMMA RoundInvQuiet == RoundInv => QuietDuringCopy
<1> SUFFICES ASSUME RoundInv, phase \in {"copying", "copied"}, NEW r \in Responses, pc[r] \in AtWork
             PROVE  status[r[1]] = "lost" /\ cancel_event[server[r]][Current(r)]
  BY DEF QuietDuringCopy, AtWork
<1>1. server[r] \in Servers /\ Current(r) \in DOMAIN cancel_event[server[r]]
  BY DEF RoundInv, FlightInv
<1>2. QED
  BY <1>1 DEF RoundInv, Quiet, OnlyLostRun, AnsweredIsPaused, Answered

LEMMA RoundInvContiguous == RoundInv => TokensAreContiguous
  BY DEF RoundInv, OutputInv, OutputOK, TokensAreContiguous

LEMMA RoundInvBracket == RoundInv => VersionsBracketTokens
  BY DEF RoundInv, OutputInv, OutputOK, VersionsBracketTokens

LEMMA RoundInvLast == RoundInv => NothingAfterTheLastToken
<1> SUFFICES ASSUME RoundInv, NEW r \in Responses
             PROVE  /\ \A i \in 1 .. Len(Generated(r)) - 1 : ~Generated(r)[i].last
                    /\ pc[r] = "called" => MaxTokens(r) >= 1
  BY DEF NothingAfterTheLastToken
<1>1. PromptLen[r[1]] \in 1 .. PromptLength
  BY SizesAssumption DEF Responses
<1>2. CASE output[r] = None
  BY <1>1, <1>2, SizesAssumption DEF Generated, MaxTokens, ContextLen, MaxModelLen
<1>3. CASE output[r] # None
  <2>1. OutputOK(r, output[r]) /\ Generated(r) = output[r].response
    BY <1>3 DEF RoundInv, OutputInv, Generated
  <2>2. Len(Generated(r)) \in Nat
    BY <2>1 DEF OutputOK, Output
  <2>3. \A i \in 1 .. Len(Generated(r)) - 1 : ~Generated(r)[i].last
    BY <2>1, <2>2 DEF OutputOK
  <2>4. pc[r] = "called" => output[r].is_cancel
    BY <1>3 DEF RoundInv, TaskInv, MustGenerate
  <2>5. QED
    BY <1>1, <2>1, <2>2, <2>3, <2>4, SizesAssumption DEF OutputOK, MaxTokens, ContextLen, MaxModelLen
<1>4. QED
  BY <1>2, <1>3

LEMMA RoundInvLeak == RoundInv => OnlyEmptyRequestsLeak
<1> SUFFICES ASSUME RoundInv, NEW sv \in Servers, NEW q \in DOMAIN cancel_event[sv]
             PROVE  InFlight(q) \/ req_output[sv][q] = <<>> \/ pc[q[1]] = "raised"
  BY DEF OnlyEmptyRequestsLeak
<1>1. q = Current(q[1]) => q[2] = request[q[1]]
  BY DEF Current
<1>2. QED
  BY <1>1 DEF RoundInv, TableInv, InFlight, AtWork

-----------------------------------------------------------------------------
(* What a round does to its response *)

LEMMA PromptFits ==
  ASSUME NEW r \in Responses
  PROVE  /\ r[1] \in Samples
         /\ PromptLen[r[1]] \in Nat /\ PromptLen[r[1]] <= PromptLength
         /\ {PromptLength, ResponseLength, MaxVersion} \subseteq Nat
         /\ ResponseLength > 0
  BY SizesAssumption DEF Responses

\* The tokens so far, typed.
LEMMA GeneratedFacts ==
  ASSUME NEW r \in Responses, OutputInv
  PROVE  /\ Generated(r) \in Seq(Token)
         /\ Len(Generated(r)) \in Nat /\ Len(Generated(r)) <= ResponseLength
         /\ ContextLen(r) = PromptLen[r[1]] + Len(Generated(r))
         /\ MaxTokens(r) = PromptLength + ResponseLength - ContextLen(r)
<1>1. CASE output[r] = None
  BY <1>1, PromptFits DEF Generated, ContextLen, MaxTokens, MaxModelLen
<1>2. CASE output[r] # None
  BY <1>2, PromptFits DEF Generated, ContextLen, MaxTokens, MaxModelLen, OutputInv, OutputOK, Output
<1>3. QED
  BY <1>1, <1>2

\* A round that must be made may produce at least one token.
LEMMA RoomForOne ==
  ASSUME NEW r \in Responses, OutputInv, MustGenerate(r)
  PROVE  MaxTokens(r) >= 1
<1>1. CASE output[r] = None
  BY <1>1, GeneratedFacts, PromptFits DEF Generated
<1>2. CASE output[r] # None
  BY <1>2, GeneratedFacts, PromptFits DEF Generated, OutputInv, OutputOK, MustGenerate, MaxModelLen
<1>3. QED
  BY <1>1, <1>2

LEMMA TruncatedFacts ==
  ASSUME NEW seq \in Seq(Token)
  PROVE  /\ Truncated(seq) \in Seq(Token)
         /\ Len(Truncated(seq)) = IF Len(seq) < ResponseLength THEN Len(seq) ELSE ResponseLength
         /\ \A i \in 1 .. Len(Truncated(seq)) : Truncated(seq)[i] = seq[i]
<1> DEFINE n == IF Len(seq) < ResponseLength THEN Len(seq) ELSE ResponseLength
<1>1. n \in Nat /\ n <= Len(seq)
  BY SizesAssumption, LenProperties
<1>2. \A i \in 1 .. n : seq[i] \in Token
  BY <1>1, ElementOfSeq
<1>3. Truncated(seq) = SubSeq(seq, 1, n)
  BY DEF Truncated
<1> HIDE DEF n
<1>4. /\ SubSeq(seq, 1, n) \in Seq(Token)
      /\ Len(SubSeq(seq, 1, n)) = (IF 1 <= n THEN n - 1 + 1 ELSE 0)
      /\ \A i \in 1 .. n - 1 + 1 : SubSeq(seq, 1, n)[i] = seq[1 + i - 1]
  <2>1. 1 \in Int /\ n \in Int
    BY <1>1
  <2>2. QED
    BY <1>2, <2>1, SubSeqProperties
<1>5. QED
  BY <1>1, <1>3, <1>4 DEF n

\* The output of a round continues the output before it, whether the round was
\* interrupted, had nothing to say, or ended the generation.
LEMMA JoinRound ==
  ASSUME NEW r \in Responses, VersionInv, OutputInv, MustGenerate(r),
         status[r[1]] \in {"active", "lost"}, NEW cancelled \in BOOLEAN,
         NEW tokens, RoundOK(r, tokens, ~cancelled)
  PROVE  OutputOK(r, AgentOutput(r, tokens, cancelled))
<1> DEFINE o    == AgentOutput(r, tokens, cancelled)
           log  == IF output[r] = None THEN <<>> ELSE output[r].log_probs
           both == Generated(r) \o tokens
<1>1. /\ tokens \in Seq(Token) /\ Len(tokens) \in Nat
      /\ Generated(r) \in Seq(Token) /\ Len(Generated(r)) \in Nat
      /\ \A i \in 1 .. Len(tokens) : tokens[i] \in Token
  BY GeneratedFacts DEF RoundOK
<1>2. /\ log \in Seq(Token) /\ Len(log) \in Nat
      /\ Len(Generated(r)) <= Len(log)
      /\ Len(Generated(r)) < ResponseLength => Len(Generated(r)) = Len(log)
      /\ \A i \in 1 .. Len(Generated(r)) : log[i] = Generated(r)[i]
  <2>1. CASE output[r] = None
    BY <2>1 DEF Generated
  <2>2. CASE output[r] # None
    BY <2>2 DEF Generated, OutputInv, OutputOK, Output
  <2>3. QED
    BY <2>1, <2>2
<1>3. /\ both \in Seq(Token) /\ Len(both) = Len(Generated(r)) + Len(tokens)
      /\ \A i \in 1 .. Len(both) :
           both[i] = IF i <= Len(Generated(r)) THEN Generated(r)[i]
                                               ELSE tokens[i - Len(Generated(r))]
  BY <1>1, ConcatProperties
<1>4. /\ log \o tokens \in Seq(Token) /\ Len(log \o tokens) = Len(log) + Len(tokens)
      /\ \A i \in 1 .. Len(log) + Len(tokens) :
           (log \o tokens)[i] = IF i <= Len(log) THEN log[i] ELSE tokens[i - Len(log)]
  BY <1>1, <1>2, ConcatProperties
<1>5. /\ o.response = Truncated(both) /\ o.log_probs = log \o tokens
      /\ o.is_cancel = cancelled /\ o.end = param_version[r[1]]
      /\ o.start = IF output[r] = None THEN param_version[r[1]] ELSE output[r].start
      /\ o = [response |-> o.response, log_probs |-> o.log_probs, is_cancel |-> o.is_cancel,
              start |-> o.start, end |-> o.end]
  BY DEF AgentOutput
<1> HIDE DEF o, log, both
<1>6. /\ o.response \in Seq(Token)
      /\ Len(o.response) = IF Len(both) < ResponseLength THEN Len(both) ELSE ResponseLength
      /\ \A i \in 1 .. Len(o.response) : o.response[i] = both[i]
  BY <1>3, <1>5, TruncatedFacts
<1>7. /\ {Len(o.response), Len(both), Len(log), Len(o.log_probs), Len(Generated(r)),
           Len(tokens), ResponseLength} \subseteq Nat
      /\ Len(both) = Len(Generated(r)) + Len(tokens)
      /\ Len(o.log_probs) = Len(log) + Len(tokens)
      /\ Len(Generated(r)) <= Len(log)
      /\ Len(Generated(r)) < ResponseLength => Len(Generated(r)) = Len(log)
      /\ Len(o.response) = IF Len(both) < ResponseLength THEN Len(both) ELSE ResponseLength
  <2>1. {Len(log), Len(Generated(r)), Len(tokens), ResponseLength} \subseteq Nat
    BY <1>1, <1>2, PromptFits
  <2>2. QED
    BY <1>2, <1>3, <1>4, <1>5, <1>6, <2>1
\* the versions
<1>8. /\ param_version[r[1]] \in 0 .. MaxVersion
      /\ weights \in Nat /\ (status[r[1]] # "lost" => weights <= param_version[r[1]] + 1)
  BY PromptFits DEF VersionInv
<1>9. /\ o.start \in 0 .. MaxVersion /\ o.start <= o.end
      /\ output[r] # None => /\ o.start = output[r].start /\ output[r].end <= o.end
                             /\ output[r].end \in Nat
  BY <1>5, <1>8 DEF OutputInv, OutputOK, Output
<1>10. o \in Output
  BY <1>4, <1>5, <1>6, <1>8, <1>9 DEF Output
\* the tokens
<1>11. ASSUME NEW i \in 1 .. Len(o.response)
       PROVE  /\ o.response[i].pos = PromptLen[r[1]] + i
              /\ o.log_probs[i] = o.response[i]
              /\ o.start <= o.response[i].version
              /\ status[r[1]] # "lost" => o.response[i].version <= o.end + 1
              /\ o.response[i].last => i = Len(o.response) /\ ~o.is_cancel
  <2>1. i \in Nat /\ i >= 1 /\ i <= Len(both) /\ i <= ResponseLength
    BY <1>7
  <2>2. CASE i <= Len(Generated(r))
    <3>1. o.response[i] = Generated(r)[i]
      <4>1. o.response[i] = both[i] /\ i \in 1 .. Len(both)
        BY <1>6, <1>7, <2>1
      <4>2. QED
        BY <1>3, <2>2, <4>1
    <3>2. output[r] # None
      BY <2>1, <2>2 DEF Generated
    <3>3. /\ OutputOK(r, output[r]) /\ Generated(r) = output[r].response
          /\ output[r].is_cancel
      BY <3>2 DEF OutputInv, Generated, MustGenerate
    <3>4. i \in 1 .. Len(output[r].response)
      BY <2>1, <2>2, <3>3
    <3>5. /\ Generated(r)[i].pos = PromptLen[r[1]] + i
          /\ output[r].start <= Generated(r)[i].version
          /\ status[r[1]] # "lost" => Generated(r)[i].version <= output[r].end + 1
          /\ ~Generated(r)[i].last
      BY <3>3, <3>4 DEF OutputOK
    <3>6. o.log_probs[i] = Generated(r)[i]
      <4>1. i \in 1 .. Len(log) + Len(tokens) /\ i <= Len(log) /\ i \in 1 .. Len(Generated(r))
        BY <1>7, <2>1, <2>2
      <4>2. QED
        BY <1>2, <1>4, <1>5, <4>1
    <3>7. Generated(r)[i].version \in Nat
      <4>1. Generated(r)[i] \in Token
        BY <1>1, <1>7, <2>1, <2>2, ElementOfSeq
      <4>2. QED
        BY <4>1, PromptFits DEF Token
    <3>8. {o.start, o.end, output[r].end} \subseteq Nat
      BY <1>5, <1>8, <1>9, <3>2, PromptFits
    <3>9. /\ o.start <= Generated(r)[i].version
          /\ status[r[1]] # "lost" => Generated(r)[i].version <= o.end + 1
      BY <1>9, <3>2, <3>5, <3>7, <3>8
    <3>10. QED
      BY <3>1, <3>5, <3>6, <3>9
  <2>3. CASE i > Len(Generated(r))
    <3> DEFINE j == i - Len(Generated(r))
    <3>1. j \in 1 .. Len(tokens) /\ Len(Generated(r)) < ResponseLength
      BY <1>7, <2>1, <2>3
    <3>2. o.response[i] = tokens[j]
      <4>1. o.response[i] = both[i] /\ i \in 1 .. Len(both)
        BY <1>6, <1>7, <2>1
      <4>2. QED
        BY <1>3, <1>7, <2>3, <4>1
    <3>3. /\ tokens[j].pos = ContextLen(r) + j
          /\ param_version[r[1]] <= tokens[j].version /\ tokens[j].version <= weights
          /\ tokens[j].last => j = Len(tokens) /\ ~cancelled
          /\ tokens[j].version \in Nat
      <4>1. tokens[j] \in Token
        BY <1>1, <3>1
      <4>2. tokens[j].version \in Nat
        BY <4>1, PromptFits DEF Token
      <4> HIDE DEF j
      <4>3. QED
        BY <3>1, <4>2 DEF RoundOK
    <3>4. o.log_probs[i] = tokens[j]
      <4>1. Len(Generated(r)) = Len(log) /\ i \in 1 .. Len(log) + Len(tokens) /\ i > Len(log)
        BY <1>7, <2>1, <2>3, <3>1
      <4>2. QED
        BY <1>4, <1>5, <4>1
    <3>5. ContextLen(r) + j = PromptLen[r[1]] + i
      BY <1>1, <2>1, GeneratedFacts, PromptFits
    <3>6. j = Len(tokens) => i = Len(o.response)
      BY <1>7, <2>1
    <3> HIDE DEF j
    <3>7. QED
      BY <1>5, <1>8, <1>9, <3>2, <3>3, <3>4, <3>5, <3>6
  <2>4. QED
    BY <1>1, <2>1, <2>2, <2>3
\* the lengths
<1>12. o.is_cancel => PromptLen[r[1]] + Len(o.response) < MaxModelLen
  <2>1. /\ PromptLen[r[1]] \in Nat /\ Len(Generated(r)) \in Nat /\ Len(tokens) \in Nat
        /\ MaxModelLen \in Nat /\ MaxTokens(r) = MaxModelLen - (PromptLen[r[1]] + Len(Generated(r)))
    BY <1>1, GeneratedFacts, PromptFits DEF MaxModelLen
  <2>2. o.is_cancel => Len(tokens) < MaxTokens(r)
    BY <1>5 DEF RoundOK
  <2>3. Len(o.response) <= Len(Generated(r)) + Len(tokens)
    BY <1>7, <2>1, PromptFits
  <2>4. o.is_cancel => PromptLen[r[1]] + (Len(Generated(r)) + Len(tokens)) < MaxModelLen
    BY <2>1, <2>2
  <2>5. Len(o.response) \in Nat
    BY <1>7, <2>1, PromptFits
  <2>6. QED
    BY <2>1, <2>3, <2>4, <2>5
<1>13. /\ Len(o.response) <= ResponseLength
       /\ Len(o.response) <= Len(o.log_probs)
       /\ Len(o.response) < ResponseLength => Len(o.response) = Len(o.log_probs)
  BY <1>7
<1>14. QED
  <2>1. OutputOK(r, o)
    BY <1>5, <1>8, <1>9, <1>10, <1>11, <1>12, <1>13 DEF OutputOK
  <2>2. QED
    BY <2>1 DEF o

-----------------------------------------------------------------------------
(* One lemma per step *)

LEMMA RoundInit == Init => RoundInv
<1> SUFFICES ASSUME Init PROVE RoundInv
  OBVIOUS
<1> USE SizesAssumption DEF Init
<1>1. Quiet
  BY QuietInit
<1>2. VersionInv
  BY DEF VersionInv
<1>3. TaskInv /\ OutputInv
  BY DEF TaskInv, OutputInv, AtWork
<1>4. FlightInv /\ TableInv
  BY DEF FlightInv, TableInv, AtWork
<1>5. QED
  BY <1>1, <1>2, <1>3, <1>4 DEF RoundInv

\* What a response depends on.  The weights may change under a round, of a
\* sample that is lost: they only grow.
LEMMA SameOutput ==
  ASSUME NEW r \in Responses, NEW o, OutputOK(r, o),
         param_version'[r[1]] \in Nat, param_version[r[1]] \in Nat,
         param_version[r[1]] <= param_version'[r[1]],
         status'[r[1]] # "lost" => status[r[1]] # "lost"
  PROVE  OutputOK(r, o)'
  BY PromptFits DEF OutputOK, Output

LEMMA SameFlight ==
  ASSUME NEW r \in Responses, FlightInv, pc[r] \in AtWork,
         pc'[r] = pc[r], output'[r] = output[r],
         weights \in Nat, weights' \in Nat, weights <= weights',
         param_version'[r[1]] = param_version[r[1]],
         server'[r] = server[r], request'[r] = request[r],
         Current(r) \in DOMAIN cancel_event'[server[r]],
         req_output'[server[r]][Current(r)] = Tokens(r)
  PROVE  (/\ server[r] \in Servers
          /\ Current(r) \in DOMAIN cancel_event[server[r]]
          /\ RoundOK(r, Tokens(r), pc[r] = "generated"))'
<1>1. Current(r)' = Current(r) /\ Tokens(r)' = Tokens(r)
  BY DEF Current, Tokens
<1>2. /\ server[r] \in Servers
      /\ RoundOK(r, Tokens(r), pc[r] = "generated")
  BY DEF FlightInv
<1>3. \A i \in 1 .. Len(Tokens(r)) : Tokens(r)[i].version \in Nat
  <2>1. ASSUME NEW i \in 1 .. Len(Tokens(r)) PROVE Tokens(r)[i] \in Token
    BY <1>2, ElementOfSeq DEF RoundOK
  <2>2. QED
    BY <2>1, PromptFits DEF Token
<1>4. RoundOK(r, Tokens(r), pc[r] = "generated")'
  BY <1>1, <1>2, <1>3 DEF RoundOK, MaxTokens, ContextLen, Generated
<1>5. QED
  BY <1>1, <1>2, <1>4

\* While a round is made the weights are those of the version it was stamped
\* with or later ones.
LEMMA VersionOfRound ==
  ASSUME NEW r \in Responses, VersionInv
  PROVE  /\ param_version[r[1]] \in 0 .. MaxVersion /\ weights \in 0 .. MaxVersion
         /\ param_version[r[1]] <= weights /\ MaxVersion \in Nat
  BY PromptFits DEF VersionInv

LEMMA WeightsAreNat == ASSUME VersionInv PROVE weights \in Nat /\ weights <= weights
  BY SizesAssumption DEF VersionInv

LEMMA RefusedRound ==
  ASSUME RoundInv, NEW r \in Responses, NEW sv \in Servers, GenerateRefused(r, sv)
  PROVE  RoundInv'
<1> USE DEF GenerateRefused, rolloutVars, serverVars
<1>1. Quiet'
  BY QuietCall DEF RoundInv
<1>2. VersionInv'
  BY DEF RoundInv, VersionInv
<1>3. pc \in [Responses -> {"idle", "called", "generating", "generated", "returned", "raised"}]
      /\ DOMAIN output = Responses
  BY DEF RoundInv, Quiet, ControlOK, OutputInv
<1>4. TaskInv'
  BY <1>3 DEF RoundInv, TaskInv, AtWork, MustGenerate
<1>5. OutputOK(r, AgentOutput(r, <<>>, TRUE))
  <2>1. MustGenerate(r) /\ status[r[1]] \in {"active", "lost"}
    BY DEF RoundInv, TaskInv, Quiet, BusyIsHeld, Busy
  <2>2. RoundOK(r, <<>>, ~TRUE)
    BY <2>1, RoomForOne, GeneratedFacts, PromptFits DEF RoundInv, RoundOK
  <2>3. QED
    BY <2>1, <2>2, JoinRound DEF RoundInv
<1>6. OutputInv'
  <2>1. AgentOutput(r, <<>>, TRUE) \in Output
    BY <1>5 DEF OutputOK
  <2>2. output' \in [Responses -> Output \cup {None}]
    BY <2>1 DEF RoundInv, OutputInv
  <2>3. ASSUME NEW q \in Responses, output'[q] # None
        PROVE  OutputOK(q, output'[q])
    BY <1>3, <1>5, <2>3 DEF RoundInv, OutputInv
  <2>4. UNCHANGED <<status, param_version>>
    OBVIOUS
  <2>5. ASSUME NEW q \in Responses, output'[q] # None
        PROVE  OutputOK(q, output[q])'
    <3>1. PICK o : o = output'[q]
      OBVIOUS
    <3>2. OutputOK(q, o)
      BY <2>3, <2>5, <3>1
    <3>3. OutputOK(q, o)'
      BY <2>4, <3>2 DEF OutputOK
    <3>4. QED
      BY <3>1, <3>3 DEF OutputOK
  <2>6. QED
    BY <2>2, <2>5 DEF OutputInv
<1>7. FlightInv'
  <2>1. ASSUME NEW q \in Responses, pc'[q] \in AtWork
        PROVE  /\ pc[q] \in AtWork /\ pc'[q] = pc[q] /\ output'[q] = output[q]
               /\ Current(q) \in DOMAIN cancel_event[server[q]]
    BY <1>3, <2>1 DEF RoundInv, FlightInv, AtWork
  <2>2. QED
    BY <2>1, WeightsAreNat, SameFlight DEF FlightInv, RoundInv, Tokens, Current
<1>8. TableInv'
  BY <1>3 DEF RoundInv, TableInv, AtWork, Current
<1>9. QED
  BY <1>1, <1>2, <1>4, <1>6, <1>7, <1>8 DEF RoundInv

\* Of a response that is not at work and has not raised no table holds a token.
LEMMA RegisteredRound ==
  ASSUME RoundInv, NEW r \in Responses, NEW sv \in Servers, GenerateRegister(r, sv)
  PROVE  RoundInv'
<1> USE DEF GenerateRegister, rolloutVars
<1> DEFINE id == <<r, FreshId(r)>>
<1>1. Quiet'
  BY QuietCall DEF RoundInv
<1>2. VersionInv' /\ OutputInv'
  BY DEF RoundInv, VersionInv, OutputInv, OutputOK
<1>3. /\ pc \in [Responses -> {"idle", "called", "generating", "generated", "returned", "raised"}]
      /\ pc' = [pc EXCEPT ![r] = "generating"] /\ pc[r] = "called"
      /\ MustGenerate(r) /\ status[r[1]] \in {"active", "lost"}
  BY DEF RoundInv, Quiet, ControlOK, TaskInv, BusyIsHeld, Busy
<1>4. TaskInv'
  BY <1>3 DEF RoundInv, TaskInv, AtWork, MustGenerate
<1>5. /\ DOMAIN server = Responses /\ DOMAIN request = Responses
      /\ server' = [server EXCEPT ![r] = sv] /\ request' = [request EXCEPT ![r] = FreshId(r)]
      /\ request'[r] = FreshId(r)
  BY DEF RoundInv, FlightInv
<1>6. /\ DOMAIN cancel_event = Servers /\ DOMAIN req_output = Servers
      /\ \A t \in Servers : DOMAIN req_output[t] = DOMAIN cancel_event[t]
  BY DEF RoundInv, TableInv
\* the tables
<1>7. /\ \A t \in Servers : t # sv => /\ cancel_event'[t] = cancel_event[t]
                                      /\ req_output'[t] = req_output[t]
      /\ DOMAIN cancel_event' = Servers /\ DOMAIN req_output' = Servers
      /\ cancel_event'[sv] = [q \in DOMAIN cancel_event[sv] \cup {id} |->
                                IF q \in DOMAIN cancel_event[sv] THEN cancel_event[sv][q] ELSE FALSE]
      /\ req_output'[sv] = [q \in DOMAIN cancel_event[sv] \cup {id} |->
                                IF q \in DOMAIN cancel_event[sv] THEN req_output[sv][q] ELSE <<>>]
  BY <1>5, <1>6
<1> HIDE DEF id
<1>8. id \in DOMAIN cancel_event[sv] => req_output[sv][id] = <<>>
  BY <1>3 DEF id, RoundInv, TableInv, AtWork
<1>9. req_output'[sv][id] = <<>>
  BY <1>7, <1>8
<1>10. FlightInv'
  <2>1. ASSUME NEW q \in Responses, pc'[q] \in AtWork, q # r
        PROVE  (/\ server[q] \in Servers
                /\ Current(q) \in DOMAIN cancel_event[server[q]]
                /\ RoundOK(q, Tokens(q), pc[q] = "generated"))'
    <3>1. /\ pc[q] \in AtWork /\ pc'[q] = pc[q] /\ output'[q] = output[q]
          /\ server'[q] = server[q] /\ request'[q] = request[q]
      BY <1>3, <1>5, <2>1
    <3>2. server[q] \in Servers /\ Current(q) \in DOMAIN cancel_event[server[q]]
      BY <3>1 DEF RoundInv, FlightInv
    <3>3. /\ Current(q) \in DOMAIN cancel_event'[server[q]]
          /\ req_output'[server[q]][Current(q)] = Tokens(q)
      BY <1>7, <3>2 DEF Tokens
    <3>4. QED
      BY <3>1, <3>3, WeightsAreNat, SameFlight DEF RoundInv
  <2>2. /\ server'[r] = sv /\ Current(r)' = id
        /\ id \in DOMAIN cancel_event'[sv] /\ Tokens(r)' = <<>>
    BY <1>5, <1>7, <1>9 DEF Current, Tokens, id
  <2>3. RoundOK(r, <<>>, FALSE)'
    <3>1. /\ MaxTokens(r) \in Nat /\ MaxTokens(r) >= 1
      BY <1>3, RoomForOne, GeneratedFacts, PromptFits DEF RoundInv
    <3>2. MaxTokens(r)' = MaxTokens(r)
      BY DEF MaxTokens, ContextLen, Generated
    <3>3. Len(<<>>) = 0 /\ <<>> \in Seq(Token)
      OBVIOUS
    <3>4. QED
      BY <3>1, <3>2, <3>3 DEF RoundOK
  <2>4. pc'[r] = "generating"
    BY <1>3
  <2>5. (pc[r] = "generated")' = FALSE
    BY <2>4
  <2>6. (/\ server[r] \in Servers
         /\ Current(r) \in DOMAIN cancel_event[server[r]]
         /\ RoundOK(r, Tokens(r), pc[r] = "generated"))'
    BY <2>2, <2>3, <2>5
  <2>7. DOMAIN server' = Responses /\ DOMAIN request' = Responses
    BY <1>5
  <2>8. QED
    BY <2>1, <2>6, <2>7 DEF FlightInv
<1>11. TableInv'
  <2>1. ASSUME NEW t \in Servers, NEW q \in DOMAIN cancel_event'[t]
        PROVE  /\ q[1] \in Responses
               /\ \/ req_output'[t][q] = <<>>
                  \/ pc'[q[1]] = "raised"
                  \/ pc'[q[1]] \in AtWork /\ q = Current(q[1])' /\ t = server'[q[1]]
    <3>1. CASE q \in DOMAIN cancel_event[t]
      <4>1. req_output'[t][q] = req_output[t][q]
        BY <1>7, <3>1
      <4>2. \/ req_output[t][q] = <<>>
            \/ pc[q[1]] = "raised" /\ q[1] # r
            \/ pc[q[1]] \in AtWork /\ q = Current(q[1]) /\ t = server[q[1]] /\ q[1] # r
        BY <1>3, <3>1 DEF RoundInv, TableInv, AtWork
      <4>3. q[1] # r => /\ pc'[q[1]] = pc[q[1]] /\ server'[q[1]] = server[q[1]]
                        /\ Current(q[1])' = Current(q[1])
        BY <1>3, <1>5 DEF Current
      <4>4. q[1] \in Responses
        BY <3>1 DEF RoundInv, TableInv
      <4>5. QED
        BY <4>1, <4>2, <4>3, <4>4
    <3>2. CASE q \notin DOMAIN cancel_event[t]
      BY <1>7, <1>9, <3>2 DEF id
    <3>3. QED
      BY <3>1, <3>2
  <2>2. /\ cancel_event' = [t \in Servers |-> cancel_event'[t]]
        /\ req_output' = [t \in Servers |-> req_output'[t]]
        /\ \A t \in Servers : req_output'[t] = [q \in DOMAIN cancel_event'[t] |-> req_output'[t][q]]
    <3>1. /\ cancel_event' = [t \in Servers |-> cancel_event'[t]]
          /\ req_output' = [t \in Servers |-> req_output'[t]]
      BY <1>6
    <3>2. ASSUME NEW t \in Servers
          PROVE  req_output'[t] = [q \in DOMAIN cancel_event'[t] |-> req_output'[t][q]]
      <4>1. CASE t = sv
        BY <1>7, <4>1
      <4>2. CASE t # sv
        BY <1>7, <4>2 DEF RoundInv, TableInv
      <4>3. QED
        BY <4>1, <4>2
    <3>3. QED
      BY <3>1, <3>2
  <2>3. QED
    BY <2>1, <2>2 DEF TableInv
<1>12. QED
  BY <1>1, <1>2, <1>4, <1>10, <1>11 DEF RoundInv

\* The tokens of a round stay in order whatever other responses do.
LEMMA SameRound ==
  ASSUME NEW r \in Responses, NEW tokens, NEW ended, RoundOK(r, tokens, ended),
         output'[r] = output[r], weights' = weights,
         param_version'[r[1]] = param_version[r[1]]
  PROVE  RoundOK(r, tokens, ended)'
  BY DEF RoundOK, MaxTokens, ContextLen, Generated

\* One more token, generated by the weights the servers hold.
LEMMA StepOfRound ==
  ASSUME RoundInv, NEW r \in Responses, GenerateStep(r)
  PROVE  RoundInv'
<1> DEFINE sv     == server[r]
           id     == Current(r)
           tokens == req_output[sv][id]
<1>1. PICK last \in BOOLEAN :
        /\ pc[r] = "generating"
        /\ Len(tokens) < MaxTokens(r)
        /\ Len(tokens) + 1 = MaxTokens(r) => last
        /\ req_output' = [req_output EXCEPT ![sv][id] =
               Append(@, [pos |-> ContextLen(r) + Len(tokens) + 1,
                          version |-> weights, last |-> last])]
        /\ pc' = [pc EXCEPT ![r] = IF last THEN "generated" ELSE @]
        /\ UNCHANGED <<rolloutVars, output, paused, cancel_event, server, request>>
  BY DEF GenerateStep
<1> USE DEF rolloutVars
<1> DEFINE token == [pos |-> ContextLen(r) + Len(tokens) + 1, version |-> weights, last |-> last]
<1>2. Quiet'
  BY QuietGenerate DEF RoundInv
<1>3. VersionInv' /\ OutputInv'
  BY <1>1 DEF RoundInv, VersionInv, OutputInv, OutputOK
<1>4. /\ pc \in [Responses -> {"idle", "called", "generating", "generated", "returned", "raised"}]
      /\ MustGenerate(r)
  BY <1>1 DEF RoundInv, Quiet, ControlOK, TaskInv, AtWork
<1>5. TaskInv'
  BY <1>1, <1>4 DEF RoundInv, TaskInv, AtWork, MustGenerate
<1>6. /\ sv \in Servers /\ id \in DOMAIN cancel_event[sv]
      /\ RoundOK(r, tokens, FALSE)
  BY <1>1 DEF RoundInv, FlightInv, AtWork, Tokens
<1>7. /\ DOMAIN req_output = Servers
      /\ \A t \in Servers : req_output[t] = [q \in DOMAIN cancel_event[t] |-> req_output[t][q]]
      /\ cancel_event = [t \in Servers |-> cancel_event[t]]
  BY DEF RoundInv, TableInv
<1>8. /\ DOMAIN req_output' = Servers
      /\ \A t \in Servers : DOMAIN req_output'[t] = DOMAIN cancel_event[t]
      /\ req_output'[sv][id] = Append(tokens, token)
      /\ \A t \in Servers : \A q \in DOMAIN cancel_event[t] :
            (t # sv \/ q # id) => req_output'[t][q] = req_output[t][q]
      /\ \A t \in Servers : req_output'[t] = [q \in DOMAIN cancel_event[t] |-> req_output'[t][q]]
  BY <1>1, <1>6, <1>7
<1>9. token \in Token /\ tokens \in Seq(Token)
  <2>1. tokens \in Seq(Token) /\ Len(tokens) \in Nat
    BY <1>6 DEF RoundOK
  <2>2. weights \in 0 .. MaxVersion /\ ContextLen(r) \in Nat
    BY GeneratedFacts, PromptFits DEF RoundInv, VersionInv
  <2> HIDE DEF tokens
  <2>3. ContextLen(r) + Len(tokens) + 1 \in Nat
    BY <2>1, <2>2
  <2>4. QED
    BY <2>1, <2>2, <2>3 DEF Token
<1>10. /\ Append(tokens, token) \in Seq(Token)
       /\ Len(Append(tokens, token)) = Len(tokens) + 1 /\ Len(tokens) \in Nat
       /\ \A i \in 1 .. Len(tokens) : Append(tokens, token)[i] = tokens[i]
       /\ Append(tokens, token)[Len(tokens) + 1] = token
  BY <1>9
<1>11. /\ param_version[r[1]] \in Nat /\ weights \in Nat
       /\ param_version[r[1]] <= weights
       /\ ContextLen(r) \in Nat /\ MaxTokens(r) \in Int
  BY VersionOfRound, GeneratedFacts, PromptFits DEF RoundInv
<1>12. token.pos = ContextLen(r) + Len(tokens) + 1 /\ token.version = weights /\ token.last = last
  OBVIOUS
<1> HIDE DEF sv, id, tokens, token
<1>13. RoundOK(r, Append(tokens, token), last)
  <2>1. ASSUME NEW i \in 1 .. Len(tokens) + 1
        PROVE  LET u == Append(tokens, token)[i]
               IN  /\ u.pos = ContextLen(r) + i
                   /\ param_version[r[1]] <= u.version
                   /\ u.version <= weights
                   /\ u.last => i = Len(tokens) + 1 /\ last
    <3>1. CASE i = Len(tokens) + 1
      BY <1>10, <1>11, <1>12, <3>1
    <3>2. CASE i \in 1 .. Len(tokens)
      BY <1>6, <1>10, <3>2 DEF RoundOK
    <3>3. QED
      BY <1>10, <3>1, <3>2
  <2>2. /\ Len(tokens) + 1 <= MaxTokens(r)
        /\ ~last => Len(tokens) + 1 < MaxTokens(r)
        /\ Append(tokens, token) # <<>>
    BY <1>1, <1>10, <1>11
  <2>3. QED
    BY <1>10, <2>1, <2>2 DEF RoundOK
<1>14. FlightInv'
  <2>1. ASSUME NEW q \in Responses, pc'[q] \in AtWork, q # r
        PROVE  (/\ server[q] \in Servers
                /\ Current(q) \in DOMAIN cancel_event[server[q]]
                /\ RoundOK(q, Tokens(q), pc[q] = "generated"))'
    <3>1. pc[q] \in AtWork /\ pc'[q] = pc[q]
      BY <1>1, <1>4, <2>1
    <3>2. server[q] \in Servers /\ Current(q) \in DOMAIN cancel_event[server[q]]
      BY <3>1 DEF RoundInv, FlightInv
    <3>3. Current(q) # id
      BY <2>1 DEF Current, id
    <3>4. req_output'[server[q]][Current(q)] = Tokens(q)
      BY <1>8, <3>2, <3>3 DEF Tokens
    <3>5. QED
      BY <1>1, <3>1, <3>2, <3>4, WeightsAreNat, SameFlight DEF RoundInv
  <2>2. Current(r)' = id /\ server'[r] = sv /\ Tokens(r)' = Append(tokens, token)
    BY <1>1, <1>8 DEF Current, Tokens, id, sv
  <2>3. pc'[r] = IF last THEN "generated" ELSE "generating"
    BY <1>1, <1>4
  <2>4. PICK t : t = Append(tokens, token)
    OBVIOUS
  <2>5. RoundOK(r, t, last)'
    BY <1>1, <1>13, <2>4, SameRound
  <2>6. Tokens(r)' = t /\ (pc[r] = "generated")' = last
    BY <2>2, <2>3, <2>4
  <2>7. RoundOK(r, Tokens(r), pc[r] = "generated")'
    BY <2>5, <2>6 DEF RoundOK
  <2>8. QED
    BY <1>1, <1>6, <2>1, <2>2, <2>7 DEF FlightInv, RoundInv
<1>15. TableInv'
  <2>1. ASSUME NEW t \in Servers, NEW q \in DOMAIN cancel_event[t]
        PROVE  /\ q[1] \in Responses
               /\ \/ req_output'[t][q] = <<>>
                  \/ pc'[q[1]] = "raised"
                  \/ pc'[q[1]] \in AtWork /\ q = Current(q[1])' /\ t = server'[q[1]]
    <3>1. CASE t = sv /\ q = id
      <4>1. q[1] = r
        BY <3>1 DEF id, Current
      <4>2. QED
        BY <1>1, <1>4, <3>1, <4>1 DEF AtWork, id, sv, Current
    <3>2. CASE ~(t = sv /\ q = id)
      <4>1. req_output'[t][q] = req_output[t][q]
        BY <1>8, <3>2
      <4>2. pc[q[1]] = "raised" => pc'[q[1]] = "raised"
        BY <1>1, <1>4
      <4>3. pc[q[1]] \in AtWork => pc'[q[1]] \in AtWork
        BY <1>1, <1>4 DEF AtWork
      <4>4. QED
        BY <1>1, <4>1, <4>2, <4>3 DEF RoundInv, TableInv, Current
    <3>3. QED
      BY <3>1, <3>2
  <2>2. QED
    BY <1>1, <1>7, <1>8, <2>1 DEF TableInv
<1>16. QED
  BY <1>2, <1>3, <1>5, <1>14, <1>15 DEF RoundInv

LEMMA RaisedRound ==
  ASSUME RoundInv, NEW r \in Responses, GenerateRaises(r)
  PROVE  RoundInv'
<1> USE DEF GenerateRaises, rolloutVars, serverVars
<1>1. Quiet'
  BY QuietGenerate DEF RoundInv
<1>2. VersionInv' /\ OutputInv'
  BY DEF RoundInv, VersionInv, OutputInv, OutputOK
<1>3. /\ pc \in [Responses -> {"idle", "called", "generating", "generated", "returned", "raised"}]
      /\ status[r[1]] \in {"active", "lost"}
      /\ pc' = [pc EXCEPT ![r] = "raised"]
  BY DEF RoundInv, Quiet, ControlOK, BusyIsHeld, Busy, AtWork
<1>4. TaskInv'
  BY <1>3 DEF RoundInv, TaskInv, AtWork, MustGenerate
<1>5. FlightInv'
  <2>1. ASSUME NEW q \in Responses, pc'[q] \in AtWork
        PROVE  /\ pc[q] \in AtWork /\ pc'[q] = pc[q]
               /\ Current(q) \in DOMAIN cancel_event[server[q]]
    BY <1>3, <2>1 DEF RoundInv, FlightInv, AtWork
  <2>2. QED
    BY <2>1, WeightsAreNat, SameFlight DEF FlightInv, RoundInv, Tokens, Current
<1>6. TableInv'
  <2>1. ASSUME NEW t \in Servers, NEW q \in DOMAIN cancel_event[t],
               q = Current(q[1]), pc[q[1]] \in AtWork, pc'[q[1]] \notin AtWork
        PROVE  pc'[q[1]] = "raised"
    BY <1>3, <2>1 DEF AtWork
  <2>2. \A q : pc[q] = "raised" => pc'[q] = "raised"
    BY <1>3
  <2>3. QED
    BY <2>1, <2>2 DEF RoundInv, TableInv, Current
<1>7. QED
  BY <1>1, <1>2, <1>4, <1>5, <1>6 DEF RoundInv

\* The call returns: the round joins the output and its entry goes, unless the
\* round is empty.
LEMMA ReturnedRound ==
  ASSUME RoundInv, NEW r \in Responses, GenerateReturn(r)
  PROVE  RoundInv'
<1> DEFINE sv     == server[r]
           id     == Current(r)
           tokens == req_output[sv][id]
           o      == AgentOutput(r, tokens, IsCancel(r))
           gone   == IF tokens = <<>> THEN {} ELSE {id}
<1>1. /\ \/ pc[r] = "generated"
         \/ pc[r] = "generating" /\ cancel_event[sv][id]
      /\ output' = [output EXCEPT ![r] = o]
      /\ cancel_event' = [cancel_event EXCEPT ![sv] = Cleaned(r, @)]
      /\ req_output' = [req_output EXCEPT ![sv] = Cleaned(r, @)]
      /\ server' = [server EXCEPT ![r] = None]
      /\ pc' = [pc EXCEPT ![r] = "returned"]
      /\ request' = [request EXCEPT ![r] = 0]
      /\ UNCHANGED <<rolloutVars, paused>>
  BY DEF GenerateReturn
<1> USE DEF rolloutVars
<1>2. Quiet'
  BY QuietGenerate DEF RoundInv
<1>3. VersionInv'
  BY <1>1 DEF RoundInv, VersionInv
<1>4. /\ pc \in [Responses -> {"idle", "called", "generating", "generated", "returned", "raised"}]
      /\ MustGenerate(r) /\ status[r[1]] \in {"active", "lost"}
      /\ DOMAIN output = Responses
      /\ pc[r] \in AtWork
  BY <1>1 DEF RoundInv, Quiet, ControlOK, TaskInv, BusyIsHeld, Busy, AtWork, OutputInv
<1>5. TaskInv'
  BY <1>1, <1>4 DEF RoundInv, TaskInv, AtWork, MustGenerate
<1>6. /\ sv \in Servers /\ id \in DOMAIN cancel_event[sv]
      /\ RoundOK(r, tokens, pc[r] = "generated")
  BY <1>4 DEF RoundInv, FlightInv, Tokens
<1>7. OutputOK(r, o)
  <2>1. (pc[r] = "generated") = ~IsCancel(r) /\ IsCancel(r) \in BOOLEAN
    BY <1>1 DEF IsCancel
  <2>2. RoundOK(r, tokens, ~IsCancel(r))
    BY <1>6, <2>1
  <2> HIDE DEF tokens
  <2>3. QED
    BY <1>4, <2>1, <2>2, JoinRound DEF RoundInv
<1>8. /\ DOMAIN server = Responses /\ DOMAIN request = Responses
      /\ DOMAIN cancel_event = Servers /\ DOMAIN req_output = Servers
      /\ \A t \in Servers : DOMAIN req_output[t] = DOMAIN cancel_event[t]
  BY DEF RoundInv, FlightInv, TableInv
\* the tables
<1>9. /\ DOMAIN cancel_event' = Servers /\ DOMAIN req_output' = Servers
      /\ cancel_event' = [t \in Servers |-> cancel_event'[t]]
      /\ req_output' = [t \in Servers |-> req_output'[t]]
      /\ cancel_event'[sv] = [q \in DOMAIN cancel_event[sv] \ gone |-> cancel_event[sv][q]]
      /\ req_output'[sv] = [q \in DOMAIN cancel_event[sv] \ gone |-> req_output[sv][q]]
      /\ \A t \in Servers : t # sv => /\ cancel_event'[t] = cancel_event[t]
                                      /\ req_output'[t] = req_output[t]
  BY <1>1, <1>6, <1>8 DEF Cleaned
<1>10. \A q : q \in gone => q[1] = r
  BY DEF Current
<1>11. tokens # <<>> => id \in gone
  OBVIOUS
<1> HIDE DEF gone, o, tokens
<1>12. OutputInv'
  <2>1. output' \in [Responses -> Output \cup {None}]
    BY <1>1, <1>7 DEF RoundInv, OutputInv, OutputOK
  <2>2. ASSUME NEW q \in Responses, output'[q] # None
        PROVE  OutputOK(q, output'[q])
    BY <1>1, <1>4, <1>7, <2>2 DEF RoundInv, OutputInv
  <2>3. QED
    BY <1>1, <2>1, <2>2 DEF OutputInv, OutputOK
<1>13. FlightInv'
  <2>1. ASSUME NEW q \in Responses, pc'[q] \in AtWork
        PROVE  (/\ server[q] \in Servers
                /\ Current(q) \in DOMAIN cancel_event[server[q]]
                /\ RoundOK(q, Tokens(q), pc[q] = "generated"))'
    <3>1. pc[q] \in AtWork /\ pc'[q] = pc[q] /\ q # r
      BY <1>1, <1>4, <2>1 DEF AtWork
    <3>2. server[q] \in Servers /\ Current(q) \in DOMAIN cancel_event[server[q]]
      BY <3>1 DEF RoundInv, FlightInv
    <3>3. Current(q) \notin gone
      BY <1>10, <3>1 DEF Current
    <3>4. /\ req_output'[server[q]][Current(q)] = Tokens(q)
          /\ Current(q) \in DOMAIN cancel_event'[server[q]]
      BY <1>9, <3>2, <3>3 DEF Tokens
    <3>5. /\ output'[q] = output[q] /\ server'[q] = server[q]
          /\ request'[q] = request[q]
      BY <1>1, <1>4, <1>8, <3>1
    <3>6. QED
      BY <1>1, <3>1, <3>4, <3>5, WeightsAreNat, SameFlight DEF RoundInv
  <2>2. DOMAIN server' = Responses /\ DOMAIN request' = Responses
    BY <1>1, <1>8
  <2>3. QED
    BY <2>1, <2>2 DEF FlightInv
<1>14. TableInv'
  <2>1. ASSUME NEW t \in Servers, NEW q \in DOMAIN cancel_event'[t]
        PROVE  /\ q[1] \in Responses
               /\ \/ req_output'[t][q] = <<>>
                  \/ pc'[q[1]] = "raised"
                  \/ pc'[q[1]] \in AtWork /\ q = Current(q[1])' /\ t = server'[q[1]]
    <3>1. /\ q \in DOMAIN cancel_event[t] /\ req_output'[t][q] = req_output[t][q]
          /\ t = sv => q \notin gone
      BY <1>9, <2>1
    <3>2. CASE q[1] = r
      <4>1. req_output[t][q] = <<>> \/ (q = id /\ t = sv)
        <5>1. \/ req_output[t][q] = <<>>
              \/ pc[q[1]] = "raised"
              \/ pc[q[1]] \in AtWork /\ q = Current(q[1]) /\ t = server[q[1]]
          BY <3>1 DEF RoundInv, TableInv
        <5>2. pc[r] # "raised"
          BY <1>4 DEF AtWork
        <5>3. QED
          BY <3>2, <5>1, <5>2 DEF Current
      <4>2. q = id /\ t = sv => req_output[t][q] = <<>>
        BY <1>11, <3>1 DEF tokens
      <4>3. QED
        BY <3>1, <3>2, <4>1, <4>2
    <3>3. CASE q[1] # r
      <4>1. /\ pc'[q[1]] = pc[q[1]] /\ server'[q[1]] = server[q[1]]
            /\ Current(q[1])' = Current(q[1])
        BY <1>1, <1>4, <1>8, <3>3 DEF Current
      <4>2. QED
        BY <3>1, <4>1 DEF RoundInv, TableInv
    <3>4. QED
      BY <3>2, <3>3
  <2>2. ASSUME NEW t \in Servers
        PROVE  req_output'[t] = [q \in DOMAIN cancel_event'[t] |-> req_output'[t][q]]
    <3>1. CASE t = sv
      BY <1>9, <3>1
    <3>2. CASE t # sv
      BY <1>9, <3>2 DEF RoundInv, TableInv
    <3>3. QED
      BY <3>1, <3>2
  <2>3. QED
    BY <1>9, <2>1, <2>2 DEF TableInv
<1>15. QED
  BY <1>2, <1>3, <1>5, <1>12, <1>13, <1>14 DEF RoundInv

\* A task starts: no response of a queued sample is being generated, and what
\* it has was stamped with this version at the latest.
LEMMA StartedTask ==
  ASSUME RoundInv, NEW s \in Samples, TaskStart(s)
  PROVE  RoundInv'
<1>1. /\ phase \notin {"cancelling", "resuming"} /\ status[s] = "queued"
      /\ status' = [status EXCEPT ![s] = "active"]
      /\ param_version' = [param_version EXCEPT ![s] = version]
      /\ pc' = [r \in Responses |->
                   IF r[1] # s THEN pc[r]
                   ELSE IF MustGenerate(r) THEN "called" ELSE "returned"]
      /\ UNCHANGED <<phase, pending, version, weights, output, paused, cancel_event,
                     req_output, server, request>>
  BY DEF TaskStart, OfSample, LockHeld, serverVars
<1>2. Quiet'
  BY QuietTask DEF RoundInv
<1>3. /\ DOMAIN status = Samples /\ param_version \in [Samples -> 0 .. MaxVersion]
      /\ version \in 0 .. MaxVersion /\ MaxVersion \in Nat
      /\ \A t \in Samples : param_version[t] <= version
      /\ \A r \in Responses : r[1] \in Samples
  BY PromptFits, SizesAssumption DEF RoundInv, Quiet, ControlOK, VersionInv
<1>4. VersionInv'
  <2>1. ASSUME NEW t \in Samples
        PROVE  /\ param_version'[t] <= version
               /\ status'[t] = "active" =>
                     /\ version <= param_version'[t] + 1
                     /\ phase \in {"copying", "copied"} => param_version'[t] = version
    <3>1. CASE t = s
      BY <1>1, <1>3, <3>1
    <3>2. CASE t # s
      BY <1>1, <1>3, <3>2 DEF RoundInv, VersionInv
    <3>3. QED
      BY <3>1, <3>2
  <2>2. param_version' \in [Samples -> 0 .. MaxVersion]
    BY <1>1, <1>3
  <2>3. QED
    BY <1>1, <2>1, <2>2 DEF RoundInv, VersionInv
<1>5. ASSUME NEW r \in Responses, r[1] = s
      PROVE  pc[r] \notin {"called", "raised"} \cup AtWork /\ pc'[r] \notin {"raised"} \cup AtWork
  BY <1>1, <1>5 DEF RoundInv, TaskInv, Quiet, BusyIsHeld, Busy, AtWork
<1>6. ASSUME NEW r \in Responses, r[1] # s
      PROVE  /\ pc'[r] = pc[r] /\ status'[r[1]] = status[r[1]]
             /\ param_version'[r[1]] = param_version[r[1]]
  BY <1>1, <1>3, <1>6
<1>7. TaskInv'
  <2>1. ASSUME NEW r \in Responses
        PROVE  /\ pc'[r] = "raised" => status'[r[1]] \in {"active", "lost"}
               /\ pc'[r] \in {"called"} \cup AtWork => MustGenerate(r)
    <3>1. CASE r[1] = s
      BY <1>1, <1>5, <3>1
    <3>2. CASE r[1] # s
      BY <1>6, <3>2 DEF RoundInv, TaskInv
    <3>3. QED
      BY <3>1, <3>2
  <2>2. QED
    BY <1>1, <2>1 DEF TaskInv, MustGenerate
<1>8. OutputInv'
  <2>1. ASSUME NEW r \in Responses, output[r] # None
        PROVE  OutputOK(r, output[r])'
    <3>1. param_version[r[1]] \in Nat /\ param_version'[r[1]] \in Nat
          /\ param_version[r[1]] <= param_version'[r[1]]
      BY <1>1, <1>3
    <3>2. status'[r[1]] # "lost" => status[r[1]] # "lost"
      BY <1>1, <1>3
    <3>3. PICK o : o = output[r] /\ OutputOK(r, o)
      BY <2>1 DEF RoundInv, OutputInv
    <3>4. OutputOK(r, o)'
      BY <3>1, <3>2, <3>3, SameOutput
    <3>5. QED
      BY <1>1, <3>3, <3>4 DEF OutputOK
  <2>2. QED
    BY <1>1, <2>1 DEF RoundInv, OutputInv
<1>9. FlightInv'
  <2>1. ASSUME NEW q \in Responses, pc'[q] \in AtWork
        PROVE  (/\ server[q] \in Servers
                /\ Current(q) \in DOMAIN cancel_event[server[q]]
                /\ RoundOK(q, Tokens(q), pc[q] = "generated"))'
    <3>1. q[1] # s /\ pc[q] \in AtWork /\ pc'[q] = pc[q]
      BY <1>5, <1>6, <2>1
    <3>2. Current(q) \in DOMAIN cancel_event[server[q]]
      BY <3>1 DEF RoundInv, FlightInv
    <3>3. QED
      BY <1>1, <1>6, <3>1, <3>2, WeightsAreNat, SameFlight DEF RoundInv, Tokens
  <2>2. QED
    BY <1>1, <2>1 DEF RoundInv, FlightInv
<1>10. TableInv'
  <2>1. ASSUME NEW t \in Servers, NEW q \in DOMAIN cancel_event[t]
        PROVE  /\ q[1] \in Responses
               /\ \/ req_output[t][q] = <<>>
                  \/ pc'[q[1]] = "raised"
                  \/ pc'[q[1]] \in AtWork /\ q = Current(q[1]) /\ t = server[q[1]]
    <3>1. /\ q[1] \in Responses
          /\ \/ req_output[t][q] = <<>>
             \/ pc[q[1]] = "raised"
             \/ pc[q[1]] \in AtWork /\ q = Current(q[1]) /\ t = server[q[1]]
      BY DEF RoundInv, TableInv
    <3>2. QED
      BY <1>5, <1>6, <3>1
  <2>2. QED
    BY <1>1, <2>1 DEF RoundInv, TableInv, Current
<1>11. QED
  BY <1>2, <1>4, <1>7, <1>8, <1>9, <1>10 DEF RoundInv

\* A task ends: its responses are idle.
LEMMA EndedTask ==
  ASSUME RoundInv, NEW s \in Samples, TaskEnd(s)
  PROVE  RoundInv'
<1>1. /\ status[s] = "active"
      /\ \A r \in OfSample(s) : pc[r] = "returned"
      /\ status' = [status EXCEPT ![s] =
             IF \E r \in OfSample(s) : output[r].is_cancel THEN "queued" ELSE "done"]
      /\ pc' = [r \in Responses |-> IF r \in OfSample(s) THEN "idle" ELSE pc[r]]
      /\ UNCHANGED <<phase, pending, version, weights, param_version, output,
                     paused, cancel_event, req_output, server, request>>
  BY DEF TaskEnd, serverVars
<1>2. Quiet'
  BY QuietTask DEF RoundInv
<1>3. DOMAIN status = Samples /\ \A r \in Responses : r[1] \in Samples /\ (r \in OfSample(r[1]))
  BY PromptFits DEF RoundInv, Quiet, ControlOK, OfSample
<1>4. /\ \A t \in Samples : /\ status'[t] = "active" => status[t] = "active"
                            /\ status'[t] # "lost" => status[t] # "lost"
      /\ \A r \in Responses : r[1] # s => status'[r[1]] = status[r[1]] /\ pc'[r] = pc[r]
  BY <1>1, <1>3 DEF OfSample
<1>5. \A r \in Responses : r[1] = s => pc'[r] = "idle" /\ pc[r] = "returned"
  BY <1>1, <1>3 DEF OfSample
<1>6. VersionInv'
  BY <1>1, <1>4 DEF RoundInv, VersionInv
<1>7. TaskInv'
  BY <1>1, <1>4, <1>5 DEF RoundInv, TaskInv, MustGenerate, AtWork
<1>8. OutputInv'
  BY <1>1, <1>3, <1>4 DEF RoundInv, OutputInv, OutputOK
<1>9. FlightInv'
  <2>1. ASSUME NEW q \in Responses, pc'[q] \in AtWork
        PROVE  (/\ server[q] \in Servers
                /\ Current(q) \in DOMAIN cancel_event[server[q]]
                /\ RoundOK(q, Tokens(q), pc[q] = "generated"))'
    <3>1. pc[q] \in AtWork /\ pc'[q] = pc[q]
      BY <1>4, <1>5, <2>1 DEF AtWork
    <3>2. Current(q) \in DOMAIN cancel_event[server[q]]
      BY <3>1 DEF RoundInv, FlightInv
    <3>3. QED
      BY <1>1, <3>1, <3>2, WeightsAreNat, SameFlight DEF RoundInv, Tokens
  <2>2. QED
    BY <1>1, <2>1 DEF RoundInv, FlightInv
<1>10. TableInv'
  <2>1. ASSUME NEW t \in Servers, NEW q \in DOMAIN cancel_event[t]
        PROVE  /\ q[1] \in Responses
               /\ \/ req_output[t][q] = <<>>
                  \/ pc'[q[1]] = "raised"
                  \/ pc'[q[1]] \in AtWork /\ q = Current(q[1]) /\ t = server[q[1]]
    <3>1. /\ q[1] \in Responses
          /\ \/ req_output[t][q] = <<>>
             \/ pc[q[1]] = "raised"
             \/ pc[q[1]] \in AtWork /\ q = Current(q[1]) /\ t = server[q[1]]
      BY DEF RoundInv, TableInv
    <3>2. QED
      BY <1>4, <1>5, <3>1 DEF AtWork
  <2>2. QED
    BY <1>1, <2>1 DEF RoundInv, TableInv, Current
<1>11. QED
  BY <1>2, <1>6, <1>7, <1>8, <1>9, <1>10 DEF RoundInv

\* A task raises: the sample is never started again, and its responses go on.
LEMMA RaisedTask ==
  ASSUME RoundInv, NEW s \in Samples, TaskRaises(s)
  PROVE  RoundInv'
<1>1. /\ status' = [status EXCEPT ![s] = "lost"] /\ status[s] = "active"
      /\ UNCHANGED <<phase, pending, version, weights, param_version, pc, output,
                     paused, cancel_event, req_output, server, request>>
  BY DEF TaskRaises, agentVars, serverVars
<1>2. Quiet'
  BY QuietTask DEF RoundInv
<1>3. DOMAIN status = Samples /\ \A r \in Responses : r[1] \in Samples
  BY PromptFits DEF RoundInv, Quiet, ControlOK
<1>4. \A t \in Samples : /\ status'[t] = "active" => status[t] = "active"
                         /\ status'[t] # "lost" => status'[t] = status[t]
                         /\ status[t] \in {"active", "lost"} => status'[t] \in {"active", "lost"}
  BY <1>1, <1>3
<1>5. VersionInv' /\ TaskInv'
  BY <1>1, <1>3, <1>4 DEF RoundInv, VersionInv, TaskInv, MustGenerate
<1>6. OutputInv'
  BY <1>1, <1>3, <1>4 DEF RoundInv, OutputInv, OutputOK
<1>7. FlightInv'
  <2>1. ASSUME NEW q \in Responses, pc[q] \in AtWork
        PROVE  (/\ server[q] \in Servers
                /\ Current(q) \in DOMAIN cancel_event[server[q]]
                /\ RoundOK(q, Tokens(q), pc[q] = "generated"))'
    <3>1. Current(q) \in DOMAIN cancel_event[server[q]]
      BY <2>1 DEF RoundInv, FlightInv
    <3>2. status'[q[1]] # "lost" => status[q[1]] # "lost"
      BY <1>3, <1>4
    <3>3. QED
      BY <1>1, <2>1, <3>1, <3>2, WeightsAreNat, SameFlight DEF RoundInv, Tokens
  <2>2. QED
    BY <1>1, <2>1 DEF RoundInv, FlightInv
<1>8. TableInv'
  BY <1>1 DEF RoundInv, TableInv, Current
<1>9. QED
  BY <1>2, <1>5, <1>6, <1>7, <1>8 DEF RoundInv

\* A step that leaves the responses alone leaves their rounds alone.
LEMMA RoundsUntouched ==
  ASSUME RoundInv, Quiet', VersionInv', UNCHANGED <<status, param_version, agentVars,
                                            req_output, server, request>>,
         \A t \in Servers : DOMAIN cancel_event'[t] = DOMAIN cancel_event[t],
         cancel_event' = [t \in Servers |-> cancel_event'[t]],
         weights <= weights'
  PROVE  RoundInv'
<1> USE DEF agentVars
<1>1. TaskInv' /\ OutputInv'
  BY DEF RoundInv, TaskInv, MustGenerate, OutputInv, OutputOK
<1>2. FlightInv'
  <2>1. ASSUME NEW q \in Responses, pc[q] \in AtWork
        PROVE  (/\ server[q] \in Servers
                /\ Current(q) \in DOMAIN cancel_event[server[q]]
                /\ RoundOK(q, Tokens(q), pc[q] = "generated"))'
    <3>1. server[q] \in Servers /\ Current(q) \in DOMAIN cancel_event[server[q]]
      BY <2>1 DEF RoundInv, FlightInv
    <3>2. Current(q) \in DOMAIN cancel_event'[server[q]]
      BY <2>1, <3>1
    <3>3. weights \in Nat /\ weights' \in Nat
      BY WeightsAreNat, SizesAssumption DEF RoundInv, VersionInv
    <3>4. QED
      BY <2>1, <3>2, <3>3, SameFlight DEF RoundInv, Tokens
  <2>2. QED
    BY <2>1 DEF RoundInv, FlightInv
<1>3. TableInv'
  <2>1. ASSUME NEW t \in Servers
        PROVE  /\ req_output[t] = [q \in DOMAIN cancel_event'[t] |-> req_output[t][q]]
               /\ \A q \in DOMAIN cancel_event'[t] :
                     /\ q[1] \in Responses
                     /\ \/ req_output[t][q] = <<>>
                        \/ pc[q[1]] = "raised"
                        \/ pc[q[1]] \in AtWork /\ q = Current(q[1]) /\ t = server[q[1]]
    BY DEF RoundInv, TableInv
  <2>2. QED
    BY <2>1 DEF RoundInv, TableInv, Current
<1>4. QED
  BY <1>1, <1>2, <1>3 DEF RoundInv

LEMMA SynchronizedRounds ==
  ASSUME RoundInv, Synchronize
  PROVE  RoundInv'
<1>1. Quiet'
  BY QuietSynchronize DEF RoundInv
<1>2. UNCHANGED <<status, param_version, agentVars, req_output, server, request>>
  BY DEF Synchronize, PauseBegin, PauseEnd, SyncWeights, UpdateParamVersion, ResumeEnd,
         Cancel, Resume, serverVars
<1>3. /\ \A t \in Servers : DOMAIN cancel_event'[t] = DOMAIN cancel_event[t]
      /\ cancel_event' = [t \in Servers |-> cancel_event'[t]]
  <2>1. cancel_event = [t \in Servers |-> cancel_event[t]]
    BY DEF RoundInv, TableInv
  <2>2. CASE cancel_event' = cancel_event
    BY <2>1, <2>2
  <2>3. ASSUME NEW sv \in Servers, Cancel(sv)
        PROVE  /\ \A t \in Servers : DOMAIN cancel_event'[t] = DOMAIN cancel_event[t]
               /\ cancel_event' = [t \in Servers |-> cancel_event'[t]]
    BY <2>1, <2>3 DEF Cancel
  <2>4. QED
    BY <2>2, <2>3 DEF Synchronize, PauseBegin, PauseEnd, SyncWeights, UpdateParamVersion,
       ResumeEnd, Resume, serverVars
<1>4. MaxVersion \in Nat /\ \A s \in Samples : status[s] \in {"queued", "active", "done", "lost"}
  BY SizesAssumption DEF RoundInv, Quiet, ControlOK
<1>5. VersionInv' /\ weights <= weights'
  <2> USE <1>2, <1>4 DEF Advance
  <2>1. CASE PauseBegin
    BY <2>1 DEF PauseBegin, RoundInv, VersionInv
  <2>2. CASE PauseEnd
    BY <2>2 DEF PauseEnd, Drained, RoundInv, VersionInv
  <2>3. CASE SyncWeights
    BY <2>3 DEF SyncWeights, RoundInv, VersionInv
  <2>4. CASE UpdateParamVersion
    BY <2>4 DEF UpdateParamVersion, RoundInv, VersionInv
  <2>5. CASE ResumeEnd
    BY <2>5 DEF ResumeEnd, RoundInv, VersionInv
  <2>6. ASSUME NEW sv \in Servers, Cancel(sv) \/ Resume(sv)
        PROVE  VersionInv' /\ weights <= weights'
    BY <2>6 DEF Cancel, Resume, RoundInv, VersionInv
  <2>7. QED
    BY <2>1, <2>2, <2>3, <2>4, <2>5, <2>6 DEF Synchronize
<1>6. QED
  BY <1>1, <1>2, <1>3, <1>5, RoundsUntouched

-----------------------------------------------------------------------------
(* The invariant *)

LEMMA RoundNext == RoundInv /\ [Next]_vars => RoundInv'
<1> SUFFICES ASSUME RoundInv, [Next]_vars PROVE RoundInv'
  OBVIOUS
<1>1. CASE UNCHANGED vars
  <2>1. Quiet' /\ VersionInv'
    BY <1>1 DEF RoundInv, vars, rolloutVars, agentVars, serverVars, Quiet, ControlOK,
       BusyIsHeld, AnsweredIsPaused, Answered, OnlyLostRun, VersionInv
  <2>2. cancel_event = [t \in Servers |-> cancel_event[t]]
    BY DEF RoundInv, TableInv
  <2>3. QED
    BY <1>1, <2>1, <2>2, WeightsAreNat, RoundsUntouched DEF RoundInv, vars, rolloutVars, agentVars, serverVars
<1>2. CASE Next
  BY <1>2, RefusedRound, RegisteredRound, StepOfRound, RaisedRound, ReturnedRound,
     StartedTask, EndedTask, RaisedTask, SynchronizedRounds DEF Next, Call
<1>3. QED
  BY <1>1, <1>2

LEMMA RoundAlways == Spec => []RoundInv
  BY RoundInit, RoundNext, PTL DEF Spec

\* While the weights are copied a server generates, if anything, what it has
\* been told to cancel, for a sample that has failed.
THEOREM QuietServers == Spec => []QuietDuringCopy
  BY RoundAlways, RoundInvQuiet, PTL

\* However often a response is interrupted, its tokens follow the prompt
\* without a gap or a repetition and each has its own log-probability.
THEOREM ContiguousTokens == Spec => []TokensAreContiguous
  BY RoundAlways, RoundInvContiguous, PTL

\* The version range of a response covers its tokens up to one version, unless
\* its sample has failed.
THEOREM BracketedVersions == Spec => []VersionsBracketTokens
  BY RoundAlways, RoundInvBracket, PTL

\* A generation that has ended is never resumed, and none is started without
\* room for a token.
THEOREM LastTokenIsLast == Spec => []NothingAfterTheLastToken
  BY RoundAlways, RoundInvLast, PTL

\* Only a call that raised or returned nothing leaves its entry in a table.
THEOREM EmptyRequestsLeak == Spec => []OnlyEmptyRequestsLeak
  BY RoundAlways, RoundInvLeak, PTL
=============================================================================
