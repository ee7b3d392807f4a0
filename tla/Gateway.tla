------------------------------ MODULE Gateway ------------------------------
(***************************************************************************)
(* The gateway seam (gateway_mutate_wire.c): requests of several sessions, *)
(* served by concurrent threads that share the circuit breaker and the     *)
(* saved reducer states.  A request is snapshotted, reduced by the module  *)
(* and sent; what the upstream answers may restore it, resend it or trip   *)
(* the breaker of its session.                                             *)
(*                                                                         *)
(* A body is what it is to this seam: the client's, the reducer's, or the  *)
(* client's restored and repaired.  The reducer's work is in ReduceSession *)
(* and its verdict is chosen freely here.  The Go port gateway_wire.go has *)
(* the same early returns, restore and breaker contract, without the saved *)
(* reducer state.                                                          *)
(***************************************************************************)
EXTENDS Integers, Sequences, FiniteSets, Functions

CONSTANTS Requests,
          NoKey,         \* an identity-less request
          KeyOf,         \* KeyOf[r]: the session key of r's identity, or NoKey
          Conversation,  \* Conversation[r]: the conversation r is a turn of
          Opening,       \* Opening[c]: the first message of conversation c
          Streaming,     \* requests the client asked to stream
          Statuses,      \* HTTP statuses the upstream answers with
          MaxSends       \* bound: sends of a request that are remembered

ASSUME GatewayAssumption ==
    /\ DOMAIN KeyOf = Requests /\ DOMAIN Conversation = Requests
    /\ Range(Conversation) \subseteq DOMAIN Opening
    /\ Streaming \subseteq Requests
    /\ Statuses \subseteq 100 .. 599
    /\ MaxSends \in Nat /\ MaxSends >= 2

VARIABLES pc,        \* where each request is
          body,      \* container[key]
          pristine,  \* ctx->pristine is held
          mutated,   \* ctx->mutated
          loaded,    \* the reducer state the request was given, or NoState
          disabled,  \* keys whose breaker is tripped
          store,     \* saved reducer states, by state key
          sent,      \* history: the bodies of r that were dispatched
          disables,  \* history: how often r tripped a breaker
          late       \* history: requests that began while their breaker was tripped

ctx == <<pristine, mutated, loaded>>
history == <<sent, disables, late>>
vars == <<pc, body, ctx, disabled, store, history>>

Keys == Range(KeyOf) \ {NoKey}
NoState == [turn |-> -1, conversation |-> "none"]
Frames == {"delta", "invalid_request", "transient", "decoder_error"}

(* The key of the saved state: identity and fingerprint of the opening.    *)
StateKeyByIdentity(r) == <<KeyOf[r]>>
StateKey(r) == <<KeyOf[r], Opening[Conversation[r]]>>

(* Type correctness; a turn is at most the number of requests before it.   *)
TypeOK ==
    /\ pc \in [Requests -> {"start", "load", "reduce", "send", "await", "stream", "done"}]
    /\ body \in [Requests -> {"pristine", "reduced", "restored"}]
    /\ pristine \in [Requests -> BOOLEAN]
    /\ mutated \in [Requests -> BOOLEAN]
    /\ \A r \in Requests : loaded[r].turn \in -1 .. Cardinality(Requests) - 1
    /\ disabled \subseteq Keys
    /\ DOMAIN store \subseteq {StateKey(r) : r \in Requests}
    /\ disables \in [Requests -> 0 .. 2]

Init ==
    /\ pc = [r \in Requests |-> "start"]
    /\ body = [r \in Requests |-> "pristine"]
    /\ pristine = [r \in Requests |-> FALSE]
    /\ mutated = [r \in Requests |-> FALSE]
    /\ loaded = [r \in Requests |-> NoState]
    /\ disabled = {}
    /\ store = <<>>
    /\ sent = [r \in Requests |-> <<>>]
    /\ disables = [r \in Requests |-> 0]
    /\ late = {}

Goto(r, label) == pc' = [pc EXCEPT ![r] = label]

-----------------------------------------------------------------------------
(* gw_buffered_mutate.                                                     *)

BreakerIgnored(r) == FALSE
Tripped(r) == KeyOf[r] \in disabled

Began(r) == late' = IF KeyOf[r] \in disabled THEN late \cup {r} ELSE late

(* Mutation is off, there is no identity, the session is disabled, the     *)
(* messages are no array, or the snapshot fails: a pristine passthrough.   *)
PassThrough(r) ==
    /\ pc[r] = "start"
    /\ Began(r)
    /\ Goto(r, "send")
    /\ UNCHANGED <<body, ctx, disabled, store, sent, disables>>

Snapshot(r) ==
    /\ pc[r] = "start"
    /\ KeyOf[r] # NoKey
    /\ ~Tripped(r)
    /\ Began(r)
    /\ pristine' = [pristine EXCEPT ![r] = TRUE]
    /\ Goto(r, "load")
    /\ UNCHANGED <<body, mutated, loaded, disabled, store, sent, disables>>

LoadState(r) ==
    /\ pc[r] = "load"
    /\ loaded' = [loaded EXCEPT ![r] = IF StateKey(r) \in DOMAIN store
                                       THEN store[StateKey(r)] ELSE NoState]
    /\ Goto(r, "reduce")
    /\ UNCHANGED <<body, pristine, mutated, disabled, store, history>>

(* The module is not reached: no state to save, no consent to apply.       *)
Unreached(r) ==
    /\ pc[r] = "reduce"
    /\ Goto(r, "send")
    /\ UNCHANGED <<body, ctx, disabled, store, history>>

NextTurn(state) == state.turn + 1

(* The state is saved before the verdict and whatever it is; the save may  *)
(* fail.                                                                   *)
Save(r) ==
    \/ UNCHANGED store
    \/ store' = [k \in DOMAIN store \cup {StateKey(r)} |->
                   IF k = StateKey(r)
                   THEN [turn |-> NextTurn(loaded[r]), conversation |-> Conversation[r]]
                   ELSE store[k]]

Bypassed(r) ==
    /\ pc[r] = "reduce"
    /\ Save(r)
    /\ Goto(r, "send")
    /\ UNCHANGED <<body, ctx, disabled, history>>

Applied(r) ==
    /\ pc[r] = "reduce"
    /\ Save(r)
    /\ body' = [body EXCEPT ![r] = "reduced"]
    /\ mutated' = [mutated EXCEPT ![r] = TRUE]
    /\ Goto(r, "send")
    /\ UNCHANGED <<pristine, loaded, disabled, history>>

(* The caller builds the provider body from the container and sends it.    *)
Send(r) ==
    /\ pc[r] = "send"
    /\ sent' = [sent EXCEPT ![r] = IF Len(@) < MaxSends THEN Append(@, body[r]) ELSE @]
    /\ Goto(r, IF r \in Streaming THEN "stream" ELSE "await")
    /\ UNCHANGED <<body, ctx, disabled, store, disables, late>>

-----------------------------------------------------------------------------
(* gw_buffered_after_status.                                               *)

Class(status) == status \div 100

(* msg_session_disable on the session of r.                                *)
Disable(r) ==
    /\ disabled' = disabled \cup {KeyOf[r]}
    /\ disables' = [disables EXCEPT ![r] = IF @ < 2 THEN @ + 1 ELSE @]

Handled(r) == mutated[r]

Forward(r, status) ==
    /\ pc[r] = "await"
    /\ ~Handled(r) \/ Class(status) \notin {4, 5}
    /\ Goto(r, "done")
    /\ UNCHANGED <<body, ctx, disabled, store, sent, disables, late>>

(* The container gets the pristine array back, repaired, if there is one.  *)
RestoredForgotten(r) == body[r]
Restored(r) == IF pristine[r] THEN "restored" ELSE body[r]

(* A flag that stays set keeps handling the answers to the resend.         *)
ClearedLate(r) == mutated
Cleared(r) == [mutated EXCEPT ![r] = FALSE]

RestoreResend(r, status) ==
    /\ pc[r] = "await"
    /\ Handled(r)
    /\ Class(status) = 4
    /\ body' = [body EXCEPT ![r] = Restored(r)]
    /\ pristine' = [pristine EXCEPT ![r] = FALSE]
    /\ mutated' = Cleared(r)
    /\ Disable(r)
    /\ Goto(r, "send")
    /\ UNCHANGED <<loaded, store, sent, late>>

ServerError(r, status) ==
    /\ pc[r] = "await"
    /\ Handled(r)
    /\ Class(status) = 5
    /\ mutated' = Cleared(r)
    /\ Disable(r)
    /\ Goto(r, "done")
    /\ UNCHANGED <<body, pristine, loaded, store, sent, late>>

-----------------------------------------------------------------------------
(* Streaming: the client has its 200 already, so nothing is sent again.    *)

(* gw_stream_disable.                                                      *)
StreamDisable(r) ==
    IF mutated[r] /\ KeyOf[r] # NoKey
    THEN Disable(r) /\ mutated' = Cleared(r)
    ELSE UNCHANGED <<disabled, disables, mutated>>

InvalidRequest(status) == status \in {400, 413, 422}

(* The upstream refuses the stream.                                        *)
StreamStatus(r, status) ==
    /\ pc[r] = "stream"
    /\ Class(status) \in {4, 5}
    /\ IF InvalidRequest(status) THEN StreamDisable(r)
       ELSE UNCHANGED <<disabled, disables, mutated>>
    /\ Goto(r, "done")
    /\ UNCHANGED <<body, pristine, loaded, store, sent, late>>

(* A frame arrives; only the invalid-request class and a decoder error     *)
(* speak against the reduction.                                            *)
StreamFrame(r, frame) ==
    /\ pc[r] = "stream"
    /\ IF frame \in {"invalid_request", "decoder_error"} THEN StreamDisable(r)
       ELSE UNCHANGED <<disabled, disables, mutated>>
    /\ UNCHANGED <<pc, body, pristine, loaded, store, sent, late>>

StreamEnd(r) ==
    /\ pc[r] = "stream"
    /\ Goto(r, "done")
    /\ UNCHANGED <<body, ctx, disabled, store, history>>

(* The disable window of a session runs out.                               *)
Expire(k) ==
    /\ k \in disabled
    /\ disabled' = disabled \ {k}
    /\ late' = {r \in late : KeyOf[r] # k}
    /\ UNCHANGED <<pc, body, ctx, store, sent, disables>>

-----------------------------------------------------------------------------
Mutate(r) ==
    \/ PassThrough(r)
    \/ Snapshot(r)
    \/ LoadState(r)
    \/ Unreached(r)
    \/ Bypassed(r)
    \/ Applied(r)
    \/ Send(r)

Answer(r) ==
    \/ \E status \in Statuses : Forward(r, status)
    \/ \E status \in Statuses : RestoreResend(r, status)
    \/ \E status \in Statuses : ServerError(r, status)
    \/ \E status \in Statuses : StreamStatus(r, status)
    \/ StreamEnd(r)

Next ==
    \/ \E r \in Requests : Mutate(r) \/ Answer(r)
    \/ \E r \in Requests, frame \in Frames : StreamFrame(r, frame)
    \/ \E k \in Keys : Expire(k)

(* A thread goes on, the upstream answers or its connection ends.          *)
Fairness == \A r \in Requests : WF_vars(Mutate(r)) /\ WF_vars(Answer(r))

Spec == Init /\ [][Next]_vars /\ Fairness

-----------------------------------------------------------------------------
(* A request is sent at most twice, and the second time only because its   *)
(* reduced form was refused, in its restored form.                         *)
ResendIsPristine ==
    \A r \in Requests :
        Len(sent[r]) > 1 => sent[r] = <<"reduced", "restored">>

Trips(r) == disables'[r] # disables[r]

(* A breaker is tripped only for a session one of whose requests was sent  *)
(* reduced and had begun while the breaker was closed: errors of pristine  *)
(* requests never disable a session nor prolong the window, and a turn     *)
(* does it once, whatever later frames of its stream or the answer to its  *)
(* resend say.                                                             *)
BreakerTripsFairly ==
    [][/\ \A r \in Requests :
            Trips(r) => "reduced" \in Range(sent[r]) /\ r \notin late /\ disables'[r] <= 1
       /\ disabled' \ disabled \subseteq {KeyOf[r] : r \in {q \in Requests : Trips(q)}}]_vars

(* The reducer is never given the state of another conversation, also when *)
(* one identity has several at once.                                       *)
StateStaysInConversation ==
    \A r \in Requests : loaded[r] # NoState => loaded[r].conversation = Conversation[r]

(* Every request comes to its end, whatever the upstream answers.          *)
RequestCompletes == <>(\A r \in Requests : pc[r] = "done")
=============================================================================
