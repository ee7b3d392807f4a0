--------------------------- MODULE GatewayProofs ----------------------------
(***************************************************************************)
(* Proofs about Gateway, for any requests, sessions, conversations,        *)
(* statuses and schedules of their threads.                                *)
(*                                                                         *)
(* RequestInv follows one request through the seam.  Its heart is what     *)
(* ctx->mutated stands for: the body is the reducer's, the snapshot is     *)
(* still held, the session has a key, its breaker was closed when the      *)
(* request began, and the request has neither tripped it nor been resent.  *)
(* Clearing the flag in the step that trips the breaker is what makes a    *)
(* trip, and a resend, happen once.                                        *)
(***************************************************************************)
EXTENDS Gateway, SequenceTheorems, TLAPS

Labels == {"start", "load", "reduce", "send", "await", "stream", "done"}
Bodies == {"pristine", "reduced", "restored"}

Types ==
    /\ pc \in [Requests -> Labels]
    /\ body \in [Requests -> Bodies]
    /\ pristine \in [Requests -> BOOLEAN]
    /\ mutated \in [Requests -> BOOLEAN]
    /\ sent \in [Requests -> Seq(Bodies)]
    /\ disables \in [Requests -> 0 .. 2]
    /\ late \subseteq Requests
    /\ disabled \subseteq Keys

Fresh(r) == body[r] = "pristine" /\ ~mutated[r] /\ sent[r] = <<>> /\ disables[r] = 0

Begun(r) ==
    /\ pc[r] = "start" => Fresh(r) /\ r \notin late
    /\ pc[r] \in {"load", "reduce"} =>
         Fresh(r) /\ r \notin late /\ pristine[r] /\ KeyOf[r] # NoKey

MutatedMeans(r) ==
    mutated[r] =>
        /\ body[r] = "reduced" /\ pristine[r]
        /\ KeyOf[r] # NoKey /\ r \notin late /\ disables[r] = 0
        /\ sent[r] = IF pc[r] = "send" THEN <<>> ELSE <<"reduced">>

Sent(r) ==
    /\ pc[r] = "send" => \/ sent[r] = <<>>
                         \/ sent[r] = <<"reduced">> /\ body[r] = "restored"
    /\ pc[r] \in {"await", "stream", "done"} =>
         Len(sent[r]) = 1 \/ sent[r] = <<"reduced", "restored">>

RequestInv(r) == Begun(r) /\ MutatedMeans(r) /\ Sent(r)

GInv == Types /\ \A r \in Requests : RequestInv(r)

(* What is saved under a key is the state of a conversation with that key, *)
(* and what a request was given is what was saved under its key.           *)
StoreInv ==
    /\ \A k \in DOMAIN store : \E q \in Requests :
         k = StateKey(q) /\ store[k].conversation = Conversation[q]
    /\ loaded = [r \in Requests |-> loaded[r]]
    /\ StateStaysInConversation

-----------------------------------------------------------------------------
LEMMA AppendSecond ==
  ASSUME NEW S, NEW a \in S, NEW b \in S
  PROVE  Append(<<a>>, b) = <<a, b>>
<1>1. Append(<<a>>, b) \in Seq(S) /\ <<a, b>> \in Seq(S)
  OBVIOUS
<1>2. Len(Append(<<a>>, b)) = 2 /\ Len(<<a, b>>) = 2
  OBVIOUS
<1>3. \A i \in 1 .. 2 : Append(<<a>>, b)[i] = <<a, b>>[i]
  OBVIOUS
<1> QED BY <1>1, <1>2, <1>3, SeqEqual

LEMMA InitGInv == Init => GInv
<1> SUFFICES ASSUME Init PROVE GInv
  OBVIOUS
<1>1. Types
  BY DEF Init, Types, Labels, Bodies
<1>2. \A r \in Requests : RequestInv(r)
  BY DEF Init, RequestInv, Begun, MutatedMeans, Sent, Fresh
<1> QED BY <1>1, <1>2 DEF GInv

(* A step that leaves the entries of a request alone, and does not make it *)
(* a late one, preserves what is known of it.                              *)
LEMMA Untouched ==
  ASSUME NEW q \in Requests, RequestInv(q),
         pc'[q] = pc[q], body'[q] = body[q], pristine'[q] = pristine[q],
         mutated'[q] = mutated[q], sent'[q] = sent[q], disables'[q] = disables[q],
         q \in late' => q \in late
  PROVE  RequestInv(q)'
BY DEF RequestInv, Begun, MutatedMeans, Sent, Fresh

(* The steps of one request: what it may change is its own entries.        *)
LEMMA OwnStep ==
  ASSUME Types, NEW r \in Requests,
         \A q \in Requests : RequestInv(q),
         Types', RequestInv(r)',
         \A q \in Requests : q # r =>
            /\ pc'[q] = pc[q] /\ body'[q] = body[q] /\ pristine'[q] = pristine[q]
            /\ mutated'[q] = mutated[q] /\ sent'[q] = sent[q] /\ disables'[q] = disables[q]
            /\ q \in late' => q \in late
  PROVE  GInv'
<1>1. ASSUME NEW q \in Requests PROVE RequestInv(q)'
  <2>1. CASE q = r
    BY <2>1
  <2>2. CASE q # r
    BY <2>2, Untouched
  <2> QED BY <2>1, <2>2
<1> QED BY <1>1 DEF GInv

(* gw_buffered_mutate and the send that follows it.                        *)
LEMMA MutateStep ==
  ASSUME GInv, NEW r \in Requests, Mutate(r)
  PROVE  GInv'
<1> USE DEF ctx, history, Goto
<1>0. Types /\ RequestInv(r) /\ \A q \in Requests : RequestInv(q)
  BY DEF GInv
<1>1. CASE PassThrough(r)
  <2>1. Types'
    BY <1>0, <1>1 DEF PassThrough, Types, Began, Labels
  <2>2. RequestInv(r)'
    BY <1>0, <1>1 DEF PassThrough, Types, RequestInv, Begun, MutatedMeans, Sent, Fresh
  <2> QED BY <1>0, <1>1, <2>1, <2>2, OwnStep DEF PassThrough, Types, Began
<1>2. CASE Snapshot(r)
  <2>1. Types'
    BY <1>0, <1>2 DEF Snapshot, Types, Began, Labels
  <2>2. RequestInv(r)'
    BY <1>0, <1>2 DEF Snapshot, Types, RequestInv, Begun, MutatedMeans, Sent, Fresh, Began, Tripped
  <2> QED BY <1>0, <1>2, <2>1, <2>2, OwnStep DEF Snapshot, Types, Began
<1>3. CASE LoadState(r)
  <2>1. Types'
    BY <1>0, <1>3 DEF LoadState, Types, Labels
  <2>2. RequestInv(r)'
    BY <1>0, <1>3 DEF LoadState, Types, RequestInv, Begun, MutatedMeans, Sent, Fresh
  <2> QED BY <1>0, <1>3, <2>1, <2>2, OwnStep DEF LoadState, Types
<1>4. CASE Unreached(r) \/ Bypassed(r)
  <2>1. Types'
    BY <1>0, <1>4 DEF Unreached, Bypassed, Types, Labels
  <2>2. RequestInv(r)'
    BY <1>0, <1>4 DEF Unreached, Bypassed, Types, RequestInv, Begun, MutatedMeans, Sent, Fresh
  <2> QED BY <1>0, <1>4, <2>1, <2>2, OwnStep DEF Unreached, Bypassed, Types
<1>5. CASE Applied(r)
  <2>1. Types'
    BY <1>0, <1>5 DEF Applied, Types, Labels, Bodies
  <2>2. RequestInv(r)'
    BY <1>0, <1>5 DEF Applied, Types, RequestInv, Begun, MutatedMeans, Sent, Fresh
  <2> QED BY <1>0, <1>5, <2>1, <2>2, OwnStep DEF Applied, Types
<1>6. CASE Send(r)
  <2>1. /\ pc[r] = "send" /\ pc' = [pc EXCEPT ![r] = IF r \in Streaming THEN "stream" ELSE "await"]
        /\ UNCHANGED <<body, pristine, mutated, disabled, disables, late>>
        /\ sent' = [sent EXCEPT ![r] = IF Len(@) < MaxSends THEN Append(@, body[r]) ELSE @]
    BY <1>6 DEF Send
  <2>2. sent[r] \in Seq(Bodies) /\ body[r] \in Bodies
    BY <1>0 DEF Types
  <2>3. Len(sent[r]) < MaxSends
    <3>1. sent[r] = <<>> \/ sent[r] = <<"reduced">>
      BY <1>0, <2>1 DEF RequestInv, Sent
    <3>2. Len(<<>>) = 0 /\ Len(<<"reduced">>) = 1
      OBVIOUS
    <3>3. MaxSends \in Nat /\ MaxSends >= 2
      BY GatewayAssumption
    <3>4. 0 < MaxSends /\ 1 < MaxSends
      BY <3>3
    <3> QED BY <3>1, <3>2, <3>4
  <2>4. sent'[r] = Append(sent[r], body[r]) /\ Append(sent[r], body[r]) \in Seq(Bodies)
    BY <1>0, <2>1, <2>2, <2>3 DEF Types
  <2>5. Types'
    BY <1>0, <2>1, <2>2, <2>4 DEF Types, Labels
  <2>6. RequestInv(r)'
    <3>1. pc'[r] \in {"await", "stream"}
      BY <1>0, <2>1 DEF Types
    <3>2. CASE sent[r] = <<>>
      <4>1. sent'[r] = <<body[r]>> /\ Len(sent'[r]) = 1
        BY <2>4, <3>2
      <4>2. Begun(r)' /\ Sent(r)'
        BY <3>1, <4>1 DEF Begun, Sent
      <4>3. MutatedMeans(r)'
        BY <1>0, <2>1, <3>1, <4>1 DEF RequestInv, MutatedMeans
      <4> QED BY <4>2, <4>3 DEF RequestInv
    <3>3. CASE sent[r] = <<"reduced">> /\ body[r] = "restored"
      <4>1. sent'[r] = <<"reduced", "restored">> /\ ~mutated[r]
        <5>0. "reduced" \in Bodies /\ "restored" \in Bodies
          BY DEF Bodies
        <5>1. Append(<<"reduced">>, "restored") = <<"reduced", "restored">>
          BY <5>0, AppendSecond
        <5>2. ~mutated[r]
          BY <1>0, <3>3 DEF RequestInv, MutatedMeans
        <5> QED BY <2>4, <3>3, <5>1, <5>2
      <4> QED BY <1>0, <2>1, <3>1, <4>1 DEF RequestInv, Begun, MutatedMeans, Sent
    <3> QED BY <1>0, <2>1, <3>2, <3>3 DEF RequestInv, Sent
  <2> QED BY <1>0, <2>1, <2>5, <2>6, OwnStep DEF Types
<1> QED BY <1>1, <1>2, <1>3, <1>4, <1>5, <1>6 DEF Mutate

(* gw_stream_disable: either the flag was clear and nothing happens, or    *)
(* the breaker is tripped for the first time and the flag cleared.         *)
StreamTrips(r) ==
    /\ mutated[r] /\ KeyOf[r] \in Keys /\ disables[r] = 0
    /\ mutated' = [mutated EXCEPT ![r] = FALSE]
    /\ disabled' = disabled \cup {KeyOf[r]} /\ disables' = [disables EXCEPT ![r] = 1]

LEMMA StreamDisableIs ==
  ASSUME GInv, NEW r \in Requests, StreamDisable(r)
  PROVE  StreamTrips(r) \/ UNCHANGED <<disabled, disables, mutated>>
<1>1. CASE ~(mutated[r] /\ KeyOf[r] # NoKey)
  BY <1>1 DEF StreamDisable
<1>2. CASE mutated[r] /\ KeyOf[r] # NoKey
  <2>1. KeyOf[r] \in Keys
    BY <1>2, GatewayAssumption DEF Range, Keys
  <2>2. disables[r] = 0
    BY <1>2 DEF GInv, RequestInv, MutatedMeans
  <2>3. disables' = [disables EXCEPT ![r] = IF disables[r] < 2 THEN disables[r] + 1 ELSE disables[r]]
    BY <1>2 DEF StreamDisable, Disable
  <2>4. disables' = [disables EXCEPT ![r] = 1]
    BY <2>2, <2>3
  <2> QED BY <1>2, <2>1, <2>2, <2>4 DEF StreamDisable, StreamTrips, Cleared, Disable
<1> QED BY <1>1, <1>2

LEMMA StreamStep ==
  ASSUME GInv, NEW r \in Requests, pc[r] = "stream",
         pc' = pc \/ pc' = [pc EXCEPT ![r] = "done"],
         StreamDisable(r) \/ UNCHANGED <<disabled, disables, mutated>>,
         UNCHANGED <<body, pristine, sent, late>>
  PROVE  GInv'
<1>0. Types /\ RequestInv(r) /\ \A q \in Requests : RequestInv(q)
  BY DEF GInv
<1>1. CASE StreamTrips(r)
  <2>1. Types'
    BY <1>0, <1>1 DEF StreamTrips, Types, Labels
  <2>2. RequestInv(r)'
    BY <1>0, <1>1 DEF StreamTrips, Types, RequestInv, Begun, MutatedMeans, Sent
  <2> QED BY <1>0, <1>1, <2>1, <2>2, OwnStep DEF StreamTrips, Types
<1>2. CASE UNCHANGED <<disabled, disables, mutated>>
  <2>1. Types'
    BY <1>0, <1>2 DEF Types, Labels
  <2>2. RequestInv(r)'
    BY <1>0, <1>2 DEF Types, RequestInv, Begun, MutatedMeans, Sent
  <2> QED BY <1>0, <1>2, <2>1, <2>2, OwnStep DEF Types
<1> QED BY <1>1, <1>2, StreamDisableIs

(* gw_buffered_after_status: a refusal of the reduced body restores,       *)
(* trips, clears the flag and resends in one step.                         *)
LEMMA AnswerStep ==
  ASSUME GInv, NEW r \in Requests, Answer(r)
  PROVE  GInv'
<1> USE DEF ctx, history, Goto
<1>0. Types /\ RequestInv(r) /\ \A q \in Requests : RequestInv(q)
  BY DEF GInv
<1>1. ASSUME NEW status \in Statuses, Forward(r, status) PROVE GInv'
  <2>1. Types'
    BY <1>0, <1>1 DEF Forward, Types, Labels
  <2>2. RequestInv(r)'
    BY <1>0, <1>1 DEF Forward, Types, RequestInv, Begun, MutatedMeans, Sent
  <2> QED BY <1>0, <1>1, <2>1, <2>2, OwnStep DEF Forward, Types
<1>2. ASSUME NEW status \in Statuses, RestoreResend(r, status) PROVE GInv'
  <2>1. /\ pc[r] = "await" /\ mutated[r] /\ pristine[r] /\ KeyOf[r] \in Keys
        /\ sent[r] = <<"reduced">> /\ disables[r] = 0
    <3>1. pc[r] = "await" /\ mutated[r]
      BY <1>2 DEF RestoreResend, Handled
    <3>2. KeyOf[r] \in Range(KeyOf)
      BY GatewayAssumption DEF Range
    <3> QED BY <1>0, <3>1, <3>2 DEF RequestInv, MutatedMeans, Keys
  <2>2. /\ body' = [body EXCEPT ![r] = "restored"] /\ pristine' = [pristine EXCEPT ![r] = FALSE]
        /\ mutated' = [mutated EXCEPT ![r] = FALSE] /\ pc' = [pc EXCEPT ![r] = "send"]
        /\ disabled' = disabled \cup {KeyOf[r]} /\ disables' = [disables EXCEPT ![r] = 1]
        /\ UNCHANGED <<sent, late>>
    <3>1. disables' = [disables EXCEPT ![r] = IF disables[r] < 2 THEN disables[r] + 1 ELSE disables[r]]
      BY <1>2 DEF RestoreResend, Disable
    <3>2. disables' = [disables EXCEPT ![r] = 1]
      BY <2>1, <3>1
    <3> QED BY <1>2, <2>1, <3>2 DEF RestoreResend, Restored, Cleared, Disable
  <2>3. Types'
    BY <1>0, <2>1, <2>2 DEF Types, Labels, Bodies
  <2>4. RequestInv(r)'
    BY <1>0, <2>1, <2>2 DEF Types, RequestInv, Begun, MutatedMeans, Sent
  <2> QED BY <1>0, <2>2, <2>3, <2>4, OwnStep DEF Types
<1>3. ASSUME NEW status \in Statuses, ServerError(r, status) PROVE GInv'
  <2>1. /\ pc[r] = "await" /\ mutated[r] /\ KeyOf[r] \in Keys
        /\ sent[r] = <<"reduced">> /\ disables[r] = 0
    <3>1. pc[r] = "await" /\ mutated[r]
      BY <1>3 DEF ServerError, Handled
    <3>2. KeyOf[r] \in Range(KeyOf)
      BY GatewayAssumption DEF Range
    <3> QED BY <1>0, <3>1, <3>2 DEF RequestInv, MutatedMeans, Keys
  <2>2. /\ mutated' = [mutated EXCEPT ![r] = FALSE] /\ pc' = [pc EXCEPT ![r] = "done"]
        /\ disabled' = disabled \cup {KeyOf[r]} /\ disables' = [disables EXCEPT ![r] = 1]
        /\ UNCHANGED <<sent, late, body, pristine>>
    <3>1. disables' = [disables EXCEPT ![r] = IF disables[r] < 2 THEN disables[r] + 1 ELSE disables[r]]
      BY <1>3 DEF ServerError, Disable
    <3>2. disables' = [disables EXCEPT ![r] = 1]
      BY <2>1, <3>1
    <3> QED BY <1>3, <3>2 DEF ServerError, Cleared, Disable
  <2>3. Types'
    BY <1>0, <2>1, <2>2 DEF Types, Labels
  <2>4. RequestInv(r)'
    BY <1>0, <2>1, <2>2 DEF Types, RequestInv, Begun, MutatedMeans, Sent
  <2> QED BY <1>0, <2>2, <2>3, <2>4, OwnStep DEF Types
<1>4. CASE StreamEnd(r)
  <2>1. Types'
    BY <1>0, <1>4 DEF StreamEnd, Types, Labels
  <2>2. RequestInv(r)'
    BY <1>0, <1>4 DEF StreamEnd, Types, RequestInv, Begun, MutatedMeans, Sent
  <2> QED BY <1>0, <1>4, <2>1, <2>2, OwnStep DEF StreamEnd, Types
<1>5. ASSUME NEW status \in Statuses, StreamStatus(r, status) PROVE GInv'
  BY <1>5, StreamStep DEF StreamStatus
<1> QED BY <1>1, <1>2, <1>3, <1>4, <1>5 DEF Answer

LEMMA StepGInv == GInv /\ [Next]_vars => GInv'
<1> SUFFICES ASSUME GInv, [Next]_vars PROVE GInv'
  OBVIOUS
<1>1. ASSUME NEW r \in Requests, Mutate(r) \/ Answer(r) PROVE GInv'
  BY <1>1, MutateStep, AnswerStep
<1>2. ASSUME NEW r \in Requests, NEW frame \in Frames, StreamFrame(r, frame) PROVE GInv'
  BY <1>2, StreamStep DEF StreamFrame
<1>3. ASSUME NEW k \in Keys, Expire(k) PROVE GInv'
  <2>1. Types'
    BY <1>3 DEF GInv, Types, Expire, ctx
  <2>2. \A q \in Requests : RequestInv(q)'
    BY <1>3, Untouched DEF GInv, Expire, ctx
  <2> QED BY <2>1, <2>2 DEF GInv
<1>4. CASE UNCHANGED vars
  <2>1. Types'
    BY <1>4 DEF GInv, Types, vars, ctx, history
  <2>2. \A q \in Requests : RequestInv(q)'
    BY <1>4, Untouched DEF GInv, vars, ctx, history
  <2> QED BY <2>1, <2>2 DEF GInv
<1> QED BY <1>1, <1>2, <1>3, <1>4 DEF Next

(* The inductive invariant of the gateway seam.                            *)
THEOREM GatewayInvariant == Spec => []GInv
BY InitGInv, StepGInv, PTL DEF Spec

(* gw_buffered_after_status resends a request at most once, and only the   *)
(* restored client body after the reduced one was refused, whatever the    *)
(* other threads of the session do.                                        *)
THEOREM ResendPristine == Spec => []ResendIsPristine
<1>1. GInv => ResendIsPristine
  <2> SUFFICES ASSUME GInv, NEW r \in Requests, Len(sent[r]) > 1
               PROVE  sent[r] = <<"reduced", "restored">>
    BY DEF ResendIsPristine
  <2>1. pc[r] \in Labels /\ RequestInv(r)
    BY DEF GInv, Types
  <2>2. Len(<<>>) = 0 /\ Len(<<"reduced">>) = 1
    OBVIOUS
  <2>3. ~(0 > 1) /\ ~(1 > 1)
    OBVIOUS
  <2>4. sent[r] # <<>> /\ sent[r] # <<"reduced">> /\ Len(sent[r]) # 1
    BY <2>2, <2>3, Zenon
  <2> QED BY <2>1, <2>4 DEF RequestInv, Begun, Fresh, Sent, Labels
<1> QED BY <1>1, GatewayInvariant, PTL

-----------------------------------------------------------------------------
(* The breaker.                                                            *)

(* What BreakerTripsFairly says of a step.                                 *)
Fair == /\ \A r \in Requests :
             Trips(r) => "reduced" \in Range(sent[r]) /\ r \notin late /\ disables'[r] <= 1
        /\ disabled' \ disabled \subseteq {KeyOf[r] : r \in {q \in Requests : Trips(q)}}

LEMMA NoTrip ==
  ASSUME disables' = disables, disabled' \subseteq disabled
  PROVE  Fair
BY DEF Fair, Trips

LEMMA OneTrip ==
  ASSUME GInv, NEW r \in Requests, mutated[r], pc[r] \in {"await", "stream"},
         disables' = [disables EXCEPT ![r] = 1], disabled' = disabled \cup {KeyOf[r]}
  PROVE  Fair
<1>1. r \notin late /\ disables[r] = 0 /\ sent[r] = <<"reduced">>
  BY DEF GInv, RequestInv, MutatedMeans
<1>2. "reduced" \in Range(sent[r])
  <2>1. 1 \in DOMAIN <<"reduced">> /\ <<"reduced">>[1] = "reduced"
    OBVIOUS
  <2> QED BY <1>1, <2>1 DEF Range
<1>3. disables \in [Requests -> 0 .. 2]
  BY DEF GInv, Types
<1>4. disables'[r] = 1 /\ \A q \in Requests : q # r => disables'[q] = disables[q]
  BY <1>3
<1>5. Trips(r) /\ \A q \in Requests : Trips(q) => q = r
  BY <1>1, <1>4 DEF Trips
<1> QED BY <1>1, <1>2, <1>4, <1>5 DEF Fair

LEMMA StepIsFair == GInv /\ [Next]_vars => [Fair]_vars
<1> SUFFICES ASSUME GInv, Next PROVE Fair
  OBVIOUS
<1> USE DEF ctx, history
<1>1. ASSUME NEW r \in Requests, Mutate(r) PROVE Fair
  <2>1. disables' = disables /\ disabled' = disabled
    BY <1>1 DEF Mutate, PassThrough, Snapshot, LoadState, Unreached, Bypassed, Applied, Send
  <2> QED BY <2>1, NoTrip
<1>2. ASSUME NEW r \in Requests, NEW status \in Statuses,
             RestoreResend(r, status) \/ ServerError(r, status)
      PROVE  Fair
  <2>1. pc[r] = "await" /\ mutated[r]
    BY <1>2 DEF RestoreResend, ServerError, Handled
  <2>2. disables[r] = 0
    BY <2>1 DEF GInv, RequestInv, MutatedMeans
  <2>3. /\ disabled' = disabled \cup {KeyOf[r]}
        /\ disables' = [disables EXCEPT ![r] = IF disables[r] < 2 THEN disables[r] + 1 ELSE disables[r]]
    BY <1>2 DEF RestoreResend, ServerError, Disable
  <2>4. disables' = [disables EXCEPT ![r] = 1]
    BY <2>2, <2>3
  <2> QED BY <2>1, <2>3, <2>4, OneTrip
<1>3. ASSUME NEW r \in Requests, pc[r] = "stream",
             StreamDisable(r) \/ UNCHANGED <<disabled, disables, mutated>>
      PROVE  Fair
  <2>1. CASE StreamTrips(r)
    BY <1>3, <2>1, OneTrip DEF StreamTrips
  <2>2. CASE UNCHANGED <<disabled, disables, mutated>>
    BY <2>2, NoTrip
  <2> QED BY <1>3, <2>1, <2>2, StreamDisableIs
<1>4. ASSUME NEW r \in Requests, Answer(r) PROVE Fair
  <2>1. ASSUME NEW status \in Statuses, Forward(r, status) PROVE Fair
    BY <2>1, NoTrip DEF Forward
  <2>2. ASSUME NEW status \in Statuses, StreamStatus(r, status) PROVE Fair
    BY <1>3, <2>2 DEF StreamStatus
  <2>3. CASE StreamEnd(r)
    BY <2>3, NoTrip DEF StreamEnd
  <2> QED BY <1>2, <1>4, <2>1, <2>2, <2>3 DEF Answer
<1>5. ASSUME NEW r \in Requests, NEW frame \in Frames, StreamFrame(r, frame) PROVE Fair
  BY <1>3, <1>5 DEF StreamFrame
<1>6. ASSUME NEW k \in Keys, Expire(k) PROVE Fair
  BY <1>6, NoTrip DEF Expire
<1> QED BY <1>1, <1>4, <1>5, <1>6 DEF Next

(* A breaker is tripped only by the answer to a request that was sent      *)
(* reduced and began while it was closed, and at most once by a request,   *)
(* for any number of threads, answers and stream frames.                   *)
THEOREM BreakerFair == Spec => BreakerTripsFairly
BY GatewayInvariant, StepIsFair, PTL DEF Spec, BreakerTripsFairly, Fair

-----------------------------------------------------------------------------
(* The saved reducer states.                                               *)

(* The fingerprint of the opening tells the conversations of an identity   *)
(* apart.  Two that open with the same message share a row of the store.   *)
OpeningsTellApart ==
    \A r, q \in Requests : StateKey(r) = StateKey(q) => Conversation[r] = Conversation[q]

LEMMA InitStore == Init => StoreInv
BY DEF Init, StoreInv, StateStaysInConversation

(* Save puts the conversation's own state under its key.                   *)
LEMMA SaveKeeps ==
  ASSUME StoreInv, NEW r \in Requests, Save(r), UNCHANGED loaded
  PROVE  StoreInv'
<1>1. CASE UNCHANGED store
  BY <1>1 DEF StoreInv, StateStaysInConversation
<1>2. CASE store' = [k \in DOMAIN store \cup {StateKey(r)} |->
                       IF k = StateKey(r)
                       THEN [turn |-> NextTurn(loaded[r]), conversation |-> Conversation[r]]
                       ELSE store[k]]
  <2>1. ASSUME NEW k \in DOMAIN store'
        PROVE  \E q \in Requests : k = StateKey(q) /\ store'[k].conversation = Conversation[q]
    <3>1. CASE k = StateKey(r)
      BY <1>2, <3>1
    <3>2. CASE k # StateKey(r)
      <4>1. k \in DOMAIN store /\ store'[k] = store[k]
        BY <1>2, <2>1, <3>2
      <4> QED BY <4>1 DEF StoreInv
    <3> QED BY <3>1, <3>2
  <2> QED BY <2>1 DEF StoreInv, StateStaysInConversation
<1> QED BY <1>1, <1>2 DEF Save

LEMMA StepStore ==
  ASSUME OpeningsTellApart
  PROVE  StoreInv /\ [Next]_vars => StoreInv'
<1> SUFFICES ASSUME StoreInv, [Next]_vars PROVE StoreInv'
  OBVIOUS
<1> USE DEF ctx, history
<1>0. ASSUME UNCHANGED <<store, loaded>> PROVE StoreInv'
  BY <1>0 DEF StoreInv, StateStaysInConversation
<1>1. ASSUME NEW r \in Requests, LoadState(r) PROVE StoreInv'
  <2>1. /\ store' = store
        /\ loaded' = [loaded EXCEPT ![r] = IF StateKey(r) \in DOMAIN store
                                           THEN store[StateKey(r)] ELSE NoState]
    BY <1>1 DEF LoadState
  <2>2. loaded'[r] # NoState => loaded'[r].conversation = Conversation[r]
    <3>1. CASE StateKey(r) \in DOMAIN store
      <4>1. PICK q \in Requests :
              StateKey(r) = StateKey(q) /\ store[StateKey(r)].conversation = Conversation[q]
        BY <3>1 DEF StoreInv
      <4>2. Conversation[r] = Conversation[q]
        BY <4>1 DEF OpeningsTellApart
      <4> QED BY <2>1, <3>1, <4>1, <4>2 DEF StoreInv
    <3>2. CASE StateKey(r) \notin DOMAIN store
      BY <2>1, <3>2 DEF StoreInv
    <3> QED BY <3>1, <3>2
  <2> QED BY <2>1, <2>2 DEF StoreInv, StateStaysInConversation
<1>2. ASSUME NEW r \in Requests, Bypassed(r) \/ Applied(r) PROVE StoreInv'
  BY <1>2, SaveKeeps DEF Bypassed, Applied
<1>3. ASSUME NEW r \in Requests, Mutate(r) PROVE StoreInv'
  <2>1. CASE PassThrough(r) \/ Snapshot(r) \/ Unreached(r) \/ Send(r)
    BY <1>0, <2>1 DEF PassThrough, Snapshot, Unreached, Send
  <2> QED BY <1>1, <1>2, <1>3, <2>1 DEF Mutate
<1>4. ASSUME NEW r \in Requests, Answer(r) PROVE StoreInv'
  BY <1>0, <1>4 DEF Answer, Forward, RestoreResend, ServerError, StreamStatus, StreamEnd
<1>5. ASSUME NEW r \in Requests, NEW frame \in Frames, StreamFrame(r, frame) PROVE StoreInv'
  BY <1>0, <1>5 DEF StreamFrame
<1>6. ASSUME NEW k \in Keys, Expire(k) PROVE StoreInv'
  BY <1>0, <1>6 DEF Expire
<1>7. CASE UNCHANGED vars
  BY <1>0, <1>7 DEF vars
<1> QED BY <1>3, <1>4, <1>5, <1>6, <1>7 DEF Next

(* The reducer is given its own conversation's state, for any interleaving *)
(* of loads and saves of the threads of one identity, as long as its       *)
(* conversations open differently.                                         *)
THEOREM StateOwn ==
  ASSUME OpeningsTellApart
  PROVE  Spec => []StateStaysInConversation
<1>1. StoreInv => StateStaysInConversation
  BY DEF StoreInv
<1>2. StoreInv /\ [Next]_vars => StoreInv'
  BY StepStore
<1> QED BY <1>1, <1>2, InitStore, PTL DEF Spec
=============================================================================
