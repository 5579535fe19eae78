---------------------------- MODULE PhoneProofs ----------------------------
(***************************************************************************)
(* Secrets that are replaced, remembered and used, for any number of       *)
(* processes, secrets, taps and attempts.                                  *)
(***************************************************************************)
EXTENDS Phone, TLAPS

Codes == {0, 200, 400, 403, 500, 503}
Calls == [step: Steps, by: Processes \cup {None}, message: Messages \cup {None},
          at: Nat, value: Secrets, code: Codes]
Phones == [tap: 0 .. MaxTaps, attempt: 1 .. MaxAttempts, key: Secrets, tapped: Nat,
           step: {"idle", "send", "wait"}]

LEMMA Types ==
    TypeOK <=> /\ time \in Nat
               /\ secret \in Secrets
               /\ put \in [Secrets -> Nat \cup {None}]
               /\ cache \in [Processes -> [at: Nat, value: Secrets] \cup {None}]
               /\ call \in Calls
               /\ phone \in Phones
               /\ network \subseteq Messages
  BY DEF TypeOK, GateTypeOK, Calls, Codes, Phones

LEMMA TypesNext ==
    TypeOK' <=> /\ time' \in Nat
                /\ secret' \in Secrets
                /\ put' \in [Secrets -> Nat \cup {None}]
                /\ cache' \in [Processes -> [at: Nat, value: Secrets] \cup {None}]
                /\ call' \in Calls
                /\ phone' \in Phones
                /\ network' \subseteq Messages
  BY DEF TypeOK, GateTypeOK, Calls, Codes, Phones

\* A secret is put after the one before it.
PutInOrder ==
    \A s \in Secrets :
        s <= secret => /\ put[s] \in 0 .. time
                       /\ \A t \in 0 .. s : put[t] <= put[s]

\* A secret that was asked for at that time has been the current one since, or was
\* replaced later.
CurrentAt(value, at) ==
    /\ value <= secret
    /\ at <= time
    /\ value < secret => at <= put[value + 1]

CacheWasCurrent == \A p \in Processes : cache[p] # None => CurrentAt(cache[p].value, cache[p].at)

\* What the running invocation verifies against was current less than SecretTtl
\* before the invocation began.
CallIsCurrent ==
    /\ call.at <= time
    /\ Busy => call.by \in Processes /\ call.message \in Messages
    /\ call.step \in {"check", "verify", "dispatch"}
       => /\ call.value <= secret
          /\ call.value < secret => call.at - put[call.value + 1] < SecretTtl

\* There is no code before there is a reply.
CodeAtReply == call.step # "reply" => call.code = 0

\* Requests carry the time of their sending.
Timed == \A message \in network : message.timestamp = message.sent + Drift
CallTimed == Busy => call.message.timestamp = call.message.sent + Drift

\* A phone that sends or waits has been tapped.
Tapped == phone.step # "idle" => phone.tap \in 1 .. MaxTaps

SecretInv ==
    /\ TypeOK
    /\ Tapped
    /\ PutInOrder
    /\ CacheWasCurrent
    /\ CallIsCurrent
    /\ CodeAtReply
    /\ Timed
    /\ CallTimed

LEMMA InitSecret == Init => SecretInv
  <1>. SUFFICES ASSUME Init PROVE SecretInv
    OBVIOUS
  <1>1. 0 \in Secrets
    BY GateAssumption DEF Secrets
  <1>2. TypeOK
    BY <1>1, GateAssumption, PhoneAssumption
       DEF Init, GateInit, TypeOK, GateTypeOK, NoCall, Steps, Messages
  <1>. QED
    BY <1>1, <1>2, GateAssumption
       DEF Init, GateInit, SecretInv, PutInOrder, CacheWasCurrent, CallIsCurrent, CodeAtReply, Timed, CallTimed,
           Tapped, NoCall, Busy, Secrets

-----------------------------------------------------------------------------
\* A step of the gate that only moves the invocation on: no time, no secret and no
\* cache changes, nor what is verified and against what.
MovesOn ==
    /\ UNCHANGED <<time, secret, put, cache, phone, network>>
    /\ call' \in Calls
    /\ call'.by = call.by /\ call'.message = call.message
    /\ call'.at = call.at /\ call'.value = call.value
    /\ call'.step \in {"check", "verify", "dispatch"} => call.step \in {"check", "verify", "dispatch"}
    /\ call'.step # "reply" => call'.code = call.code /\ call.step # "reply"
    /\ Busy

LEMMA MoveOnKeeps == SecretInv /\ MovesOn => SecretInv'
  <1>. SUFFICES ASSUME SecretInv, MovesOn PROVE SecretInv'
    OBVIOUS
  <1>3. TypeOK'
    BY Types, TypesNext DEF MovesOn, SecretInv
  <1>4. PutInOrder' /\ CacheWasCurrent' /\ Timed' /\ Tapped'
    BY DEF MovesOn, SecretInv, PutInOrder, CacheWasCurrent, CurrentAt, Timed, Tapped
  <1>5. CallIsCurrent' /\ CallTimed' /\ CodeAtReply'
    BY DEF MovesOn, SecretInv, CallIsCurrent, CallTimed, CodeAtReply, Busy
  <1>. QED
    BY <1>3, <1>4, <1>5 DEF SecretInv

\* What Goto and Reply do to the record of an invocation.
LEMMA GotoMoves ==
    ASSUME call \in Calls, NEW step \in Steps, Goto(step)
    PROVE  /\ call' \in Calls
           /\ call'.step = step /\ call'.code = call.code
           /\ call'.by = call.by /\ call'.message = call.message
           /\ call'.at = call.at /\ call'.value = call.value
  BY DEF Calls, Goto

LEMMA ReplyMoves ==
    ASSUME call \in Calls, NEW code \in Codes, Reply(code)
    PROVE  /\ call' \in Calls
           /\ call'.step = "reply" /\ call'.code = code
           /\ call'.by = call.by /\ call'.message = call.message
           /\ call'.at = call.at /\ call'.value = call.value
  <1>. "reply" \in Steps
    BY DEF Steps
  <1>. QED
    BY DEF Calls, Reply

LEMMA GateMoves ==
    ASSUME SecretInv, UNCHANGED <<phone, network>>,
           \/ FetchFails \/ Check \/ Verify \/ Abort
           \/ \E code \in {200, 400, 500, 503} : Dispatch(code)
    PROVE  MovesOn
  <1>. call \in Calls
    BY Types DEF SecretInv
  <1>1. /\ UNCHANGED <<time, secret, put, cache>>
        /\ \/ \E code \in Codes : Reply(code)
           \/ \E step \in {"verify", "dispatch"} :
                 Goto(step) /\ call.step \in {"check", "verify"}
        /\ Busy
    <2>1. CASE FetchFails
      BY <2>1 DEF FetchFails, Busy, Codes
    <2>2. CASE Check
      BY <2>2 DEF Check, Busy, Codes
    <2>3. CASE Verify
      BY <2>3 DEF Verify, Busy, Codes
    <2>4. CASE Abort
      BY <2>4 DEF Abort, Busy, Codes
    <2>5. CASE \E code \in {200, 400, 500, 503} : Dispatch(code)
      BY <2>5 DEF Dispatch, Busy, Codes
    <2>. QED
      BY <2>1, <2>2, <2>3, <2>4, <2>5
  <1>2. CASE \E code \in Codes : Reply(code)
    BY <1>1, <1>2, ReplyMoves DEF MovesOn
  <1>3. CASE \E step \in {"verify", "dispatch"} : Goto(step) /\ call.step \in {"check", "verify"}
    <2>. {"verify", "dispatch"} \subseteq Steps
      BY DEF Steps
    <2>. QED
      BY <1>1, <1>3, GotoMoves DEF MovesOn
  <1>. QED
    BY <1>1, <1>2, <1>3

\* A secret that is fetched is the current one, so it was when it was asked for.
LEMMA FetchKeeps == SecretInv /\ Fetch /\ UNCHANGED <<phone, network>> => SecretInv'
  <1>. SUFFICES ASSUME SecretInv, Fetch, UNCHANGED <<phone, network>> PROVE SecretInv'
    OBVIOUS
  <1>. TypeOK /\ Busy /\ call.by \in Processes
    BY DEF SecretInv, Fetch, Busy, CallIsCurrent
  <1>1. /\ call' = [call EXCEPT !.value = secret, !.step = "check"]
        /\ cache' = [cache EXCEPT ![call.by] = [at |-> call.at, value |-> secret]]
        /\ UNCHANGED <<time, secret, put>>
    BY DEF Fetch
  <1>2. TypeOK'
    <2>. "check" \in Steps /\ secret \in Secrets /\ call \in Calls
      BY Types DEF Steps
    <2>1. call' \in Calls
      BY <1>1 DEF Calls
    <2>2. cache' \in [Processes -> [at: Nat, value: Secrets] \cup {None}]
      BY <1>1, Types DEF Calls
    <2>. QED
      BY <1>1, <2>1, <2>2, Types, TypesNext
  <1>3. PutInOrder' /\ Timed' /\ Tapped'
    BY <1>1 DEF SecretInv, PutInOrder, Timed, Tapped
  <1>4. CacheWasCurrent'
    BY <1>1, GateAssumption DEF SecretInv, CacheWasCurrent, CurrentAt, CallIsCurrent, TypeOK, GateTypeOK, Secrets
  <1>5. CallIsCurrent' /\ CallTimed'
    BY <1>1, GateAssumption DEF SecretInv, CallIsCurrent, CallTimed, Busy, TypeOK, GateTypeOK, Secrets
  <1>6. CodeAtReply'
    <2>. call \in Calls /\ call.step = "fetch"
      BY Types DEF Fetch
    <2>. QED
      BY <1>1 DEF SecretInv, CodeAtReply, Calls
  <1>. QED
    BY <1>2, <1>3, <1>4, <1>5, <1>6 DEF SecretInv

\* A cached secret is used within SecretTtl of the time it was asked for.
LEMMA ArrivesKeeps ==
    ASSUME SecretInv, NEW message \in network, NEW p \in Processes, Arrives(message, p)
    PROVE  SecretInv'
  <1>. TypeOK /\ message \in Messages
    BY DEF SecretInv, TypeOK
  <1>1. /\ call' = [NoCall EXCEPT !.by = p, !.message = message, !.at = time,
                                  !.step = IF Cached(p) THEN "check" ELSE "fetch",
                                  !.value = IF Cached(p) THEN cache[p].value ELSE 0]
        /\ UNCHANGED <<time, secret, put, cache, phone>>
        /\ network' = network \ {message}
    BY DEF Arrives, Invoke
  <1>2. TypeOK'
    <2>1. 0 \in Secrets /\ (Cached(p) => cache[p].value \in Secrets)
      BY Types, GateAssumption DEF Cached, Secrets
    <2>2. call' \in Calls
      <3>. DEFINE step == IF Cached(p) THEN "check" ELSE "fetch"
                  value == IF Cached(p) THEN cache[p].value ELSE 0
      <3>1. step \in Steps /\ value \in Secrets /\ 0 \in Codes /\ time \in Nat
        BY <2>1, Types DEF Steps, Codes
      <3>2. call' = [step |-> step, by |-> p, message |-> message, at |-> time,
                     value |-> value, code |-> 0]
        BY <1>1 DEF NoCall
      <3>. HIDE DEF step, value
      <3>. QED
        BY <3>1, <3>2 DEF Calls
    <2>3. network' \subseteq Messages
      BY <1>1, Types
    <2>. QED
      BY <1>1, <2>2, <2>3, Types, TypesNext
  <1>3. PutInOrder' /\ CacheWasCurrent' /\ Timed' /\ Tapped'
    BY <1>1 DEF SecretInv, PutInOrder, CacheWasCurrent, CurrentAt, Timed, Tapped
  <1>4. CallTimed'
    BY <1>1 DEF SecretInv, CallTimed, Timed, NoCall
  <1>5. call'.at = time /\ call'.by = p /\ call'.message = message /\ call'.code = 0
    BY <1>1 DEF NoCall
  <1>6. ASSUME Cached(p) PROVE CallIsCurrent'
    <2>1. call'.value = cache[p].value /\ call'.at = time
      BY <1>1, <1>6 DEF NoCall
    <2>2. CurrentAt(cache[p].value, cache[p].at) /\ time - cache[p].at < SecretTtl
      BY <1>6 DEF Cached, SecretInv, CacheWasCurrent
    <2>3. cache[p].value \in Secrets /\ cache[p].at \in Nat
      BY <1>6 DEF Cached, TypeOK, GateTypeOK
    <2>4. cache[p].value < secret => put[cache[p].value + 1] \in Nat
      BY <2>3, GateAssumption DEF SecretInv, PutInOrder, TypeOK, GateTypeOK, Secrets
    <2>5. time \in Nat /\ secret \in Nat /\ SecretTtl \in Nat
      BY GateAssumption DEF TypeOK, GateTypeOK, Secrets
    <2>6. /\ cache[p].value <= secret
          /\ cache[p].value < secret => time - put[cache[p].value + 1] < SecretTtl
      BY <2>2, <2>3, <2>4, <2>5 DEF CurrentAt
    <2>. QED
      BY <1>1, <1>5, <2>1, <2>5, <2>6 DEF CallIsCurrent
  <1>7. ASSUME ~Cached(p) PROVE CallIsCurrent'
    <2>1. call'.step = "fetch" /\ call'.at = time
      BY <1>1, <1>7 DEF NoCall
    <2>. QED
      BY <1>1, <1>5, <2>1 DEF CallIsCurrent, TypeOK, GateTypeOK
  <1>. QED
    BY <1>2, <1>3, <1>4, <1>5, <1>6, <1>7 DEF SecretInv, CodeAtReply

-----------------------------------------------------------------------------
\* The new secret is put now, after everything that was asked for.
LEMMA PutSecretKeeps == SecretInv /\ PutSecret /\ UNCHANGED <<phone, network>> => SecretInv'
  <1>. SUFFICES ASSUME SecretInv, PutSecret, UNCHANGED <<phone, network>> PROVE SecretInv'
    OBVIOUS
  <1>. TypeOK
    BY DEF SecretInv
  <1>1. /\ secret < MaxSecret
        /\ secret' = secret + 1
        /\ put' = [put EXCEPT ![secret + 1] = time]
        /\ UNCHANGED <<time, cache, call>>
        /\ secret + 1 \in Secrets /\ secret \in Nat /\ time \in Nat
    BY GateAssumption DEF PutSecret, TypeOK, GateTypeOK, Secrets
  <1>2. TypeOK'
    BY <1>1 DEF TypeOK, GateTypeOK
  <1>3. \A s \in Secrets : s <= secret => put'[s] = put[s]
    BY <1>1, GateAssumption DEF TypeOK, GateTypeOK, Secrets
  <1>4. put'[secret + 1] = time
    BY <1>1 DEF TypeOK, GateTypeOK
  <1>5. PutInOrder'
    <2>. SUFFICES ASSUME NEW s \in Secrets, s <= secret + 1
                  PROVE  put'[s] \in 0 .. time /\ \A t \in 0 .. s : put'[t] <= put'[s]
      BY <1>1 DEF PutInOrder
    <2>. \A t \in 0 .. s : t \in Secrets
      BY GateAssumption DEF Secrets
    <2>1. CASE s <= secret
      BY <1>1, <1>3, <2>1, GateAssumption DEF SecretInv, PutInOrder, Secrets
    <2>2. CASE s = secret + 1
      BY <1>1, <1>3, <1>4, <2>2, GateAssumption DEF SecretInv, PutInOrder, Secrets
    <2>. QED
      BY <1>1, <2>1, <2>2, GateAssumption DEF Secrets
  <1>6. CacheWasCurrent'
    <2>. SUFFICES ASSUME NEW p \in Processes, cache[p] # None
                  PROVE  CurrentAt(cache[p].value, cache[p].at)'
      BY <1>1 DEF CacheWasCurrent
    <2>1. cache[p].value \in Secrets /\ cache[p].at \in Nat /\ CurrentAt(cache[p].value, cache[p].at)
      BY DEF TypeOK, GateTypeOK, SecretInv, CacheWasCurrent
    <2>2. CASE cache[p].value = secret
      BY <1>1, <1>4, <2>1, <2>2 DEF CurrentAt
    <2>3. CASE cache[p].value < secret
      BY <1>1, <1>3, <2>1, <2>3, GateAssumption DEF CurrentAt, Secrets
    <2>. QED
      BY <1>1, <2>1, <2>2, <2>3, GateAssumption DEF CurrentAt, Secrets
  <1>7. CallIsCurrent'
    <2>1. call.value \in Secrets /\ call.at \in Nat /\ call.at <= time /\ SecretTtl \in Nat \ {0}
      BY GateAssumption DEF TypeOK, GateTypeOK, SecretInv, CallIsCurrent
    <2>2. CASE call.value = secret
      BY <1>1, <1>4, <2>1, <2>2 DEF SecretInv, CallIsCurrent, Busy
    <2>3. CASE call.value # secret
      BY <1>1, <1>3, <2>1, <2>3, GateAssumption DEF SecretInv, CallIsCurrent, Busy, Secrets
    <2>. QED
      BY <2>2, <2>3
  <1>8. Timed' /\ CallTimed' /\ Tapped' /\ CodeAtReply'
    BY <1>1 DEF SecretInv, CodeAtReply, Timed, CallTimed, Busy, Tapped
  <1>. QED
    BY <1>2, <1>5, <1>6, <1>7, <1>8 DEF SecretInv

LEMMA TickKeeps == SecretInv /\ Tick /\ UNCHANGED <<phone, network>> => SecretInv'
  <1>. SUFFICES ASSUME SecretInv, Tick, UNCHANGED <<phone, network>> PROVE SecretInv'
    OBVIOUS
  <1>1. TypeOK /\ time \in Nat /\ time' = time + 1 /\ UNCHANGED <<secret, put, cache, call>>
    BY DEF SecretInv, Tick, TypeOK, GateTypeOK
  <1>2. TypeOK'
    BY <1>1 DEF TypeOK, GateTypeOK
  <1>3. PutInOrder'
    BY <1>1 DEF SecretInv, PutInOrder
  <1>4. CacheWasCurrent'
    BY <1>1 DEF SecretInv, CacheWasCurrent, CurrentAt, TypeOK, GateTypeOK
  <1>5. CallIsCurrent' /\ Timed' /\ CallTimed' /\ Tapped' /\ CodeAtReply'
    BY <1>1 DEF SecretInv, CodeAtReply, CallIsCurrent, Timed, CallTimed, Busy, Tapped, TypeOK, GateTypeOK
  <1>. QED
    BY <1>2, <1>3, <1>4, <1>5 DEF SecretInv

LEMMA RecycleKeeps ==
    ASSUME SecretInv, NEW p \in Processes, Recycle(p), UNCHANGED <<phone, network>>
    PROVE  SecretInv'
  <1>1. TypeOK /\ cache' = [cache EXCEPT ![p] = None] /\ UNCHANGED <<time, secret, put, call>>
    BY DEF SecretInv, Recycle
  <1>2. TypeOK'
    BY <1>1 DEF TypeOK, GateTypeOK
  <1>3. PutInOrder' /\ CallIsCurrent' /\ Timed' /\ CallTimed' /\ Tapped' /\ CodeAtReply'
    BY <1>1 DEF SecretInv, CodeAtReply, PutInOrder, CallIsCurrent, Timed, CallTimed, Busy, Tapped
  <1>4. CacheWasCurrent'
    BY <1>1 DEF SecretInv, CacheWasCurrent, CurrentAt, TypeOK, GateTypeOK
  <1>. QED
    BY <1>2, <1>3, <1>4 DEF SecretInv

-----------------------------------------------------------------------------
\* The phone's side of a step: the gate stands still or takes its invocation back.
PhoneMoves ==
    /\ UNCHANGED <<time, secret, put, cache>>
    /\ call' = call \/ call' = NoCall
    /\ TypeOK'
    /\ Tapped'
    /\ Timed'

LEMMA PhoneMoveKeeps == SecretInv /\ PhoneMoves => SecretInv'
  <1>. SUFFICES ASSUME SecretInv, PhoneMoves PROVE SecretInv'
    OBVIOUS
  <1>1. PutInOrder' /\ CacheWasCurrent'
    BY DEF PhoneMoves, SecretInv, PutInOrder, CacheWasCurrent, CurrentAt
  <1>2. CallIsCurrent' /\ CallTimed' /\ CodeAtReply'
    BY DEF PhoneMoves, SecretInv, CodeAtReply, CallIsCurrent, CallTimed, Busy, NoCall, TypeOK, GateTypeOK
  <1>. QED
    BY <1>1, <1>2 DEF PhoneMoves, SecretInv

LEMMA TryAgainTypes ==
    ASSUME TypeOK, Tapped, phone.step # "idle", NEW busy \in BOOLEAN, TryAgain(busy)
    PROVE  phone' \in Phones /\ Tapped'
  <1>. phone \in Phones
    BY Types
  <1>1. CASE phone.attempt < MaxAttempts
    <2>1. phone' = [phone EXCEPT !.attempt = @ + 1, !.step = "send"]
      BY <1>1 DEF TryAgain
    <2>2. phone.attempt + 1 \in 1 .. MaxAttempts
      BY <1>1, PhoneAssumption DEF Phones
    <2>. QED
      BY <2>1, <2>2 DEF Phones, Tapped
  <1>2. CASE ~(phone.attempt < MaxAttempts)
    <2>1. phone' = [phone EXCEPT !.step = "idle"]
      BY <1>2 DEF TryAgain
    <2>. QED
      BY <2>1 DEF Phones, Tapped
  <1>. QED
    BY <1>1, <1>2

LEMMA ReturnTypes == TypeOK /\ Return => /\ call' \in Calls
                                         /\ UNCHANGED <<time, secret, put, cache>>
                                         /\ call' = NoCall
  BY GateAssumption DEF Calls, Codes, Return, NoCall, Steps, Secrets

LEMMA PhoneStepMoves ==
    ASSUME SecretInv,
           \/ EnterSecret \/ Tap \/ Send \/ Answered \/ Unanswered \/ AnswerLost
           \/ \E message \in network : Throttled(message) \/ Lost(message)
    PROVE  PhoneMoves
  <1>. TypeOK /\ Timed /\ Tapped /\ phone \in Phones /\ network \subseteq Messages
    BY Types DEF SecretInv
  <1>1. CASE EnterSecret
    <2>1. phone' \in Phones /\ Tapped'
      BY <1>1, Types DEF EnterSecret, Phones, Tapped
    <2>. QED
      BY <1>1, <2>1, Types, TypesNext DEF EnterSecret, PhoneMoves, gateVars, Timed
  <1>2. CASE Tap
    <2>1. /\ phone.tap + 1 \in 0 .. MaxTaps
          /\ phone.tap + 1 \in 1 .. MaxTaps
          /\ 1 \in 1 .. MaxAttempts
          /\ time \in Nat
      BY <1>2, PhoneAssumption, Types DEF Tap, Phones
    <2>2. phone' \in Phones /\ Tapped'
      BY <1>2, <2>1 DEF Tap, Phones, Tapped
    <2>. QED
      BY <1>2, <2>2, Types, TypesNext DEF Tap, PhoneMoves, gateVars, Timed
  <1>3. CASE Send
    <2>1. /\ network' = network \cup {Signed(time)}
          /\ phone' = [phone EXCEPT !.step = "wait"]
          /\ UNCHANGED gateVars
      BY <1>3 DEF Send
    <2>2. phone.tap \in 1 .. MaxTaps
      BY <1>3 DEF Send, Tapped
    <2>3. time + Drift \in Nat
      BY Types, PhoneAssumption
    <2>4. Signed(time) \in Messages /\ Signed(time).timestamp = Signed(time).sent + Drift
      BY <2>2, <2>3, Types DEF Signed, Messages, Phones
    <2>5. phone' \in Phones /\ Tapped'
      BY <2>1, <2>2 DEF Phones, Tapped
    <2>. QED
      BY <2>1, <2>4, <2>5, Types, TypesNext DEF PhoneMoves, gateVars, Timed
  <1>4. CASE Answered
    <2>1. network' = network /\ Return
      BY <1>4 DEF Answered
    <2>2. phone' \in Phones /\ Tapped'
      <3>1. call.code < 500 \/ call.code >= 500
        BY Types DEF Calls, Codes
      <3>2. CASE ~Awaits(call.message)
        BY <1>4, <3>2 DEF Answered, Tapped
      <3>3. CASE Awaits(call.message) /\ call.code < 500
        <4>1. phone' = [phone EXCEPT !.step = "idle"]
          <5>1. ~(call.code >= 500)
            BY <3>3, Types DEF Calls, Codes
          <5>. QED
            BY <1>4, <3>3, <5>1 DEF Answered
        <4>. QED
          BY <4>1 DEF Phones, Tapped
      <3>4. CASE Awaits(call.message) /\ call.code >= 500
        <4>1. TryAgain(FALSE)
          <5>1. ~(call.code < 500)
            BY <3>4, Types DEF Calls, Codes
          <5>. QED
            BY <1>4, <3>4, <5>1 DEF Answered
        <4>. QED
          BY <3>4, <4>1, TryAgainTypes DEF Awaits
      <3>. QED
        BY <3>1, <3>2, <3>3, <3>4
    <2>. QED
      BY <2>1, <2>2, ReturnTypes, Types, TypesNext DEF PhoneMoves, Timed
  <1>5. CASE Unanswered
    <2>1. phone' \in Phones /\ Tapped'
      BY <1>5, TryAgainTypes DEF Unanswered
    <2>. QED
      BY <1>5, <2>1, Types, TypesNext DEF Unanswered, PhoneMoves, gateVars, Timed
  <1>6. CASE AnswerLost
    BY <1>6, ReturnTypes, Types, TypesNext DEF AnswerLost, PhoneMoves, Timed, Tapped
  <1>7. CASE \E message \in network : Throttled(message) \/ Lost(message)
    <2>1. /\ network' \subseteq network
          /\ UNCHANGED gateVars
          /\ phone' = phone \/ (phone.step # "idle" /\ TryAgain(TRUE))
      BY <1>7 DEF Throttled, Lost, Awaits
    <2>2. phone' \in Phones /\ Tapped'
      BY <2>1, TryAgainTypes DEF Tapped
    <2>. QED
      BY <2>1, <2>2, Types, TypesNext DEF PhoneMoves, gateVars, Timed
  <1>. QED
    BY <1>1, <1>2, <1>3, <1>4, <1>5, <1>6, <1>7

LEMMA StepKeepsSecret == SecretInv /\ [Next]_vars => SecretInv'
  <1>. SUFFICES ASSUME SecretInv, [Next]_vars PROVE SecretInv'
    OBVIOUS
  <1>1. CASE UNCHANGED vars
    BY <1>1 DEF vars, gateVars, SecretInv, TypeOK, GateTypeOK, PutInOrder, CacheWasCurrent, CurrentAt,
                CallIsCurrent, CodeAtReply, Busy, Timed, CallTimed, Tapped
  <1>2. CASE \/ EnterSecret \/ Tap \/ Send \/ Answered \/ Unanswered \/ AnswerLost
             \/ \E message \in network : Throttled(message) \/ Lost(message)
    BY <1>2, PhoneStepMoves, PhoneMoveKeeps
  <1>3. CASE \E message \in network, p \in Processes : Arrives(message, p)
    BY <1>3, ArrivesKeeps
  <1>4. CASE GateStep /\ UNCHANGED <<phone, network>>
    BY <1>4, FetchKeeps, GateMoves, MoveOnKeeps DEF GateStep
  <1>5. CASE Environment
    BY <1>5, TickKeeps, PutSecretKeeps, RecycleKeeps DEF Environment
  <1>. QED
    BY <1>1, <1>2, <1>3, <1>4, <1>5 DEF Next

THEOREM SecretInvariant == Spec => []SecretInv
  <1>. QED
    BY InitSecret, StepKeepsSecret, PTL DEF Spec

\* Every variable of the gate and the phone keeps its type.
THEOREM GateTypes == Spec => []TypeOK
  <1>1. SecretInv => TypeOK
    BY DEF SecretInv
  <1>. QED
    BY <1>1, SecretInvariant, PTL

\* A secret that was replaced is good for nothing after SecretTtl, for any number of
\* processes, secrets and requests.
THEOREM ReplacedSecretIsRefused == Spec => RotatedSecretDies
  <1>1. SecretInv => (Accepts /\ call.value < secret => call.at - put[call.value + 1] < SecretTtl)
    BY DEF SecretInv, CallIsCurrent, Accepts
  <1>. QED
    BY <1>1, SecretInvariant, PTL DEF RotatedSecretDies

\* A phone with the current secret, heard in time, is not refused.
THEOREM CurrentSecretIsTaken == Spec => PhoneIsNotRefused
  <1>. DEFINE Taken == Refuses =>
                LET message == call.message
                IN  ~ /\ message.key = secret
                      /\ secret # 0
                      /\ put[secret] <= call.at - SecretTtl
                      /\ Fresh(message.sent + Drift)
  <1>1. SecretInv /\ [Next]_vars => Taken
    <2>. SUFFICES ASSUME SecretInv, [Next]_vars, call.step = "verify", call'.code = 403,
                         call.message.key = secret, put[secret] <= call.at - SecretTtl,
                         Fresh(call.message.sent + Drift)
                  PROVE  FALSE
      BY DEF Refuses
    <2>. TypeOK /\ Busy
      BY DEF SecretInv, Busy
    <2>1. call.value \in Secrets /\ call.at \in Nat /\ secret \in Secrets /\ SecretTtl \in Nat \ {0}
      BY GateAssumption DEF TypeOK, GateTypeOK
    <2>2. call.value = secret
      <3>. SUFFICES ASSUME call.value # secret PROVE FALSE
        OBVIOUS
      <3>1. call.value < secret /\ call.at - put[call.value + 1] < SecretTtl
        BY <2>1, GateAssumption DEF SecretInv, CallIsCurrent, Secrets
      <3>2. put[call.value + 1] <= put[secret] /\ put[call.value + 1] \in Nat /\ put[secret] \in Nat
        BY <2>1, <3>1, GateAssumption DEF SecretInv, PutInOrder, Secrets
      <3>. QED
        BY <2>1, <3>1, <3>2
    <2>3. Fresh(call.message.timestamp)
      BY DEF SecretInv, CallTimed
    <2>4. Verify \/ call' = call
      BY DEF Next, vars, gateVars, EnterSecret, Tap, Send, Answered, Unanswered, AnswerLost, Return, Throttled,
             Lost, Arrives, Invoke, Busy, GateStep, Fetch, FetchFails, Check, Abort, Dispatch, Environment,
             Tick, PutSecret, Recycle
    <2>5. call \in Calls /\ "dispatch" \in Steps
      BY Types DEF Steps
    <2>6. call.code = 0
      BY DEF SecretInv, CodeAtReply
    <2>7. ASSUME Verify PROVE call'.code = 0
      <3>1. Goto("dispatch")
        BY <2>2, <2>3, <2>7 DEF Verify
      <3>. QED
        BY <2>5, <2>6, <3>1, GotoMoves
    <2>. QED
      BY <2>4, <2>6, <2>7
  <1>. QED
    BY <1>1, SecretInvariant, PTL DEF Spec, PhoneIsNotRefused
=============================================================================
