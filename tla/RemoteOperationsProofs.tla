------------------------ MODULE RemoteOperationsProofs ------------------------
(***************************************************************************)
(* The properties of RemoteOperations for any number of sessions, calls    *)
(* and operations.                                                         *)
(***************************************************************************)
EXTENDS RemoteOperations, FiniteSetTheorems, FunctionTheorems, TLAPS

------------------------------------------------------------------------------
(* Types.  A call at work has a request and a session, and one that is     *)
(* about to settle an outcome.                                             *)

AtWork == \A c \in Calls :
  /\ Busy(c) => call[c].request \in Request /\ call[c].session \in Sessions
  /\ call[c].at = "settle" => call[c].outcome \in Outcome

Typed == TypeOK /\ AtWork

(* What the fields of a request are. *)
LEMMA RequestFields ==
  ASSUME NEW r \in Request
  PROVE  /\ r.op \in Ops /\ r # None
         /\ r.type \in {"work", "abandon"}
         /\ r.type = "abandon" => /\ r.target \in Ops /\ r.event \in Nat
                                  /\ r.abandonment \in Nat
BY NoneAssumption DEF Request

(* A request that arrives is one. *)
LEMMA ArrivingIsRequest == TypeOK => Arriving \subseteq Request
<1> SUFFICES ASSUME TypeOK, NEW r \in Arriving PROVE r \in Request
  OBVIOUS
<1>1. CASE r \in [op : Ops, type : {"work"}, body : Bodies]
  BY <1>1 DEF Request
<1>2. CASE r \in UNION {[op : Ops, type : {"abandon"}, target : {t},
          event : {journal[t].intent, journal[t].outcome},
          abandonment : {0, abandonment[t].revision}] : t \in Ops}
  <2>1. PICK t \in Ops : r \in [op : Ops, type : {"abandon"}, target : {t},
          event : {journal[t].intent, journal[t].outcome},
          abandonment : {0, abandonment[t].revision}]
    BY <1>2
  <2>2. /\ journal[t].intent \in Nat /\ journal[t].outcome \in Nat
        /\ abandonment[t].revision \in Nat
    BY <2>1 DEF TypeOK, Entry, Receipt
  <2> QED BY <2>1, <2>2 DEF Request
<1> QED BY <1>1, <1>2 DEF Arriving

(* A request at work is one. *)
LEMMA CallTyped ==
  ASSUME TypeOK, NEW c \in Calls
  PROVE  call[c] \in CallRecord
BY DEF TypeOK

(* The outcomes that have a name of their own. *)
LEMMA PublicNames ==
  /\ DOMAIN PublicName = {"CONFIRMED", "PENDING", "REJECTED"}
  /\ PublicName["CONFIRMED"] = "confirmed"
  /\ PublicName["PENDING"] = "pending"
  /\ PublicName["REJECTED"] = "rejected"
BY DEF PublicName

(* A record is shown in one of the public states. *)
LEMMA PublicTyped ==
  ASSUME NEW state, NEW abandoned \in BOOLEAN
  PROVE  PublicState(state, abandoned) \in States \ {"none"}
BY PublicNames DEF PublicState, States

(* A record is an item of a listing. *)
LEMMA RecordTyped ==
  ASSUME TypeOK, NEW o \in Ops
  PROVE  Record(o) \in Item
<1>1. /\ journal[o].intent \in Nat /\ journal[o].outcome \in Nat
      /\ abandonment[o].revision \in Nat
  BY DEF TypeOK, Entry, Receipt
<1>2. PublicState(journal[o].state, abandonment[o].revision # 0) \in States
  BY PublicTyped DEF States
<1> QED BY <1>1, <1>2 DEF Record, Item, LatestEvent

(* So is a record as it was. *)
LEMMA AsOfTyped ==
  ASSUME TypeOK, NEW o \in Ops, NEW event \in Nat, NEW receipt \in Nat
  PROVE  AsOf(o, event, receipt) \in Item
<1>1. /\ journal[o].intent \in Nat /\ journal[o].outcome \in Nat
      /\ abandonment[o].revision \in Nat
  BY DEF TypeOK, Entry, Receipt
<1> DEFINE settled == journal[o].outcome # 0 /\ journal[o].outcome <= event
           abandoned == abandonment[o].revision # 0 /\ abandonment[o].revision <= receipt
<1>2. PublicState(IF settled THEN journal[o].state ELSE "STARTED", abandoned) \in States
  BY PublicTyped DEF States
<1> QED BY <1>1, <1>2 DEF AsOf, Item

(* Rows are items. *)
LEMMA RowsTyped ==
  ASSUME TypeOK, NEW event \in Nat, NEW receipt \in Nat, NEW after, NEW states
  PROVE  Rows(event, receipt, after, states) \subseteq Item
BY AsOfTyped DEF Rows, Matching

(* A page leaves a listing. *)
LEMMA ShowPageTyped ==
  ASSUME TypeOK, NEW l \in Listing, ShowPage(l)
  PROVE  listing' \in Listing
<1> DEFINE rows == Rows(l.event, l.abandonment, l.after, l.states)
           page == FirstOf(rows)
<1>1. rows \subseteq Item
  BY RowsTyped DEF Listing
<1>2. CASE listing' = NoListing
  BY <1>2 DEF NoListing, Listing
<1>3. ASSUME NEW final \in page,
             listing' = [l EXCEPT !.open = TRUE, !.after = final.intent, !.rest = @ \ page]
      PROVE  listing' \in Listing
  <2>1. final.intent \in Nat
    BY <1>1, <1>3 DEF FirstOf, Item
  <2>2. l.rest \ page \subseteq Item
    BY DEF Listing
  <2> QED BY <1>3, <2>1, <2>2 DEF Listing
<1> QED BY <1>2, <1>3 DEF ShowPage

(* An answer is a request with the entry of that request. *)
LEMMA AnswerTyped ==
  ASSUME TypeOK, NEW c \in Calls, call[c].request \in Request, Answer(c),
         journal'[call[c].request.op].request \in Request,
         journal'[call[c].request.op].state \in Outcome
  PROVE  answers' \subseteq [asked : Request, request : Request, state : Outcome]
BY DEF TypeOK, Answer

(* A call that ends leaves the others as they are. *)
LEMMA FinishTyped ==
  ASSUME Typed, NEW c \in Calls, Finish(c)
  PROVE  active' \subseteq Sessions \X Nat /\ call' \in [Calls -> CallRecord] /\ AtWork'
<1>1. IdleCall \in CallRecord /\ IdleCall.at = "idle"
  BY DEF IdleCall, CallRecord
<1>2. call' = [call EXCEPT ![c] = IdleCall] /\ call \in [Calls -> CallRecord]
  BY DEF Finish, Typed, TypeOK
<1>3. \A d \in Calls : call'[d] = IF d = c THEN IdleCall ELSE call[d]
  BY <1>2
<1> QED BY <1>1, <1>2, <1>3 DEF Typed, TypeOK, AtWork, Busy, Finish

(* The types hold at first. *)
LEMMA InitTyped == Init => Typed
<1> SUFFICES ASSUME Init PROVE Typed
  OBVIOUS
<1>1. [o \in Ops |-> NoEntry] \in [Ops -> Entry]
  BY DEF NoEntry, Entry
<1>2. [o \in Ops |-> NoReceipt] \in [Ops -> Receipt]
  BY DEF NoReceipt, Receipt
<1>3. [c \in Calls |-> IdleCall] \in [Calls -> CallRecord]
  BY DEF IdleCall, CallRecord
<1>4. NoListing \in Listing
  BY DEF NoListing, Listing
<1>5. TypeOK
  BY <1>1, <1>2, <1>3, <1>4 DEF Init, TypeOK, SessionRow, ChallengeRow
<1>6. AtWork
  BY DEF Init, AtWork, Busy, IdleCall
<1> QED BY <1>5, <1>6 DEF Typed

(* Sessions and challenges. *)
LEMMA SessionStepTyped ==
  ASSUME Typed, SessionStep
  PROVE  Typed'
<1>1. /\ pairing \in {"PAIRED", "REVOKED"} /\ session \in [Sessions -> SessionRow]
      /\ challenge \in [Nonces -> ChallengeRow] /\ spent \in [Nonces -> Nat]
  BY DEF Typed, TypeOK
<1>2. ASSUME /\ pairing' \in {"PAIRED", "REVOKED"}
             /\ session' \in [Sessions -> SessionRow]
             /\ challenge' \in [Nonces -> ChallengeRow] /\ spent' \in [Nonces -> Nat]
             /\ UNCHANGED <<journal, abandonment, last, memory, listing, effects, answers>>
      PROVE  Typed'
  BY <1>2 DEF Typed, TypeOK, AtWork, Busy, memory
<1>3. ASSUME NEW n \in Nonces, Consume(n)
      PROVE  challenge' \in [Nonces -> ChallengeRow] /\ spent' \in [Nonces -> Nat]
  BY <1>1, <1>3 DEF Consume, ChallengeRow
<1>4. CASE RevokePairing
  BY <1>1, <1>2, <1>4 DEF RevokePairing, SessionRow, history
<1>5. ASSUME NEW n \in Nonces, RequestOpenChallenge(n) PROVE Typed'
  BY <1>1, <1>2, <1>5 DEF RequestOpenChallenge, Issue, ChallengeRow, history
<1>6. ASSUME NEW s \in Sessions, NEW n \in Nonces, RequestRefreshChallenge(n, s)
      PROVE  Typed'
  BY <1>1, <1>2, <1>6 DEF RequestRefreshChallenge, Issue, ChallengeRow, SessionRow, history
<1>7. ASSUME NEW s \in Sessions, NEW n \in Nonces, OpenSession(s, n) PROVE Typed'
  BY <1>1, <1>2, <1>3, <1>7 DEF OpenSession, SessionRow
<1>8. ASSUME NEW s \in Sessions, NEW k \in 1..MaxCounter, RevokeSession(s, k)
      PROVE  Typed'
  <2>1. k \in Nat
    OBVIOUS
  <2> QED BY <1>1, <1>2, <1>8, <2>1 DEF RevokeSession, SessionRow, history
<1>9. ASSUME NEW s \in Sessions, NEW n \in Nonces, NEW k \in 1..MaxCounter,
             RefreshSession(s, n, k)
      PROVE  Typed'
  <2>1. k \in Nat
    OBVIOUS
  <2> QED BY <1>1, <1>2, <1>3, <1>9, <2>1 DEF RefreshSession, Renewed, SessionRow
<1>10. ASSUME NEW s \in Sessions, NEW g \in 1..MaxGeneration, NEW k \in 1..MaxCounter,
              TurnAway(s, g, k)
       PROVE  Typed'
  <2>1. k \in Nat
    OBVIOUS
  <2> QED BY <1>1, <1>2, <1>10, <2>1 DEF TurnAway, Accept, SessionRow, history
<1> QED BY <1>4, <1>5, <1>6, <1>7, <1>8, <1>9, <1>10 DEF SessionStep

(* One call changes. *)
LEMMA CallChanged ==
  ASSUME Typed, NEW c \in Calls, NEW new \in CallRecord,
         new.at # "idle" => new.request \in Request /\ new.session \in Sessions,
         new.at = "settle" => new.outcome \in Outcome,
         call' = [call EXCEPT ![c] = new]
  PROVE  call' \in [Calls -> CallRecord] /\ AtWork'
<1>1. call \in [Calls -> CallRecord]
  BY DEF Typed, TypeOK
<1>2. \A d \in Calls : call'[d] = IF d = c THEN new ELSE call[d]
  BY <1>1
<1> QED BY <1>1, <1>2 DEF Typed, AtWork, Busy

(* Calls. *)
LEMMA CallStepTyped ==
  ASSUME Typed, NEW c \in Calls, CallStep(c)
  PROVE  Typed'
<1> DEFINE r == call[c].request
<1>1. /\ call \in [Calls -> CallRecord] /\ call[c] \in CallRecord
      /\ journal \in [Ops -> Entry] /\ abandonment \in [Ops -> Receipt]
      /\ last \in [event : Nat, abandonment : Nat] /\ effects \in [Ops -> Nat]
      /\ session \in [Sessions -> SessionRow] /\ active \subseteq Sessions \X Nat
  BY DEF Typed, TypeOK
<1>2. call[c].at # "idle" => r \in Request /\ r.op \in Ops /\ call[c].session \in Sessions
  BY RequestFields DEF Typed, AtWork, Busy
<1>3. ASSUME NEW s \in Sessions, NEW g \in 1..MaxGeneration, NEW k \in 1..MaxCounter,
             NEW q \in Arriving, Dispatch(c, s, g, k, q)
      PROVE  Typed'
  <2> DEFINE new == [at |-> "claim", session |-> s, generation |-> g, request |-> q,
                     performed |-> FALSE, outcome |-> "none"]
  <2>1. q \in Request /\ g \in Nat /\ k \in Nat
    BY ArrivingIsRequest DEF Typed
  <2>2. new \in CallRecord /\ new.at = "claim" /\ new.request = q /\ new.session = s
    BY <2>1 DEF CallRecord
  <2>3. call' \in [Calls -> CallRecord] /\ AtWork'
    BY <1>3, <2>1, <2>2, CallChanged DEF Dispatch
  <2>4. session' \in [Sessions -> SessionRow]
    BY <1>1, <1>3, <2>1 DEF Dispatch, Accept, SessionRow
  <2>5. active' \subseteq Sessions \X Nat
    BY <1>1, <1>3, <2>1 DEF Dispatch
  <2> QED BY <1>3, <2>3, <2>4, <2>5 DEF Dispatch, Accept, history, Typed, TypeOK
<1>4. CASE Claim(c)
  <2>1. call' \in [Calls -> CallRecord] /\ AtWork'
    <3>1. call' = [call EXCEPT ![c] = [call[c] EXCEPT !.at = "handle"]]
      BY <1>4 DEF Claim
    <3>2. [call[c] EXCEPT !.at = "handle"] \in CallRecord
      BY <1>1 DEF CallRecord
    <3>3. /\ [call[c] EXCEPT !.at = "handle"].at = "handle"
          /\ [call[c] EXCEPT !.at = "handle"].request = r
          /\ [call[c] EXCEPT !.at = "handle"].session = call[c].session
      BY <1>1 DEF CallRecord
    <3> QED BY <1>2, <1>4, <3>1, <3>2, <3>3, CallChanged DEF Claim
  <2>2. r \in Request /\ r.op \in Ops
    BY <1>2, <1>4 DEF Claim
  <2>3. [request |-> r, intent |-> last.event + 1, outcome |-> 0, state |-> "STARTED"] \in Entry
    BY <1>1, <2>2 DEF Entry
  <2>4. journal' \in [Ops -> Entry]
    BY <1>1, <1>4, <2>2, <2>3 DEF Claim
  <2>5. last' \in [event : Nat, abandonment : Nat]
    BY <1>1, <1>4 DEF Claim
  <2> QED BY <1>4, <2>1, <2>4, <2>5 DEF Claim, history, Typed, TypeOK
<1>5. CASE Replay(c)
  <2>1. r \in Request /\ journal'[r.op].request = r /\ journal'[r.op].state \in Outcome
    BY <1>2, <1>5 DEF Replay, Replayable, durable
  <2>2. answers' \subseteq [asked : Request, request : Request, state : Outcome]
    BY <1>5, <2>1, AnswerTyped DEF Replay, Typed
  <2> QED BY <1>5, <2>2, FinishTyped DEF Replay, durable, Typed, TypeOK
<1>6. CASE ClaimFails(c)
  BY <1>6, FinishTyped DEF ClaimFails, durable, history, Typed, TypeOK
<1>7. CASE Perform(c)
  <2>1. r.op \in Ops
    BY <1>2, <1>7 DEF Perform
  <2>2. effects' \in [Ops -> Nat]
    BY <1>1, <1>7, <2>1 DEF Perform
  <2> DEFINE new == [call[c] EXCEPT !.performed = TRUE]
  <2>3. /\ new \in CallRecord /\ new.request = r /\ new.session = call[c].session
        /\ new.at = "handle"
    BY <1>1, <1>7 DEF CallRecord, Perform
  <2>4. call' = [call EXCEPT ![c] = new]
    BY <1>7 DEF Perform
  <2> HIDE DEF new
  <2>5. call' \in [Calls -> CallRecord] /\ AtWork'
    BY <1>2, <1>7, <2>3, <2>4, CallChanged DEF Perform
  <2> QED BY <1>7, <2>2, <2>5 DEF Perform, durable, Typed, TypeOK
<1>8. ASSUME NEW outcome \in Outcome, Return(c, outcome) PROVE Typed'
  <2> DEFINE new == [call[c] EXCEPT !.at = "settle", !.outcome = outcome]
  <2>3. /\ new \in CallRecord /\ new.request = r /\ new.session = call[c].session
        /\ new.outcome \in Outcome
    BY <1>1 DEF CallRecord
  <2>4. call' = [call EXCEPT ![c] = new]
    BY <1>8 DEF Return
  <2> HIDE DEF new
  <2>5. call' \in [Calls -> CallRecord] /\ AtWork'
    BY <1>2, <1>8, <2>3, <2>4, CallChanged DEF Return
  <2> QED BY <1>8, <2>5 DEF Return, durable, history, Typed, TypeOK
<1>9. CASE Abandon(c)
  <2>1. r \in Request /\ r.op \in Ops /\ r.target \in Ops
    BY <1>2, <1>9, RequestFields DEF Abandon
  <2>2. abandonment' \in [Ops -> Receipt]
    <3>1. [revision |-> last.abandonment + 1, source |-> r, seen |-> last.event] \in Receipt
      BY <1>1, <2>1 DEF Receipt
    <3> QED BY <1>1, <1>9, <2>1, <3>1 DEF Abandon
  <2>3. last' \in [event : Nat, abandonment : Nat] /\ effects' \in [Ops -> Nat]
    BY <1>1, <1>9, <2>1 DEF Abandon
  <2>4. "CONFIRMED" \in Outcome
    BY DEF Outcome
  <2> DEFINE new == [call[c] EXCEPT !.at = "settle", !.performed = TRUE,
                                    !.outcome = "CONFIRMED"]
  <2>5. /\ new \in CallRecord /\ new.request = r /\ new.session = call[c].session
        /\ new.outcome \in Outcome
    BY <1>1, <2>4 DEF CallRecord
  <2>6. call' = [call EXCEPT ![c] = new]
    BY <1>9 DEF Abandon
  <2> HIDE DEF new
  <2>7. call' \in [Calls -> CallRecord] /\ AtWork'
    BY <1>2, <1>9, <2>5, <2>6, CallChanged DEF Abandon
  <2> QED BY <1>9, <2>2, <2>3, <2>7 DEF Abandon, Typed, TypeOK
<1>10. CASE AbandonRejected(c)
  <2>1. "REJECTED" \in Outcome
    BY DEF Outcome
  <2> DEFINE new == [call[c] EXCEPT !.at = "settle", !.outcome = "REJECTED"]
  <2>3. /\ new \in CallRecord /\ new.request = r /\ new.session = call[c].session
        /\ new.outcome \in Outcome
    BY <1>1, <2>1 DEF CallRecord
  <2>4. call' = [call EXCEPT ![c] = new]
    BY <1>10 DEF AbandonRejected
  <2> HIDE DEF new
  <2>5. call' \in [Calls -> CallRecord] /\ AtWork'
    BY <1>2, <1>10, <2>3, <2>4, CallChanged DEF AbandonRejected
  <2> QED BY <1>10, <2>5 DEF AbandonRejected, durable, history, Typed, TypeOK
<1>11. CASE Settle(c)
  <2>1. r \in Request /\ r.op \in Ops /\ journal[r.op].request = r
    BY <1>2, <1>11 DEF Settle, OutcomeOpen
  <2>2. journal' = [journal EXCEPT ![r.op].outcome = last.event + 1,
                                   ![r.op].state = call[c].outcome]
    BY <1>11 DEF Settle
  <2>3. last' \in [event : Nat, abandonment : Nat]
    BY <1>1, <1>11 DEF Settle
  <2>4. call[c].outcome \in Outcome
    BY <1>11 DEF Settle, Typed, AtWork
  <2> DEFINE out == call[c].outcome
             new == [journal[r.op] EXCEPT !.outcome = last.event + 1, !.state = out]
  <2>5. journal' = [journal EXCEPT ![r.op] = new]
    BY <2>2
  <2>6. new \in Entry /\ new.request = r /\ new.state \in Outcome
    <3>1. last.event + 1 \in Nat /\ journal[r.op] \in Entry
      BY <1>1, <2>1
    <3> HIDE DEF out
    <3>2. out \in Outcome
      BY <2>4 DEF out
    <3> QED BY <2>1, <3>1, <3>2 DEF Entry
  <2> HIDE DEF new
  <2>7. journal' \in [Ops -> Entry]
    BY <1>1, <2>1, <2>5, <2>6
  <2>8. answers' \subseteq [asked : Request, request : Request, state : Outcome]
    <3>1. journal'[r.op] = new
      BY <1>1, <2>1, <2>5
    <3>2. CASE UNCHANGED answers
      BY <3>2 DEF Typed, TypeOK
    <3>3. CASE Answer(c)
      BY <2>1, <2>6, <3>1, <3>3, AnswerTyped DEF Typed
    <3> QED BY <1>11, <3>2, <3>3 DEF Settle
  <2> QED BY <1>11, <2>3, <2>7, <2>8, FinishTyped DEF Settle, Typed, TypeOK
<1>12. CASE SettleFails(c)
  BY <1>12, FinishTyped DEF SettleFails, durable, history, Typed, TypeOK
<1> QED BY <1>3, <1>4, <1>5, <1>6, <1>7, <1>8, <1>9, <1>10, <1>11, <1>12 DEF CallStep

(* Every step keeps the types. *)
LEMMA StepTyped ==
  ASSUME Typed, [Next]_vars
  PROVE  Typed'
<1>1. CASE SessionStep
  BY <1>1, SessionStepTyped
<1>2. ASSUME NEW c \in Calls, CallStep(c) PROVE Typed'
  BY <1>2, CallStepTyped
<1>3. ASSUME NEW states \in Filters, ListFirst(states) PROVE Typed'
  <2> DEFINE l == [open |-> TRUE, states |-> states, event |-> last.event,
                   abandonment |-> last.abandonment, after |-> 0,
                   rest |-> Matching({Record(o) : o \in {p \in Ops : journal[p] # NoEntry}},
                                     states)]
  <2>1. last.event \in Nat /\ last.abandonment \in Nat
    BY DEF Typed, TypeOK
  <2>2. l.rest \subseteq Item
    BY RecordTyped DEF Matching, Typed
  <2>3. l \in Listing
    BY <2>1, <2>2 DEF Listing
  <2>4. listing' \in Listing
    BY <1>3, <2>3, ShowPageTyped DEF ListFirst, Typed
  <2> QED BY <1>3, <2>4 DEF ListFirst, durable, memory, history, Typed, TypeOK, AtWork, Busy
<1>4. CASE ListNext
  <2>1. listing' \in Listing
    BY <1>4, ShowPageTyped DEF ListNext, Typed, TypeOK
  <2> QED BY <1>4, <2>1 DEF ListNext, durable, memory, history, Typed, TypeOK, AtWork, Busy
<1>5. CASE Crash
  <2>1. IdleCall \in CallRecord /\ IdleCall.at = "idle"
    BY DEF IdleCall, CallRecord
  <2>2. call' \in [Calls -> CallRecord] /\ AtWork'
    BY <1>5, <2>1 DEF Crash, AtWork, Busy
  <2> QED BY <1>5, <2>2 DEF Crash, durable, history, Typed, TypeOK
<1>6. CASE UNCHANGED vars
  BY <1>6 DEF vars, durable, memory, history, Typed, TypeOK, AtWork, Busy
<1> QED BY <1>1, <1>2, <1>3, <1>4, <1>5, <1>6 DEF Next

(* Every variable keeps its type, and every call at work its request.      *)
LEMMA TypedInvariant == Spec => []Typed
<1>1. Init => Typed
  BY InitTyped
<1>2. Typed /\ [Next]_vars => Typed'
  BY StepTyped
<1> QED BY <1>1, <1>2, PTL DEF Spec

(* The type invariant of the model. *)
THEOREM RemoteTypeCorrect == Spec => []TypeOK
<1>1. Typed => TypeOK
  BY DEF Typed
<1> QED BY <1>1, TypedInvariant, PTL

------------------------------------------------------------------------------
(* Sessions, challenges and the slots of their revisions. *)

(* A session that was never opened has counted nothing, and a challenge    *)
(* that was not consumed was not accepted.                                 *)
Fresh ==
  /\ \A s \in Sessions : session[s].state = "NONE" =>
       session[s].generation = 0 /\ session[s].counter = 0
  /\ \A n \in Nonces : challenge[n].purpose # "consumed" => spent[n] = 0

SessionInv == Typed /\ Fresh /\ ChallengeOnce /\ RevokedIsOver

(* Nothing is open or spent at first. *)
LEMMA SessionInvInit == Init => SessionInv
BY InitTyped DEF Init, SessionInv, Fresh, ChallengeOnce, RevokedIsOver

(* What a step does to the sessions and to their counters. *)
LEMMA SessionInvStep ==
  ASSUME SessionInv, [Next]_vars
  PROVE  SessionInv'
<1>1. Typed'
  BY StepTyped DEF SessionInv
<1>2. /\ session \in [Sessions -> SessionRow]
      /\ challenge \in [Nonces -> ChallengeRow] /\ spent \in [Nonces -> Nat]
  BY DEF SessionInv, Typed, TypeOK
<1>3. ASSUME NEW n \in Nonces, Consume(n), challenge[n].purpose # "consumed"
      PROVE  /\ \A m \in Nonces : challenge'[m].purpose # "consumed" => spent'[m] = 0
             /\ ChallengeOnce'
  BY <1>2, <1>3 DEF Consume, ChallengeRow, SessionInv, Fresh, ChallengeOnce
<1>4. ASSUME NEW n \in Nonces, NEW purpose \in {"OPEN", "REFRESH"}, NEW s, NEW g,
             Issue(n, purpose, s, g)
      PROVE  SessionInv'
  BY <1>1, <1>2, <1>4 DEF Issue, history, SessionInv, Fresh, ChallengeOnce, RevokedIsOver
<1>5. CASE RevokePairing
  BY <1>1, <1>2, <1>5 DEF RevokePairing, history, SessionRow, SessionInv, Fresh,
     ChallengeOnce, RevokedIsOver
<1>6. ASSUME NEW s \in Sessions, NEW n \in Nonces, OpenSession(s, n) PROVE SessionInv'
  <2>1. challenge[n].purpose # "consumed"
    BY <1>6 DEF OpenSession, Challenges
  <2> QED BY <1>1, <1>2, <1>3, <1>6, <2>1 DEF OpenSession, SessionInv, Fresh, RevokedIsOver
<1>7. ASSUME NEW s \in Sessions, NEW k \in 1..MaxCounter, RevokeSession(s, k)
      PROVE  SessionInv'
  BY <1>1, <1>2, <1>7 DEF RevokeSession, Current, history, SessionRow, SessionInv, Fresh,
     ChallengeOnce, RevokedIsOver
<1>8. ASSUME NEW s \in Sessions, NEW n \in Nonces, NEW k \in 1..MaxCounter,
             RefreshSession(s, n, k)
      PROVE  SessionInv'
  <2>1. challenge[n].purpose # "consumed"
    BY <1>8 DEF RefreshSession, Challenges
  <2> QED BY <1>1, <1>2, <1>3, <1>8, <2>1 DEF RefreshSession, Renewed, Current, SessionRow,
     SessionInv, Fresh, RevokedIsOver
<1>9. ASSUME NEW s \in Sessions, NEW g, NEW k, Accept(s, g, k) PROVE SessionInv'
  BY <1>1, <1>2, <1>9 DEF Accept, Current, history, SessionRow, SessionInv, Fresh,
     ChallengeOnce, RevokedIsOver
<1>10. CASE UNCHANGED <<pairing, session, challenge, spent>>
  BY <1>1, <1>10 DEF SessionInv, Fresh, ChallengeOnce, RevokedIsOver
<1>11. ASSUME SessionStep PROVE SessionInv'
  BY <1>4, <1>5, <1>6, <1>7, <1>8, <1>9, <1>11
     DEF SessionStep, RequestOpenChallenge, RequestRefreshChallenge, TurnAway
<1>12. ASSUME NEW c \in Calls, CallStep(c) PROVE SessionInv'
  BY <1>9, <1>10, <1>12 DEF CallStep, Dispatch, Claim, Replay, ClaimFails, Perform, Return,
     Abandon, AbandonRejected, Settle, SettleFails, durable, history
<1> QED BY <1>10, <1>11, <1>12 DEF Next, ListFirst, ListNext, Crash, vars, durable, history

(* A challenge is accepted once, however often its answer arrives.         *)
THEOREM ChallengesAreSpentOnce == Spec => []ChallengeOnce
<1>1. SessionInv => ChallengeOnce
  BY DEF SessionInv
<1> QED BY <1>1, SessionInvInit, SessionInvStep, PTL DEF Spec

(* No session of a revoked device is active again.                         *)
THEOREM RevocationIsFinal == Spec => []RevokedIsOver
<1>1. SessionInv => RevokedIsOver
  BY DEF SessionInv
<1> QED BY <1>1, SessionInvInit, SessionInvStep, PTL DEF Spec

(* No step takes back a counter, a generation or a revocation. *)
LEMMA ForwardStep ==
  ASSUME SessionInv, [Next]_vars, NEW s \in Sessions
  PROVE  /\ session'[s].counter >= session[s].counter
         /\ session'[s].generation >= session[s].generation
         /\ session[s].state = "REVOKED" => session'[s] = session[s]
<1> DEFINE Forward == /\ session'[s].counter >= session[s].counter
                      /\ session'[s].generation >= session[s].generation
                      /\ session[s].state = "REVOKED" => session'[s] = session[s]
<1> SUFFICES Forward
  OBVIOUS
<1>1. session \in [Sessions -> SessionRow] /\ session[s].counter \in Nat
      /\ session[s].generation \in Nat
  BY DEF SessionInv, Typed, TypeOK, SessionRow
<1>2. CASE RevokePairing
  BY <1>1, <1>2 DEF RevokePairing, SessionRow
<1>3. ASSUME NEW t \in Sessions, NEW n \in Nonces, OpenSession(t, n) PROVE Forward
  BY <1>1, <1>3 DEF OpenSession, SessionInv, Fresh
<1>4. ASSUME NEW t \in Sessions, NEW k \in 1..MaxCounter, RevokeSession(t, k)
      PROVE  Forward
  BY <1>1, <1>4 DEF RevokeSession, Current
<1>5. ASSUME NEW t \in Sessions, NEW n \in Nonces, NEW k \in 1..MaxCounter,
             RefreshSession(t, n, k)
      PROVE  Forward
  BY <1>1, <1>5 DEF RefreshSession, Renewed, Current
<1>6. ASSUME NEW t \in Sessions, NEW g, NEW k \in 1..MaxCounter, Accept(t, g, k)
      PROVE  Forward
  BY <1>1, <1>6 DEF Accept, Current, SessionRow
<1>7. CASE UNCHANGED session
  BY <1>1, <1>7
<1>8. ASSUME SessionStep PROVE Forward
  BY <1>2, <1>3, <1>4, <1>5, <1>6, <1>7, <1>8
     DEF SessionStep, RequestOpenChallenge, RequestRefreshChallenge, Issue, TurnAway
<1>9. ASSUME NEW c \in Calls, CallStep(c) PROVE Forward
  BY <1>6, <1>7, <1>9 DEF CallStep, Dispatch, Claim, Replay, ClaimFails, Perform, Return,
     Abandon, AbandonRejected, Settle, SettleFails, durable
<1> QED BY <1>7, <1>8, <1>9 DEF Next, ListFirst, ListNext, Crash, vars, durable

(* An accepted counter stays accepted, through refreshes too, and a        *)
(* revoked session stays revoked.                                          *)
THEOREM SessionsGoForward == Spec => SessionForward
<1>1. SessionInv /\ [Next]_vars => [\A s \in Sessions :
        /\ session'[s].counter >= session[s].counter
        /\ session'[s].generation >= session[s].generation
        /\ session[s].state = "REVOKED" => session'[s] = session[s]]_vars
  BY ForwardStep
<1> QED BY <1>1, SessionInvInit, SessionInvStep, PTL DEF Spec, SessionForward

(* A call ends: its slot, and no other, is free. *)
LEMMA FinishSlot ==
  ASSUME Typed, OneInFlight, NEW c \in Calls, Busy(c), Finish(c)
  PROVE  OneInFlight'
<1>1. call' = [call EXCEPT ![c] = IdleCall] /\ active' = active \ {Revision(c)}
  BY DEF Finish
<1>2. \A d \in Calls : Busy(d)' <=> d # c /\ Busy(d)
  BY <1>1 DEF Busy, IdleCall, Typed, TypeOK
<1>3. \A d \in Calls : d # c => Revision(d)' = Revision(d)
  BY <1>1 DEF Revision, Typed, TypeOK
<1>4. \A d \in Calls : Busy(d) /\ Revision(d) = Revision(c) => d = c
  BY DEF OneInFlight
<1>5. active' = {Revision(d)' : d \in {e \in Calls : Busy(e)'}}
  BY <1>1, <1>2, <1>3, <1>4 DEF OneInFlight
<1>6. \A d, e \in Calls : Busy(d)' /\ Busy(e)' /\ Revision(d)' = Revision(e)' => d = e
  BY <1>2, <1>3 DEF OneInFlight
<1> QED BY <1>5, <1>6 DEF OneInFlight

(* A call goes on: its slot stays taken. *)
LEMMA SameSlots ==
  ASSUME OneInFlight, active' = active,
         \A d \in Calls : /\ Busy(d)' <=> Busy(d)
                          /\ Busy(d) => Revision(d)' = Revision(d)
  PROVE  OneInFlight'
<1>1. active' = {Revision(d)' : d \in {e \in Calls : Busy(e)'}}
  BY DEF OneInFlight
<1>2. \A d, e \in Calls : Busy(d)' /\ Busy(e)' /\ Revision(d)' = Revision(e)' => d = e
  BY DEF OneInFlight
<1> QED BY <1>1, <1>2 DEF OneInFlight

(* Every step keeps the slots exact. *)
LEMMA OneInFlightStep ==
  ASSUME Typed, OneInFlight, [Next]_vars
  PROVE  OneInFlight'
<1>1. call \in [Calls -> CallRecord]
  BY DEF Typed, TypeOK
<1>2. CASE UNCHANGED memory
  BY <1>2, SameSlots DEF memory, Busy, Revision
<1>3. CASE SessionStep
  BY <1>2, <1>3 DEF SessionStep, RevokePairing, RequestOpenChallenge, OpenSession,
     RequestRefreshChallenge, Issue, RevokeSession, RefreshSession, TurnAway, memory
<1>4. ASSUME NEW c \in Calls, NEW s \in Sessions, NEW g \in 1..MaxGeneration,
             NEW k \in 1..MaxCounter, NEW q \in Arriving, Dispatch(c, s, g, k, q)
      PROVE  OneInFlight'
  <2>1. /\ ~Busy(c) /\ <<s, g>> \notin active /\ active' = active \cup {<<s, g>>}
        /\ call'[c].at = "claim" /\ call'[c].session = s /\ call'[c].generation = g
        /\ \A d \in Calls : d # c => call'[d] = call[d]
    BY <1>1, <1>4 DEF Dispatch, Busy
  <2>2. \A d \in Calls : Busy(d)' <=> d = c \/ Busy(d)
    BY <2>1 DEF Busy
  <2>3. Revision(c)' = <<s, g>> /\ \A d \in Calls : d # c => Revision(d)' = Revision(d)
    BY <2>1 DEF Revision
  <2>4. \A d \in Calls : Busy(d) => Revision(d) # <<s, g>> /\ d # c
    BY <2>1 DEF OneInFlight
  <2>5. active' = {Revision(d)' : d \in {e \in Calls : Busy(e)'}}
    <3>1. {e \in Calls : Busy(e)'} = {e \in Calls : Busy(e)} \cup {c}
      BY <2>2
    <3> QED BY <2>1, <2>3, <2>4, <3>1 DEF OneInFlight
  <2>6. \A d, e \in Calls : Busy(d)' /\ Busy(e)' /\ Revision(d)' = Revision(e)' => d = e
    BY <2>2, <2>3, <2>4 DEF OneInFlight
  <2> QED BY <2>5, <2>6 DEF OneInFlight
<1>5. ASSUME NEW c \in Calls, Finish(c), call[c].at # "idle" PROVE OneInFlight'
  BY <1>5, FinishSlot DEF Busy
<1>6. ASSUME NEW c \in Calls, active' = active,
             call'[c].at # "idle", call[c].at # "idle",
             call'[c].session = call[c].session, call'[c].generation = call[c].generation,
             \A d \in Calls : d # c => call'[d] = call[d]
      PROVE  OneInFlight'
  <2>1. \A d \in Calls : (Busy(d)' <=> Busy(d)) /\ Revision(d)' = Revision(d)
    BY <1>6 DEF Busy, Revision
  <2> QED BY <1>6, <2>1, SameSlots
<1>7. ASSUME NEW c \in Calls, CallStep(c) PROVE OneInFlight'
  <2>1. call[c] \in CallRecord
    BY <1>1
  <2>2. CASE Claim(c)
    BY <1>1, <1>6, <2>1, <2>2 DEF Claim, CallRecord
  <2>3. CASE Replay(c) \/ ClaimFails(c) \/ Settle(c) \/ SettleFails(c)
    BY <1>5, <2>3 DEF Replay, ClaimFails, Settle, SettleFails
  <2>4. CASE Perform(c)
    BY <1>1, <1>6, <2>1, <2>4 DEF Perform, CallRecord
  <2>5. ASSUME NEW outcome \in Outcome, Return(c, outcome) PROVE OneInFlight'
    BY <1>1, <1>6, <2>1, <2>5 DEF Return, CallRecord
  <2>6. CASE Abandon(c)
    BY <1>1, <1>6, <2>1, <2>6 DEF Abandon, CallRecord
  <2>7. CASE AbandonRejected(c)
    BY <1>1, <1>6, <2>1, <2>7 DEF AbandonRejected, CallRecord
  <2> QED BY <1>4, <1>7, <2>2, <2>3, <2>4, <2>5, <2>6, <2>7 DEF CallStep
<1>8. CASE Crash
  BY <1>8 DEF Crash, IdleCall, Busy, OneInFlight
<1> QED BY <1>2, <1>3, <1>7, <1>8 DEF Next, ListFirst, ListNext, vars, memory

(* The slots that are taken are those of the requests at work, one each.   *)
THEOREM SlotsAreExact == Spec => []OneInFlight
<1>1. Init => OneInFlight
  BY DEF Init, OneInFlight, Busy, IdleCall
<1>2. Typed /\ OneInFlight /\ [Next]_vars => OneInFlight'
  BY OneInFlightStep
<1> QED BY <1>1, <1>2, TypedInvariant, PTL DEF Spec

------------------------------------------------------------------------------
(* The journal, and the work that is done under it. *)

Working(c) == call[c].at \in {"handle", "settle"}

(* An entry belongs to its operation, and its revisions have been given.   *)
Entries == \A o \in Ops : journal[o] = NoEntry \/
  /\ journal[o].request \in Request /\ journal[o].request.op = o
  /\ journal[o].intent \in 1..last.event
  /\ \/ journal[o].outcome = 0 /\ journal[o].state = "STARTED"
     \/ journal[o].outcome \in 1..last.event /\ journal[o].state \in Outcome

(* A receipt belongs to a record, and names the request it comes from.     *)
Receipts == \A o \in Ops : abandonment[o] = NoReceipt \/
  /\ abandonment[o].revision \in 1..last.abandonment
  /\ abandonment[o].seen \in 0..last.event
  /\ abandonment[o].source \in Request
  /\ abandonment[o].source.target = o
  /\ journal[abandonment[o].source.op].request = abandonment[o].source
  /\ journal[o] # NoEntry

(* Work goes on under an open intent of its own, and nobody shares it.     *)
Intents ==
  /\ \A c \in Calls : Working(c) =>
       /\ journal[call[c].request.op].request = call[c].request
       /\ journal[call[c].request.op].outcome = 0
  /\ \A c, d \in Calls :
       Working(c) /\ Working(d) /\ call[c].request.op = call[d].request.op => c = d

(* A call knows whether its operation has had its effect, and its outcome  *)
(* says so.                                                                *)
Deeds ==
  /\ \A o \in Ops : effects[o] \in {0, 1} /\ (journal[o] = NoEntry => effects[o] = 0)
  /\ \A c \in Calls :
       /\ call[c].at = "claim" => ~call[c].performed
       /\ call[c].at = "handle" /\ call[c].request.type = "abandon" => ~call[c].performed
       /\ Working(c) => effects[call[c].request.op] = IF call[c].performed THEN 1 ELSE 0
       /\ call[c].at = "settle" =>
            /\ call[c].outcome = "CONFIRMED" => call[c].performed
            /\ call[c].outcome \in {"PENDING", "REJECTED"} => ~call[c].performed

WorkInv == Typed /\ Entries /\ Receipts /\ Intents /\ Deeds

(* Work has a request. *)
LEMMA WorkingRequest ==
  ASSUME Typed
  PROVE  \A c \in Calls : Working(c) => call[c].request \in Request /\ call[c].request.op \in Ops
<1> SUFFICES ASSUME NEW c \in Calls, Working(c)
             PROVE  call[c].request \in Request /\ call[c].request.op \in Ops
  OBVIOUS
<1>1. call[c].request \in Request
  BY DEF Working, Typed, AtWork, Busy
<1> QED BY <1>1, RequestFields

(* Nothing is recorded or done at first. *)
LEMMA WorkInvInit == Init => WorkInv
BY InitTyped DEF Init, WorkInv, Entries, Receipts, Intents, Deeds, Working, IdleCall

(* An entry is one as long as it stays and revisions only grow.            *)
LEMMA SameJournal ==
  ASSUME WorkInv, Typed', UNCHANGED <<journal, last, effects, abandonment>>,
         \A c \in Calls : Working(c)' => Working(c) /\ call'[c] = call[c],
         \A c \in Calls : call'[c].at = "claim" => ~call'[c].performed
  PROVE  WorkInv'
<1>1. Entries' /\ Receipts'
  BY DEF WorkInv, Entries, Receipts
<1>2. Intents'
  BY DEF WorkInv, Intents, Working
<1>3. Deeds'
  BY DEF WorkInv, Deeds, Working
<1> QED BY <1>1, <1>2, <1>3 DEF WorkInv

(* One call goes on, under the entry it has. *)
LEMMA ClaimKeeps ==
  ASSUME WorkInv, Typed', NEW c \in Calls, Claim(c)
  PROVE  WorkInv'
<1> DEFINE r == call[c].request
<1>1. /\ call \in [Calls -> CallRecord] /\ call[c] \in CallRecord
      /\ journal \in [Ops -> Entry] /\ last.event \in Nat
      /\ last'.event = last.event + 1 /\ last'.abandonment = last.abandonment
  BY DEF Claim, WorkInv, Typed, TypeOK
<1>2. r \in Request /\ r.op \in Ops /\ r # None /\ journal[r.op] = NoEntry
  BY RequestFields DEF Claim, Claimable, WorkInv, Typed, AtWork, Busy
<1>3. /\ journal'[r.op] = [request |-> r, intent |-> last.event + 1, outcome |-> 0,
                           state |-> "STARTED"]
      /\ \A o \in Ops \ {r.op} : journal'[o] = journal[o]
  BY <1>1, <1>2 DEF Claim
<1>4. /\ call'[c].at = "handle" /\ call'[c].request = r
      /\ call'[c].performed = FALSE /\ call[c].at = "claim"
      /\ \A d \in Calls \ {c} : call'[d] = call[d]
  BY <1>1 DEF Claim, CallRecord, WorkInv, Deeds
<1>5. \A d \in Calls : Working(d) => call[d].request.op # r.op /\ d # c
  <2>1. \A d \in Calls : Working(d) => call[d].request \in Request
    BY DEF Working, WorkInv, Typed, AtWork, Busy
  <2>2. journal[r.op].request \notin Request
    BY <1>2, NoneAssumption DEF NoEntry
  <2> SUFFICES ASSUME NEW d \in Calls, Working(d)
               PROVE  call[d].request.op # r.op /\ d # c
    OBVIOUS
  <2>3. journal[call[d].request.op].request = call[d].request
    BY DEF WorkInv, Intents
  <2>4. d # c
    BY <1>4 DEF Working
  <2> QED BY <2>1, <2>2, <2>3, <2>4
<1>6. Entries'
  BY <1>1, <1>2, <1>3 DEF WorkInv, Entries, NoEntry
<1>7. Receipts'
  <2>1. \A o \in Ops : abandonment[o].source \in Request => abandonment[o].source.op \in Ops
    BY RequestFields
  <2>2. abandonment' = abandonment
    BY DEF Claim
  <2> QED BY <1>1, <1>2, <1>3, <2>1, <2>2, NoneAssumption DEF WorkInv, Receipts, NoEntry
<1>8. Intents'
  <2>1. \A d \in Calls \ {c} : Working(d)' => Working(d) /\ call'[d] = call[d]
    BY <1>4 DEF Working
  <2>2. \A d \in Calls : Working(d) => call[d].request.op \in Ops
    BY WorkingRequest DEF WorkInv
  <2>3. \A d \in Calls : Working(d)' =>
          /\ journal'[call'[d].request.op].request = call'[d].request
          /\ journal'[call'[d].request.op].outcome = 0
    <3> SUFFICES ASSUME NEW d \in Calls, Working(d)'
                 PROVE  /\ journal'[call'[d].request.op].request = call'[d].request
                        /\ journal'[call'[d].request.op].outcome = 0
      OBVIOUS
    <3>1. CASE d = c
      BY <1>3, <1>4, <3>1
    <3>2. CASE d # c
      BY <1>3, <1>5, <2>1, <2>2, <3>2 DEF WorkInv, Intents
    <3> QED BY <3>1, <3>2
  <2>4. \A d, e \in Calls :
          Working(d)' /\ Working(e)' /\ call'[d].request.op = call'[e].request.op => d = e
    BY <1>4, <1>5, <2>1 DEF WorkInv, Intents
  <2> QED BY <2>3, <2>4 DEF Intents
<1>9. Deeds'
  <2>1. effects' = effects /\ effects[r.op] = 0
    BY <1>2 DEF Claim, history, WorkInv, Deeds
  <2>2. \A o \in Ops : journal'[o] = NoEntry => journal[o] = NoEntry
    BY <1>2, <1>3
  <2>3. \A d \in Calls : d = c \/ call'[d] = call[d]
    BY <1>4
  <2> QED BY <1>4, <2>1, <2>2, <2>3 DEF WorkInv, Deeds, Working
<1> QED BY <1>6, <1>7, <1>8, <1>9 DEF WorkInv

(* The handler performs its change, the first under this entry. *)
LEMMA PerformKeeps ==
  ASSUME WorkInv, Typed', NEW c \in Calls, Perform(c)
  PROVE  WorkInv'
<1> DEFINE r == call[c].request
<1>1. /\ call \in [Calls -> CallRecord] /\ call[c] \in CallRecord
      /\ effects \in [Ops -> Nat]
  BY DEF WorkInv, Typed, TypeOK
<1>2. r \in Request /\ r.op \in Ops /\ r # None /\ Working(c)
  BY RequestFields DEF Perform, Working, WorkInv, Typed, AtWork, Busy
<1>3. /\ call'[c].at = "handle" /\ call'[c].request = r /\ call'[c].performed = TRUE
      /\ r.type = "work" /\ ~call[c].performed
      /\ \A d \in Calls \ {c} : call'[d] = call[d]
  BY <1>1 DEF Perform, CallRecord
<1>4. effects[r.op] = 0
  BY <1>2, <1>3 DEF WorkInv, Deeds
<1>5. effects'[r.op] = 1 /\ \A o \in Ops \ {r.op} : effects'[o] = effects[o]
  BY <1>1, <1>2, <1>4 DEF Perform
<1>6. UNCHANGED <<journal, abandonment, last>>
  BY DEF Perform, durable
<1>7. \A d \in Calls : /\ Working(d)' <=> Working(d)
                       /\ call'[d].request = call[d].request
  BY <1>2, <1>3 DEF Working
<1>8. Entries' /\ Receipts' /\ Intents'
  BY <1>6, <1>7 DEF WorkInv, Entries, Receipts, Intents
<1>9. Deeds'
  <2>1. journal[r.op] # NoEntry
    BY <1>2 DEF WorkInv, Intents, NoEntry
  <2>2. \A d \in Calls : Working(d) => call[d].request.op \in Ops
    BY WorkingRequest DEF WorkInv
  <2>3. \A d \in Calls \ {c} : Working(d) => call[d].request.op # r.op
    BY <1>2 DEF WorkInv, Intents
  <2> QED BY <1>2, <1>3, <1>5, <1>6, <1>7, <2>1, <2>2, <2>3 DEF WorkInv, Deeds
<1> QED BY <1>8, <1>9 DEF WorkInv

(* A handler returns without having changed anything more. *)
LEMMA ReturnKeeps ==
  ASSUME WorkInv, Typed', NEW c \in Calls, NEW outcome \in Outcome,
         call[c].at = "handle",
         call'[c].at = "settle", call'[c].request = call[c].request,
         call'[c].performed = call[c].performed, call'[c].outcome = outcome,
         \A d \in Calls \ {c} : call'[d] = call[d],
         outcome = "CONFIRMED" => call[c].performed,
         outcome \in {"PENDING", "REJECTED"} => ~call[c].performed,
         UNCHANGED <<journal, abandonment, last, effects>>
  PROVE  WorkInv'
<1>1. \A d \in Calls : /\ Working(d)' <=> Working(d)
                       /\ call'[d].request = call[d].request
                       /\ call'[d].performed = call[d].performed
  BY DEF Working
<1>2. Entries' /\ Receipts'
  BY DEF WorkInv, Entries, Receipts
<1>3. Intents'
  <2>1. Intents
    BY DEF WorkInv
  <2> QED BY <1>1, <2>1 DEF Intents
<1>4. Deeds'
  <2>1. Deeds
    BY DEF WorkInv
  <2> QED BY <1>1, <2>1 DEF Deeds
<1> QED BY <1>2, <1>3, <1>4 DEF WorkInv

(* The receipt of an abandonment comes from a recorded request. *)
LEMMA AbandonKeeps ==
  ASSUME WorkInv, Typed', NEW c \in Calls, Abandon(c)
  PROVE  WorkInv'
<1> DEFINE r == call[c].request
<1>1. /\ call \in [Calls -> CallRecord] /\ call[c] \in CallRecord
      /\ abandonment \in [Ops -> Receipt] /\ effects \in [Ops -> Nat]
      /\ last \in [event : Nat, abandonment : Nat]
  BY DEF WorkInv, Typed, TypeOK
<1>2. Working(c) /\ r \in Request /\ r.op \in Ops /\ r.target \in Ops
  <2>1. Working(c)
    BY DEF Abandon, Working
  <2>2. r \in Request
    BY <2>1, WorkingRequest DEF WorkInv
  <2> QED BY <2>1, <2>2, RequestFields DEF Abandon
<1>3. /\ call'[c].at = "settle" /\ call'[c].request = r
      /\ call'[c].performed = TRUE /\ call'[c].outcome = "CONFIRMED"
      /\ \A d \in Calls \ {c} : call'[d] = call[d]
  BY <1>1 DEF Abandon, CallRecord
<1>4. journal' = journal /\ journal[r.target] # NoEntry /\ journal[r.op].request = r
  BY DEF Abandon, CanAbandon
<1>5. /\ abandonment'[r.target] = [revision |-> last.abandonment + 1, source |-> r,
                                   seen |-> last.event]
      /\ \A o \in Ops \ {r.target} : abandonment'[o] = abandonment[o]
      /\ last'.event = last.event /\ last'.abandonment = last.abandonment + 1
  BY <1>1, <1>2 DEF Abandon
<1>6. effects'[r.op] = 1 /\ \A o \in Ops \ {r.op} : effects'[o] = effects[o]
  <2>1. effects[r.op] = 0
    BY <1>2 DEF Abandon, WorkInv, Deeds
  <2> QED BY <1>1, <1>2, <2>1 DEF Abandon
<1>7. \A d \in Calls : /\ Working(d)' <=> Working(d)
                       /\ call'[d].request = call[d].request
  BY <1>2, <1>3 DEF Working
<1>8. Entries' /\ Intents'
  BY <1>4, <1>5, <1>7 DEF WorkInv, Entries, Intents
<1>9. Receipts'
  BY <1>1, <1>2, <1>4, <1>5 DEF WorkInv, Receipts, NoReceipt
<1>10. Deeds'
  <2>1. journal[r.op] # NoEntry
    BY <1>2, <1>4, NoneAssumption DEF NoEntry
  <2>2. \A d \in Calls : Working(d) => call[d].request.op \in Ops
    BY WorkingRequest DEF WorkInv
  <2>3. \A d \in Calls \ {c} : Working(d) => call[d].request.op # r.op
    BY <1>2 DEF WorkInv, Intents
  <2> QED BY <1>2, <1>3, <1>4, <1>6, <1>7, <2>1, <2>2, <2>3 DEF WorkInv, Deeds
<1> QED BY <1>8, <1>9, <1>10 DEF WorkInv

(* What an outcome does to the journal. *)
LEMMA Settled ==
  ASSUME WorkInv, NEW c \in Calls, Settle(c)
  PROVE  LET r == call[c].request IN
         /\ Working(c) /\ r \in Request /\ r.op \in Ops
         /\ journal[r.op].request = r /\ journal[r.op].outcome = 0
         /\ journal[r.op] # NoEntry /\ journal[r.op].state = "STARTED"
         /\ journal'[r.op].request = r
         /\ journal'[r.op].intent = journal[r.op].intent
         /\ journal'[r.op].outcome = last.event + 1
         /\ journal'[r.op].state = call[c].outcome
         /\ \A o \in Ops \ {r.op} : journal'[o] = journal[o]
         /\ last.event \in Nat
         /\ last'.event = last.event + 1 /\ last'.abandonment = last.abandonment
<1> DEFINE r == call[c].request
<1>1. journal \in [Ops -> Entry] /\ last \in [event : Nat, abandonment : Nat]
  BY DEF WorkInv, Typed, TypeOK
<1>2. Working(c)
  BY DEF Settle, Working
<1>3. r \in Request /\ r.op \in Ops
  BY <1>2, WorkingRequest DEF WorkInv
<1>4. journal[r.op].request = r /\ journal[r.op].outcome = 0
  BY DEF Settle, OutcomeOpen
<1>5. journal[r.op] # NoEntry
  BY <1>3, <1>4, NoneAssumption DEF NoEntry
<1>6. journal[r.op].state = "STARTED"
  BY <1>3, <1>4, <1>5 DEF WorkInv, Entries
<1>7. last'.event = last.event + 1 /\ last'.abandonment = last.abandonment
  BY <1>1 DEF Settle
<1>8. /\ journal'[r.op].request = r
      /\ journal'[r.op].intent = journal[r.op].intent
      /\ journal'[r.op].outcome = last.event + 1
      /\ journal'[r.op].state = call[c].outcome
      /\ \A o \in Ops \ {r.op} : journal'[o] = journal[o]
  BY <1>1, <1>3, <1>4 DEF Settle, Entry
<1> QED BY <1>1, <1>2, <1>3, <1>4, <1>5, <1>6, <1>7, <1>8

(* A call that ends is at work no more. *)
LEMMA Finished ==
  ASSUME Typed, NEW c \in Calls, Finish(c)
  PROVE  /\ call'[c] = IdleCall
         /\ \A d \in Calls \ {c} : call'[d] = call[d]
         /\ \A d \in Calls : Working(d)' => Working(d) /\ d # c
<1>1. call'[c] = IdleCall /\ \A d \in Calls \ {c} : call'[d] = call[d]
  BY DEF Finish, Typed, TypeOK
<1> QED BY <1>1 DEF Working, IdleCall

(* The outcome is the one the call knows of. *)
LEMMA SettleKeeps ==
  ASSUME WorkInv, Typed', NEW c \in Calls, Settle(c)
  PROVE  WorkInv'
<1> DEFINE r == call[c].request
<1>1. /\ call'[c].at = "idle"
      /\ \A d \in Calls \ {c} : call'[d] = call[d]
      /\ \A d \in Calls : Working(d)' => Working(d) /\ d # c
  BY Finished DEF Settle, WorkInv, IdleCall
<1>2. /\ Working(c) /\ r \in Request /\ r.op \in Ops
      /\ journal[r.op].request = r /\ journal[r.op] # NoEntry
      /\ journal'[r.op].request = r
      /\ journal'[r.op].intent = journal[r.op].intent
      /\ journal'[r.op].outcome = last.event + 1
      /\ journal'[r.op].state = call[c].outcome
      /\ \A o \in Ops \ {r.op} : journal'[o] = journal[o]
      /\ last.event \in Nat
      /\ last'.event = last.event + 1 /\ last'.abandonment = last.abandonment
  BY Settled
<1>3. call[c].outcome \in Outcome
  BY DEF Settle, WorkInv, Typed, AtWork
<1>4. abandonment' = abandonment /\ effects' = effects
  BY DEF Settle
<1>5. Entries'
  BY <1>2, <1>3 DEF WorkInv, Entries
<1>6. Receipts'
  <2>1. \A o \in Ops : abandonment[o].source \in Request => abandonment[o].source.op \in Ops
    BY RequestFields
  <2>2. journal'[r.op] # NoEntry
    BY <1>2, NoneAssumption DEF NoEntry
  <2>3. \A o \in Ops : journal'[o].request = journal[o].request
    BY <1>2
  <2> QED BY <1>2, <1>4, <2>1, <2>2, <2>3 DEF WorkInv, Receipts
<1>7. \A d \in Calls : Working(d)' =>
        /\ Working(d) /\ call'[d] = call[d]
        /\ call[d].request.op \in Ops \ {r.op}
  <2>1. \A d \in Calls : Working(d) /\ d # c => call[d].request.op \in Ops \ {r.op}
    BY <1>2, WorkingRequest DEF WorkInv, Intents
  <2> QED BY <1>1, <2>1
<1>8. Intents'
  <2>1. Intents
    BY DEF WorkInv
  <2> QED BY <1>2, <1>7, <2>1 DEF Intents
<1>9. Deeds'
  <2>1. Deeds
    BY DEF WorkInv
  <2>2. \A o \in Ops : journal'[o] = NoEntry => journal[o] = NoEntry
    BY <1>2, NoneAssumption DEF NoEntry
  <2>3. \A d \in Calls : d = c \/ call'[d] = call[d]
    BY <1>1
  <2> QED BY <1>1, <1>4, <1>7, <2>1, <2>2, <2>3 DEF Deeds
<1> QED BY <1>5, <1>6, <1>8, <1>9 DEF WorkInv

(* Every step keeps the journal's account. *)
LEMMA WorkInvStep ==
  ASSUME WorkInv, [Next]_vars
  PROVE  WorkInv'
<1>1. Typed /\ Typed'
  BY StepTyped DEF WorkInv
<1>2. CASE UNCHANGED <<journal, last, effects, abandonment, call>>
  <2>1. \A c \in Calls : Working(c)' => Working(c) /\ call'[c] = call[c]
    BY <1>2 DEF Working
  <2> QED BY <1>1, <1>2, <2>1, SameJournal DEF WorkInv, Deeds
<1>3. CASE SessionStep
  BY <1>2, <1>3 DEF SessionStep, RevokePairing, RequestOpenChallenge, OpenSession,
     RequestRefreshChallenge, Issue, RevokeSession, RefreshSession, TurnAway, Accept,
     memory, history
<1>4. ASSUME NEW c \in Calls, Finish(c), UNCHANGED <<journal, last, effects, abandonment>>
      PROVE  WorkInv'
  <2>1. \A d \in Calls : call'[d].at = "claim" => ~call'[d].performed
    BY <1>1, <1>4, Finished DEF WorkInv, Deeds, IdleCall
  <2>2. \A d \in Calls : Working(d)' => Working(d) /\ call'[d] = call[d]
    BY <1>1, <1>4, Finished
  <2> QED BY <1>1, <1>4, <2>1, <2>2, SameJournal
<1>5. ASSUME NEW c \in Calls, NEW s \in Sessions, NEW g \in 1..MaxGeneration,
             NEW k \in 1..MaxCounter, NEW q \in Arriving, Dispatch(c, s, g, k, q)
      PROVE  WorkInv'
  <2>1. /\ call'[c].at = "claim" /\ call'[c].performed = FALSE
        /\ \A d \in Calls \ {c} : call'[d] = call[d]
    BY <1>1, <1>5 DEF Dispatch, Typed, TypeOK
  <2>2. \A d \in Calls : call'[d].at = "claim" => ~call'[d].performed
    BY <2>1 DEF WorkInv, Deeds
  <2>3. \A d \in Calls : Working(d)' => Working(d) /\ call'[d] = call[d]
    BY <2>1 DEF Working
  <2>4. UNCHANGED <<journal, last, effects, abandonment>>
    BY <1>5 DEF Dispatch, Accept, history
  <2> QED BY <1>1, <2>2, <2>3, <2>4, SameJournal
<1>6. ASSUME NEW c \in Calls, CallStep(c) PROVE WorkInv'
  <2>1. call \in [Calls -> CallRecord] /\ call[c] \in CallRecord
    BY <1>1 DEF Typed, TypeOK
  <2>2. CASE Replay(c) \/ ClaimFails(c) \/ SettleFails(c)
    BY <1>4, <2>2 DEF Replay, ClaimFails, SettleFails, durable, history
  <2>3. ASSUME NEW outcome \in Outcome, Return(c, outcome) PROVE WorkInv'
    <3>1. /\ call'[c].at = "settle" /\ call'[c].request = call[c].request
          /\ call'[c].performed = call[c].performed /\ call'[c].outcome = outcome
          /\ \A d \in Calls \ {c} : call'[d] = call[d]
      BY <2>1, <2>3 DEF Return, CallRecord
    <3>2. UNCHANGED <<journal, abandonment, last, effects>>
      BY <2>3 DEF Return, durable, history
    <3> QED BY <1>1, <2>3, <3>1, <3>2, ReturnKeeps DEF Return
  <2>4. CASE AbandonRejected(c)
    <3>1. /\ call'[c].at = "settle" /\ call'[c].request = call[c].request
          /\ call'[c].performed = call[c].performed /\ call'[c].outcome = "REJECTED"
          /\ \A d \in Calls \ {c} : call'[d] = call[d]
      BY <2>1, <2>4 DEF AbandonRejected, CallRecord
    <3>2. UNCHANGED <<journal, abandonment, last, effects>>
      BY <2>4 DEF AbandonRejected, durable, history
    <3>3. ~call[c].performed /\ "REJECTED" \in Outcome
      BY <2>4 DEF AbandonRejected, WorkInv, Deeds, Outcome
    <3> QED BY <1>1, <2>4, <3>1, <3>2, <3>3, ReturnKeeps DEF AbandonRejected
  <2> QED BY <1>1, <1>5, <1>6, <2>2, <2>3, <2>4, ClaimKeeps, PerformKeeps, AbandonKeeps,
          SettleKeeps DEF CallStep
<1>7. CASE Crash
  <2>1. \A c \in Calls : call'[c].at = "idle"
    BY <1>7 DEF Crash, IdleCall
  <2>2. \A c \in Calls : Working(c)' => Working(c) /\ call'[c] = call[c]
    BY <2>1 DEF Working
  <2>3. UNCHANGED <<journal, last, effects, abandonment>>
    BY <1>7 DEF Crash, durable, history
  <2> QED BY <1>1, <2>1, <2>2, <2>3, SameJournal
<1> QED BY <1>2, <1>3, <1>6, <1>7 DEF Next, ListFirst, ListNext, vars, durable, memory, history

(* The journal's account of the work holds at all times. *)
LEMMA WorkInvariant == Spec => []WorkInv
BY WorkInvInit, WorkInvStep, PTL DEF Spec

(* Every operation has its effect at most once, under its recorded intent. *)
THEOREM EffectAtMostOnce == Spec => []AtMostOnce
<1>1. WorkInv => AtMostOnce
  BY DEF WorkInv, Deeds, AtMostOnce
<1> QED BY <1>1, WorkInvariant, PTL

------------------------------------------------------------------------------
(* What a step does to the durable tables: entries begin once and settle   *)
(* once, a receipt is written once, and both bear new revisions.           *)

Begins(o) == /\ journal[o] = NoEntry
             /\ journal'[o].intent = last.event + 1 /\ journal'[o].outcome = 0
             /\ journal'[o].state = "STARTED" /\ journal'[o].request \in Request

Settles(o) == /\ journal[o] # NoEntry /\ journal[o].outcome = 0
              /\ journal[o].state = "STARTED"
              /\ journal'[o].request = journal[o].request
              /\ journal'[o].intent = journal[o].intent
              /\ journal'[o].outcome = last.event + 1

Abandons(o) == /\ abandonment[o].revision = 0
               /\ journal[o] # NoEntry /\ journal' = journal
               /\ abandonment'[o].revision = last.abandonment + 1
               /\ abandonment'[o].seen = last.event
               /\ journal[o].outcome # 0 =>
                    journal[o].outcome = abandonment'[o].source.event

(* An abandonment writes one receipt, of a record that had none. *)
LEMMA AbandonWrites ==
  ASSUME WorkInv, NEW c \in Calls, Abandon(c)
  PROVE  /\ call[c].request.op \in Ops /\ call[c].request.target \in Ops
         /\ Abandons(call[c].request.target)
         /\ \A o \in Ops \ {call[c].request.target} : abandonment'[o] = abandonment[o]
<1> DEFINE r == call[c].request
           t == r.target
<1>1. abandonment \in [Ops -> Receipt] /\ abandonment[t] \in Receipt
      /\ r.op \in Ops /\ t \in Ops
  <2>1. r \in Request
    BY WorkingRequest DEF Abandon, Working, WorkInv
  <2>2. r.op \in Ops /\ t \in Ops
    BY <2>1, RequestFields DEF Abandon
  <2> QED BY <2>2 DEF WorkInv, Typed, TypeOK
<1>2. CanAbandon(r) /\ journal' = journal
  BY DEF Abandon
<1>3. Record(t).state \in {"pending", "unknown"} /\ LatestEvent(t) = r.event
      /\ journal[t] # NoEntry
  BY <1>2 DEF CanAbandon, Record
<1>4. abandonment[t].revision = 0
  BY <1>3 DEF Record, PublicState
<1>5. journal[t].outcome # 0 => journal[t].outcome = r.event
  BY <1>3 DEF LatestEvent
<1>6. /\ abandonment'[t] = [revision |-> last.abandonment + 1, source |-> r,
                            seen |-> last.event]
      /\ \A o \in Ops \ {t} : abandonment'[o] = abandonment[o]
  BY <1>1 DEF Abandon
<1> QED BY <1>1, <1>2, <1>3, <1>4, <1>5, <1>6 DEF Abandons

(* A claim begins one entry. *)
LEMMA ClaimWrites ==
  ASSUME WorkInv, NEW c \in Calls, Claim(c)
  PROVE  LET r == call[c].request IN
         /\ r \in Request /\ r.op \in Ops /\ Begins(r.op)
         /\ \A o \in Ops \ {r.op} : journal'[o] = journal[o]
<1> DEFINE r == call[c].request
<1>1. journal \in [Ops -> Entry] /\ last \in [event : Nat, abandonment : Nat]
  BY DEF WorkInv, Typed, TypeOK
<1>2. r \in Request /\ r.op \in Ops
  BY RequestFields DEF Claim, WorkInv, Typed, AtWork, Busy
<1>3. journal' = [journal EXCEPT ![r.op] =
        [request |-> r, intent |-> last.event + 1, outcome |-> 0, state |-> "STARTED"]]
  BY DEF Claim
<1>4. journal[r.op] = NoEntry
  BY DEF Claim, Claimable
<1> QED BY <1>1, <1>2, <1>3, <1>4 DEF Begins

(* No step writes the tables otherwise. *)
LEMMA TableStep ==
  ASSUME WorkInv, [Next]_vars
  PROVE  /\ last'.event \in Nat /\ last'.event >= last.event
         /\ last'.abandonment \in Nat /\ last'.abandonment >= last.abandonment
         /\ \A o \in Ops : journal'[o] = journal[o] \/ Begins(o) \/ Settles(o)
         /\ \A o \in Ops : abandonment'[o] = abandonment[o] \/ Abandons(o)
<1> DEFINE Tables ==
         /\ last'.event \in Nat /\ last'.event >= last.event
         /\ last'.abandonment \in Nat /\ last'.abandonment >= last.abandonment
         /\ \A o \in Ops : journal'[o] = journal[o] \/ Begins(o) \/ Settles(o)
         /\ \A o \in Ops : abandonment'[o] = abandonment[o] \/ Abandons(o)
<1> SUFFICES Tables
  OBVIOUS
<1>1. /\ last.event \in Nat /\ last.abandonment \in Nat
      /\ last \in [event : Nat, abandonment : Nat]
  BY DEF WorkInv, Typed, TypeOK
<1>2. CASE UNCHANGED <<journal, abandonment, last>>
  BY <1>1, <1>2
<1>3. ASSUME NEW c \in Calls, Claim(c) PROVE Tables
  <2>1. /\ last'.event = last.event + 1 /\ last'.abandonment = last.abandonment
        /\ abandonment' = abandonment
    BY <1>1, <1>3 DEF Claim
  <2> QED BY <1>1, <1>3, <2>1, ClaimWrites
<1>4. ASSUME NEW c \in Calls, Settle(c) PROVE Tables
  <2>1. \A o \in Ops : journal'[o] = journal[o] \/ Settles(o)
    BY <1>4, Settled DEF Settles
  <2>2. /\ last'.event = last.event + 1 /\ last'.abandonment = last.abandonment
        /\ abandonment' = abandonment
    BY <1>1, <1>4 DEF Settle
  <2> QED BY <1>1, <2>1, <2>2
<1>5. ASSUME NEW c \in Calls, Abandon(c) PROVE Tables
  <2>1. /\ last'.event = last.event /\ last'.abandonment = last.abandonment + 1
        /\ journal' = journal
    BY <1>1, <1>5 DEF Abandon
  <2> QED BY <1>1, <1>5, <2>1, AbandonWrites
<1>6. ASSUME SessionStep PROVE Tables
  BY <1>2, <1>6 DEF SessionStep, RevokePairing, RequestOpenChallenge, OpenSession,
     RequestRefreshChallenge, Issue, RevokeSession, RefreshSession, TurnAway, Accept
<1>7. ASSUME NEW c \in Calls, CallStep(c) PROVE Tables
  BY <1>2, <1>3, <1>4, <1>5, <1>7 DEF CallStep, Dispatch, Accept, Replay, ClaimFails,
     Perform, Return, AbandonRejected, SettleFails, durable
<1> QED BY <1>2, <1>6, <1>7 DEF Next, ListFirst, ListNext, Crash, vars, durable

(* An answer was told from the entry that is still there. *)
LEMMA AnswersStep ==
  ASSUME WorkInv, AnswersAgree, [Next]_vars
  PROVE  AnswersAgree'
<1> DEFINE Agrees(a) == /\ a.asked = a.request
                        /\ journal'[a.asked.op].request = a.asked
                        /\ journal'[a.asked.op].state = a.state
<1>1. \A a \in answers : Agrees(a)
  <2> SUFFICES ASSUME NEW a \in answers PROVE Agrees(a)
    OBVIOUS
  <2>1. a.asked \in Request /\ a.state \in Outcome
    BY DEF WorkInv, Typed, TypeOK
  <2>2. a.asked.op \in Ops
    BY <2>1, RequestFields
  <2>3. /\ a.asked = a.request /\ journal[a.asked.op].request = a.asked
        /\ journal[a.asked.op].state = a.state
    BY DEF AnswersAgree
  <2>4. journal[a.asked.op] # NoEntry /\ journal[a.asked.op].state # "STARTED"
    BY <2>1, <2>3, NoneAssumption DEF NoEntry, Outcome
  <2>5. journal'[a.asked.op] = journal[a.asked.op]
    BY <2>2, <2>4, TableStep DEF Begins, Settles
  <2> QED BY <2>3, <2>5
<1>2. ASSUME NEW c \in Calls, Answer(c), journal'[call[c].request.op].request = call[c].request
      PROVE  \A a \in answers' : Agrees(a)
  BY <1>1, <1>2 DEF Answer
<1>3. ASSUME NEW c \in Calls, CallStep(c) PROVE \A a \in answers' : Agrees(a)
  <2>1. CASE Replay(c)
    BY <1>2, <2>1 DEF Replay, Replayable, durable
  <2>2. CASE Settle(c)
    <3>1. journal'[call[c].request.op].request = call[c].request
      BY <2>2, Settled
    <3> QED BY <1>1, <1>2, <2>2, <3>1 DEF Settle
  <2>3. CASE UNCHANGED answers
    BY <1>1, <2>3
  <2> QED BY <1>3, <2>1, <2>2, <2>3 DEF CallStep, Dispatch, Accept, Claim, ClaimFails,
     Perform, Return, Abandon, AbandonRejected, SettleFails, history
<1>4. ASSUME UNCHANGED answers PROVE \A a \in answers' : Agrees(a)
  BY <1>1, <1>4
<1>5. ASSUME SessionStep PROVE \A a \in answers' : Agrees(a)
  BY <1>4, <1>5 DEF SessionStep, RevokePairing, RequestOpenChallenge, OpenSession,
     RequestRefreshChallenge, Issue, RevokeSession, RefreshSession, TurnAway, Accept, history
<1>6. \A a \in answers' : Agrees(a)
  BY <1>3, <1>4, <1>5 DEF Next, ListFirst, ListNext, Crash, vars, history
<1> QED BY <1>6 DEF AnswersAgree

(* Every answer still agrees with the journal, request and outcome.        *)
THEOREM AnswersStayTrue == Spec => []AnswersAgree
<1>1. Init => AnswersAgree
  BY DEF Init, AnswersAgree
<1> QED BY <1>1, WorkInvariant, AnswersStep, PTL DEF Spec

(* Every step keeps abandonments informed. *)
LEMMA InformedStep ==
  ASSUME WorkInv, AbandonInformed, [Next]_vars
  PROVE  AbandonInformed'
<1>1. WorkInv'
  BY WorkInvStep
<1> SUFFICES ASSUME NEW o \in Ops, abandonment'[o].revision # 0
             PROVE  LET r == abandonment'[o].source IN
                    /\ journal'[r.op].request = r /\ r.target = o
                    /\ journal'[o].outcome # 0 =>
                         journal'[o].outcome = r.event \/ journal'[o].outcome > abandonment'[o].seen
  BY DEF AbandonInformed
<1> DEFINE r == abandonment'[o].source
<1>2. journal'[r.op].request = r /\ r.target = o
  BY <1>1 DEF WorkInv, Receipts, NoReceipt
<1>3. CASE Abandons(o)
  BY <1>2, <1>3 DEF Abandons
<1>4. CASE abandonment'[o] = abandonment[o]
  <2>1. /\ abandonment[o].seen \in 0..last.event /\ journal[o] # NoEntry
        /\ last.event \in Nat
    BY <1>4 DEF WorkInv, Receipts, NoReceipt, Typed, TypeOK
  <2>2. journal[o].outcome # 0 =>
          journal[o].outcome = r.event \/ journal[o].outcome > abandonment[o].seen
    BY <1>4 DEF AbandonInformed
  <2> QED BY <1>2, <1>4, <2>1, <2>2, TableStep DEF Begins, Settles
<1> QED BY <1>3, <1>4, TableStep

(* No receipt covers an outcome that its author had not seen.              *)
THEOREM AbandonmentIsInformed == Spec => []AbandonInformed
<1>1. Init => AbandonInformed
  BY DEF Init, AbandonInformed, NoReceipt
<1> QED BY <1>1, WorkInvariant, InformedStep, PTL DEF Spec

------------------------------------------------------------------------------
(* Pages of a listing. *)

(* What a snapshot shows of the operations it covers does not change.      *)
LEMMA RowsKept ==
  ASSUME WorkInv, [Next]_vars, UNCHANGED listing,
         listing.event <= last.event, listing.abandonment <= last.abandonment
  PROVE  Rows(listing.event, listing.abandonment, listing.after, listing.states)'
           = Rows(listing.event, listing.abandonment, listing.after, listing.states)
<1> DEFINE event == listing.event
           receipt == listing.abandonment
           after == listing.after
           Covered(o) == journal[o].intent > after /\ journal[o].intent <= event
<1>1. /\ event \in Nat /\ receipt \in Nat /\ after \in Nat
      /\ last.event \in Nat /\ last.abandonment \in Nat
      /\ journal \in [Ops -> Entry] /\ abandonment \in [Ops -> Receipt]
  BY DEF WorkInv, Typed, TypeOK, Listing
<1>2. \A o \in Ops : Covered(o)' <=> Covered(o)
  BY <1>1, TableStep DEF Begins, Settles, NoEntry
<1>3. \A o \in Ops : Covered(o) => AsOf(o, event, receipt)' = AsOf(o, event, receipt)
  <2> SUFFICES ASSUME NEW o \in Ops, Covered(o)
               PROVE  AsOf(o, event, receipt)' = AsOf(o, event, receipt)
    OBVIOUS
  <2>1. journal[o] # NoEntry
    BY <1>1 DEF NoEntry
  <2>2. /\ journal'[o].intent = journal[o].intent
        /\ \/ journal'[o] = journal[o]
           \/ journal[o].outcome = 0 /\ journal'[o].outcome > event
    BY <1>1, <2>1, TableStep DEF Begins, Settles
  <2>3. \/ abandonment'[o] = abandonment[o]
        \/ abandonment[o].revision = 0 /\ abandonment'[o].revision > receipt
    BY <1>1, TableStep DEF Abandons
  <2>4. event' = event /\ receipt' = receipt
    OBVIOUS
  <2>5. (journal'[o].outcome # 0 /\ journal'[o].outcome <= event)
          <=> (journal[o].outcome # 0 /\ journal[o].outcome <= event)
    <3>1. journal'[o].outcome \in Nat
      BY WorkInvStep DEF WorkInv, Typed, TypeOK, Entry
    <3> QED BY <1>1, <2>2, <3>1
  <2>6. (abandonment'[o].revision # 0 /\ abandonment'[o].revision <= receipt)
          <=> (abandonment[o].revision # 0 /\ abandonment[o].revision <= receipt)
    <3>1. abandonment'[o].revision \in Nat
      BY WorkInvStep DEF WorkInv, Typed, TypeOK, Receipt
    <3> QED BY <1>1, <2>3, <3>1
  <2> QED BY <2>2, <2>3, <2>4, <2>5, <2>6 DEF AsOf
<1>4. {p \in Ops : Covered(p)}' = {p \in Ops : Covered(p)}
  BY <1>2
<1>5. {AsOf(o, event, receipt) : o \in {p \in Ops : Covered(p)}}'
        = {AsOf(o, event, receipt) : o \in {p \in Ops : Covered(p)}}
  BY <1>3, <1>4
<1> QED BY <1>5 DEF Rows, Matching

(* The rows after a full page are those it has left out. *)
LEMMA PageLeaves ==
  ASSUME NEW rows, IsFiniteSet(rows), rows \subseteq Item,
         NEW final \in FirstOf(rows), \A row \in FirstOf(rows) : row.intent <= final.intent
  PROVE  {row \in rows : row.intent > final.intent} = rows \ FirstOf(rows)
<1>1. \A row \in rows : row.intent \in Nat
  BY DEF Item
<1>2. FirstOf(rows) \subseteq rows
  BY DEF FirstOf
<1>3. ASSUME NEW row \in rows, row.intent <= final.intent PROVE row \in FirstOf(rows)
  <2> DEFINE before(r) == {q \in rows : q.intent < r.intent}
  <2>1. IsFiniteSet(before(final)) /\ before(row) \subseteq before(final)
    BY <1>1, <1>2, <1>3, FS_Subset
  <2>2. Cardinality(before(row)) <= Cardinality(before(final))
    BY <2>1, FS_Subset
  <2>3. Cardinality(before(final)) < PageSize
    BY DEF FirstOf
  <2>4. Cardinality(before(row)) \in Nat /\ Cardinality(before(final)) \in Nat
    BY <2>1, FS_Subset, FS_CardinalityType
  <2>5. PageSize \in Nat
    BY ConstantsAssumption
  <2> QED BY <2>2, <2>3, <2>4, <2>5 DEF FirstOf
<1> QED BY <1>1, <1>2, <1>3

(* A page is cut from finitely many rows. *)
LEMMA RowsFinite ==
  ASSUME NEW event, NEW receipt, NEW after, NEW states
  PROVE  IsFiniteSet(Rows(event, receipt, after, states))
<1> DEFINE covered == {p \in Ops : journal[p].intent > after /\ journal[p].intent <= event}
           shown == {AsOf(o, event, receipt) : o \in covered}
<1>1. IsFiniteSet(covered)
  BY ConstantsAssumption, FS_Subset
<1>2. IsFiniteSet(shown)
  <2> DEFINE f == [o \in covered |-> AsOf(o, event, receipt)]
  <2>1. f \in [covered -> shown] /\ \A t \in shown : \E o \in covered : f[o] = t
    OBVIOUS
  <2>2. f \in Surjection(covered, shown)
    BY <2>1, Fun_IsSurj
  <2> QED BY <1>1, <2>2, FS_Surjection
<1>3. Rows(event, receipt, after, states) \subseteq shown
  BY DEF Rows, Matching
<1> QED BY <1>2, <1>3, FS_Subset

(* The rows that a later page looks at are among those of an earlier one.  *)
LEMMA RowsAfter ==
  ASSUME TypeOK, NEW event \in Nat, NEW receipt \in Nat, NEW after \in Nat, NEW states,
         NEW final \in Rows(event, receipt, after, states)
  PROVE  Rows(event, receipt, final.intent, states)
           = {row \in Rows(event, receipt, after, states) : row.intent > final.intent}
<1>1. \A o \in Ops : AsOf(o, event, receipt).intent = journal[o].intent
  BY DEF AsOf
<1>2. \A o \in Ops : journal[o].intent \in Nat
  BY DEF TypeOK, Entry
<1>3. final.intent \in Nat /\ final.intent > after
  BY <1>1, <1>2 DEF Rows, Matching
<1> QED BY <1>1, <1>2, <1>3 DEF Rows, Matching

(* A page leaves what it does not show. *)
LEMMA ShowPageKeeps ==
  ASSUME WorkInv, NEW l \in Listing, ShowPage(l), UNCHANGED <<journal, abandonment>>,
         Rows(l.event, l.abandonment, l.after, l.states) = l.rest
  PROVE  listing'.open =>
           /\ listing'.event = l.event /\ listing'.abandonment = l.abandonment
           /\ Rows(l.event, l.abandonment, listing'.after, l.states) = listing'.rest
           /\ listing'.states = l.states
<1> DEFINE rows == Rows(l.event, l.abandonment, l.after, l.states)
           page == FirstOf(rows)
<1>1. CASE listing' = NoListing
  BY <1>1 DEF NoListing
<1>2. ASSUME NEW final \in page, \A row \in page : row.intent <= final.intent,
             listing' = [l EXCEPT !.open = TRUE, !.after = final.intent, !.rest = @ \ page]
      PROVE  /\ listing'.event = l.event /\ listing'.abandonment = l.abandonment
             /\ Rows(l.event, l.abandonment, listing'.after, l.states) = listing'.rest
             /\ listing'.states = l.states
  <2>1. l.event \in Nat /\ l.abandonment \in Nat /\ l.after \in Nat
    BY DEF Listing
  <2>2. TypeOK /\ rows \subseteq Item /\ IsFiniteSet(rows) /\ page \subseteq rows
    BY <2>1, RowsTyped, RowsFinite DEF WorkInv, Typed, FirstOf
  <2>3. Rows(l.event, l.abandonment, final.intent, l.states)
          = {row \in rows : row.intent > final.intent}
    BY <1>2, <2>1, <2>2, RowsAfter
  <2>4. {row \in rows : row.intent > final.intent} = rows \ page
    BY <1>2, <2>2, PageLeaves
  <2>5. /\ listing'.event = l.event /\ listing'.abandonment = l.abandonment
        /\ listing'.after = final.intent /\ listing'.rest = l.rest \ page
        /\ listing'.states = l.states
    BY <1>2 DEF Listing
  <2> QED BY <2>3, <2>4, <2>5
<1> QED BY <1>1, <1>2 DEF ShowPage

(* The cursor of an open listing bears revisions that have been given. *)
PageInv == /\ WorkInv
           /\ listing.open => /\ listing.event <= last.event
                              /\ listing.abandonment <= last.abandonment
           /\ PagesAreSnapshot

(* The first page begins with all that matches. *)
LEMMA ListFirstKeeps ==
  ASSUME PageInv, Typed', NEW states \in Filters, ListFirst(states)
  PROVE  PageInv'
<1> DEFINE began == {Record(o) : o \in {p \in Ops : journal[p] # NoEntry}}
           l == [open |-> TRUE, states |-> states, event |-> last.event,
                 abandonment |-> last.abandonment, after |-> 0,
                 rest |-> Matching(began, states)]
<1>1. /\ last.event \in Nat /\ last.abandonment \in Nat
      /\ journal \in [Ops -> Entry] /\ abandonment \in [Ops -> Receipt]
      /\ Entries /\ Receipts
  BY DEF PageInv, WorkInv, Typed, TypeOK
<1>2. \A o \in Ops : journal[o] # NoEntry <=>
        journal[o].intent > 0 /\ journal[o].intent <= last.event
  BY <1>1 DEF Entries, NoEntry
<1>3. \A o \in Ops : journal[o] # NoEntry =>
        AsOf(o, last.event, last.abandonment) = Record(o)
  <2> SUFFICES ASSUME NEW o \in Ops, journal[o] # NoEntry
               PROVE  AsOf(o, last.event, last.abandonment) = Record(o)
    OBVIOUS
  <2>1. /\ journal[o].outcome \in Nat /\ abandonment[o].revision \in Nat
        /\ journal[o].outcome <= last.event
        /\ journal[o].outcome = 0 => journal[o].state = "STARTED"
    BY <1>1 DEF Entries, Entry, Receipt, Outcome
  <2>2. abandonment[o].revision <= last.abandonment
    BY <1>1 DEF Receipts, NoReceipt
  <2> QED BY <1>1, <2>1, <2>2 DEF AsOf, Record, LatestEvent
<1>4. Rows(last.event, last.abandonment, 0, states) = Matching(began, states)
  <2>1. {p \in Ops : journal[p].intent > 0 /\ journal[p].intent <= last.event}
          = {p \in Ops : journal[p] # NoEntry}
    BY <1>2
  <2>2. {AsOf(o, last.event, last.abandonment) :
           o \in {p \in Ops : journal[p].intent > 0 /\ journal[p].intent <= last.event}}
          = began
    BY <1>3, <2>1
  <2> QED BY <2>2 DEF Rows
<1>5. l \in Listing
  <2>1. l.rest \subseteq Item
    BY RecordTyped DEF Matching, PageInv, WorkInv, Typed
  <2> QED BY <1>1, <2>1 DEF Listing
<1>6. UNCHANGED <<journal, abandonment, last>>
  BY DEF ListFirst, durable
<1>7. ShowPage(l) /\ Rows(l.event, l.abandonment, l.after, l.states) = l.rest
  BY <1>4 DEF ListFirst
<1>8. WorkInv
  BY DEF PageInv
<1> HIDE DEF l
<1>9. listing'.open =>
        /\ listing'.event = l.event /\ listing'.abandonment = l.abandonment
        /\ Rows(l.event, l.abandonment, listing'.after, l.states) = listing'.rest
        /\ listing'.states = l.states
  BY <1>5, <1>6, <1>7, <1>8, ShowPageKeeps
<1>10. WorkInv'
  BY <1>8, WorkInvStep DEF Next
<1>11. PagesAreSnapshot'
  BY <1>6, <1>9 DEF PagesAreSnapshot, Rows, AsOf
<1>12. l.event = last.event /\ l.abandonment = last.abandonment
  BY DEF l
<1> QED BY <1>1, <1>6, <1>9, <1>10, <1>11, <1>12 DEF PageInv

(* A later page goes on where the one before it ended. *)
LEMMA ListNextKeeps ==
  ASSUME PageInv, ListNext
  PROVE  PageInv'
<1>1. /\ WorkInv /\ listing \in Listing /\ listing.open /\ ShowPage(listing)
      /\ Rows(listing.event, listing.abandonment, listing.after, listing.states) = listing.rest
      /\ listing.event <= last.event /\ listing.abandonment <= last.abandonment
      /\ UNCHANGED <<journal, abandonment, last>>
  BY DEF ListNext, durable, PageInv, PagesAreSnapshot, WorkInv, Typed, TypeOK
<1>2. listing'.open =>
        /\ listing'.event = listing.event /\ listing'.abandonment = listing.abandonment
        /\ Rows(listing.event, listing.abandonment, listing'.after, listing.states) = listing'.rest
        /\ listing'.states = listing.states
  BY <1>1, ShowPageKeeps
<1>3. WorkInv'
  BY <1>1, WorkInvStep DEF Next
<1>4. PagesAreSnapshot'
  BY ZenonT(60), <1>1, <1>2 DEF PagesAreSnapshot, Rows, AsOf
<1> QED BY <1>1, <1>2, <1>3, <1>4 DEF PageInv

(* Every step keeps what the pages still have to show. *)
LEMMA PageInvStep ==
  ASSUME PageInv, [Next]_vars
  PROVE  PageInv'
<1>1. WorkInv /\ WorkInv' /\ Typed'
  BY WorkInvStep DEF PageInv, WorkInv
<1>2. CASE UNCHANGED listing
  <2>1. /\ last'.event >= last.event /\ last'.abandonment >= last.abandonment
        /\ last'.event \in Nat /\ last'.abandonment \in Nat
        /\ last.event \in Nat /\ last.abandonment \in Nat
        /\ listing.event \in Nat /\ listing.abandonment \in Nat
    BY <1>1, TableStep DEF WorkInv, Typed, TypeOK, Listing
  <2>2. CASE ~listing.open
    BY <1>1, <1>2, <2>2 DEF PageInv, PagesAreSnapshot
  <2>3. CASE listing.open
    <3>1. listing.event <= last.event /\ listing.abandonment <= last.abandonment
      BY <2>3 DEF PageInv
    <3>2. Rows(listing.event, listing.abandonment, listing.after, listing.states)'
            = Rows(listing.event, listing.abandonment, listing.after, listing.states)
      BY <1>1, <1>2, <3>1, RowsKept
    <3>3. PagesAreSnapshot'
      BY <1>2, <2>3, <3>2 DEF PageInv, PagesAreSnapshot
    <3> QED BY <1>1, <1>2, <2>1, <3>1, <3>3 DEF PageInv
  <2> QED BY <2>2, <2>3
<1>3. CASE SessionStep
  BY <1>2, <1>3 DEF SessionStep, RevokePairing, RequestOpenChallenge, OpenSession,
     RequestRefreshChallenge, Issue, RevokeSession, RefreshSession, TurnAway, Accept
<1>4. ASSUME NEW c \in Calls, CallStep(c) PROVE PageInv'
  BY <1>2, <1>4 DEF CallStep, Dispatch, Accept, Claim, Replay, ClaimFails, Perform, Return,
     Abandon, AbandonRejected, Settle, SettleFails
<1> QED BY <1>1, <1>2, <1>3, <1>4, ListFirstKeeps, ListNextKeeps DEF Next, Crash, vars

(* The pages of a listing show one state of the journal, each record once. *)
THEOREM ListingIsSnapshot == Spec => []PagesAreSnapshot
<1>1. Init => PageInv
  BY WorkInvInit DEF Init, PageInv, PagesAreSnapshot, NoListing
<1>2. PageInv => PagesAreSnapshot
  BY DEF PageInv
<1> QED BY <1>1, <1>2, PageInvStep, PTL DEF Spec

------------------------------------------------------------------------------
(* The contract. *)

Shows == [o \in Ops |-> Shown(o)]

(* The contract begins with nothing on record. *)
LEMMA ContractInit == Init => Contract!Init
BY DEF Init, Contract!Init, Shown

(* What is not written is shown as before. *)
LEMMA ShownKept ==
  \A o \in Ops : journal'[o] = journal[o] /\ abandonment'[o] = abandonment[o]
                   => Shown(o)' = Shown(o)
BY DEF Shown, Record, LatestEvent

(* Every step is one of the contract, or none. *)
LEMMA ContractStep ==
  ASSUME WorkInv, WorkInv', [Next]_vars
  PROVE  [Contract!Next]_Contract!vars
<1>1. CASE UNCHANGED <<journal, abandonment, effects>>
  <2>1. Shows' = Shows
    BY <1>1, ShownKept DEF Shows
  <2> QED BY <1>1, <2>1 DEF Contract!vars, Shows
<1>2. ASSUME NEW c \in Calls, Claim(c) PROVE Contract!Next
  <2>1. PICK o \in Ops :
          /\ o = call[c].request.op /\ Begins(o)
          /\ \A p \in Ops \ {o} : journal'[p] = journal[p]
          /\ abandonment' = abandonment /\ effects' = effects
    BY <1>2, ClaimWrites DEF Claim, history
  <2>2. Shown(o) = "none"
    BY <2>1 DEF Begins, Shown
  <2>3. abandonment[o].revision = 0
    BY <2>1 DEF Begins, WorkInv, Receipts, NoReceipt
  <2>4. journal'[o] # NoEntry
    BY <2>1, NoneAssumption DEF Begins, NoEntry
  <2>5. Shown(o)' = "unknown"
    BY <2>1, <2>3, <2>4, PublicNames DEF Begins, Shown, Record, PublicState
  <2>6. Shows' = [Shows EXCEPT ![o] = "unknown"]
    BY <2>1, <2>5, ShownKept DEF Shows
  <2>7. Contract!Begin(o)
    BY <2>1, <2>2, <2>6 DEF Contract!Begin, Shows
  <2> QED BY <2>1, <2>7 DEF Contract!Next
<1>3. ASSUME NEW c \in Calls, Working(c)
      PROVE  /\ call[c].request.op \in Ops
             /\ Shown(call[c].request.op) \in {"unknown", "abandoned"}
             /\ effects[call[c].request.op] = IF call[c].performed THEN 1 ELSE 0
  <2> DEFINE o == call[c].request.op
  <2>1. o \in Ops /\ call[c].request \in Request
    BY <1>3, WorkingRequest DEF WorkInv
  <2>2. journal[o].request = call[c].request /\ journal[o].outcome = 0
    BY <1>3 DEF WorkInv, Intents
  <2>3. journal[o] # NoEntry
    BY <2>1, <2>2, NoneAssumption DEF NoEntry
  <2>4. journal[o].state = "STARTED"
    BY <2>1, <2>2, <2>3 DEF WorkInv, Entries
  <2>5. Shown(o) \in {"unknown", "abandoned"}
    BY <2>3, <2>4, PublicNames DEF Shown, Record, PublicState
  <2> QED BY <1>3, <2>1, <2>5 DEF WorkInv, Deeds
<1>4. ASSUME NEW c \in Calls, Perform(c) PROVE Contract!Next
  <2> DEFINE o == call[c].request.op
  <2>1. /\ o \in Ops /\ Shown(o) \in {"unknown", "abandoned"} /\ effects[o] = 0
    BY <1>3, <1>4 DEF Perform, Working
  <2>2. effects' = [effects EXCEPT ![o] = 1]
    BY <1>4, <2>1 DEF Perform
  <2>3. Shows' = Shows
    BY <1>4, ShownKept DEF Perform, durable, Shows
  <2>4. Contract!Act(o)
    BY <2>1, <2>2, <2>3 DEF Contract!Act, Contract!Acts, Shows
  <2> QED BY <2>1, <2>4 DEF Contract!Next
<1>5. ASSUME NEW c \in Calls, Abandon(c) PROVE Contract!Next
  <2>1. PICK o \in Ops :
          /\ o = call[c].request.op /\ Shown(o) \in {"unknown", "abandoned"}
          /\ effects[o] = 0
    BY <1>3, <1>5 DEF Abandon, Working, WorkInv, Deeds
  <2>2. PICK t \in Ops :
          /\ t = call[c].request.target /\ t # o /\ Abandons(t)
          /\ \A p \in Ops \ {t} : abandonment'[p] = abandonment[p]
    BY <1>5, <2>1, AbandonWrites DEF Abandon, CanAbandon
  <2>3. Shown(t) \in {"unknown", "pending"}
    BY <1>5, <2>2 DEF Abandon, CanAbandon, Shown
  <2>4. abandonment'[t].revision # 0
    <3>1. last.abandonment \in Nat
      BY DEF WorkInv, Typed, TypeOK
    <3> QED BY <2>2, <3>1 DEF Abandons
  <2>5. Shown(t)' = "abandoned"
    BY <2>2, <2>4 DEF Abandons, Shown, Record, PublicState
  <2>6. Shows' = [Shows EXCEPT ![t] = "abandoned"]
    BY <2>2, <2>5, ShownKept DEF Abandons, Shows
  <2>7. effects' = [effects EXCEPT ![o] = 1]
    BY <1>5, <2>1 DEF Abandon
  <2>8. Contract!Abandon(o, t)
    BY <2>1, <2>2, <2>3, <2>6, <2>7 DEF Contract!Abandon, Contract!Acts, Shows
  <2> QED BY <2>1, <2>2, <2>8 DEF Contract!Next
<1>6. ASSUME NEW c \in Calls, Settle(c) PROVE [Contract!Next]_Contract!vars
  <2>1. PICK o \in Ops :
          /\ o = call[c].request.op /\ Working(c) /\ journal[o] # NoEntry
          /\ journal'[o].state = call[c].outcome
          /\ journal'[o].request = call[c].request /\ call[c].request \in Request
          /\ \A p \in Ops \ {o} : journal'[p] = journal[p]
    BY <1>6, Settled
  <2>2. abandonment' = abandonment /\ effects' = effects /\ call[c].outcome \in Outcome
    BY <1>6 DEF Settle, WorkInv, Typed, AtWork
  <2>3. journal'[o] # NoEntry
    BY <2>1, NoneAssumption DEF NoEntry
  <2>4. /\ Shown(o) = PublicState(journal[o].state, abandonment[o].revision # 0)
        /\ Shown(o)' = PublicState(call[c].outcome, abandonment[o].revision # 0)
    BY <2>1, <2>2, <2>3 DEF Shown, Record
  <2>5. Shown(o) \in {"unknown", "abandoned"}
    BY <1>3, <2>1
  <2>6. \A s : Shown(o)' = s => Shows' = [Shows EXCEPT ![o] = s]
    BY <2>1, <2>2, ShownKept DEF Shows
  <2>7. CASE Shown(o)' = Shown(o)
    <3>1. Shows' = Shows
      BY <2>1, <2>6, <2>7 DEF Shows
    <3> QED BY <2>2, <3>1 DEF Contract!vars, Shows
  <2>8. CASE Shown(o)' # Shown(o)
    <3>1. abandonment[o].revision = 0 /\ Shown(o) = "unknown"
      <4>1. abandonment[o].revision = 0
        BY <2>4, <2>8 DEF PublicState
      <4>2. Shown(o) # "abandoned"
        BY <2>4, <4>1, PublicNames DEF PublicState
      <4> QED BY <2>5, <4>1, <4>2
    <3>2. \/ call[c].outcome = "CONFIRMED" /\ Shown(o)' = "confirmed"
          \/ call[c].outcome = "PENDING" /\ Shown(o)' = "pending"
          \/ call[c].outcome = "REJECTED" /\ Shown(o)' = "rejected"
      BY <2>2, <2>4, <2>8, <3>1, PublicNames DEF PublicState, Outcome
    <3>3. /\ call[c].outcome = "CONFIRMED" => effects[o] = 1
          /\ call[c].outcome \in {"PENDING", "REJECTED"} => effects[o] = 0
      BY <1>3, <1>6, <2>1 DEF Settle, WorkInv, Deeds
    <3>4. ASSUME NEW s \in {"confirmed", "pending", "rejected"}, Shown(o)' = s,
                 \/ s = "confirmed" /\ effects[o] = 1
                 \/ s \in {"pending", "rejected"} /\ effects[o] = 0
          PROVE  Contract!Settle(o, s)
      BY <2>1, <2>2, <2>6, <3>1, <3>4 DEF Contract!Settle, Shows
    <3>5. \/ Contract!Settle(o, "confirmed") \/ Contract!Settle(o, "pending")
          \/ Contract!Settle(o, "rejected")
      BY <3>2, <3>3, <3>4
    <3> QED BY <2>1, <3>5 DEF Contract!Next
  <2> QED BY <2>7, <2>8
<1>7. CASE SessionStep
  BY <1>1, <1>7 DEF SessionStep, RevokePairing, RequestOpenChallenge, OpenSession,
     RequestRefreshChallenge, Issue, RevokeSession, RefreshSession, TurnAway, Accept, history
<1>8. ASSUME NEW c \in Calls, CallStep(c) PROVE [Contract!Next]_Contract!vars
  BY <1>1, <1>2, <1>4, <1>5, <1>6, <1>8 DEF CallStep, Dispatch, Accept, Replay, ClaimFails,
     Return, AbandonRejected, SettleFails, durable, history
<1> QED BY <1>1, <1>7, <1>8 DEF Next, ListFirst, ListNext, Crash, vars, durable, history

(* What is shown of an operation never contradicts what it did, and once   *)
(* settled or abandoned stays as it is.                                    *)
THEOREM JournalImplementsContract == Spec => ImplementsContract
<1>1. WorkInv /\ WorkInv' /\ [Next]_vars => [Contract!Next]_Contract!vars
  BY ContractStep
<1> QED BY <1>1, ContractInit, WorkInvariant, PTL DEF Spec, ImplementsContract, Contract!Spec
==============================================================================
