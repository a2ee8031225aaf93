--------------------------- MODULE RemoteOperations ---------------------------
(***************************************************************************)
(* Mutations that a paired device asks for over the network: its sessions, *)
(* the admission of its signed requests, and the journal that keeps a      *)
(* retry from doing the work twice.                                        *)
(*                                                                         *)
(* The server is one Node process with one request pipeline; it answers    *)
(* several requests at once and a request gives way to the others wherever *)
(* the code awaits.  What it keeps in memory, the calls and the sessions   *)
(* that are busy, is lost when it crashes.  The SQLite tables survive, and *)
(* every action that changes them is one immediate transaction.            *)
(*                                                                         *)
(* The network loses, delays, repeats and reorders requests, and the       *)
(* device signs retries with new counters through any of its sessions, so  *)
(* a request arrives with any counter and any content at any time.  A      *)
(* request that is refused outright changes nothing but the audit trail    *)
(* and is no step here.  Neither is the passing of time: a session or a    *)
(* challenge that has expired is one that no request names any more (the   *)
(* update of its row to EXPIRED is undone with the refusal it belongs to). *)
(***************************************************************************)
EXTENDS Naturals, FiniteSets

CONSTANTS
  Sessions,       \* sessions the device may open
  Nonces,         \* challenges the server may issue
  Ops,            \* operation identities the device uses
  Bodies,         \* contents of a mutation request
  Calls,          \* requests the pipeline works on at once
  Filters,        \* sets of states a listing asks for; the empty set for all
  PageSize,       \* operations on a page of a listing
  MaxCounter,     \* bound on the counter of a session
  MaxGeneration,  \* bound on the generations of a session
  None            \* no request, no session

ASSUME ConstantsAssumption ==
  /\ IsFiniteSet(Ops)
  /\ PageSize \in Nat \ {0}

VARIABLES
  pairing,      \* state of the device's pairing
  session,      \* latest generation of each session
  challenge,    \* what each challenge may be used for
  journal,      \* the intent and the outcome event of each operation
  abandonment,  \* the abandonment receipt of each operation
  last,         \* last revision given to an event and to a receipt
  active,       \* memory: session revisions with a request at work
  call,         \* memory: the requests the pipeline works on
  listing,      \* a listing the device pages through
  effects,      \* history: how often each operation had its effect
  spent,        \* history: how often each challenge was accepted
  answers       \* history: results the device was given

durable == <<pairing, session, challenge, journal, abandonment, last>>
memory  == <<active, call>>
history == <<effects, spent, answers>>
vars    == <<durable, memory, listing, history>>

(* A result is stored whole, and replayed; of its content only the outcome *)
(* and the request it answers are told apart.                              *)
Outcome == {"CONFIRMED", "PENDING", "REJECTED", "UNKNOWN"}

(* An abandonment names the record it has seen by the revisions that its   *)
(* digest covers: of the latest event and of the abandonment receipt.      *)
Request ==
  [op : Ops, type : {"work"}, body : Bodies] \cup
  [op : Ops, type : {"abandon"}, target : Ops, event : Nat, abandonment : Nat]

ASSUME NoneAssumption == None \notin Request

NoEntry == [request |-> None, intent |-> 0, outcome |-> 0, state |-> "none"]
NoReceipt == [revision |-> 0, source |-> None, seen |-> 0]
IdleCall == [at |-> "idle", session |-> None, generation |-> 0,
             request |-> None, performed |-> FALSE, outcome |-> "none"]
NoListing == [open |-> FALSE, states |-> {}, event |-> 0, abandonment |-> 0,
              after |-> 0, rest |-> {}]

Init ==
  /\ pairing = "PAIRED"
  /\ session = [s \in Sessions |-> [generation |-> 0, state |-> "NONE", counter |-> 0]]
  /\ challenge = [n \in Nonces |-> [purpose |-> "none", session |-> None,
                                    generation |-> 0]]
  /\ journal = [o \in Ops |-> NoEntry]
  /\ abandonment = [o \in Ops |-> NoReceipt]
  /\ last = [event |-> 0, abandonment |-> 0]
  /\ active = {}
  /\ call = [c \in Calls |-> IdleCall]
  /\ listing = NoListing
  /\ effects = [o \in Ops |-> 0]
  /\ spent = [n \in Nonces |-> 0]
  /\ answers = {}

------------------------------------------------------------------------------
(* Sessions *)

Current(s, k) ==
  /\ pairing = "PAIRED"
  /\ session[s].state = "ACTIVE"
  /\ k > session[s].counter

Challenges(n, purpose, s, g) ==
  challenge[n] = [purpose |-> purpose, session |-> s, generation |-> g]

(* Mutant of Consume: the challenge is looked up and never marked. *)
LookUp(n) ==
  /\ UNCHANGED challenge
  /\ spent' = [spent EXCEPT ![n] = @ + 1]

Consume(n) ==
  /\ challenge' = [challenge EXCEPT ![n].purpose = "consumed"]
  /\ spent' = [spent EXCEPT ![n] = @ + 1]

Issue(n, purpose, s, g) ==
  /\ challenge[n].purpose = "none"
  /\ challenge' = [challenge EXCEPT ![n] =
       [purpose |-> purpose, session |-> s, generation |-> g]]
  /\ UNCHANGED <<pairing, session, journal, abandonment, last, memory, listing, history>>

RequestOpenChallenge(n) ==
  /\ pairing = "PAIRED"
  /\ Issue(n, "OPEN", None, 0)

RequestRefreshChallenge(n, s) ==
  /\ pairing = "PAIRED" /\ session[s].state = "ACTIVE"
  /\ Issue(n, "REFRESH", s, session[s].generation)

(* Mutant of OpenSession: a challenge is taken for a paired device. *)
OpenOnChallenge(s, n) ==
  /\ session[s].state = "NONE"
  /\ Challenges(n, "OPEN", None, 0) /\ Consume(n)
  /\ session' = [session EXCEPT ![s] =
       [generation |-> 1, state |-> "ACTIVE", counter |-> 0]]
  /\ UNCHANGED <<pairing, journal, abandonment, last, memory, listing, effects, answers>>

OpenSession(s, n) ==
  /\ pairing = "PAIRED"
  /\ session[s].state = "NONE"
  /\ Challenges(n, "OPEN", None, 0) /\ Consume(n)
  /\ session' = [session EXCEPT ![s] =
       [generation |-> 1, state |-> "ACTIVE", counter |-> 0]]
  /\ UNCHANGED <<pairing, journal, abandonment, last, memory, listing, effects, answers>>

(* Mutant of Renewed: the counter of the new generation begins again. *)
CountedAnew(row, k) == [row EXCEPT !.generation = @ + 1, !.counter = 0]

(* Mutant of Renewed: the old row is closed and none inserted. *)
ClosedOnly(row, k) == [row EXCEPT !.state = "REFRESHED", !.counter = k]

(* The row that a refresh inserts. *)
Renewed(row, k) == [generation |-> row.generation + 1, state |-> "ACTIVE", counter |-> k]

RefreshSession(s, n, k) ==
  /\ Current(s, k)
  /\ session[s].generation < MaxGeneration
  /\ Challenges(n, "REFRESH", s, session[s].generation) /\ Consume(n)
  /\ session' = [session EXCEPT ![s] = Renewed(@, k)]
  /\ UNCHANGED <<pairing, journal, abandonment, last, memory, listing, effects, answers>>

RevokeSession(s, k) ==
  /\ Current(s, k)
  /\ session' = [session EXCEPT ![s] =
       [generation |-> @.generation + 1, state |-> "REVOKED", counter |-> k]]
  /\ UNCHANGED <<pairing, challenge, journal, abandonment, last, memory, listing, history>>

RevokePairing ==
  /\ pairing = "PAIRED"
  /\ pairing' = "REVOKED"
  /\ session' = [s \in Sessions |->
       IF session[s].state = "ACTIVE" THEN [session[s] EXCEPT !.state = "REVOKED"]
                                      ELSE session[s]]
  /\ UNCHANGED <<challenge, journal, abandonment, last, memory, listing, history>>

------------------------------------------------------------------------------
(* Admission of an invocation.  The counter is consumed before the busy     *)
(* session is noticed; a request turned away for that leaves the slot to    *)
(* the one that holds it.                                                   *)

Revision(c) == <<call[c].session, call[c].generation>>

Accept(s, g, k) ==
  /\ Current(s, k)
  /\ session[s].generation = g
  /\ session' = [session EXCEPT ![s].counter = k]
  /\ UNCHANGED <<pairing, challenge, journal, abandonment, last, listing, history>>

Dispatch(c, s, g, k, r) ==
  /\ call[c].at = "idle"
  /\ Accept(s, g, k)
  /\ <<s, g>> \notin active
  /\ active' = active \cup {<<s, g>>}
  /\ call' = [call EXCEPT ![c] =
       [at |-> "claim", session |-> s, generation |-> g, request |-> r,
        performed |-> FALSE, outcome |-> "none"]]

(* Mutant of TurnAway: every reply releases the slot of its session. *)
TurnAwayReleasing(s, g, k) ==
  /\ Accept(s, g, k)
  /\ <<s, g>> \in active
  /\ active' = active \ {<<s, g>>}
  /\ UNCHANGED call

TurnAway(s, g, k) ==
  /\ Accept(s, g, k)
  /\ <<s, g>> \in active
  /\ UNCHANGED memory

(* Whatever the reply, the slot is released with it. *)
Finish(c) ==
  /\ active' = active \ {Revision(c)}
  /\ call' = [call EXCEPT ![c] = IdleCall]

Answer(c) ==
  LET entry == journal'[call[c].request.op]
  IN answers' = answers \cup
       {[asked |-> call[c].request, request |-> entry.request, state |-> entry.state]}

------------------------------------------------------------------------------
(* The journal around the handler *)

(* Mutant of Claimable: an interrupted operation is tried again. *)
NotSettled(r) == journal[r.op].outcome = 0

Claimable(r) == journal[r.op] = NoEntry

(* Mutant of Replayable: the digest of the request is not compared. *)
SameIdentity(r) == journal[r.op].state \in Outcome \ {"UNKNOWN"}

(* Only the result of the very same request is replayed. *)
Replayable(r) == /\ journal[r.op].request = r
                 /\ journal[r.op].state \in Outcome \ {"UNKNOWN"}

Claim(c) ==
  LET r == call[c].request IN
  /\ call[c].at = "claim"
  /\ Claimable(r)
  /\ journal' = [journal EXCEPT ![r.op] =
       [request |-> r, intent |-> last.event + 1, outcome |-> 0, state |-> "STARTED"]]
  /\ last' = [last EXCEPT !.event = @ + 1]
  /\ call' = [call EXCEPT ![c].at = "handle"]
  /\ UNCHANGED <<pairing, session, challenge, abandonment, active, listing, history>>

Replay(c) ==
  /\ call[c].at = "claim"
  /\ Replayable(call[c].request)
  /\ Finish(c)
  /\ UNCHANGED <<durable, listing, effects, spent>>
  /\ Answer(c)

(* Another request used the identity, or the outcome is not known, or the  *)
(* transaction fails.                                                      *)
ClaimFails(c) ==
  /\ call[c].at = "claim"
  /\ Finish(c)
  /\ UNCHANGED <<durable, listing, history>>

(* The mediator lets the handler perform its change once. *)
Perform(c) ==
  /\ call[c].at = "handle" /\ call[c].request.type = "work"
  /\ ~call[c].performed
  /\ call' = [call EXCEPT ![c].performed = TRUE]
  /\ effects' = [effects EXCEPT ![call[c].request.op] = @ + 1]
  /\ UNCHANGED <<durable, active, listing, spent, answers>>

(* A handler confirms what it performed, rejects or defers what it did     *)
(* not, and may throw in either case.                                      *)
Return(c, outcome) ==
  /\ call[c].at = "handle" /\ call[c].request.type = "work"
  /\ \/ outcome = "CONFIRMED" /\ call[c].performed
     \/ outcome \in {"PENDING", "REJECTED"} /\ ~call[c].performed
     \/ outcome = "UNKNOWN"
  /\ call' = [call EXCEPT ![c].at = "settle", ![c].outcome = outcome]
  /\ UNCHANGED <<durable, active, listing, history>>

(* What operation.get calls an outcome; anything else is unknown. *)
PublicName == [CONFIRMED |-> "confirmed", PENDING |-> "pending", REJECTED |-> "rejected"]

(* Mutant of PublicState: a late outcome outweighs the receipt. *)
OutcomeFirst(state, abandoned) ==
  IF state \in DOMAIN PublicName THEN PublicName[state]
  ELSE IF abandoned THEN "abandoned" ELSE "unknown"

(* The record of an operation: what operation.get shows, and the revisions *)
(* it is identified by.                                                    *)
PublicState(state, abandoned) ==
  IF abandoned THEN "abandoned"
  ELSE IF state \in DOMAIN PublicName THEN PublicName[state] ELSE "unknown"

LatestEvent(o) == IF journal[o].outcome = 0 THEN journal[o].intent ELSE journal[o].outcome

Record(o) == [op |-> o, intent |-> journal[o].intent, event |-> LatestEvent(o),
              abandonment |-> abandonment[o].revision,
              state |-> PublicState(journal[o].state, abandonment[o].revision # 0)]

(* Mutant of CanAbandon: whatever waits is abandoned, seen or not. *)
StillWaiting(r) ==
  /\ r.target # r.op
  /\ journal[r.target] # NoEntry
  /\ Record(r.target).state \in {"pending", "unknown"}

CanAbandon(r) ==
  LET target == Record(r.target) IN
  /\ r.target # r.op
  /\ journal[r.target] # NoEntry
  /\ target.event = r.event /\ target.abandonment = r.abandonment
  /\ target.state \in {"pending", "unknown"}

(* The handler of operation.abandon; its own intent is in the journal. *)
Abandon(c) ==
  LET r == call[c].request IN
  /\ call[c].at = "handle" /\ r.type = "abandon"
  /\ journal[r.op].request = r /\ journal[r.op].outcome = 0
  /\ CanAbandon(r)
  /\ abandonment' = [abandonment EXCEPT ![r.target] =
       [revision |-> last.abandonment + 1, source |-> r, seen |-> last.event]]
  /\ last' = [last EXCEPT !.abandonment = @ + 1]
  /\ effects' = [effects EXCEPT ![r.op] = @ + 1]
  /\ call' = [call EXCEPT ![c].at = "settle", ![c].performed = TRUE,
                          ![c].outcome = "CONFIRMED"]
  /\ UNCHANGED <<pairing, session, challenge, journal, active, listing, spent, answers>>

(* A stale, resolved or missing target, or a transaction that fails. *)
AbandonRejected(c) ==
  /\ call[c].at = "handle" /\ call[c].request.type = "abandon"
  /\ call' = [call EXCEPT ![c].at = "settle", ![c].outcome = "REJECTED"]
  /\ UNCHANGED <<durable, active, listing, history>>

OutcomeOpen(r) == journal[r.op].request = r /\ journal[r.op].outcome = 0

Settle(c) ==
  LET r == call[c].request IN
  /\ call[c].at = "settle"
  /\ OutcomeOpen(r)
  /\ journal' = [journal EXCEPT ![r.op].outcome = last.event + 1,
                                ![r.op].state = call[c].outcome]
  /\ last' = [last EXCEPT !.event = @ + 1]
  /\ Finish(c)
  /\ IF call[c].outcome = "UNKNOWN" THEN UNCHANGED answers ELSE Answer(c)
  /\ UNCHANGED <<pairing, session, challenge, abandonment, listing, effects, spent>>

(* The outcome cannot be stored: the caller learns nothing of it. *)
SettleFails(c) ==
  /\ call[c].at = "settle"
  /\ Finish(c)
  /\ UNCHANGED <<durable, listing, history>>

Crash ==
  /\ active' = {} /\ call' = [c \in Calls |-> IdleCall]
  /\ UNCHANGED <<durable, listing, history>>

------------------------------------------------------------------------------
(* A listing, a page at a time.  Its cursor carries the snapshot: the last *)
(* revisions when it began.  Reads are admitted like mutations, which is   *)
(* not repeated here.                                                      *)

(* Mutant of AsOf: the joins look at the events of today. *)
AsOfNow(o, event, receipt) == Record(o)

AsOf(o, event, receipt) ==
  LET settled   == journal[o].outcome # 0 /\ journal[o].outcome <= event
      abandoned == abandonment[o].revision # 0 /\ abandonment[o].revision <= receipt
  IN [op |-> o, intent |-> journal[o].intent,
      event |-> IF settled THEN journal[o].outcome ELSE journal[o].intent,
      abandonment |-> IF abandoned THEN abandonment[o].revision ELSE 0,
      state |-> PublicState(IF settled THEN journal[o].state ELSE "STARTED", abandoned)]

Matching(rows, states) == {row \in rows : states = {} \/ row.state \in states}

Rows(event, receipt, after, states) ==
  Matching({AsOf(o, event, receipt) :
              o \in {p \in Ops : journal[p].intent > after /\ journal[p].intent <= event}},
           states)

FirstOf(rows) ==
  {row \in rows : Cardinality({r \in rows : r.intent < row.intent}) < PageSize}

(* rest is what the pages still have to show of the records that matched  *)
(* when the listing began.                                                *)
ShowPage(l) ==
  LET rows == Rows(l.event, l.abandonment, l.after, l.states)
      page == FirstOf(rows)
  IN \/ page = rows /\ listing' = NoListing
     \/ /\ page # rows
        /\ \E final \in page :
             /\ \A row \in page : row.intent <= final.intent
             /\ listing' = [l EXCEPT !.open = TRUE, !.after = final.intent,
                                     !.rest = @ \ page]

ListFirst(states) ==
  /\ ~listing.open
  /\ ShowPage([open |-> TRUE, states |-> states, event |-> last.event,
               abandonment |-> last.abandonment, after |-> 0,
               rest |-> Matching({Record(o) : o \in {p \in Ops : journal[p] # NoEntry}},
                                 states)])
  /\ UNCHANGED <<durable, memory, history>>

ListNext ==
  /\ listing.open
  /\ ShowPage(listing)
  /\ UNCHANGED <<durable, memory, history>>

------------------------------------------------------------------------------
(* The requests that may arrive: an abandonment names a record as it is or *)
(* was.                                                                    *)
Arriving ==
  [op : Ops, type : {"work"}, body : Bodies] \cup
  UNION {[op : Ops, type : {"abandon"}, target : {t},
          event : {journal[t].intent, journal[t].outcome},
          abandonment : {0, abandonment[t].revision}] : t \in Ops}

SessionStep ==
  \/ RevokePairing
  \/ \E n \in Nonces : RequestOpenChallenge(n)
  \/ \E s \in Sessions :
       \/ \E n \in Nonces : RequestRefreshChallenge(n, s) \/ OpenSession(s, n)
       \/ \E k \in 1..MaxCounter :
            \/ RevokeSession(s, k)
            \/ \E n \in Nonces : RefreshSession(s, n, k)
            \/ \E g \in 1..MaxGeneration : TurnAway(s, g, k)

CallStep(c) ==
  \/ \E s \in Sessions, g \in 1..MaxGeneration, k \in 1..MaxCounter, r \in Arriving :
       Dispatch(c, s, g, k, r)
  \/ Claim(c) \/ Replay(c) \/ ClaimFails(c)
  \/ Perform(c) \/ \E outcome \in Outcome : Return(c, outcome)
  \/ Abandon(c) \/ AbandonRejected(c)
  \/ Settle(c) \/ SettleFails(c)

Next ==
  \/ SessionStep
  \/ \E c \in Calls : CallStep(c)
  \/ \E states \in Filters : ListFirst(states)
  \/ ListNext
  \/ Crash

Spec == Init /\ [][Next]_vars

------------------------------------------------------------------------------
(* Types of the variables. *)
States == {"none", "unknown", "pending", "confirmed", "rejected", "abandoned"}
Item   == [op : Ops, intent : Nat, event : Nat, abandonment : Nat, state : States]

SessionRow == [generation : Nat, state : {"NONE", "ACTIVE", "REVOKED"}, counter : Nat]
ChallengeRow == [purpose : {"none", "OPEN", "REFRESH", "consumed"},
                 session : Sessions \cup {None}, generation : Nat]
Entry == [request : Request \cup {None}, intent : Nat, outcome : Nat,
          state : Outcome \cup {"none", "STARTED"}]
Receipt == [revision : Nat, source : Request \cup {None}, seen : Nat]
CallRecord == [at : {"idle", "claim", "handle", "settle"},
               session : Sessions \cup {None}, generation : Nat,
               request : Request \cup {None}, performed : BOOLEAN,
               outcome : Outcome \cup {"none"}]
Listing == [open : BOOLEAN, states : Filters \cup {{}}, event : Nat, abandonment : Nat,
            after : Nat, rest : SUBSET Item]

TypeOK ==
  /\ pairing \in {"PAIRED", "REVOKED"}
  /\ session \in [Sessions -> SessionRow]
  /\ challenge \in [Nonces -> ChallengeRow]
  /\ journal \in [Ops -> Entry]
  /\ abandonment \in [Ops -> Receipt]
  /\ last \in [event : Nat, abandonment : Nat]
  /\ active \subseteq Sessions \X Nat
  /\ call \in [Calls -> CallRecord]
  /\ listing \in Listing
  /\ effects \in [Ops -> Nat]
  /\ spent \in [Nonces -> Nat]
  /\ answers \subseteq [asked : Request, request : Request, state : Outcome]

Busy(c) == call[c].at # "idle"

(* An operation has its effect at most once, and never before its intent   *)
(* is in the journal, through repeated requests, several sessions, lost    *)
(* outcomes and crashes (M7OperationJournal.run around the handler).       *)
AtMostOnce == \A o \in Ops :
  /\ effects[o] <= 1
  /\ effects[o] = 1 => journal[o] # NoEntry

(* Whatever the device was told of a request is the recorded outcome of    *)
(* that very request: a retry is told what the first answer said, and the  *)
(* result of another request under the same identity is never passed off   *)
(* as its own (claim, replayResult).                                       *)
AnswersAgree == \A a \in answers :
  /\ a.asked = a.request
  /\ journal[a.asked.op].request = a.asked
  /\ journal[a.asked.op].state = a.state

(* One request at a time works for a session revision, and the slot is     *)
(* held exactly as long: neither a request turned away nor a crash frees   *)
(* or keeps it wrongly (activeSessionRevisions in the pipeline).           *)
OneInFlight ==
  /\ active = {Revision(c) : c \in {d \in Calls : Busy(d)}}
  /\ \A c, d \in Calls : Busy(c) /\ Busy(d) /\ Revision(c) = Revision(d) => c = d

(* A receipt never covers an outcome that its author had not seen: the     *)
(* target's outcome is the one the request names or came after the         *)
(* receipt (expectedRevision in abandonOperation).                         *)
AbandonInformed == \A o \in Ops : abandonment[o].revision # 0 =>
  LET r == abandonment[o].source IN
  /\ journal[r.op].request = r /\ r.target = o
  /\ journal[o].outcome # 0 =>
       journal[o].outcome = r.event \/ journal[o].outcome > abandonment[o].seen

(* A challenge opens or extends one session once, however often the        *)
(* request that answers it arrives (consumeChallenge).                     *)
ChallengeOnce == \A n \in Nonces : spent[n] <= 1

(* Once the device is revoked none of its sessions is active, and none     *)
(* becomes active through a challenge it still holds (revokePairing).      *)
RevokedIsOver == pairing = "REVOKED" => \A s \in Sessions : session[s].state # "ACTIVE"

(* What the pages of a listing still have to show is what the snapshot     *)
(* held and they have not shown yet, whatever was recorded since: nothing  *)
(* is left out, shown twice or in a later state (selectOperationPage).     *)
PagesAreSnapshot == listing.open =>
  Rows(listing.event, listing.abandonment, listing.after, listing.states) = listing.rest

(* A counter that a session has accepted stays accepted, also over its     *)
(* refreshes, and a revoked session does not come back (authorizeInvocation*)
(* and the update trigger of m7_remote_sessions).                          *)
SessionForward == [][\A s \in Sessions :
  /\ session'[s].counter >= session[s].counter
  /\ session'[s].generation >= session[s].generation
  /\ session[s].state = "REVOKED" => session'[s] = session[s]]_vars

(* The journal implements the contract: what operation.get shows never     *)
(* contradicts what the operation did, and a settled or abandoned record   *)
(* stays as it is.                                                         *)
Shown(o) == IF journal[o] = NoEntry THEN "none" ELSE Record(o).state

Contract == INSTANCE RemoteContract WITH record <- [o \in Ops |-> Shown(o)]
ImplementsContract == Contract!Spec
==============================================================================
