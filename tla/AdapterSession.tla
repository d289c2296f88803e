---------------------------- MODULE AdapterSession ----------------------------
(***************************************************************************)
(* The daemon's side of the Spotify adapter (internal/app/adapter.go): the *)
(* single session slot, the snapshot request of "spotify.sync" that waits  *)
(* for a response, and everything that may end that wait - the response    *)
(* itself, a timeout, the caller, the liveness check, a disconnect and the *)
(* shutdown.  adapterMu protects the slot; each critical section is a step.*)
(*                                                                         *)
(* A connection is served by one goroutine that reads messages and applies *)
(* a snapshot itself, so it reads nothing while it applies.  A request is a *)
(* run of handleSpotifySync in its own goroutine; requests are numbered in *)
(* the order in which they take the slot, which stands for their random    *)
(* request IDs.                                                            *)
(***************************************************************************)
EXTENDS Integers, FiniteSets

CONSTANTS
  Conns,        \* adapter connections, each one used once
  MaxRequests,  \* bound: snapshot requests ever started
  NoConn

ASSUME ConnsAssumption == NoConn \notin Conns
ASSUME RequestsAssumption == MaxRequests \in Nat

Requests == 1..MaxRequests
NoRequest == 0

VARIABLES
  stopping,   \* adapterStopping
  reserved,   \* adapterReserved
  session,    \* adapterSession
  pending,    \* pendingSnapshot
  loop,       \* where the goroutine of each connection is
  handling,   \* the response it applies: the request it answers, whose snapshot it is
  open,       \* connections whose transport is open
  ask,        \* where the caller of each request is
  owner,      \* pendingSnapshot.session of each request
  applying,   \* requests whose response was accepted (pendingSnapshot.applying)
  canceled,   \* requests whose apply context is cancelled
  due,        \* requests taken from the slot whose cancel and completion are still to be sent
  sent,       \* completions sent on each request's channel
  outcome,    \* the first of them
  answer,     \* what the caller was told
  written,    \* requests that reached an adapter
  applier,    \* the connection that applies with managedMu held
  current     \* the request whose snapshot is the Desired state, 0 at first

slotVars == <<stopping, reserved, session, pending>>
connVars == <<loop, handling, open>>
callVars == <<ask, answer, written>>
pendVars == <<owner, applying, canceled, due, sent, outcome>>
stateVars == <<applier, current>>
vars == <<slotVars, connVars, callVars, pendVars, stateVars>>

LoopStates == {"new", "hello", "accepting", "reading", "locking", "applying", "committing",
               "reporting", "ending", "done"}
AskStates == {"new", "writing", "waiting", "receiving", "unwinding", "done"}
Outcomes == {"none", "ok", "failed"}
Nothing == [for |-> NoRequest, data |-> NoRequest, result |-> "none"]

Init ==
  /\ stopping = FALSE /\ reserved = FALSE /\ session = NoConn /\ pending = NoRequest
  /\ loop = [c \in Conns |-> "new"] /\ handling = [c \in Conns |-> Nothing] /\ open = Conns
  /\ ask = [r \in Requests |-> "new"] /\ answer = [r \in Requests |-> "none"] /\ written = {}
  /\ owner = [r \in Requests |-> NoConn] /\ applying = {} /\ canceled = {} /\ due = {}
  /\ sent = [r \in Requests |-> 0] /\ outcome = [r \in Requests |-> "none"]
  /\ applier = NoConn /\ current = NoRequest

At(c, from, to) == loop[c] = from /\ loop' = [loop EXCEPT ![c] = to]

\* Whoever takes a request from the slot under adapterMu cancels and completes
\* it after unlocking; "ok" and "failed" are what the completion will say.
Owe(r, o) == due' = due \cup {<<r, o>>}

Deliver(r, o) ==
  /\ <<r, o>> \in due
  /\ due' = due \ {<<r, o>>}
  /\ canceled' = IF o = "failed" THEN canceled \cup {r} ELSE canceled
  /\ sent' = [sent EXCEPT ![r] = @ + 1]
  /\ outcome' = [outcome EXCEPT ![r] = IF @ = "none" THEN o ELSE @]
  /\ UNCHANGED <<slotVars, connVars, callVars, owner, applying, stateVars>>

-----------------------------------------------------------------------------
(* serveAdapter: admission.                                                *)

Accept(c) ==
  /\ At(c, "new", IF stopping THEN "done" ELSE "hello")
  /\ UNCHANGED <<slotVars, handling, open, callVars, pendVars, stateVars>>

\* Slip: a connection that is being accepted does not occupy the slot.
SlotFreeUnreserved == ~stopping /\ session = NoConn
SlotFree == ~stopping /\ session = NoConn /\ ~reserved

\* A valid hello reserves the slot, so that hello.accepted can be written with
\* adapterMu released; anything else is refused and closed.
Reserve(c) ==
  /\ SlotFree
  /\ At(c, "hello", "accepting")
  /\ reserved' = TRUE
  /\ UNCHANGED <<stopping, session, pending, handling, open, callVars, pendVars, stateVars>>

Refuse(c) ==
  /\ At(c, "hello", "done")
  /\ open' = open \ {c}
  /\ UNCHANGED <<slotVars, handling, callVars, pendVars, stateVars>>

\* Slip: a shutdown during the reservation is not noticed.
InstallUnchecked(c) ==
  /\ At(c, "accepting", "reading")
  /\ reserved' = FALSE
  /\ session' = c
  /\ UNCHANGED <<stopping, pending, handling, open, callVars, pendVars, stateVars>>

\* hello.accepted is written; adapterStopping may have been set meanwhile.
Install(c) ==
  /\ reserved' = FALSE
  /\ IF stopping
     THEN At(c, "accepting", "done") /\ open' = open \ {c} /\ UNCHANGED session
     ELSE At(c, "accepting", "reading") /\ session' = c /\ UNCHANGED open
  /\ UNCHANGED <<stopping, pending, handling, callVars, pendVars, stateVars>>

\* hello.accepted cannot be written.
ReleaseReservation(c) ==
  /\ At(c, "accepting", "done")
  /\ reserved' = FALSE
  /\ open' = open \ {c}
  /\ UNCHANGED <<stopping, session, pending, handling, callVars, pendVars, stateVars>>

-----------------------------------------------------------------------------
(* serveAdapter: the read loop.                                            *)

\* Slip: whatever the session answers is taken for the pending request.
MatchesAny(c, r) ==
  /\ session = c /\ pending # NoRequest /\ owner[pending] = c
  /\ pending \notin applying

\* acceptSnapshotResponse: only the pending request of this session matches.
Matches(c, r) ==
  /\ session = c /\ pending # NoRequest /\ owner[pending] = c
  /\ pending = r
  /\ pending \notin applying

\* The response carries a snapshot or the adapter's collection error.
AcceptResponse(c, r) ==
  /\ c \in open
  /\ Matches(c, r)
  /\ applying' = applying \cup {pending}
  /\ \E result \in {"none", "failed"} :
       /\ handling' = [handling EXCEPT ![c] = [for |-> pending, data |-> r, result |-> result]]
       /\ At(c, "reading", IF result = "none" THEN "locking" ELSE "reporting")
  /\ UNCHANGED <<slotVars, open, callVars, owner, canceled, due, sent, outcome, stateVars>>

\* A response that does not match, another protocol violation, a closed
\* transport: the loop ends.
StopReading(c) ==
  /\ At(c, "reading", "ending")
  /\ UNCHANGED <<slotVars, handling, open, callVars, pendVars, stateVars>>

RejectResponse(c, r) == c \in open /\ r \in written /\ ~Matches(c, r) /\ StopReading(c)
ReadFails(c) == c \notin open /\ StopReading(c)
Violation(c) == c \in open /\ StopReading(c)

\* ApplyDesiredSpotifyState runs with managedMu held.
LockManaged(c) ==
  /\ applier = NoConn
  /\ applier' = c
  /\ At(c, "locking", "applying")
  /\ UNCHANGED <<slotVars, handling, open, callVars, pendVars, current>>

\* Slip: the transaction runs under a context nobody cancels.
BeginCommitUncancelable(c) ==
  /\ At(c, "applying", "committing")
  /\ UNCHANGED <<slotVars, handling, open, callVars, pendVars, stateVars>>

\* The transaction begins, and its commit starts, only under a live context ...
BeginCommit(c) ==
  /\ handling[c].for \notin canceled
  /\ At(c, "applying", "committing")
  /\ UNCHANGED <<slotVars, handling, open, callVars, pendVars, stateVars>>

\* ... but a commit that has started is not interrupted by a cancellation.
Commit(c) ==
  /\ At(c, "committing", "reporting")
  /\ current' = handling[c].data
  /\ applier' = NoConn
  /\ handling' = [handling EXCEPT ![c].result = "ok"]
  /\ UNCHANGED <<slotVars, open, callVars, pendVars>>

\* Slip: the early return of an error forgets to unlock managedMu.
ApplyFailsLocked(c) ==
  /\ loop[c] \in {"applying", "committing"}
  /\ loop' = [loop EXCEPT ![c] = "reporting"]
  /\ handling' = [handling EXCEPT ![c].result = "failed"]
  /\ UNCHANGED <<slotVars, open, callVars, pendVars, stateVars>>

\* A cancelled context or a database error.
ApplyFails(c) ==
  /\ loop[c] \in {"applying", "committing"}
  /\ loop' = [loop EXCEPT ![c] = "reporting"]
  /\ applier' = NoConn
  /\ handling' = [handling EXCEPT ![c].result = "failed"]
  /\ UNCHANGED <<slotVars, open, callVars, pendVars, current>>

\* Slip: the completion is sent although somebody else has ended the request.
ReportAlways(c) ==
  /\ At(c, "reporting", "reading")
  /\ pending' = IF pending = handling[c].for THEN NoRequest ELSE pending
  /\ Owe(handling[c].for, handling[c].result)
  /\ handling' = [handling EXCEPT ![c] = Nothing]
  /\ UNCHANGED <<stopping, reserved, session, open, callVars, owner, applying, canceled, sent, outcome, stateVars>>

\* completeSnapshotResponse: nothing to report when the request was ended.
Report(c) ==
  /\ At(c, "reporting", "reading")
  /\ handling' = [handling EXCEPT ![c] = Nothing]
  /\ IF pending = handling[c].for
     THEN pending' = NoRequest /\ Owe(handling[c].for, handling[c].result)
     ELSE UNCHANGED <<pending, due>>
  /\ UNCHANGED <<stopping, reserved, session, open, callVars, owner, applying, canceled, sent, outcome, stateVars>>

\* The request leaves the slot as failed when the condition holds.
TakePending(taken) ==
  IF taken THEN pending' = NoRequest /\ Owe(pending, "failed") ELSE UNCHANGED <<pending, due>>

\* Slip: the session slot is cleared but its request is not.
EndWithoutPending(c) ==
  /\ At(c, "ending", "done")
  /\ open' = open \ {c}
  /\ session' = IF session = c THEN NoConn ELSE session
  /\ UNCHANGED <<stopping, reserved, pending, handling, callVars, pendVars, stateVars>>

\* Slip: only the request is removed, the slot stays taken by a dead session.
EndKeepingSession(c) ==
  /\ At(c, "ending", "done")
  /\ open' = open \ {c}
  /\ TakePending(pending # NoRequest /\ owner[pending] = c)
  /\ UNCHANGED <<stopping, reserved, session, handling, callVars, owner, applying, canceled, sent, outcome, stateVars>>

\* removeAdapterSession, and the transport is closed.
End(c) ==
  /\ At(c, "ending", "done")
  /\ open' = open \ {c}
  /\ session' = IF session = c THEN NoConn ELSE session
  /\ TakePending(pending # NoRequest /\ owner[pending] = c)
  /\ UNCHANGED <<stopping, reserved, handling, callVars, owner, applying, canceled, sent, outcome, stateVars>>

-----------------------------------------------------------------------------
(* What ends a session or a request from the side.                         *)

\* Slip: the request leaves the slot but nobody completes it.
InvalidateSilently(c) ==
  /\ session' = NoConn
  /\ pending' = IF pending # NoRequest /\ owner[pending] = c THEN NoRequest ELSE pending
  /\ open' = open \ {c}
  /\ UNCHANGED <<due, canceled, sent, outcome>>

\* invalidateAdapterSession, once the slot is known to hold this session.
Invalidate(c) ==
  /\ session' = NoConn
  /\ TakePending(pending # NoRequest /\ owner[pending] = c)
  /\ open' = open \ {c}
  /\ UNCHANGED <<canceled, sent, outcome>>

\* expireAdapterSession: a ping is not answered in time.  It never is while the
\* loop applies, because nothing reads the pong.
ExpireSession(c) ==
  /\ loop[c] \in {"reading", "locking", "applying", "committing", "reporting"}
  /\ session = c
  /\ Invalidate(c)
  /\ UNCHANGED <<stopping, reserved, loop, handling, callVars, owner, applying, stateVars>>

\* The adapter goes away.
Disconnect(c) ==
  /\ c \in open /\ loop[c] # "new"
  /\ open' = open \ {c}
  /\ UNCHANGED <<slotVars, loop, handling, callVars, pendVars, stateVars>>

\* stopAdapterWork
Stop ==
  /\ ~stopping
  /\ stopping' = TRUE
  /\ TakePending(pending # NoRequest)
  /\ open' = {c \in open : loop[c] = "new"}
  /\ UNCHANGED <<reserved, session, loop, handling, callVars, owner, applying, canceled, sent, outcome, stateVars>>

-----------------------------------------------------------------------------
(* handleSpotifySync: the caller.                                          *)

\* A request starts only when a session is there and none is pending; the
\* refusals change nothing.
Request(r) ==
  /\ ask[r] = "new" /\ \A q \in Requests : q < r => ask[q] # "new"
  /\ ~stopping /\ session # NoConn /\ pending = NoRequest
  /\ pending' = r
  /\ owner' = [owner EXCEPT ![r] = session]
  /\ ask' = [ask EXCEPT ![r] = "writing"]
  /\ UNCHANGED <<stopping, reserved, session, connVars, answer, written, applying, canceled, due, sent, outcome, stateVars>>

WriteRequest(r) ==
  /\ ask[r] = "writing"
  /\ owner[r] \in open
  /\ written' = written \cup {r}
  /\ ask' = [ask EXCEPT ![r] = "waiting"]
  /\ UNCHANGED <<slotVars, connVars, answer, pendVars, stateVars>>

\* A caller that has ended its own request delivers it before it returns.
Unwinding(r) == ask' = [ask EXCEPT ![r] = "unwinding"]

\* completePendingSnapshot, when the request cannot be written (the adapter may
\* have received it all the same).
WriteFails(r) ==
  /\ ask[r] = "writing"
  /\ written' \in {written, written \cup {r}}
  /\ TakePending(pending = r)
  /\ Unwinding(r)
  /\ UNCHANGED <<stopping, reserved, session, connVars, answer, owner, applying, canceled, sent, outcome, stateVars>>

\* The deferred cancel of handleSpotifySync ends the apply context.
Return(r, o) ==
  /\ ask' = [ask EXCEPT ![r] = "done"]
  /\ answer' = [answer EXCEPT ![r] = o]
  /\ canceled' = canceled \cup {r}
  /\ UNCHANGED <<slotVars, connVars, written, owner, applying, due, sent, outcome, stateVars>>

Receive(r) ==
  /\ ask[r] \in {"waiting", "receiving"}
  /\ sent[r] > 0
  /\ Return(r, outcome[r])

Unwind(r) ==
  /\ ask[r] = "unwinding"
  /\ <<r, "failed">> \notin due
  /\ Return(r, "failed")

\* invalidateSnapshotResponseWait: the timeout only ends a wait for the
\* response; otherwise the caller goes on to receive the completion.
Timeout(r) ==
  /\ ask[r] = "waiting"
  /\ IF session = owner[r] /\ pending = r /\ r \notin applying
     THEN Invalidate(owner[r]) /\ Unwinding(r)
     ELSE /\ ask' = [ask EXCEPT ![r] = "receiving"]
          /\ UNCHANGED <<session, pending, open, canceled, due, sent, outcome>>
  /\ UNCHANGED <<stopping, reserved, loop, handling, answer, written, owner, applying, stateVars>>

\* The caller hangs up or the daemon stops: its context takes the apply context
\* with it at once, and is only then noticed.
Abandon(r) ==
  /\ ask[r] \in {"writing", "waiting", "receiving"}
  /\ canceled' = canceled \cup {r}
  /\ UNCHANGED <<slotVars, connVars, callVars, owner, applying, due, sent, outcome, stateVars>>

\* invalidateAdapterSession then wins or loses against a completion.
HangUp(r) ==
  /\ ask[r] = "waiting"
  /\ r \in canceled
  /\ IF session = owner[r] /\ pending = r
     THEN Invalidate(owner[r]) /\ Unwinding(r)
     ELSE /\ ask' = [ask EXCEPT ![r] = "receiving"]
          /\ UNCHANGED <<session, pending, open, canceled, due, sent, outcome>>
  /\ UNCHANGED <<stopping, reserved, loop, handling, answer, written, owner, applying, stateVars>>

-----------------------------------------------------------------------------

Admission(c) == Accept(c) \/ Reserve(c) \/ Refuse(c) \/ Install(c) \/ ReleaseReservation(c)

Apply(c) ==
  LockManaged(c) \/ BeginCommit(c) \/ Commit(c) \/ ApplyFails(c) \/ Report(c) \/ End(c)

Caller(r) ==
  WriteRequest(r) \/ WriteFails(r) \/ Receive(r) \/ Unwind(r) \/ Timeout(r) \/ HangUp(r)

Delivery(r) == \E o \in Outcomes : Deliver(r, o)

Next ==
  \/ \E c \in Conns :
       \/ Admission(c) \/ Apply(c)
       \/ (\E r \in written : AcceptResponse(c, r) \/ RejectResponse(c, r))
       \/ ReadFails(c) \/ Violation(c)
       \/ ExpireSession(c) \/ Disconnect(c)
  \/ Stop
  \/ \E r \in Requests : Request(r) \/ Caller(r) \/ Delivery(r) \/ Abandon(r)

Spec == Init /\ [][Next]_vars

\* Goroutines that can go on are scheduled, the snapshot timer fires, and the
\* hello and its answer have deadlines; nothing is assumed of the adapter.
Fairness ==
  /\ \A c \in Conns : WF_vars(Reserve(c) \/ Refuse(c) \/ Install(c) \/ ReleaseReservation(c))
                   /\ WF_vars(Apply(c)) /\ WF_vars(ReadFails(c))
  /\ \A r \in Requests : WF_vars(Caller(r)) /\ WF_vars(Delivery(r))

FairSpec == Spec /\ Fairness

-----------------------------------------------------------------------------
(* Safety.                                                                 *)

TypeOK ==
  /\ stopping \in BOOLEAN /\ reserved \in BOOLEAN
  /\ session \in Conns \cup {NoConn} /\ pending \in Requests \cup {NoRequest}
  /\ loop \in [Conns -> LoopStates]
  /\ handling \in [Conns -> [for : Requests \cup {NoRequest}, data : Requests \cup {NoRequest},
                             result : Outcomes]]
  /\ open \subseteq Conns
  /\ ask \in [Requests -> AskStates] /\ answer \in [Requests -> Outcomes] /\ written \subseteq Requests
  /\ owner \in [Requests -> Conns \cup {NoConn}]
  /\ applying \subseteq Requests /\ canceled \subseteq Requests
  /\ due \subseteq Requests \X {"ok", "failed"}
  /\ sent \in [Requests -> Nat] /\ outcome \in [Requests -> Outcomes]
  /\ current \in Requests \cup {NoRequest}
  /\ \A c \in Conns : applier = c <=> loop[c] \in {"applying", "committing"}
  /\ \A c \in Conns :
       handling[c] # Nothing <=> loop[c] \in {"locking", "applying", "committing", "reporting"}

\* Somebody is about to complete this request: it has been taken from the slot, or
\* the loop of its session still applies the answer to it.
Coming(r) ==
  \/ \E o \in Outcomes : <<r, o>> \in due
  \/ pending = r /\ \E c \in Conns : loop[c] \in {"locking", "applying", "committing", "reporting"}
                                     /\ handling[c].for = r

\* The completion channel holds one message: two completions would block the
\* second sender for ever, and none the caller, once its timer has fired.  So
\* whichever way a request ends, it is completed once.
CompletedOnce ==
  \A r \in Requests : sent[r] <= 1 /\ (ask[r] = "receiving" => sent[r] = 1 \/ Coming(r))

\* The pending request always belongs to the session in the slot: no path frees
\* the session and leaves a request behind that no response can match any more.
PendingHasSession == pending # NoRequest => ~stopping /\ session = owner[pending]

\* One session at a time: the slot is never reserved twice, nor reserved while a
\* session holds it; and neither is leaked: a goroutine is there that gives it up.
OneSession ==
  /\ Cardinality({c \in Conns : loop[c] = "accepting"}) <= 1
  /\ \A c \in Conns : loop[c] = "accepting" => reserved /\ session = NoConn
  /\ reserved => \E c \in Conns : loop[c] = "accepting"
  /\ session # NoConn => loop[session] \notin {"new", "hello", "accepting", "done"}

\* A request is answered with the snapshot sent for it, by the session it was
\* sent to, never with a late answer to an earlier request.
AnswersItsRequest ==
  \A c \in Conns : handling[c].for # NoRequest =>
    handling[c].data = handling[c].for /\ owner[handling[c].for] = c

\* No session is installed, and no request started, once the daemon is stopping.
NothingStartsAfterStop ==
  [][stopping => session' \in {session, NoConn} /\ pending' \in {pending, NoRequest}]_vars

\* A snapshot that had to wait for managedMu does not replace a newer one: its
\* request is cancelled before a later request can be answered.  The only window
\* left is the moment between taking a request from the slot and cancelling it.
NewestSnapshotWins ==
  [][\A c \in Conns : BeginCommit(c) =>
       handling[c].for > current \/ <<handling[c].for, "failed">> \in due]_vars

\* adapter.go:347: "Once a matching response is accepted, persistence owns
\* completion and must be allowed to report its committed result."
CommitIsReported ==
  \A c \in Conns : handling[c].result = "ok" /\ ask[handling[c].for] = "done" =>
    answer[handling[c].for] = "ok"

-----------------------------------------------------------------------------
(* Refinement.                                                             *)

\* The snapshot of this request is being applied, and not yet committed.
InHand(r) ==
  \E c \in Conns : loop[c] \in {"locking", "applying", "committing"} /\ handling[c].for = r

\* The life of a request as its caller may know it.
Phase(r) ==
  CASE ask[r] = "new" -> "new"
    [] ask[r] # "new" /\ pending = r ->
         IF \E c \in Conns : handling[c].for = r /\ handling[c].result = "ok" THEN "stored" ELSE "open"
    [] OTHER -> IF <<r, "ok">> \in due \/ outcome[r] = "ok" THEN "ok" ELSE "failed"

Calls == INSTANCE SnapshotCalls WITH
  Calls <- Requests, Sessions <- Conns, NoSession <- NoConn, NoCall <- NoRequest,
  stopped <- stopping,
  phase <- [r \in Requests |-> Phase(r)],
  undecided <- {r \in Requests : pending # r /\ InHand(r)}

\* Loops, callers, timers, the liveness check and the shutdown together do what
\* SnapshotCalls says: a call ends once, whichever of them ends it; "ok" means
\* that its snapshot was committed before; a session takes its call with it; a
\* failed call's snapshot is stored at most once more; nothing begins after a stop.
ImplementsCalls == Calls!Spec

-----------------------------------------------------------------------------
(* Liveness, under FairSpec.                                               *)

\* Whatever the adapter does or fails to do, "spotify.sync" returns.
CallerIsAnswered == \A r \in Requests : ask[r] # "new" ~> ask[r] = "done"

\* A lost connection does not keep the slot: it is free for a new session, or
\* taken by one.
SlotIsFreed == \A c \in Conns : (session = c /\ c \notin open) ~> session # c
=============================================================================
