------------------------- MODULE AdapterSessionProofs -------------------------
(***************************************************************************)
(* Proofs about AdapterSession, for any connections and requests: its      *)
(* safety properties, and that it implements SnapshotCalls.                *)
(***************************************************************************)
EXTENDS AdapterSession, FiniteSetTheorems, TLAPS

Busy == {"locking", "applying", "committing", "reporting"}

\* A connection that handles a response answers the request it was sent.
HandlingFits ==
  \A c \in Conns : loop[c] \in Busy =>
    /\ handling[c].for \in Requests /\ handling[c].data = handling[c].for
    /\ owner[handling[c].for] = c /\ ask[handling[c].for] # "new"
    /\ loop[c] = "reporting" => handling[c].result # "none"

\* The slot: a pending request has the session it was started on.
SlotFits ==
  pending # NoRequest =>
    ~stopping /\ session = owner[pending] /\ session # NoConn /\ ask[pending] # "new"

\* The slot: one connection at a time is being accepted.
AcceptingFits ==
  \A c \in Conns : loop[c] = "accepting" =>
    reserved /\ session = NoConn /\ \A d \in Conns : loop[d] = "accepting" => d = c

\* A request is pending, then due to be completed, then completed.
CompletionFits ==
  \A r \in Requests :
    /\ r = pending \/ ask[r] = "new" => sent[r] = 0 /\ \A o \in Outcomes : <<r, o>> \notin due
    /\ \A o, u \in Outcomes : <<r, o>> \in due => sent[r] = 0 /\ (<<r, u>> \in due => u = o)
    /\ sent[r] <= 1

IInv == TypeOK /\ HandlingFits /\ SlotFits /\ AcceptingFits /\ CompletionFits

\* A daemon without connections satisfies the invariant.
LEMMA InitInv == Init => IInv
<1> SUFFICES ASSUME Init PROVE IInv
  OBVIOUS
<1> USE ConnsAssumption, RequestsAssumption DEF Init, Requests, NoRequest
<1>1. TypeOK
  BY DEF TypeOK, LoopStates, AskStates, Outcomes, Nothing
<1>2. HandlingFits /\ SlotFits /\ AcceptingFits /\ CompletionFits
  BY DEF HandlingFits, Busy, SlotFits, AcceptingFits, CompletionFits
<1> QED
  BY <1>1, <1>2 DEF IInv

\* Taking the pending request from the slot makes its completion due, once.
LEMMA TakenFits ==
  \A o \in {"ok", "failed"} :
    /\ TypeOK /\ SlotFits /\ CompletionFits /\ pending # NoRequest
    /\ pending' = NoRequest /\ Owe(pending, o) /\ UNCHANGED sent
    /\ \A r \in Requests : ask'[r] = "new" => ask[r] = "new"
    => CompletionFits'
<1> SUFFICES ASSUME NEW o \in {"ok", "failed"}, TypeOK, SlotFits, CompletionFits, pending # NoRequest,
                    pending' = NoRequest, Owe(pending, o), UNCHANGED sent,
                    \A r \in Requests : ask'[r] = "new" => ask[r] = "new",
                    NEW r \in Requests
             PROVE  /\ ask'[r] = "new" => sent'[r] = 0 /\ \A u \in Outcomes : <<r, u>> \notin due'
                    /\ \A t, u \in Outcomes : <<r, t>> \in due' => sent'[r] = 0 /\ (<<r, u>> \in due' => u = t)
                    /\ sent'[r] <= 1
  BY DEF CompletionFits, Requests, NoRequest
<1>1. ask[pending] # "new" /\ pending \in Requests
  BY DEF TypeOK, SlotFits
<1>2. \A u \in Outcomes : <<r, u>> \in due' => <<r, u>> \in due \/ (r = pending /\ u = o)
  BY DEF Owe
<1>3. CASE r = pending
  BY <1>1, <1>2, <1>3 DEF CompletionFits
<1>4. CASE r # pending
  BY <1>1, <1>2, <1>4 DEF CompletionFits
<1> QED
  BY <1>3, <1>4

\* A step that owes and sends nothing and starts no request keeps the completions.
LEMMA KeptFits ==
  /\ CompletionFits /\ pending' \in {pending, NoRequest} /\ UNCHANGED <<due, sent>>
  /\ \A r \in Requests : ask'[r] = "new" => ask[r] = "new"
  => CompletionFits'
BY DEF CompletionFits, Requests, NoRequest

\* A caller goes on, or returns, without touching the slot.
LEMMA CallerMovesInv ==
  /\ IInv /\ UNCHANGED <<slotVars, connVars, owner, applying, due, sent, outcome, stateVars>>
  /\ ask' \in [Requests -> AskStates] /\ \A r \in Requests : ask'[r] = "new" <=> ask[r] = "new"
  /\ answer' \in [Requests -> Outcomes] /\ written' \subseteq Requests /\ canceled' \subseteq Requests
  => IInv'
<1> SUFFICES ASSUME IInv, UNCHANGED <<slotVars, connVars, owner, applying, due, sent, outcome, stateVars>>,
                    ask' \in [Requests -> AskStates], \A r \in Requests : ask'[r] = "new" <=> ask[r] = "new",
                    answer' \in [Requests -> Outcomes], written' \subseteq Requests, canceled' \subseteq Requests
             PROVE  IInv'
  OBVIOUS
<1> USE DEF slotVars, connVars, stateVars, IInv
<1>1. TypeOK'
  BY DEF TypeOK
<1>2. HandlingFits' /\ AcceptingFits'
  BY DEF HandlingFits, AcceptingFits
<1>3. SlotFits'
  BY DEF SlotFits, TypeOK
<1>4. CompletionFits'
  BY KeptFits
<1> QED
  BY <1>1, <1>2, <1>3, <1>4

\* A caller that returns keeps its variables in their types.
LEMMA ReturnInv ==
  \A r \in Requests : \A o \in Outcomes : IInv /\ ask[r] # "new" /\ Return(r, o) => IInv'
<1> SUFFICES ASSUME NEW r \in Requests, NEW o \in Outcomes, IInv, ask[r] # "new", Return(r, o)
             PROVE  IInv'
  OBVIOUS
<1>1. ask \in [Requests -> AskStates] /\ answer \in [Requests -> Outcomes]
      /\ written \subseteq Requests /\ canceled \subseteq Requests
  BY DEF IInv, TypeOK
<1>2. /\ ask' = [ask EXCEPT ![r] = "done"] /\ answer' = [answer EXCEPT ![r] = o]
      /\ canceled' = canceled \cup {r} /\ UNCHANGED written
      /\ UNCHANGED <<slotVars, connVars, owner, applying, due, sent, outcome, stateVars>>
  BY DEF Return
<1>3. ask' \in [Requests -> AskStates] /\ \A q \in Requests : ask'[q] = "new" <=> ask[q] = "new"
  BY <1>1, <1>2 DEF AskStates
<1>4. answer' \in [Requests -> Outcomes] /\ written' \subseteq Requests /\ canceled' \subseteq Requests
  BY <1>1, <1>2 DEF Outcomes
<1> QED
  BY <1>2, <1>3, <1>4, CallerMovesInv

\* invalidateAdapterSession, by whoever calls it.
LEMMA InvalidateInv ==
  \A c \in Conns :
    /\ IInv /\ session = c /\ Invalidate(c)
    /\ UNCHANGED <<stopping, reserved, loop, handling, owner, applying, answer, written, stateVars>>
    /\ ask' \in [Requests -> AskStates] /\ \A r \in Requests : ask'[r] = "new" <=> ask[r] = "new"
    => IInv'
<1> SUFFICES ASSUME NEW c \in Conns, IInv, session = c, Invalidate(c),
                    UNCHANGED <<stopping, reserved, loop, handling, owner, applying, answer, written, stateVars>>,
                    ask' \in [Requests -> AskStates], \A r \in Requests : ask'[r] = "new" <=> ask[r] = "new"
             PROVE  IInv'
  OBVIOUS
<1> USE ConnsAssumption DEF IInv, Invalidate, TakePending, stateVars
<1>1. TypeOK'
  BY DEF TypeOK, Owe
<1>2. HandlingFits' /\ AcceptingFits'
  BY DEF HandlingFits, AcceptingFits, TypeOK, Busy, Requests, NoRequest
<1>3. SlotFits'
  BY DEF SlotFits
<1>4. CompletionFits'
  <2>1. CASE pending # NoRequest /\ owner[pending] = c
    BY <2>1, TakenFits
  <2>2. CASE ~(pending # NoRequest /\ owner[pending] = c)
    BY <2>2 DEF CompletionFits
  <2> QED
    BY <2>1, <2>2
<1> QED
  BY <1>1, <1>2, <1>3, <1>4

\* Greeting, replacing and refusing a connection keep the invariant.
LEMMA AdmissionInv == \A c \in Conns : IInv /\ Admission(c) => IInv'
<1> SUFFICES ASSUME NEW c \in Conns, IInv, Admission(c) PROVE IInv'
  OBVIOUS
<1> USE ConnsAssumption DEF IInv, TypeOK, HandlingFits, SlotFits, AcceptingFits, CompletionFits, Busy, LoopStates, At, callVars, pendVars, stateVars, slotVars
<1>1. CASE Accept(c)
  BY <1>1 DEF Accept
<1>2. CASE Reserve(c)
  BY <1>2 DEF Reserve, SlotFree
<1>3. CASE Refuse(c)
  BY <1>3 DEF Refuse
<1>4. CASE Install(c)
  <2>1. TypeOK'
    <3>1. loop[c] = "accepting" /\ loop' \in {[loop EXCEPT ![c] = "done"], [loop EXCEPT ![c] = "reading"]}
      BY <1>4 DEF Install
    <3>2. /\ reserved' = FALSE /\ session' \in {session, c} /\ open' \in {open, open \ {c}}
          /\ UNCHANGED <<stopping, pending, handling, callVars, pendVars, stateVars>>
      BY <1>4 DEF Install
    <3> HIDE DEF HandlingFits, SlotFits, AcceptingFits, CompletionFits
    <3>3. loop' \in [Conns -> LoopStates] /\ \A d \in Conns : d # c => loop'[d] = loop[d]
      BY <3>1
    <3>4. loop'[c] \in {"done", "reading"}
      BY <3>1
    <3> QED
      BY <3>1, <3>2, <3>3, <3>4
  <2>2. HandlingFits'
    BY <1>4 DEF Install
  <2>3. SlotFits'
    BY <1>4 DEF Install
  <2>4. AcceptingFits'
    BY <1>4 DEF Install
  <2>5. CompletionFits'
    BY <1>4 DEF Install
  <2> QED
    BY <2>1, <2>2, <2>3, <2>4, <2>5
<1>5. CASE ReleaseReservation(c)
  <2>1. TypeOK'
    BY ZenonT(40), <1>5 DEF ReleaseReservation
  <2>2. HandlingFits'
    BY <1>5 DEF ReleaseReservation
  <2>3. SlotFits'
    BY <1>5 DEF ReleaseReservation
  <2>4. AcceptingFits'
    BY <1>5 DEF ReleaseReservation
  <2>5. CompletionFits'
    BY <1>5 DEF ReleaseReservation
  <2> QED
    BY <2>1, <2>2, <2>3, <2>4, <2>5
<1> QED
  BY <1>1, <1>2, <1>3, <1>4, <1>5 DEF Admission

\* Reading, and finding a connection closed, keeps the invariant.
LEMMA ReadingInv ==
  \A c \in Conns :
    IInv /\ ((\E r \in Requests : AcceptResponse(c, r)) \/ StopReading(c) \/ Disconnect(c)) => IInv'
<1> SUFFICES ASSUME NEW c \in Conns, IInv,
                    (\E r \in Requests : AcceptResponse(c, r)) \/ StopReading(c) \/ Disconnect(c)
             PROVE  IInv'
  OBVIOUS
<1> USE ConnsAssumption DEF IInv, TypeOK, HandlingFits, SlotFits, AcceptingFits, CompletionFits, Busy, LoopStates, At, callVars, pendVars, stateVars, slotVars
<1>1. ASSUME NEW r \in Requests, AcceptResponse(c, r) PROVE IInv'
  <2>1. TypeOK'
    <3> PICK result \in {"none", "failed"} :
          /\ handling' = [handling EXCEPT ![c] = [for |-> pending, data |-> r, result |-> result]]
          /\ loop' = [loop EXCEPT ![c] = IF result = "none" THEN "locking" ELSE "reporting"]
      BY <1>1 DEF AcceptResponse
    <3>1. loop[c] = "reading" /\ pending \in Requests /\ handling'[c] # Nothing
      BY <1>1 DEF AcceptResponse, Matches, Nothing, NoRequest
    <3> QED
      BY <1>1, <3>1 DEF AcceptResponse, Outcomes
  <2>2. HandlingFits'
    BY <1>1 DEF AcceptResponse, Matches, Outcomes, Nothing, Requests, NoRequest
  <2>3. SlotFits'
    BY <1>1 DEF AcceptResponse, Matches, Outcomes, Nothing, Requests, NoRequest
  <2>4. AcceptingFits'
    BY <1>1 DEF AcceptResponse, Matches, Outcomes, Nothing, Requests, NoRequest
  <2>5. CompletionFits'
    BY <1>1 DEF AcceptResponse, Matches, Outcomes, Nothing, Requests, NoRequest
  <2> QED
    BY <2>1, <2>2, <2>3, <2>4, <2>5
<1>2. CASE StopReading(c)
  BY <1>2 DEF StopReading
<1>3. CASE Disconnect(c)
  BY <1>3 DEF Disconnect
<1> QED
  BY <1>1, <1>2, <1>3

\* Handing a snapshot to the store keeps the invariant.
LEMMA ApplyInv == \A c \in Conns : IInv /\ Apply(c) => IInv'
<1> SUFFICES ASSUME NEW c \in Conns, IInv, Apply(c) PROVE IInv'
  OBVIOUS
<1> USE ConnsAssumption DEF IInv, TypeOK, HandlingFits, SlotFits, AcceptingFits, CompletionFits, Busy, LoopStates, At, callVars, pendVars, stateVars, slotVars, Nothing, Requests, NoRequest, Outcomes
<1>1. CASE LockManaged(c)
  BY SMTT(40), <1>1 DEF LockManaged
<1>2. CASE BeginCommit(c)
  BY SMTT(40), <1>2 DEF BeginCommit
<1>3. CASE Commit(c)
  BY SMTT(40), <1>3 DEF Commit
<1>4. CASE ApplyFails(c)
  <2>1. TypeOK'
    BY SMTT(40), <1>4 DEF ApplyFails
  <2>2. HandlingFits'
    BY <1>4 DEF ApplyFails
  <2>3. SlotFits'
    BY <1>4 DEF ApplyFails
  <2>4. AcceptingFits'
    BY <1>4 DEF ApplyFails
  <2>5. CompletionFits'
    BY <1>4 DEF ApplyFails
  <2> QED
    BY <2>1, <2>2, <2>3, <2>4, <2>5
<1>5. CASE Report(c)
  <2>1. TypeOK'
    BY SMTT(40), <1>5 DEF Report, Owe
  <2>2. HandlingFits'
    BY <1>5 DEF Report, Owe
  <2>3. SlotFits'
    BY <1>5 DEF Report, Owe
  <2>4. AcceptingFits'
    BY <1>5 DEF Report, Owe
  <2>5. CompletionFits'
    <3>1. CASE pending = handling[c].for
      <4>1. handling[c].result \in {"ok", "failed"} /\ pending # NoRequest
        BY <1>5, <3>1 DEF Report
      <4> QED
        BY ZenonT(40), <1>5, <3>1, <4>1, TakenFits DEF Report
    <3>2. CASE pending # handling[c].for
      BY <1>5, <3>2, KeptFits DEF Report
    <3> QED
      BY <3>1, <3>2
  <2> QED
    BY <2>1, <2>2, <2>3, <2>4, <2>5
<1>6. CASE End(c)
  <2>1. TypeOK'
    BY SMTT(40), <1>6 DEF End, TakePending, Owe
  <2>2. HandlingFits'
    BY <1>6 DEF End, TakePending, Owe
  <2>3. SlotFits'
    BY <1>6 DEF End, TakePending, Owe
  <2>4. AcceptingFits'
    BY <1>6 DEF End, TakePending, Owe
  <2>5. CompletionFits'
    <3>1. CASE pending # NoRequest /\ owner[pending] = c
      BY <1>6, <3>1, TakenFits DEF End, TakePending
    <3>2. CASE ~(pending # NoRequest /\ owner[pending] = c)
      BY <1>6, <3>2, KeptFits DEF End, TakePending
    <3> QED
      BY <3>1, <3>2
  <2> QED
    BY <2>1, <2>2, <2>3, <2>4, <2>5
<1> QED
  BY <1>1, <1>2, <1>3, <1>4, <1>5, <1>6 DEF Apply

\* What ends a session from the side: the liveness check, and a shutdown.
LEMMA EndingInv == IInv /\ (Stop \/ \E c \in Conns : ExpireSession(c)) => IInv'
<1> SUFFICES ASSUME IInv, Stop \/ \E c \in Conns : ExpireSession(c) PROVE IInv'
  OBVIOUS
<1>1. CASE Stop
  <2> USE ConnsAssumption DEF IInv, TypeOK, callVars, stateVars, Requests, NoRequest, TakePending, Owe
  <2>1. TypeOK'
    BY <1>1 DEF Stop
  <2>2. HandlingFits' /\ AcceptingFits'
    BY <1>1 DEF Stop, HandlingFits, AcceptingFits, Busy
  <2>3. SlotFits'
    BY <1>1 DEF Stop, SlotFits
  <2>4. CompletionFits'
    <3>1. CASE pending # NoRequest
      BY <1>1, <3>1, TakenFits DEF Stop
    <3>2. CASE pending = NoRequest
      BY <1>1, <3>2, KeptFits DEF Stop
    <3> QED
      BY <3>1, <3>2
  <2> QED
    BY <2>1, <2>2, <2>3, <2>4
<1>2. ASSUME NEW c \in Conns, ExpireSession(c) PROVE IInv'
  <2>1. UNCHANGED ask /\ ask \in [Requests -> AskStates]
    BY <1>2 DEF ExpireSession, callVars, IInv, TypeOK
  <2> QED
    BY <1>2, <2>1, InvalidateInv DEF ExpireSession, callVars
<1> QED
  BY <1>1, <1>2

\* A call that has begun goes on to another stage.
LEMMA AskMoves ==
  ASSUME IInv, NEW r \in Requests, ask[r] # "new", NEW s \in AskStates, s # "new", ask' = [ask EXCEPT ![r] = s]
  PROVE  ask' \in [Requests -> AskStates] /\ \A q \in Requests : ask'[q] = "new" <=> ask[q] = "new"
BY DEF IInv, TypeOK

\* What a caller leaves alone keeps its type.
LEMMA CallTypes ==
  IInv => /\ answer \in [Requests -> Outcomes] /\ written \subseteq Requests /\ canceled \subseteq Requests
          /\ owner \in [Requests -> Conns \cup {NoConn}] /\ outcome \in [Requests -> Outcomes]
BY DEF IInv, TypeOK

\* Requests, their callers and their deliveries keep the invariant.
LEMMA CallerInv ==
  \A r \in Requests : IInv /\ (Request(r) \/ Caller(r) \/ Delivery(r) \/ Abandon(r)) => IInv'
<1> SUFFICES ASSUME NEW r \in Requests, IInv, Request(r) \/ Caller(r) \/ Delivery(r) \/ Abandon(r)
             PROVE  IInv'
  OBVIOUS
<1> USE DEF slotVars, connVars, callVars, pendVars, stateVars
<1>1. CASE Request(r)
  <2>1. /\ ask[r] = "new" /\ ~stopping /\ session \in Conns /\ pending = NoRequest
        /\ pending' = r /\ owner' = [owner EXCEPT ![r] = session] /\ ask' = [ask EXCEPT ![r] = "writing"]
        /\ UNCHANGED <<stopping, reserved, session, loop, handling, open, answer, written,
                       applying, canceled, due, sent, outcome, applier, current>>
    BY <1>1 DEF Request, IInv, TypeOK
  <2>2. TypeOK'
    BY <2>1 DEF IInv, TypeOK, AskStates
  <2>3. HandlingFits' /\ AcceptingFits'
    BY <2>1 DEF IInv, TypeOK, HandlingFits, AcceptingFits
  <2>4. SlotFits'
    BY <2>1, ConnsAssumption DEF SlotFits, IInv, TypeOK
  <2>5. CompletionFits'
    BY <2>1 DEF IInv, TypeOK, CompletionFits
  <2> QED
    BY <2>2, <2>3, <2>4, <2>5 DEF IInv
<1>2. CASE WriteRequest(r)
  <2>1. /\ ask[r] # "new" /\ ask' = [ask EXCEPT ![r] = "waiting"] /\ written' = written \cup {r}
        /\ UNCHANGED <<slotVars, connVars, answer, pendVars, stateVars>>
    BY <1>2 DEF WriteRequest
  <2>2. ask' \in [Requests -> AskStates] /\ \A q \in Requests : ask'[q] = "new" <=> ask[q] = "new"
    BY <2>1, AskMoves DEF AskStates
  <2> QED
    BY <2>1, <2>2, CallTypes, CallerMovesInv
<1>3. CASE WriteFails(r)
  <2>1. /\ ask[r] # "new" /\ ask' = [ask EXCEPT ![r] = "unwinding"]
        /\ written' \in {written, written \cup {r}} /\ TakePending(pending = r)
        /\ UNCHANGED <<stopping, reserved, session, connVars, answer, owner, applying, canceled, sent, outcome, stateVars>>
    BY <1>3 DEF WriteFails, Unwinding
  <2>2. ask' \in [Requests -> AskStates] /\ \A q \in Requests : ask'[q] = "new" <=> ask[q] = "new"
    BY <2>1, AskMoves DEF AskStates
  <2>3. pending' \in {pending, NoRequest} /\ due' \subseteq Requests \X {"ok", "failed"}
    BY <2>1 DEF TakePending, Owe, IInv, TypeOK
  <2>4. TypeOK'
    BY <2>1, <2>2, <2>3 DEF IInv, TypeOK
  <2>5. HandlingFits' /\ AcceptingFits'
    BY <2>1, <2>2 DEF IInv, HandlingFits, AcceptingFits
  <2>6. SlotFits'
    BY <2>1, <2>2, <2>3 DEF IInv, TypeOK, SlotFits
  <2>7. CompletionFits'
    <3>1. CASE pending = r
      BY <2>1, <2>2, <3>1, TakenFits DEF TakePending, IInv, Requests, NoRequest
    <3>2. CASE pending # r
      BY <2>1, <2>2, <3>2, KeptFits DEF TakePending, IInv
    <3> QED
      BY <3>1, <3>2
  <2> QED
    BY <2>4, <2>5, <2>6, <2>7 DEF IInv
<1>4. CASE Receive(r)
  <2>1. ask[r] # "new" /\ Return(r, outcome[r]) /\ outcome[r] \in Outcomes
    BY <1>4, CallTypes DEF Receive
  <2> QED
    BY <2>1, ReturnInv
<1>5. CASE Unwind(r)
  <2>1. ask[r] # "new" /\ Return(r, "failed")
    BY <1>5 DEF Unwind
  <2> QED
    BY <2>1, ReturnInv DEF Outcomes
<1>6. ASSUME NEW go \in BOOLEAN, ask[r] = "waiting",
             IF go THEN session = owner[r] /\ pending = r /\ Invalidate(owner[r]) /\ Unwinding(r)
                   ELSE ask' = [ask EXCEPT ![r] = "receiving"] /\ UNCHANGED <<session, open, pending, due, canceled, sent, outcome>>,
             UNCHANGED <<stopping, reserved, loop, handling, answer, written, owner, applying, stateVars>>
      PROVE  IInv'
  <2>1. ask' \in [Requests -> AskStates] /\ \A q \in Requests : ask'[q] = "new" <=> ask[q] = "new"
    BY <1>6, AskMoves DEF AskStates, Unwinding
  <2>2. CASE go
    <3>1. owner[r] \in Conns
      BY <1>6, <2>2 DEF IInv, TypeOK, SlotFits, Requests, NoRequest
    <3> QED
      BY <1>6, <2>1, <2>2, <3>1, InvalidateInv
  <2>3. CASE ~go
    BY <1>6, <2>1, <2>3, CallTypes, CallerMovesInv
  <2> QED
    BY <2>2, <2>3
<1>7. CASE Timeout(r)
  BY <1>6, <1>7 DEF Timeout
<1>8. CASE HangUp(r)
  BY <1>6, <1>8 DEF HangUp
<1>9. ASSUME NEW o \in Outcomes, Deliver(r, o) PROVE IInv'
  <2>1. /\ <<r, o>> \in due /\ due' = due \ {<<r, o>>} /\ sent' = [sent EXCEPT ![r] = @ + 1]
        /\ canceled' \in {canceled, canceled \cup {r}} /\ outcome' \in {outcome, [outcome EXCEPT ![r] = o]}
        /\ UNCHANGED <<slotVars, connVars, callVars, owner, applying, stateVars>>
    BY <1>9, CallTypes DEF Deliver
  <2>2. TypeOK'
    BY <2>1 DEF IInv, TypeOK
  <2>3. HandlingFits' /\ SlotFits' /\ AcceptingFits'
    BY <2>1 DEF IInv, HandlingFits, SlotFits, AcceptingFits
  <2>4. CompletionFits'
    <3>1. sent[r] = 0 /\ r # pending /\ ask[r] # "new" /\ sent \in [Requests -> Nat]
      BY <2>1 DEF IInv, TypeOK, CompletionFits
    <3>2. UNCHANGED <<pending, ask>>
      BY <2>1
    <3>3. \A u \in Outcomes : <<r, u>> \notin due'
      BY <2>1 DEF IInv, CompletionFits
    <3>4. SUFFICES ASSUME NEW q \in Requests
                   PROVE  /\ q = pending \/ ask[q] = "new" => sent'[q] = 0 /\ \A u \in Outcomes : <<q, u>> \notin due'
                          /\ \A u, v \in Outcomes : <<q, u>> \in due' => sent'[q] = 0 /\ (<<q, v>> \in due' => v = u)
                          /\ sent'[q] <= 1
      BY <3>2 DEF CompletionFits
    <3>5. CASE q = r
      BY <2>1, <3>1, <3>3, <3>5
    <3>6. CASE q # r
      <4>1. sent'[q] = sent[q] /\ \A u \in Outcomes : <<q, u>> \in due' <=> <<q, u>> \in due
        BY <2>1, <3>1, <3>6
      <4> QED
        BY <4>1 DEF IInv, CompletionFits
    <3> QED
      BY <3>5, <3>6
  <2> QED
    BY <2>2, <2>3, <2>4 DEF IInv
<1>10. CASE Abandon(r)
  <2>1. ask' \in [Requests -> AskStates] /\ \A q \in Requests : ask'[q] = "new" <=> ask[q] = "new"
    BY <1>10 DEF Abandon, IInv, TypeOK
  <2> QED
    BY <1>10, <2>1, CallTypes, CallerMovesInv DEF Abandon
<1>11. CASE Request(r) \/ Caller(r) \/ Abandon(r)
  BY <1>1, <1>2, <1>3, <1>4, <1>5, <1>7, <1>8, <1>10, <1>11 DEF Caller
<1> QED
  BY <1>9, <1>11 DEF Delivery

\* Every step keeps the invariant.
LEMMA StepInv == IInv /\ [Next]_vars => IInv'
<1> SUFFICES ASSUME IInv, [Next]_vars PROVE IInv'
  OBVIOUS
<1>1. CASE UNCHANGED vars
  BY <1>1 DEF vars, slotVars, connVars, callVars, pendVars, stateVars, IInv, TypeOK, HandlingFits, SlotFits, AcceptingFits, CompletionFits
<1>2. written \subseteq Requests
  BY DEF IInv, TypeOK
<1>3. ASSUME NEW c \in Conns,
             (\E r \in written : AcceptResponse(c, r) \/ RejectResponse(c, r))
             \/ ReadFails(c) \/ Violation(c) \/ Disconnect(c)
      PROVE  IInv'
  BY <1>2, <1>3, ReadingInv DEF RejectResponse, ReadFails, Violation
<1> QED
  BY <1>1, <1>3, AdmissionInv, ApplyInv, EndingInv, CallerInv DEF Next

\* The invariant holds whatever adapters, callers and the daemon do.
THEOREM Invariant == Spec => []IInv
<1> QED
  BY InitInv, StepInv, PTL DEF Spec

\* Type correctness of connections, requests, the slot and the completions due.
THEOREM TypeCorrect == Spec => []TypeOK
<1>1. IInv => TypeOK
  BY DEF IInv
<1> QED
  BY <1>1, Invariant, PTL

\* The session and its request leave the slot together.
THEOREM PendingHasSessionCorrect == Spec => []PendingHasSession
<1>1. IInv => PendingHasSession
  BY DEF IInv, SlotFits, PendingHasSession
<1> QED
  BY <1>1, Invariant, PTL

\* Late answers never reach a later request (adapter.go, acceptSnapshotResponse).
THEOREM AnswersItsRequestCorrect == Spec => []AnswersItsRequest
<1>1. IInv => AnswersItsRequest
  BY DEF IInv, TypeOK, HandlingFits, Busy, Nothing, NoRequest, AnswersItsRequest
<1> QED
  BY <1>1, Invariant, PTL

-----------------------------------------------------------------------------
(* The order in which snapshots become the Desired state.                  *)

Early == {"locking", "applying", "committing"}

\* Requests start in order, one at a time.
StartedInOrder ==
  /\ \A q, r \in Requests : q < r /\ ask[r] # "new" => ask[q] # "new"
  /\ pending # NoRequest => \A r \in Requests : ask[r] # "new" => r <= pending
  /\ current # NoRequest => ask[current] # "new"

\* The pending request is not applied yet, save by the loop that now reports it.
PendingIsNew ==
  pending # NoRequest /\ current = pending =>
    /\ pending \in applying
    /\ \A c \in Conns : loop[c] \in Early => handling[c].for # pending

\* A response whose request has left the slot is, or is about to be, cancelled.
TakenIsCanceled ==
  \A c \in Conns : loop[c] \in Busy =>
    /\ handling[c].for \in applying
    /\ handling[c].for # pending => handling[c].for \in canceled \/ <<handling[c].for, "failed">> \in due

OrderInv == StartedInOrder /\ PendingIsNew /\ TakenIsCanceled

\* A step that starts, applies and reports nothing.
Frame ==
  /\ UNCHANGED <<current, applying>>
  /\ \A r \in Requests : ask'[r] = "new" <=> ask[r] = "new"
  /\ canceled \subseteq canceled'
  /\ \A r \in Requests : <<r, "failed">> \in due => <<r, "failed">> \in due' \/ r \in canceled'
  /\ pending' = pending \/ (pending' = NoRequest /\ <<pending, "failed">> \in due')
  /\ \A c \in Conns : loop'[c] \in Busy =>
       /\ loop[c] \in Busy /\ handling'[c].for = handling[c].for
       /\ loop'[c] \in Early => loop[c] \in Early

\* Steps that touch no snapshot and no request keep the order.
LEMMA FrameOrder == IInv /\ OrderInv /\ Frame => OrderInv'
<1> SUFFICES ASSUME IInv, OrderInv, Frame PROVE OrderInv'
  OBVIOUS
<1> USE DEF Frame, OrderInv
<1>1. pending \in Requests \cup {NoRequest} /\ current \in Requests \cup {NoRequest}
  BY DEF IInv, TypeOK
<1>2. StartedInOrder'
  BY <1>1 DEF StartedInOrder, NoRequest
<1>3. PendingIsNew'
  BY <1>1 DEF PendingIsNew, Early, Busy
<1>4. TakenIsCanceled'
  BY <1>1 DEF TakenIsCanceled, IInv, HandlingFits
<1> QED
  BY <1>2, <1>3, <1>4

\* Answering and ending requests keeps the order.
LEMMA ResponseOrder ==
  \A c \in Conns, r \in Requests : IInv /\ OrderInv /\ AcceptResponse(c, r) => OrderInv'
<1> SUFFICES ASSUME NEW c \in Conns, NEW r \in Requests, IInv, OrderInv, AcceptResponse(c, r)
             PROVE  OrderInv'
  OBVIOUS
<1> USE DEF OrderInv
<1>1. /\ pending = r /\ r \notin applying /\ applying' = applying \cup {r} /\ r # NoRequest
      /\ UNCHANGED <<pending, current, ask, canceled, due>>
  BY DEF AcceptResponse, Matches, slotVars, callVars, stateVars
<1>2. \A d \in Conns :
        /\ d # c => loop'[d] = loop[d] /\ handling'[d] = handling[d]
        /\ d = c => handling'[d].for = r
  BY <1>1 DEF AcceptResponse, At, IInv, TypeOK
<1>3. StartedInOrder'
  BY <1>1 DEF StartedInOrder
<1>4. PendingIsNew'
  BY <1>1 DEF PendingIsNew
<1>5. TakenIsCanceled'
  BY <1>1, <1>2 DEF TakenIsCanceled
<1> QED
  BY <1>3, <1>4, <1>5

\* Committing a snapshot keeps the order.
LEMMA CommitOrder == \A c \in Conns : IInv /\ OrderInv /\ Commit(c) => OrderInv'
<1> SUFFICES ASSUME NEW c \in Conns, IInv, OrderInv, Commit(c) PROVE OrderInv'
  OBVIOUS
<1> USE DEF OrderInv
<1>1. /\ loop[c] = "committing" /\ current' = handling[c].for /\ handling[c].for \in Requests
      /\ ask[handling[c].for] # "new" /\ owner[handling[c].for] = c
      /\ UNCHANGED <<pending, applying, ask, canceled, due>>
  BY DEF Commit, At, IInv, HandlingFits, Busy, slotVars, callVars, pendVars
<1>2. \A d \in Conns :
        /\ handling'[d].for = handling[d].for
        /\ d # c => loop'[d] = loop[d]
        /\ d = c => loop'[d] = "reporting"
  BY DEF Commit, At, IInv, TypeOK
<1>3. StartedInOrder'
  BY <1>1 DEF StartedInOrder
<1>4. PendingIsNew'
  <2> SUFFICES ASSUME handling[c].for = pending
               PROVE  /\ pending \in applying
                      /\ \A d \in Conns : loop'[d] \in Early => handling'[d].for # pending
    BY <1>1 DEF PendingIsNew
  <2>1. pending \in applying
    BY <1>1 DEF TakenIsCanceled, Busy
  <2>2. ASSUME NEW d \in Conns, loop'[d] \in Early PROVE handling[d].for # pending
    <3>1. d # c /\ loop[d] \in Busy
      BY <1>2, <2>2 DEF Early, Busy
    <3> QED
      BY <1>1, <3>1 DEF IInv, HandlingFits
  <2> QED
    BY <1>2, <2>1, <2>2
<1>5. TakenIsCanceled'
  BY <1>1, <1>2 DEF TakenIsCanceled, Busy
<1> QED
  BY <1>3, <1>4, <1>5

\* Reporting a snapshot keeps the order.
LEMMA ReportOrder == \A c \in Conns : IInv /\ OrderInv /\ Report(c) => OrderInv'
<1> SUFFICES ASSUME NEW c \in Conns, IInv, OrderInv, Report(c) PROVE OrderInv'
  OBVIOUS
<1> USE DEF OrderInv
<1>1. /\ loop[c] = "reporting" /\ handling[c].for \in Requests /\ owner[handling[c].for] = c
      /\ UNCHANGED <<applying, current, ask, canceled>>
      /\ due \subseteq due'
      /\ pending' = IF pending = handling[c].for THEN NoRequest ELSE pending
  BY DEF Report, At, Owe, IInv, HandlingFits, Busy, callVars, stateVars
<1>2. \A d \in Conns : loop'[d] \in Busy => d # c /\ loop'[d] = loop[d] /\ handling'[d] = handling[d]
  BY DEF Report, At, IInv, TypeOK, Busy
<1>3. StartedInOrder'
  BY <1>1 DEF StartedInOrder
<1>4. PendingIsNew'
  BY <1>1, <1>2 DEF PendingIsNew, Early, Busy
<1>5. TakenIsCanceled'
  BY <1>1, <1>2 DEF TakenIsCanceled, IInv, HandlingFits
<1> QED
  BY <1>3, <1>4, <1>5

\* A new request has the highest number.
LEMMA RequestOrder == \A r \in Requests : IInv /\ OrderInv /\ Request(r) => OrderInv'
<1> SUFFICES ASSUME NEW r \in Requests, IInv, OrderInv, Request(r) PROVE OrderInv'
  OBVIOUS
<1> USE DEF OrderInv
<1>1. /\ ask[r] = "new" /\ (\A q \in Requests : q < r => ask[q] # "new")
      /\ pending = NoRequest /\ pending' = r
      /\ UNCHANGED <<connVars, applying, current, canceled, due>>
  BY DEF Request, stateVars
<1>2. \A q \in Requests : IF q = r THEN ask'[q] = "writing" ELSE ask'[q] = ask[q]
  <2>1. ask \in [Requests -> AskStates] /\ ask' = [ask EXCEPT ![r] = "writing"]
    BY DEF Request, IInv, TypeOK
  <2> QED
    BY <2>1
<1>3. StartedInOrder'
  BY <1>1, <1>2 DEF StartedInOrder, Requests, IInv, TypeOK
<1>4. PendingIsNew'
  BY <1>1 DEF PendingIsNew, StartedInOrder, Requests, NoRequest
<1>5. TakenIsCanceled'
  BY <1>1 DEF TakenIsCanceled, connVars, IInv, HandlingFits, Requests, NoRequest
<1> QED
  BY <1>3, <1>4, <1>5

\* Everything else is a frame: what is taken from the slot there is due as failed.
LEMMA OtherConnOrder ==
  \A c \in Conns :
    /\ IInv /\ OrderInv
    /\ \/ Admission(c) \/ StopReading(c) \/ Disconnect(c) \/ ExpireSession(c)
       \/ LockManaged(c) \/ BeginCommit(c) \/ ApplyFails(c) \/ End(c)
    => OrderInv'
<1> SUFFICES ASSUME NEW c \in Conns, IInv, OrderInv,
                    \/ Admission(c) \/ StopReading(c) \/ Disconnect(c) \/ ExpireSession(c)
                    \/ LockManaged(c) \/ BeginCommit(c) \/ ApplyFails(c) \/ End(c)
             PROVE  Frame
  BY FrameOrder
<1> DEFINE Responses == [for : Requests \cup {NoRequest}, data : Requests \cup {NoRequest}, result : Outcomes]
<1>t. /\ ask \in [Requests -> AskStates] /\ loop \in [Conns -> LoopStates]
      /\ handling \in [Conns -> Responses]
  BY DEF IInv, TypeOK
<1> HIDE DEF Responses
<1> USE DEF Frame, Busy, Early, At, TakePending, Owe, slotVars, connVars, callVars, pendVars, stateVars
<1>1. CASE Accept(c) \/ Reserve(c) \/ Refuse(c)
  BY <1>1, <1>t DEF Accept, Reserve, Refuse
<1>2. CASE Install(c) \/ ReleaseReservation(c)
  BY <1>2, <1>t DEF Install, ReleaseReservation
<1>3. CASE StopReading(c) \/ Disconnect(c)
  BY <1>3, <1>t DEF StopReading, Disconnect
<1>4. CASE ExpireSession(c)
  BY <1>4, <1>t DEF ExpireSession, Invalidate
<1>5. CASE LockManaged(c) \/ BeginCommit(c)
  BY <1>5, <1>t DEF LockManaged, BeginCommit
<1>6. CASE ApplyFails(c)
  BY <1>6, <1>t DEF ApplyFails
<1>7. CASE End(c)
  BY <1>7, <1>t DEF End
<1> QED
  BY <1>1, <1>2, <1>3, <1>4, <1>5, <1>6, <1>7 DEF Admission

\* What callers, deliveries and cancellations do is not what the order is about.
LEMMA OtherRequestOrder ==
  \A r \in Requests :
    IInv /\ OrderInv /\ (Caller(r) \/ Delivery(r) \/ Abandon(r)) => OrderInv'
<1> SUFFICES ASSUME NEW r \in Requests, IInv, OrderInv, Caller(r) \/ Delivery(r) \/ Abandon(r)
             PROVE  Frame
  BY FrameOrder
<1> DEFINE Responses == [for : Requests \cup {NoRequest}, data : Requests \cup {NoRequest}, result : Outcomes]
<1>t. /\ ask \in [Requests -> AskStates] /\ loop \in [Conns -> LoopStates]
      /\ handling \in [Conns -> Responses]
  BY DEF IInv, TypeOK
<1> HIDE DEF Responses
<1> USE DEF Frame, Busy, Early, At, TakePending, Owe, slotVars, connVars, callVars, pendVars, stateVars
<1>1. CASE WriteRequest(r) \/ Abandon(r)
  BY <1>1, <1>t DEF WriteRequest, Abandon
<1>2. CASE WriteFails(r)
  BY <1>2, <1>t DEF WriteFails, Unwinding
<1>3. CASE Receive(r) \/ Unwind(r)
  BY <1>3, <1>t DEF Receive, Unwind, Return
<1>4. CASE Timeout(r)
  BY <1>4, <1>t DEF Timeout, Invalidate, Unwinding
<1>5. CASE HangUp(r)
  BY <1>5, <1>t DEF HangUp, Invalidate, Unwinding
<1>6. ASSUME NEW o \in Outcomes, Deliver(r, o) PROVE Frame
  BY <1>6, <1>t DEF Deliver
<1> QED
  BY <1>1, <1>2, <1>3, <1>4, <1>5, <1>6 DEF Caller, Delivery

\* Every step keeps the order.
LEMMA StepOrder == IInv /\ OrderInv /\ [Next]_vars => OrderInv'
<1> SUFFICES ASSUME IInv, OrderInv, [Next]_vars PROVE OrderInv'
  OBVIOUS
<1>1. CASE UNCHANGED vars
  BY <1>1 DEF vars, slotVars, connVars, callVars, pendVars, stateVars, OrderInv, StartedInOrder, PendingIsNew, TakenIsCanceled
<1>2. written \subseteq Requests
  BY DEF IInv, TypeOK
<1>3. CASE Stop
  BY <1>3, FrameOrder DEF Stop, Frame, TakePending, Owe, callVars, stateVars
<1>4. ASSUME NEW c \in Conns, Apply(c) PROVE OrderInv'
  BY <1>4, OtherConnOrder, CommitOrder, ReportOrder DEF Apply
<1>5. ASSUME NEW c \in Conns, NEW r \in written, AcceptResponse(c, r) \/ RejectResponse(c, r)
      PROVE  OrderInv'
  BY <1>2, <1>5, OtherConnOrder, ResponseOrder DEF RejectResponse
<1>6. ASSUME NEW c \in Conns,
             Admission(c) \/ ReadFails(c) \/ Violation(c) \/ ExpireSession(c) \/ Disconnect(c)
      PROVE  OrderInv'
  BY <1>6, OtherConnOrder DEF ReadFails, Violation
<1> QED
  BY <1>1, <1>3, <1>4, <1>5, <1>6, RequestOrder, OtherRequestOrder DEF Next

\* A snapshot that waited for managedMu replaces nothing newer: its commit only
\* begins under a context that ending its request cancels (adapter.go,
\* handleSpotifySync and invalidateAdapterSession).
THEOREM NewestSnapshotWinsCorrect == Spec => NewestSnapshotWins
<1>1. Init => OrderInv
  BY RequestsAssumption DEF Init, OrderInv, StartedInOrder, PendingIsNew, TakenIsCanceled, Busy, NoRequest, Requests
<1>2. ASSUME IInv, OrderInv, NEW c \in Conns, BeginCommit(c)
      PROVE  handling[c].for > current \/ <<handling[c].for, "failed">> \in due
  <2>1. /\ loop[c] = "applying" /\ handling[c].for \notin canceled /\ handling[c].for \in Requests
        /\ current \in Requests \cup {NoRequest} /\ RequestsAssumption
    BY <1>2, RequestsAssumption DEF BeginCommit, At, IInv, TypeOK, HandlingFits, Busy
  <2>2. CASE handling[c].for # pending
    BY <1>2, <2>1, <2>2 DEF OrderInv, TakenIsCanceled, Busy
  <2>3. CASE handling[c].for = pending
    <3>1. current # pending
      BY <1>2, <2>1, <2>3 DEF OrderInv, PendingIsNew, Early, Requests, NoRequest
    <3>2. current # NoRequest => current <= pending
      BY <1>2, <2>1, <2>3 DEF OrderInv, StartedInOrder, Requests, NoRequest
    <3> QED
      BY <2>1, <2>3, <3>1, <3>2 DEF Requests, NoRequest, RequestsAssumption
  <2> QED
    BY <2>2, <2>3
<1>3. IInv /\ OrderInv =>
        [\A c \in Conns : BeginCommit(c) =>
           handling[c].for > current \/ <<handling[c].for, "failed">> \in due]_vars
  BY <1>2
<1> QED
  BY <1>1, <1>3, Invariant, StepOrder, PTL DEF Spec, NewestSnapshotWins

\* After stopAdapterWork the slot is only emptied.
THEOREM NothingStartsAfterStopCorrect == Spec => NothingStartsAfterStop
<1>1. [Next]_vars => [stopping => session' \in {session, NoConn} /\ pending' \in {pending, NoRequest}]_vars
  <2> SUFFICES ASSUME [Next]_vars, stopping
               PROVE  session' \in {session, NoConn} /\ pending' \in {pending, NoRequest}
    OBVIOUS
  <2> USE DEF slotVars, TakePending, Invalidate
  <2>1. CASE UNCHANGED vars
    BY <2>1 DEF vars
  <2>2. ASSUME NEW c \in Conns, Admission(c)
        PROVE  session' \in {session, NoConn} /\ pending' \in {pending, NoRequest}
    BY <2>2 DEF Admission, Accept, Reserve, SlotFree, Refuse, Install, ReleaseReservation
  <2>3. ASSUME NEW c \in Conns, Apply(c)
        PROVE  session' \in {session, NoConn} /\ pending' \in {pending, NoRequest}
    BY <2>3 DEF Apply, LockManaged, BeginCommit, Commit, ApplyFails, Report, End
  <2>4. ASSUME NEW c \in Conns, NEW r, AcceptResponse(c, r) \/ RejectResponse(c, r)
        PROVE  session' \in {session, NoConn} /\ pending' \in {pending, NoRequest}
    BY <2>4 DEF AcceptResponse, RejectResponse, StopReading
  <2>5. ASSUME NEW c \in Conns, ReadFails(c) \/ Violation(c) \/ ExpireSession(c) \/ Disconnect(c)
        PROVE  session' \in {session, NoConn} /\ pending' \in {pending, NoRequest}
    BY <2>5 DEF ReadFails, Violation, StopReading, ExpireSession, Disconnect
  <2>6. CASE Stop
    BY <2>6 DEF Stop
  <2>7. ASSUME NEW r \in Requests, Request(r) \/ Delivery(r) \/ Abandon(r)
        PROVE  session' \in {session, NoConn} /\ pending' \in {pending, NoRequest}
    BY <2>7 DEF Request, Delivery, Deliver, Abandon
  <2>8. ASSUME NEW r \in Requests, Caller(r)
        PROVE  session' \in {session, NoConn} /\ pending' \in {pending, NoRequest}
    BY <2>8 DEF Caller, WriteRequest, WriteFails, Receive, Unwind, Return, Timeout, HangUp
  <2> QED
    BY <2>1, <2>2, <2>3, <2>4, <2>5, <2>6, <2>7, <2>8 DEF Next
<1> QED
  BY <1>1, PTL DEF Spec, NothingStartsAfterStop

-----------------------------------------------------------------------------
(* What every wait can count on: nothing in the slot is left behind, and a *)
(* call that has left it is completed or about to be.                      *)

\* The reservation and the session have a goroutine that gives them up.
KeeperFits ==
  /\ reserved => \E c \in Conns : loop[c] = "accepting"
  /\ session # NoConn => loop[session] \notin {"new", "hello", "accepting", "done"}

\* What a loop does with its answer has no result before the commit, and an
\* accepted answer to the pending request is still in the hands of its loop.
HandFits ==
  /\ \A c \in Conns : loop[c] \in Early => handling[c].result = "none"
  /\ pending \in applying => loop[owner[pending]] \in Busy /\ handling[owner[pending]].for = pending
  /\ \A r \in applying : ask[r] # "new"

\* How far a caller is says where its completion is.
CallerFits(r) ==
  /\ sent[r] = 0 <=> outcome[r] = "none"
  /\ ask[r] # "new" /\ pending # r => sent[r] > 0 \/ \E o \in {"ok", "failed"} : <<r, o>> \in due
  /\ ask[r] = "unwinding" => pending # r
  /\ ask[r] = "receiving" /\ pending = r => r \in applying
  /\ ask[r] # "done" => answer[r] = "none"

CallInv == KeeperFits /\ HandFits /\ \A r \in Requests : CallerFits(r)

\* Who takes the pending request from the slot, if anyone does, owes a completion.
Taken ==
  \/ UNCHANGED <<pending, due>>
  \/ pending # NoRequest /\ pending' = NoRequest /\ \E o \in {"ok", "failed"} : Owe(pending, o)

\* A step of a loop: callers see nothing of it but what it takes from the slot.
LEMMA LoopKeepsCallers ==
  ASSUME IInv, NEW r \in Requests, CallerFits(r), Taken, applying \subseteq applying',
         UNCHANGED <<ask, answer, sent, outcome>>
  PROVE  CallerFits(r)'
BY DEF Taken, Owe, CallerFits, Requests, NoRequest

\* A loop owes a completion whenever it takes the request from the slot.
LEMMA LoopTakes ==
  ASSUME IInv, NEW c \in Conns,
         \/ Admission(c) \/ Apply(c) \/ StopReading(c) \/ ExpireSession(c) \/ Disconnect(c)
         \/ \E r \in Requests : AcceptResponse(c, r)
  PROVE  Taken /\ applying \subseteq applying' /\ UNCHANGED <<ask, answer, sent, outcome>>
<1> USE DEF slotVars, connVars, callVars, pendVars, stateVars, Taken, TakePending
<1>1. CASE Admission(c)
  BY <1>1 DEF Admission, Accept, Reserve, Refuse, Install, ReleaseReservation
<1>2. CASE LockManaged(c) \/ BeginCommit(c) \/ Commit(c) \/ ApplyFails(c) \/ StopReading(c) \/ Disconnect(c)
  BY <1>2 DEF LockManaged, BeginCommit, Commit, ApplyFails, StopReading, Disconnect
<1>3. CASE Report(c)
  BY <1>3 DEF Report, At, IInv, TypeOK, HandlingFits, Busy, Outcomes, Requests, NoRequest
<1>4. CASE End(c) \/ ExpireSession(c)
  BY <1>4 DEF End, ExpireSession, Invalidate
<1>5. ASSUME NEW r \in Requests, AcceptResponse(c, r) PROVE Taken /\ applying \subseteq applying' /\ UNCHANGED <<ask, answer, sent, outcome>>
  BY <1>5 DEF AcceptResponse
<1> QED
  BY <1>1, <1>2, <1>3, <1>4, <1>5 DEF Apply

\* A step of a caller, or of whoever completes its request.
LEMMA CallerKeepsCallers ==
  ASSUME IInv, NEW q \in Requests, NEW r \in Requests, CallerFits(r), CallerFits(q),
         pending \in applying => ask[pending] # "new", q \in applying => ask[q] # "new",
         Request(q) \/ Caller(q) \/ Delivery(q) \/ Abandon(q)
  PROVE  CallerFits(r)'
<1> USE RequestsAssumption DEF IInv, TypeOK, CallerFits, slotVars, connVars, callVars, pendVars, stateVars, TakePending, Owe,
    Requests, NoRequest
<1>1. CASE Request(q)
  BY <1>1 DEF Request, SlotFits, CompletionFits
<1>2. CASE WriteRequest(q)
  BY <1>2 DEF WriteRequest
<1>3. CASE WriteFails(q)
  BY <1>3 DEF WriteFails, Unwinding
<1>4. CASE Receive(q)
  BY <1>4 DEF Receive, Return
<1>5. CASE Unwind(q)
  BY <1>5 DEF Unwind, Return
<1>6. CASE Timeout(q)
  BY <1>6 DEF Timeout, Invalidate, Unwinding, SlotFits
<1>7. CASE HangUp(q)
  BY <1>7 DEF HangUp, Invalidate, Unwinding, SlotFits
<1>8. CASE Delivery(q)
  BY <1>8 DEF Delivery, Deliver, Outcomes
<1>9. CASE Abandon(q)
  BY <1>9 DEF Abandon
<1> QED
  BY <1>1, <1>2, <1>3, <1>4, <1>5, <1>6, <1>7, <1>8, <1>9 DEF Caller

\* A caller touches no loop, and no more of the slot than to empty it or to start.
LEMMA RequestKeepsLoops ==
  ASSUME NEW r \in Requests, Request(r) \/ Delivery(r) \/ Abandon(r) \/ Caller(r)
  PROVE  UNCHANGED <<stopping, reserved, loop, handling, applying, stateVars>> /\ session' \in {session, NoConn}
<1> USE DEF slotVars, connVars, pendVars
<1>1. CASE Request(r)
  BY <1>1 DEF Request
<1>2. CASE Delivery(r) \/ Abandon(r)
  BY <1>2 DEF Delivery, Deliver, Abandon
<1>3. CASE WriteRequest(r) \/ WriteFails(r) \/ Receive(r) \/ Unwind(r)
  BY <1>3 DEF WriteRequest, WriteFails, Receive, Unwind, Return
<1>4. CASE Timeout(r) \/ HangUp(r)
  BY <1>4 DEF Timeout, HangUp, Invalidate
<1> QED
  BY <1>1, <1>2, <1>3, <1>4 DEF Caller

\* The slot is given up only by the goroutine that has it, or by whoever empties it.
LEMMA KeeperStep == ASSUME IInv, KeeperFits, [Next]_vars PROVE KeeperFits'
<1> USE ConnsAssumption DEF IInv, TypeOK, KeeperFits, slotVars, connVars, callVars, pendVars, stateVars, At
<1>1. CASE UNCHANGED vars
  BY <1>1 DEF vars
<1>2. ASSUME NEW c \in Conns, Accept(c) \/ Reserve(c) \/ Refuse(c) PROVE KeeperFits'
  BY <1>2 DEF Accept, Reserve, SlotFree, Refuse
<1>3. ASSUME NEW c \in Conns, Install(c) \/ ReleaseReservation(c) PROVE KeeperFits'
  BY <1>3 DEF Install, ReleaseReservation, AcceptingFits
<1>4. ASSUME NEW c \in Conns, LockManaged(c) \/ BeginCommit(c) \/ Commit(c) \/ ApplyFails(c) \/ Report(c)
      PROVE  KeeperFits'
  BY <1>4 DEF LockManaged, BeginCommit, Commit, ApplyFails, Report
<1>5. ASSUME NEW c \in Conns, End(c) \/ ExpireSession(c) \/ Disconnect(c) \/ StopReading(c) PROVE KeeperFits'
  BY <1>5 DEF End, ExpireSession, Invalidate, Disconnect, StopReading
<1>6. ASSUME NEW c \in Conns, NEW r, AcceptResponse(c, r) PROVE KeeperFits'
  BY <1>6 DEF AcceptResponse
<1>7. CASE Stop
  BY <1>7 DEF Stop
<1>8. ASSUME NEW r \in Requests, Request(r) \/ Delivery(r) \/ Abandon(r) \/ Caller(r) PROVE KeeperFits'
  BY <1>8, RequestKeepsLoops
<1> QED
  BY <1>1, <1>2, <1>3, <1>4, <1>5, <1>6, <1>7, <1>8
  DEF Next, Admission, Apply, RejectResponse, ReadFails, Violation

KeepsHand(c) ==
  /\ loop[c] \in Busy => loop'[c] \in Busy /\ handling'[c].for = handling[c].for
  /\ loop'[c] \in Early => loop[c] \in Early /\ handling'[c].result = handling[c].result

\* A step in which no loop drops its answer.
LEMMA HandFrame ==
  ASSUME IInv, HandFits, pending' \in {pending, NoRequest}, UNCHANGED <<applying, owner>>,
         \A r \in Requests : ask[r] # "new" => ask'[r] # "new",
         \A c \in Conns : KeepsHand(c)
  PROVE  HandFits'
<1>1. pending' \in applying' => pending' = pending /\ owner[pending] \in Conns
  BY RequestsAssumption DEF HandFits, IInv, TypeOK, SlotFits, Requests, NoRequest
<1> QED
  BY <1>1 DEF HandFits, IInv, TypeOK, KeepsHand

\* An accepted answer stays in the hands of its loop until it is reported.
LEMMA HandStep == ASSUME IInv, HandFits, [Next]_vars PROVE HandFits'
<1> USE DEF slotVars, connVars, callVars, pendVars, stateVars, At
<1>1. CASE UNCHANGED vars
  BY <1>1, HandFrame DEF vars, KeepsHand
<1>2. ASSUME NEW c \in Conns,
             Admission(c) \/ StopReading(c) \/ Disconnect(c) \/ LockManaged(c) \/ BeginCommit(c)
      PROVE  HandFits'
  <2>1. UNCHANGED <<applying, owner, ask, pending>>
    BY <1>2 DEF Admission, Accept, Reserve, Refuse, Install, ReleaseReservation, StopReading, Disconnect,
       LockManaged, BeginCommit
  <2>2. \A d \in Conns : KeepsHand(d)
    BY <1>2 DEF Admission, Accept, Reserve, Refuse, Install, ReleaseReservation, StopReading, Disconnect,
       LockManaged, BeginCommit, IInv, TypeOK, Busy, Early, KeepsHand
  <2> QED
    BY <2>1, <2>2, HandFrame
<1>3. ASSUME NEW c \in Conns, Commit(c) \/ ApplyFails(c) PROVE HandFits'
  <2>1. UNCHANGED <<applying, owner, ask, pending>>
    BY <1>3 DEF Commit, ApplyFails
  <2>2. \A d \in Conns : KeepsHand(d)
    BY <1>3 DEF Commit, ApplyFails, IInv, TypeOK, Busy, Early, KeepsHand
  <2> QED
    BY <2>1, <2>2, HandFrame
<1>4. ASSUME NEW c \in Conns, Report(c) PROVE HandFits'
  BY <1>4, RequestsAssumption DEF Report, IInv, TypeOK, HandFits, Early, Busy, Requests, NoRequest
<1>5. ASSUME NEW c \in Conns, End(c) \/ ExpireSession(c) PROVE HandFits'
  <2>1. UNCHANGED <<applying, owner, ask>> /\ pending' \in {pending, NoRequest}
    BY <1>5 DEF End, ExpireSession, Invalidate, TakePending
  <2>2. \A d \in Conns : KeepsHand(d)
    BY <1>5 DEF End, ExpireSession, IInv, TypeOK, Busy, Early, KeepsHand
  <2> QED
    BY <2>1, <2>2, HandFrame
<1>6. ASSUME NEW c \in Conns, NEW r, AcceptResponse(c, r) PROVE HandFits'
  BY <1>6, RequestsAssumption
  DEF AcceptResponse, Matches, SlotFits, IInv, TypeOK, HandFits, Early, Busy, Requests, NoRequest
<1>7. CASE Stop
  BY <1>7, HandFrame DEF Stop, TakePending, KeepsHand
<1>8. ASSUME NEW r \in Requests, Request(r) PROVE HandFits'
  BY <1>8, RequestsAssumption DEF Request, IInv, TypeOK, HandFits, Requests, NoRequest
<1>9. ASSUME NEW r \in Requests, Delivery(r) \/ Abandon(r) \/ Caller(r) PROVE HandFits'
  <2>1. UNCHANGED <<loop, handling, applying>>
    BY <1>9, RequestKeepsLoops
  <2>2. UNCHANGED owner /\ pending' \in {pending, NoRequest}
    BY <1>9 DEF Delivery, Deliver, Abandon, Caller, WriteRequest, WriteFails, Receive, Unwind, Return,
       Timeout, HangUp, Invalidate, TakePending
  <2>3. \A q \in Requests : ask[q] # "new" => ask'[q] # "new"
    BY <1>9 DEF Delivery, Deliver, Abandon, Caller, WriteRequest, WriteFails, Receive, Unwind, Return,
       Timeout, HangUp, Unwinding, IInv, TypeOK
  <2> QED
    BY <2>1, <2>2, <2>3, HandFrame DEF Early, KeepsHand
<1> QED
  BY <1>1, <1>2, <1>3, <1>4, <1>5, <1>6, <1>7, <1>8, <1>9
  DEF Next, Apply, RejectResponse, ReadFails, Violation


LEMMA CallStep == ASSUME IInv, CallInv, [Next]_vars PROVE CallInv'
<1>1. KeeperFits' /\ HandFits'
  BY KeeperStep, HandStep DEF CallInv
<1>2. ASSUME NEW r \in Requests PROVE CallerFits(r)'
  <2>1. CallerFits(r)
    BY DEF CallInv
  <2>2. CASE UNCHANGED vars
    BY <2>1, <2>2 DEF vars, slotVars, callVars, pendVars, CallerFits
  <2>3. ASSUME NEW c \in Conns,
               \/ Admission(c) \/ Apply(c) \/ StopReading(c) \/ ExpireSession(c) \/ Disconnect(c)
               \/ \E q \in Requests : AcceptResponse(c, q)
        PROVE  CallerFits(r)'
    BY <2>1, <2>3, LoopTakes, LoopKeepsCallers
  <2>4. ASSUME NEW q \in Requests, Request(q) \/ Caller(q) \/ Delivery(q) \/ Abandon(q)
        PROVE  CallerFits(r)'
    <3>1. CallerFits(q) /\ \A p \in applying : ask[p] # "new"
      BY DEF CallInv, HandFits
    <3> QED
      BY <2>1, <2>4, <3>1, CallerKeepsCallers
  <2>5. CASE Stop
    BY <2>1, <2>5, LoopKeepsCallers DEF Stop, Taken, TakePending, callVars
  <2> QED
    BY <2>2, <2>3, <2>4, <2>5 DEF Next, RejectResponse, ReadFails, Violation, IInv, TypeOK
<1> QED
  BY <1>1, <1>2 DEF CallInv

LEMMA CallsAreKept == Spec => [](IInv /\ CallInv)
<1>1. Init => CallInv
  BY RequestsAssumption, ConnsAssumption
  DEF Init, CallInv, KeeperFits, HandFits, CallerFits, Early, Requests, NoRequest
<1>2. IInv /\ CallInv /\ [Next]_vars => CallInv'
  BY CallStep
<1> QED
  BY <1>1, <1>2, Invariant, PTL DEF Spec

\* A request is completed once, so that no sender blocks on its channel, and a
\* caller whose timer has fired receives (adapter.go, completePendingSnapshot,
\* completeSnapshotResponse and invalidateSnapshotResponseWait).
THEOREM CompletedOnceCorrect == Spec => []CompletedOnce
<1>1. ASSUME IInv, CallInv, NEW r \in Requests, ask[r] = "receiving" PROVE sent[r] = 1 \/ Coming(r)
  <2>1. CASE pending = r
    <3>1. r \in applying
      BY <1>1, <2>1 DEF CallInv, CallerFits
    <3>2. pending # NoRequest
      BY <2>1 DEF Requests, NoRequest
    <3>3. owner[r] \in Conns
      BY <1>1, <2>1, <3>2 DEF IInv, TypeOK, SlotFits
    <3> QED
      BY <1>1, <2>1, <3>1, <3>3 DEF CallInv, HandFits, Busy, Coming
  <2>2. CASE pending # r
    BY <1>1, <2>2 DEF CallInv, CallerFits, Coming, Outcomes, IInv, TypeOK, CompletionFits
  <2> QED
    BY <2>1, <2>2
<1>2. IInv /\ CallInv => CompletedOnce
  BY <1>1 DEF IInv, CompletionFits, CompletedOnce
<1> QED
  BY <1>2, CallsAreKept, PTL

\* adapterReserved keeps a second connection out while hello.accepted is
\* written with adapterMu released, and every way out of that gives it back.
THEOREM OneSessionCorrect == Spec => []OneSession
<1>1. IInv => Cardinality({c \in Conns : loop[c] = "accepting"}) <= 1
  <2> SUFFICES ASSUME IInv PROVE Cardinality({c \in Conns : loop[c] = "accepting"}) <= 1
    OBVIOUS
  <2> DEFINE A == {c \in Conns : loop[c] = "accepting"}
  <2>1. CASE A = {}
    BY <2>1, FS_EmptySet
  <2>2. CASE A # {}
    <3> PICK c \in A : TRUE
      BY <2>2
    <3>1. A = {c}
      BY DEF IInv, AcceptingFits
    <3>2. Cardinality({c}) = 1
      BY FS_Singleton
    <3> HIDE DEF A
    <3>3. Cardinality(A) <= 1
      BY <3>1, <3>2
    <3> QED
      BY <3>3 DEF A
  <2> QED
    BY <2>1, <2>2
<1>2. IInv /\ CallInv => OneSession
  BY <1>1 DEF IInv, AcceptingFits, CallInv, KeeperFits, OneSession
<1> QED
  BY <1>2, CallsAreKept, PTL

-----------------------------------------------------------------------------
(* The daemon implements SnapshotCalls.                                    *)

Stored(r) == \E c \in Conns : handling[c].for = r /\ handling[c].result = "ok"
Good(r) == <<r, "ok">> \in due \/ outcome[r] = "ok"
Undecided == {r \in Requests : pending # r /\ InHand(r)}

SameCall(r) == Phase(r)' = Phase(r) /\ (r \in Undecided' <=> r \in Undecided)

\* The life of a request, case by case, before and after a step.
LEMMA PhaseIs ==
  ASSUME NEW r \in Requests
  PROVE  /\ ask[r] = "new" => Phase(r) = "new"
         /\ ask[r] # "new" /\ pending = r => Phase(r) = IF Stored(r) THEN "stored" ELSE "open"
         /\ ask[r] # "new" /\ pending # r => Phase(r) = IF Good(r) THEN "ok" ELSE "failed"
         /\ ask'[r] = "new" => Phase(r)' = "new"
         /\ ask'[r] # "new" /\ pending' = r => Phase(r)' = IF Stored(r)' THEN "stored" ELSE "open"
         /\ ask'[r] # "new" /\ pending' # r => Phase(r)' = IF Good(r)' THEN "ok" ELSE "failed"
BY DEF Phase, Stored, Good

\* The pending request is the live one.
LEMMA LiveIsPending ==
  ASSUME IInv
  PROVE  \A r \in Requests : Phase(r) \in {"open", "stored"} <=> r = pending
<1> SUFFICES ASSUME NEW r \in Requests PROVE Phase(r) \in {"open", "stored"} <=> r = pending
  OBVIOUS
<1>1. r = pending => ask[r] # "new"
  BY RequestsAssumption DEF IInv, SlotFits, Requests, NoRequest
<1> QED
  BY <1>1, PhaseIs

\* A request is in the hands of one loop, that of the session it was sent to.
LEMMA OneHand ==
  ASSUME IInv, NEW c \in Conns, handling[c].for \in Requests
  PROVE  /\ loop[c] \in Busy /\ ask[handling[c].for] # "new"
         /\ \A d \in Conns : handling[d].for = handling[c].for => d = c
BY RequestsAssumption DEF IInv, TypeOK, HandlingFits, Busy, Nothing, Requests, NoRequest

\* Nothing a caller may know of has changed.
LEMMA Unseen ==
  ASSUME UNCHANGED <<stopping, session, current, answer>>, \A r \in Requests : SameCall(r)
  PROVE  UNCHANGED Calls!vars
<1>1. [r \in Requests |-> Phase(r)]' = [r \in Requests |-> Phase(r)]
  BY DEF SameCall
<1>2. {r \in Requests : pending # r /\ InHand(r)}' = {r \in Requests : pending # r /\ InHand(r)}
  BY DEF SameCall, Undecided
<1> QED
  BY <1>1, <1>2 DEF Calls!vars

\* A step that neither takes nor hands on anything of a request.
LEMMA CallsFrame ==
  ASSUME UNCHANGED <<pending, due, outcome, handling>>,
         \A r \in Requests : ask'[r] = "new" <=> ask[r] = "new",
         \A c \in Conns : loop'[c] \in Early <=> loop[c] \in Early
  PROVE  \A r \in Requests : SameCall(r)
<1> SUFFICES ASSUME NEW r \in Requests PROVE SameCall(r)
  OBVIOUS
<1>1. (Stored(r)' <=> Stored(r)) /\ (Good(r)' <=> Good(r))
  BY DEF Stored, Good
<1>2. InHand(r)' <=> InHand(r)
  BY DEF InHand, Early
<1> QED
  BY <1>1, <1>2, PhaseIs DEF SameCall, Undecided

\* Whoever empties the slot makes the live call fail.
LEMMA TakenFails ==
  ASSUME IInv, CallInv, pending # NoRequest, pending' = NoRequest, Owe(pending, "failed"),
         UNCHANGED <<handling, outcome, current, answer>>, \A c \in Conns : loop'[c] \in Early <=> loop[c] \in Early,
         \A r \in Requests : ask'[r] = "new" <=> ask[r] = "new"
  PROVE  Calls!FailLive
<1>1. pending \in Requests /\ NoRequest \notin Requests
  BY RequestsAssumption DEF IInv, TypeOK, Requests, NoRequest
<1>2. \A r \in Requests : InHand(r)' <=> InHand(r)
  BY DEF InHand, Early
<1>3. \A r \in Requests : Good(r)' <=> Good(r)
  BY DEF Good, Owe
<1>4. ~Good(pending)
  BY <1>1 DEF Good, IInv, CompletionFits, CallInv, CallerFits, Outcomes
<1>5. ASSUME NEW r \in Requests
      PROVE  Phase(r)' = IF Phase(r) \in {"open", "stored"} THEN "failed" ELSE Phase(r)
  BY <1>1, <1>3, <1>4, LiveIsPending, PhaseIs DEF IInv, SlotFits
<1>6. InHand(pending) => Phase(pending) = "open"
  <2> SUFFICES ASSUME NEW c \in Conns, loop[c] \in Early, handling[c].for = pending
               PROVE  ~Stored(pending)
    BY <1>1, PhaseIs DEF InHand, Early, IInv, SlotFits
  <2>1. handling[c].result = "none"
    BY DEF CallInv, HandFits
  <2> QED
    BY <1>1, <2>1, OneHand DEF Stored
<1>7. Undecided \subseteq Undecided' /\ Undecided' \subseteq Undecided \cup {r \in Requests : Phase(r) = "open"}
  BY <1>1, <1>2, <1>6 DEF Undecided
<1> QED
  BY <1>5, <1>7 DEF Calls!FailLive, Calls!Live, Undecided

\* A connection is greeted or lost; an answer is accepted.
LEMMA ReadingIsCallStep ==
  ASSUME IInv, CallInv, NEW c \in Conns,
         \/ Admission(c) \/ StopReading(c) \/ Disconnect(c)
         \/ \E r \in Requests : AcceptResponse(c, r)
  PROVE  [Calls!Next]_(Calls!vars)
<1> USE DEF slotVars, connVars, callVars, pendVars, stateVars, At
<1>1. CASE Admission(c) \/ StopReading(c) \/ Disconnect(c)
  <2>1. UNCHANGED <<stopping, pending, due, outcome, handling, ask, current, answer>>
    BY <1>1 DEF Admission, Accept, Reserve, Refuse, Install, ReleaseReservation, StopReading, Disconnect
  <2>2. \A d \in Conns : loop'[d] \in Early <=> loop[d] \in Early
    BY <1>1 DEF Admission, Accept, Reserve, Refuse, Install, ReleaseReservation, StopReading, Disconnect,
       IInv, TypeOK, Early
  <2>3. \A r \in Requests : SameCall(r)
    BY <2>1, <2>2, CallsFrame
  <2>4. UNCHANGED session \/ (Install(c) /\ ~stopping /\ session' = c)
    BY <1>1 DEF Admission, Accept, Reserve, Refuse, Install, ReleaseReservation, StopReading, Disconnect
  <2>5. CASE UNCHANGED session
    BY <2>1, <2>3, <2>5, Unseen
  <2>6. CASE Install(c) /\ ~stopping /\ session' = c
    <3>1. session = NoConn
      BY <2>6 DEF Install, IInv, AcceptingFits
    <3>2. Calls!Connect(c)
      BY <2>1, <2>3, <2>6, <3>1 DEF Calls!Connect, SameCall, Undecided
    <3> QED
      BY <3>2 DEF Calls!Next
  <2> QED
    BY <2>4, <2>5, <2>6
<1>2. ASSUME NEW q \in Requests, AcceptResponse(c, q) PROVE [Calls!Next]_(Calls!vars)
  <2>1. /\ loop[c] = "reading" /\ pending = q /\ handling'[c].for = q /\ handling'[c].result # "ok"
        /\ \A d \in Conns \ {c} : handling'[d] = handling[d] /\ loop'[d] = loop[d]
        /\ UNCHANGED <<stopping, session, pending, due, outcome, ask, current, answer>>
    BY <1>2 DEF AcceptResponse, Matches, IInv, TypeOK
  <2>2. handling[c].for \notin Requests
    BY <2>1, OneHand DEF Busy
  <2>3. ASSUME NEW r \in Requests PROVE SameCall(r)
    <3>1. Stored(r)' <=> Stored(r)
      BY <2>1, <2>2 DEF Stored
    <3>2. Good(r)' <=> Good(r)
      BY <2>1 DEF Good
    <3>3. r # q => (InHand(r)' <=> InHand(r))
      BY <2>1, <2>2 DEF InHand
    <3> QED
      BY <2>1, <3>1, <3>2, <3>3, PhaseIs DEF SameCall, Undecided
  <2> QED
    BY <2>1, <2>3, Unseen
<1> QED
  BY <1>1, <1>2

\* A loop ends its work on an answer: before, the answer had no result.
LEMMA HandEnds ==
  ASSUME IInv, CallInv, NEW c \in Conns, loop[c] \in Early, loop'[c] = "reporting",
         \A d \in Conns \ {c} : handling'[d] = handling[d] /\ loop'[d] = loop[d],
         handling'[c].for = handling[c].for, UNCHANGED <<pending, due, outcome, ask>>
  PROVE  /\ handling[c].for \in Requests
         /\ \A r \in Requests \ {handling[c].for} : SameCall(r)
         /\ Undecided' = Undecided \ {handling[c].for}
         /\ pending = handling[c].for =>
              Phase(pending) = "open" /\ Phase(pending)' = IF handling'[c].result = "ok" THEN "stored" ELSE "open"
         /\ pending # handling[c].for =>
              handling[c].for \in Undecided /\ Phase(handling[c].for)' = Phase(handling[c].for)
<1> DEFINE q == handling[c].for
<1>1. q \in Requests /\ loop[c] \in Busy /\ ask[q] # "new" /\ handling[c].result = "none"
  BY DEF Early, Busy, IInv, HandlingFits, CallInv, HandFits
<1>2. \A d \in Conns \ {c} : handling[d].for # q
  BY <1>1, OneHand
<1>3. \A r \in Requests : Good(r)' <=> Good(r)
  BY DEF Good
<1>4. \A r \in Requests \ {q} : (Stored(r)' <=> Stored(r)) /\ (InHand(r)' <=> InHand(r))
  BY DEF Stored, InHand
<1>5. InHand(q) /\ ~InHand(q)' /\ ~Stored(q) /\ (Stored(q)' <=> handling'[c].result = "ok")
  BY <1>1, <1>2 DEF InHand, Early, Stored
<1>6. \A r \in Requests \ {q} : SameCall(r)
  BY <1>3, <1>4, PhaseIs DEF SameCall, Undecided
<1>7. Undecided' = Undecided \ {q}
  BY <1>4, <1>5 DEF Undecided
<1> QED
  BY <1>1, <1>3, <1>5, <1>6, <1>7, PhaseIs DEF Undecided

\* Applying an answer stores it, in time or late, or settles that it will not be.
LEMMA ApplyIsCallStep ==
  ASSUME IInv, CallInv, NEW c \in Conns, LockManaged(c) \/ BeginCommit(c) \/ Commit(c) \/ ApplyFails(c)
  PROVE  [Calls!Next]_(Calls!vars)
<1> USE DEF slotVars, connVars, callVars, pendVars, stateVars, At
<1>1. CASE LockManaged(c) \/ BeginCommit(c)
  <2>1. UNCHANGED <<stopping, session, pending, due, outcome, handling, ask, current, answer>>
    BY <1>1 DEF LockManaged, BeginCommit
  <2>2. \A d \in Conns : loop'[d] \in Early <=> loop[d] \in Early
    BY <1>1 DEF LockManaged, BeginCommit, IInv, TypeOK, Early
  <2> QED
    BY <2>1, <2>2, CallsFrame, Unseen
<1>2. CASE Commit(c) \/ ApplyFails(c)
  <2> DEFINE q == handling[c].for
  <2>1. /\ loop[c] \in Early /\ loop'[c] = "reporting" /\ handling'[c].for = q
        /\ \A d \in Conns \ {c} : handling'[d] = handling[d] /\ loop'[d] = loop[d]
        /\ UNCHANGED <<stopping, session, pending, due, outcome, ask, answer>>
        /\ \/ handling'[c].result = "ok" /\ current' = handling[c].data
           \/ handling'[c].result # "ok" /\ UNCHANGED current
    BY <1>2 DEF Commit, ApplyFails, IInv, TypeOK, Early
  <2>2. /\ q \in Requests
        /\ \A r \in Requests \ {q} : SameCall(r)
        /\ Undecided' = Undecided \ {q}
        /\ pending = q =>
             Phase(q) = "open" /\ Phase(q)' = IF handling'[c].result = "ok" THEN "stored" ELSE "open"
        /\ pending # q => q \in Undecided /\ Phase(q)' = Phase(q)
    BY <2>1, HandEnds
  <2>3. q \in Requests /\ handling[c].data = q
    BY <2>1 DEF Early, Busy, IInv, HandlingFits
  <2>4. CASE pending = q /\ handling'[c].result = "ok"
    <3>1. q \notin Undecided
      BY <2>4 DEF Undecided
    <3>2. Calls!Store(q)
      BY <2>1, <2>2, <2>3, <2>4, <3>1 DEF Calls!Store, SameCall, Undecided
    <3> QED
      BY <2>3, <3>2 DEF Calls!Next
  <2>5. CASE pending = q /\ handling'[c].result # "ok"
    <3>1. SameCall(q)
      BY <2>2, <2>5 DEF SameCall, Undecided
    <3> QED
      BY <2>1, <2>2, <2>5, <3>1, Unseen
  <2>6. CASE pending # q
    <3>1. PICK r \in Requests : r = q
      BY <2>3
    <3>2. Calls!Settle(r)
      BY <2>1, <2>2, <2>3, <2>6, <3>1 DEF Calls!Settle, SameCall, Undecided
    <3> QED
      BY <3>2 DEF Calls!Next
  <2> QED
    BY <2>4, <2>5, <2>6
<1> QED
  BY <1>1, <1>2

\* Reporting the result of an answer ends its call, unless it has ended already.
LEMMA ReportIsCallStep ==
  ASSUME IInv, CallInv, NEW c \in Conns, Report(c)
  PROVE  [Calls!Next]_(Calls!vars)
<1> USE DEF callVars, stateVars, At
<1>0. PICK q \in Requests : q = handling[c].for
  BY DEF Report, IInv, HandlingFits, Busy
<1>1. /\ q = handling[c].for /\ loop[c] = "reporting" /\ ask[q] # "new" /\ handling[c].result \in {"ok", "failed"}
      /\ \A d \in Conns : handling[d].for = q => d = c
  BY <1>0, OneHand DEF Report, IInv, TypeOK, HandlingFits, Busy, Outcomes
<1>2. /\ \A d \in Conns \ {c} : handling'[d] = handling[d] /\ loop'[d] = loop[d]
      /\ handling'[c].for = NoRequest /\ loop'[c] = "reading"
      /\ UNCHANGED <<stopping, session, ask, answer, current, outcome>>
  BY DEF Report, IInv, TypeOK, Nothing
<1>3. NoRequest \notin Requests
  BY RequestsAssumption DEF Requests, NoRequest
<1>4. \A r \in Requests : InHand(r)' <=> InHand(r)
  BY <1>1, <1>2, <1>3 DEF InHand
<1>5. \A r \in Requests \ {q} : Stored(r)' <=> Stored(r)
  BY <1>1, <1>2, <1>3 DEF Stored
<1>6. CASE pending # q
  <2>1. UNCHANGED <<pending, due>>
    BY <1>1, <1>6 DEF Report
  <2>2. \A r \in Requests : SameCall(r)
    BY <1>4, <1>5, <1>6, <1>2, <2>1, PhaseIs DEF SameCall, Undecided, Good
  <2> QED
    BY <1>2, <2>2, Unseen
<1>7. CASE pending = q
  <2>1. pending' = NoRequest /\ due' = due \cup {<<q, handling[c].result>>}
    BY <1>1, <1>7 DEF Report, Owe
  <2>2. \A r \in Requests \ {q} : SameCall(r)
    <3>1. \A r \in Requests \ {q} : Good(r)' <=> Good(r)
      BY <1>2, <2>1 DEF Good
    <3> QED
      BY <1>2, <1>3, <1>4, <1>5, <1>7, <2>1, <3>1, PhaseIs DEF SameCall, Undecided
  <2>3. ~Good(q)
    BY <1>1, <1>7 DEF Good, IInv, CompletionFits, CallInv, CallerFits, Outcomes
  <2>4. Good(q)' <=> handling[c].result = "ok"
    BY <1>1, <1>2, <2>1, <2>3 DEF Good
  <2>5. Phase(q) = (IF handling[c].result = "ok" THEN "stored" ELSE "open")
    <3>1. Stored(q) <=> handling[c].result = "ok"
      BY <1>1 DEF Stored
    <3> QED
      BY <1>1, <1>7, <3>1, PhaseIs
  <2>6. Phase(q)' = IF handling[c].result = "ok" THEN "ok" ELSE "failed"
    BY <1>1, <1>2, <1>3, <2>1, <2>4, PhaseIs
  <2>7. q \notin Undecided /\ q \notin Undecided'
    <3>1. ~InHand(q)
      BY <1>1 DEF InHand
    <3> QED
      BY <1>4, <1>1, <3>1 DEF Undecided
  <2>8. CASE handling[c].result = "ok"
    <3>1. Calls!Succeed(q)
      BY <1>2, <2>2, <2>5, <2>6, <2>7, <2>8 DEF Calls!Succeed, SameCall, Undecided
    <3> QED
      BY <3>1 DEF Calls!Next
  <2>9. CASE handling[c].result = "failed"
    <3>1. \A r \in Requests : Phase(r)' = IF Phase(r) \in {"open", "stored"} THEN "failed" ELSE Phase(r)
      BY <1>7, <2>2, <2>5, <2>6, <2>9, LiveIsPending DEF SameCall
    <3>2. Undecided' = Undecided
      BY <2>2, <2>7 DEF SameCall, Undecided
    <3>3. Calls!Fail
      BY <1>2, <3>1, <3>2 DEF Calls!Fail, Calls!FailLive, Calls!Live, Undecided
    <3> QED
      BY <3>3 DEF Calls!Next
  <2> QED
    BY <1>1, <2>8, <2>9
<1> QED
  BY <1>6, <1>7

\* Emptying the slot, for whatever reason and with or without the session.
LEMMA EmptiesIsCallStep ==
  ASSUME IInv, CallInv, NEW taken \in BOOLEAN, TakePending(taken), taken => pending # NoRequest,
         (session' = NoConn /\ UNCHANGED stopping) \/ (UNCHANGED session /\ stopping' \in {stopping, TRUE}),
         session' # session \/ stopping' # stopping => (taken <=> pending # NoRequest),
         UNCHANGED <<handling, outcome, current, answer>>, \A c \in Conns : loop'[c] \in Early <=> loop[c] \in Early,
         \A r \in Requests : ask'[r] = "new" <=> ask[r] = "new"
  PROVE  [Calls!Next]_(Calls!vars)
<1>1. CASE taken
  <2>1. Calls!FailLive
    BY <1>1, TakenFails DEF TakePending
  <2> QED
    BY <2>1 DEF Calls!Next, Calls!Fail, Calls!Leave, Calls!Stop
<1>2. CASE ~taken
  <2>1. UNCHANGED <<pending, due>>
    BY <1>2 DEF TakePending
  <2>2. \A r \in Requests : SameCall(r)
    BY <2>1, CallsFrame
  <2>3. CASE UNCHANGED <<session, stopping>>
    BY <2>2, <2>3, Unseen
  <2>4. CASE ~UNCHANGED <<session, stopping>>
    <3>1. \A r \in Requests : Phase(r) \notin {"open", "stored"}
      BY <1>2, <2>4, LiveIsPending DEF Requests, NoRequest
    <3>2. Calls!FailLive
      BY <2>2, <3>1 DEF Calls!FailLive, Calls!Live, SameCall, Undecided
    <3> QED
      BY <2>4, <3>2 DEF Calls!Next, Calls!Leave, Calls!Stop
  <2> QED
    BY <2>3, <2>4
<1> QED
  BY <1>1, <1>2

\* A session that ends, from either side, takes its call with it.
LEMMA EndingIsCallStep ==
  ASSUME IInv, CallInv, NEW c \in Conns, End(c) \/ ExpireSession(c)
  PROVE  [Calls!Next]_(Calls!vars)
<1> USE DEF connVars, callVars, stateVars
<1>1. pending # NoRequest => session = owner[pending] /\ session # NoConn
  BY DEF IInv, SlotFits
<1>2. CASE ExpireSession(c)
  BY <1>1, <1>2, EmptiesIsCallStep DEF ExpireSession, Invalidate
<1>3. CASE End(c)
  <2>1. \A d \in Conns : loop'[d] \in Early <=> loop[d] \in Early
    BY <1>3 DEF End, At, IInv, TypeOK, Early
  <2> QED
    BY <1>1, <1>3, <2>1, EmptiesIsCallStep DEF End
<1> QED
  BY <1>2, <1>3

\* A caller ends its own call by emptying the slot.
LEMMA GivingUpIsCallStep ==
  ASSUME IInv, CallInv, NEW r \in Requests, WriteFails(r) \/ Timeout(r) \/ HangUp(r)
  PROVE  [Calls!Next]_(Calls!vars)
<1>1. \A q \in Requests : ask'[q] = "new" <=> ask[q] = "new"
  BY DEF WriteFails, Timeout, HangUp, Unwinding, IInv, TypeOK
<1>2. UNCHANGED <<stopping, loop, handling, outcome, current, answer>>
  BY DEF WriteFails, Timeout, HangUp, Invalidate, connVars, stateVars
<1>3. CASE WriteFails(r)
  <2>1. (pending = r) \in BOOLEAN /\ r # NoRequest
    BY DEF Requests, NoRequest
  <2> QED
    BY <1>1, <1>2, <1>3, <2>1, EmptiesIsCallStep DEF WriteFails
<1>4. CASE (Timeout(r) \/ HangUp(r)) /\ session = owner[r] /\ pending = r /\ Invalidate(owner[r])
  <2>1. pending # NoRequest /\ pending' = NoRequest /\ session' = NoConn /\ Owe(pending, "failed")
    BY <1>4 DEF Invalidate, TakePending, Requests, NoRequest
  <2>2. Calls!FailLive
    BY <1>1, <1>2, <2>1, TakenFails
  <2> QED
    BY <1>2, <2>1, <2>2 DEF Calls!Next, Calls!Leave
<1>5. CASE UNCHANGED <<session, pending, due>>
  <2>1. \A q \in Requests : SameCall(q)
    BY <1>1, <1>2, <1>5, CallsFrame
  <2> QED
    BY <1>2, <1>5, <2>1, Unseen
<1> QED
  BY <1>3, <1>4, <1>5 DEF Timeout, HangUp

\* A call begins, goes on, is completed and is told of.
LEMMA CallerIsCallStep ==
  ASSUME IInv, CallInv, NEW r \in Requests,
         Request(r) \/ WriteRequest(r) \/ Receive(r) \/ Unwind(r) \/ Delivery(r) \/ Abandon(r)
  PROVE  [Calls!Next]_(Calls!vars)
<1> USE DEF slotVars, connVars, callVars, pendVars, stateVars
<1>1. CASE Request(r)
  <2>1. /\ ask[r] = "new" /\ ask'[r] # "new" /\ pending = NoRequest /\ pending' = r
        /\ \A q \in Requests \ {r} : ask'[q] = ask[q]
        /\ UNCHANGED <<stopping, session, handling, loop, due, outcome, current, answer>>
        /\ ~stopping /\ session # NoConn
    BY <1>1 DEF Request, IInv, TypeOK
  <2>2. NoRequest \notin Requests
    BY DEF Requests, NoRequest
  <2>3. \A c \in Conns : handling[c].for # r
    BY <2>1, OneHand
  <2>4. ~Stored(r)' /\ ~InHand(r)
    BY <2>1, <2>3 DEF Stored, InHand
  <2>5. \A q \in Requests : (InHand(q)' <=> InHand(q)) /\ (Good(q)' <=> Good(q))
    BY <2>1 DEF InHand, Good
  <2>6. \A q \in Requests \ {r} : SameCall(q)
    BY <2>1, <2>2, <2>5, PhaseIs DEF SameCall, Undecided
  <2>7. Phase(r) = "new" /\ Phase(r)' = "open" /\ Undecided' = Undecided
    BY <2>1, <2>2, <2>4, <2>5, PhaseIs DEF Undecided
  <2>8. \A q \in Requests : Phase(q) \notin {"open", "stored"}
    BY <2>1, <2>2, LiveIsPending
  <2>9. Calls!Ask(r)
    BY <2>1, <2>6, <2>7, <2>8 DEF Calls!Ask, Calls!Live, SameCall, Undecided
  <2> QED
    BY <2>9 DEF Calls!Next
<1>2. CASE WriteRequest(r) \/ Abandon(r)
  <2>1. /\ UNCHANGED <<stopping, session, pending, due, outcome, handling, loop, current, answer>>
        /\ \A q \in Requests : ask'[q] = "new" <=> ask[q] = "new"
    BY <1>2 DEF WriteRequest, Abandon, IInv, TypeOK
  <2> QED
    BY <2>1, CallsFrame, Unseen
<1>3. CASE Receive(r) \/ Unwind(r)
  <2>1. PICK o \in {"ok", "failed"} :
          /\ answer' = [answer EXCEPT ![r] = o]
          /\ o = "ok" => outcome[r] = "ok"
    <3>1. CASE Receive(r)
      <4>1. outcome[r] # "none"
        <5>1. sent[r] # 0
          BY <3>1 DEF Receive, IInv, TypeOK
        <5>2. CallerFits(r)
          BY DEF CallInv
        <5> QED
          BY <5>1, <5>2 DEF CallerFits
      <4>2. outcome[r] \in {"ok", "failed"}
        BY <4>1 DEF IInv, TypeOK, Outcomes
      <4> QED
        BY <3>1, <4>2 DEF Receive, Return
    <3>2. CASE Unwind(r)
      BY <3>2 DEF Unwind, Return
    <3> QED
      BY <1>3, <3>1, <3>2
  <2>2. /\ UNCHANGED <<stopping, session, pending, due, outcome, handling, loop, current>>
        /\ ask[r] \in {"waiting", "receiving", "unwinding"}
        /\ \A q \in Requests : ask'[q] = "new" <=> ask[q] = "new"
    BY <1>3 DEF Receive, Unwind, Return, IInv, TypeOK
  <2>3. pending # r
    <3>1. CASE Receive(r)
      BY <3>1 DEF Receive, IInv, CompletionFits
    <3>2. CASE Unwind(r)
      BY <3>2 DEF Unwind, CallInv, CallerFits
    <3> QED
      BY <1>3, <3>1, <3>2
  <2>4. \A q \in Requests : SameCall(q)
    BY <2>2, CallsFrame
  <2>5. answer[r] = "none" /\ Phase(r) \in {"ok", "failed"} /\ (o = "ok" => Phase(r) = "ok")
    BY <2>1, <2>2, <2>3, PhaseIs DEF CallInv, CallerFits, Good
  <2>6. Calls!Tell(r, o)
    BY <2>1, <2>2, <2>4, <2>5 DEF Calls!Tell, SameCall, Undecided
  <2> QED
    BY <2>6 DEF Calls!Next
<1>4. ASSUME NEW o \in Outcomes, Deliver(r, o) PROVE [Calls!Next]_(Calls!vars)
  <2>1. /\ UNCHANGED <<stopping, session, pending, ask, handling, loop, current, answer>>
        /\ <<r, o>> \in due /\ due' = due \ {<<r, o>>} /\ o \in {"ok", "failed"}
        /\ \A q \in Requests \ {r} : outcome'[q] = outcome[q]
    BY <1>4 DEF Deliver, IInv, TypeOK
  <2>2. pending # r /\ ask[r] # "new" /\ outcome[r] = "none" /\ outcome'[r] = o
    BY <1>4 DEF Deliver, IInv, TypeOK, CompletionFits, CallInv, CallerFits
  <2>3. \A q \in Requests : Good(q)' <=> Good(q)
    BY <2>1, <2>2 DEF Good, IInv, CompletionFits, Outcomes
  <2>4. \A q \in Requests : (InHand(q)' <=> InHand(q)) /\ (Stored(q)' <=> Stored(q))
    BY <2>1 DEF InHand, Stored
  <2>5. \A q \in Requests : SameCall(q)
    BY <2>1, <2>3, <2>4, PhaseIs DEF SameCall, Undecided
  <2> QED
    BY <2>1, <2>5, Unseen
<1> QED
  BY <1>1, <1>2, <1>3, <1>4 DEF Delivery

\* Whatever ends a wait, in whatever order, "spotify.sync" does what SnapshotCalls
\* says (adapter.go as a whole).
THEOREM ImplementsCallsCorrect == Spec => ImplementsCalls
<1>1. Init => Calls!Init
  <2> SUFFICES ASSUME Init PROVE Calls!Init
    OBVIOUS
  <2>1. \A r \in Requests : Phase(r) = "new"
    BY PhaseIs DEF Init
  <2>2. \A r \in Requests : ~InHand(r)
    BY DEF Init, InHand
  <2> QED
    BY <2>1, <2>2 DEF Init, Calls!Init
<1>2. IInv /\ CallInv /\ [Next]_vars => [Calls!Next]_(Calls!vars)
  <2> SUFFICES ASSUME IInv, CallInv, [Next]_vars PROVE [Calls!Next]_(Calls!vars)
    OBVIOUS
  <2>1. CASE UNCHANGED vars
    <3>1. UNCHANGED <<stopping, session, pending, due, outcome, handling, loop, ask, current, answer>>
      BY <2>1 DEF vars, slotVars, connVars, callVars, pendVars, stateVars
    <3> QED
      BY <3>1, CallsFrame, Unseen
  <2>2. ASSUME NEW c \in Conns,
               \/ Admission(c) \/ Apply(c) \/ StopReading(c) \/ Disconnect(c) \/ ExpireSession(c)
               \/ \E r \in Requests : AcceptResponse(c, r)
        PROVE  [Calls!Next]_(Calls!vars)
    BY <2>2, ReadingIsCallStep, ApplyIsCallStep, ReportIsCallStep, EndingIsCallStep DEF Apply
  <2>3. CASE Stop
    <3>1. UNCHANGED <<session, loop, handling, outcome, current, answer, ask>> /\ stopping' = TRUE
      BY <2>3 DEF Stop, callVars, stateVars
    <3>2. TakePending(pending # NoRequest) /\ (pending # NoRequest) \in BOOLEAN
      BY <2>3 DEF Stop
    <3> QED
      BY <3>1, <3>2, EmptiesIsCallStep
  <2>4. ASSUME NEW r \in Requests, Request(r) \/ Caller(r) \/ Delivery(r) \/ Abandon(r)
        PROVE  [Calls!Next]_(Calls!vars)
    BY <2>4, GivingUpIsCallStep, CallerIsCallStep DEF Caller
  <2> QED
    BY <2>1, <2>2, <2>3, <2>4 DEF Next, RejectResponse, ReadFails, Violation, IInv, TypeOK
<1> QED
  BY <1>1, <1>2, CallsAreKept, PTL DEF Spec, ImplementsCalls, Calls!Spec
=============================================================================
