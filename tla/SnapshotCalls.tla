----------------------------- MODULE SnapshotCalls -----------------------------
(***************************************************************************)
(* What "spotify.sync" promises, without connections' loops, locks, timers *)
(* and channels.  One session at a time serves one call at a time.  A call *)
(* ends once; one that ends well has had its snapshot stored before.  When *)
(* a call fails it is not known whether its snapshot will still be stored: *)
(* then that happens later, at most once.  Nothing begins after a stop.    *)
(***************************************************************************)
CONSTANTS Calls, Sessions, NoSession, NoCall

VARIABLES
  stopped,
  session,    \* the session that serves calls
  phase,      \* the life of each call
  undecided,  \* failed calls whose snapshot may still be stored
  current,    \* the call whose snapshot is stored
  answer      \* what each caller was told

vars == <<stopped, session, phase, undecided, current, answer>>

Live == {r \in Calls : phase[r] \in {"open", "stored"}}

Init ==
  /\ stopped = FALSE
  /\ session = NoSession
  /\ phase = [r \in Calls |-> "new"]
  /\ undecided = {}
  /\ current = NoCall
  /\ answer = [r \in Calls |-> "none"]

Connect(c) ==
  /\ ~stopped /\ session = NoSession
  /\ session' = c
  /\ UNCHANGED <<stopped, phase, undecided, current, answer>>

Ask(r) ==
  /\ ~stopped /\ session # NoSession /\ Live = {}
  /\ phase[r] = "new"
  /\ phase' = [phase EXCEPT ![r] = "open"]
  /\ UNCHANGED <<stopped, session, undecided, current, answer>>

Store(r) ==
  /\ phase[r] = "open"
  /\ phase' = [phase EXCEPT ![r] = "stored"]
  /\ current' = r
  /\ UNCHANGED <<stopped, session, undecided, answer>>

Succeed(r) ==
  /\ phase[r] = "stored"
  /\ phase' = [phase EXCEPT ![r] = "ok"]
  /\ UNCHANGED <<stopped, session, undecided, current, answer>>

\* The live call, if any, fails; its snapshot may be about to be stored.
FailLive ==
  /\ phase' = [r \in Calls |-> IF r \in Live THEN "failed" ELSE phase[r]]
  /\ undecided \subseteq undecided'
  /\ undecided' \subseteq undecided \cup {r \in Calls : phase[r] = "open"}
  /\ UNCHANGED <<current, answer>>

Fail == FailLive /\ UNCHANGED <<stopped, session>>
Leave == FailLive /\ session' = NoSession /\ UNCHANGED stopped
Stop == FailLive /\ stopped' = TRUE /\ UNCHANGED session

\* The snapshot of a failed call is stored after all, or will not be any more.
Settle(r) ==
  /\ r \in undecided
  /\ undecided' = undecided \ {r}
  /\ current' \in {current, r}
  /\ UNCHANGED <<stopped, session, phase, answer>>

\* A caller is told that its call succeeded only when it has.
Tell(r, o) ==
  /\ answer[r] = "none"
  /\ phase[r] \in {"ok", "failed"}
  /\ o = "ok" => phase[r] = "ok"
  /\ answer' = [answer EXCEPT ![r] = o]
  /\ UNCHANGED <<stopped, session, phase, undecided, current>>

Next ==
  \/ Fail \/ Leave \/ Stop
  \/ \E c \in Sessions : Connect(c)
  \/ \E r \in Calls :
       \/ Ask(r) \/ Store(r) \/ Succeed(r) \/ Settle(r)
       \/ \E o \in {"ok", "failed"} : Tell(r, o)

Spec == Init /\ [][Next]_vars
=============================================================================
