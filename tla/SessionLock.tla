----------------------------- MODULE SessionLock -----------------------------
(***************************************************************************)
(* What the probe's session lock promises to its hosts, without requests,  *)
(* resends, leases or clocks: at most one session holds the probe, what a  *)
(* session made exists only while it holds it, and no session holds it     *)
(* for ever.  OepSession implements it (src/src/OepEndpoint.cpp: open,     *)
(* releaseLock, loseSession, lapse).                                       *)
(***************************************************************************)
CONSTANTS Sessions,   \* session ids, as the hosts choose them
          Fns,        \* the fns a session can hold something of
          NoSession   \* no session: not an id

VARIABLES lock,       \* the session that holds the probe, or NoSession
          made        \* per fn: the sessions that hold something of it

vars == <<lock, made>>

Nothing == [f \in Fns |-> {}]

TypeOK == /\ lock \in Sessions \cup {NoSession}
          /\ made \in [Fns -> SUBSET Sessions]

Init == lock = NoSession /\ made = Nothing

\* A session takes the free lock, or another session's by force: it starts
\* with nothing of what any earlier session made.
Acquire(s) == /\ lock # s
              /\ lock' = s
              /\ made' = Nothing

\* The holder ends, its lease lapses, or the probe restarts.
Release == /\ lock # NoSession
           /\ lock' = NoSession
           /\ made' = Nothing

\* The holder subscribes, plans, or gives one of these up.
Use(f) == /\ lock # NoSession
          /\ made' \in {[made EXCEPT ![f] = {lock}], [made EXCEPT ![f] = {}]}
          /\ UNCHANGED lock

Next == \/ \E s \in Sessions : Acquire(s)
        \/ Release
        \/ \E f \in Fns : Use(f)

\* s lets go of the lock, or loses it.
LetGo(s) == lock = s /\ (Release \/ \E t \in Sessions : Acquire(t))

\* No session keeps the lock for ever.
Spec == Init /\ [][Next]_vars /\ \A s \in Sessions : WF_vars(LetGo(s))
=============================================================================
