----------------------------- MODULE SpinLockSpec -----------------------------
(***************************************************************************)
(* What the Mutex of src/utils/mutex.rs promises its callers (spec 4.4),   *)
(* with the waiting and the result of try_lock visible:                    *)
(*   owner    the set of contexts holding the guard, empty or one;        *)
(*   waiting  the contexts inside lock() that have not got it yet;         *)
(*   refused  the contexts whose last try_lock() returned None.            *)
(* A context gets the lock only while nobody holds it, lock() returns only *)
(* with the lock, try_lock() says "unavailable" only while another context *)
(* holds it, and only the holder gives it back.                            *)
(***************************************************************************)
CONSTANT Procs

VARIABLES owner, waiting, refused

lockVars == <<owner, waiting, refused>>

Idle(p) == p \notin owner \cup waiting

\* lock() or try_lock() takes the free lock.
Acquire(p) ==
  /\ owner = {}
  /\ p \in waiting \/ Idle(p)
  /\ owner' = {p}
  /\ waiting' = waiting \ {p}
  /\ refused' = refused \ {p}

\* lock() finds the lock held and starts waiting.
Wait(p) ==
  /\ Idle(p)
  /\ owner # {}
  /\ waiting' = waiting \cup {p}
  /\ refused' = refused \ {p}
  /\ UNCHANGED owner

\* try_lock() returns None: another context holds the lock.
Refuse(p) ==
  /\ Idle(p)
  /\ owner # {}
  /\ refused' = refused \cup {p}
  /\ UNCHANGED <<owner, waiting>>

\* The holder drops its guard.
Release(p) ==
  /\ owner = {p}
  /\ owner' = {}
  /\ UNCHANGED <<waiting, refused>>

LockInit ==
  /\ owner = {}
  /\ waiting = {}
  /\ refused = {}

LockNext == \E p \in Procs : Acquire(p) \/ Wait(p) \/ Refuse(p) \/ Release(p)

LockSpec == LockInit /\ [][LockNext]_lockVars
=============================================================================
