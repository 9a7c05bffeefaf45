------------------------------- MODULE Mutex -------------------------------
(***************************************************************************)
(* The test-and-test-and-set spin lock Mutex<T> of src/utils/mutex.rs.     *)
(* Each context (a hart, or code an interrupt preempts) runs lock(),       *)
(* try_lock() and drops the guard.  obtain_lock is the loop               *)
(*     while cas(false, true).is_err() { while load() { spin_loop() } }    *)
(* whose program points are the values of pc:                              *)
(*   "idle"  not in lock(),   "cas"  about to retry the compare_exchange,  *)
(*   "spin"  in the inner load loop,   "cs"  holding a MutexGuard.         *)
(* A load that reads true changes nothing and is a stuttering step.  The  *)
(* history variable refused records the None that try_lock returns to its *)
(* caller, so that the refinement of SpinLockSpec can see it.             *)
(***************************************************************************)
EXTENDS Naturals, FiniteSets

CONSTANT Procs   \* the contexts that share the lock

VARIABLES
  lock,   \* Mutex.lock, the AtomicBool
  pc,     \* pc[p]: where context p is
  refused \* the contexts whose last try_lock() returned None

mutexVars == <<lock, pc, refused>>

\* Mutant of TryLock: the result of compare_exchange is not looked at.
TryLockUnchecked(p) ==
  /\ pc[p] = "idle"
  /\ lock' = TRUE
  /\ pc' = [pc EXCEPT ![p] = "cs"]
  /\ refused' = refused \ {p}

\* Mutant of TryLock: a compare_exchange_weak, which may fail spuriously.
TryLockWeak(p) ==
  /\ pc[p] = "idle"
  /\ \/ /\ lock = FALSE
        /\ lock' = TRUE
        /\ pc' = [pc EXCEPT ![p] = "cs"]
        /\ refused' = refused \ {p}
     \/ /\ refused' = refused \cup {p}
        /\ UNCHANGED <<lock, pc>>

\* Mutant of Spin: the load hoisted out of the inner loop, which then never
\* sees the flag cleared.
SpinHoisted(p) ==
  /\ pc[p] = "spin"
  /\ lock = FALSE
  /\ UNCHANGED <<lock, pc, refused>>

\* Mutant of Unlock: the guard is left in a state no code path reaches.
UnlockLost(p) ==
  /\ pc[p] = "cs"
  /\ lock' = FALSE
  /\ pc' = [pc EXCEPT ![p] = "dropped"]
  /\ UNCHANGED refused

\* Mutant of CompareExchange: the exchange succeeds whatever the flag holds.
CompareExchangeNoCheck(p) ==
  /\ lock' = TRUE
  /\ pc' = [pc EXCEPT ![p] = "cs"]
  /\ UNCHANGED refused

\* compare_exchange(false, true): on success p holds the guard, on failure
\* it enters the inner load loop.
CompareExchange(p) ==
  \/ /\ lock = FALSE
     /\ lock' = TRUE
     /\ pc' = [pc EXCEPT ![p] = "cs"]
     /\ UNCHANGED refused
  \/ /\ lock = TRUE
     /\ pc' = [pc EXCEPT ![p] = "spin"]
     /\ UNCHANGED <<lock, refused>>

\* lock(): obtain_lock's first compare_exchange.
Lock(p) ==
  /\ pc[p] = "idle"
  /\ CompareExchange(p)
  /\ refused' = refused \ {p}

\* The outer loop's retry after the inner loop has seen the lock free.
Retry(p) ==
  /\ pc[p] = "cas"
  /\ CompareExchange(p)

\* The inner loop: a load that reads false leaves it.
Spin(p) ==
  /\ pc[p] = "spin"
  /\ lock = FALSE
  /\ pc' = [pc EXCEPT ![p] = "cas"]
  /\ UNCHANGED <<lock, refused>>

\* try_lock(): one compare_exchange; Some(guard) when it succeeds, None
\* when it fails.
TryLock(p) ==
  /\ pc[p] = "idle"
  /\ \/ /\ lock = FALSE
        /\ lock' = TRUE
        /\ pc' = [pc EXCEPT ![p] = "cs"]
        /\ refused' = refused \ {p}
     \/ /\ lock = TRUE
        /\ refused' = refused \cup {p}
        /\ UNCHANGED <<lock, pc>>

\* MutexGuard::drop: lock.store(false, Release).
Unlock(p) ==
  /\ pc[p] = "cs"
  /\ lock' = FALSE
  /\ pc' = [pc EXCEPT ![p] = "idle"]
  /\ UNCHANGED refused

\* Mutex::new(..): lock = false, nobody in it.
MutexInit ==
  /\ lock = FALSE
  /\ pc = [p \in Procs |-> "idle"]
  /\ refused = {}

MutexNext ==
  \E p \in Procs : Lock(p) \/ Retry(p) \/ Spin(p) \/ TryLock(p) \/ Unlock(p)

\* The contexts inside obtain_lock keep running (no context is descheduled
\* for ever) and a guard is dropped at the end of the scope that holds it:
\* weak fairness of each of these steps.  Nothing obliges a context to
\* call lock() or try_lock(), so those steps are not fair.
MutexFairness ==
  \A p \in Procs : WF_mutexVars(Retry(p)) /\ WF_mutexVars(Spin(p))
                   /\ WF_mutexVars(Unlock(p))

MutexSpec == MutexInit /\ [][MutexNext]_mutexVars /\ MutexFairness

---------------------------------------------------------------------------
(* Properties                                                              *)

Holders == {p \in Procs : pc[p] = "cs"}
Waiting == {p \in Procs : pc[p] \in {"cas", "spin"}}

MutexTypeOK ==
  /\ lock \in BOOLEAN
  /\ pc \in [Procs -> {"idle", "cas", "spin", "cs"}]
  /\ refused \subseteq Procs

(* At most one context holds a guard, and the flag is set exactly while    *)
(* one does: lock() and try_lock() hand out a guard only for a successful  *)
(* compare_exchange, and the guard's drop is the only store of false.      *)
MutualExclusion ==
  /\ Cardinality(Holders) <= 1
  /\ lock = (Holders # {})

(* Whenever contexts wait in obtain_lock, some context eventually gets     *)
(* the lock: the inner load loop leaves once the holder has dropped its    *)
(* guard, and then a compare_exchange of one of the waiters succeeds.  A   *)
(* given waiter may still lose every race (the lock is not fair).          *)
DeadlockFreedom == (Waiting # {}) ~> (Holders # {})

\* The refinement mapping: the abstract owner is the set of guard holders,
\* the waiters are the contexts inside obtain_lock.
Abstract == INSTANCE SpinLockSpec WITH owner <- Holders, waiting <- Waiting

(* The Mutex implements SpinLockSpec: a guard is handed out only while no  *)
(* context holds one, a waiter leaves obtain_lock only holding the lock,   *)
(* try_lock returns None only while another context holds the guard (its  *)
(* compare_exchange is the strong one, which never fails spuriously), and  *)
(* only the holder's drop frees the lock.                                  *)
ImplementsSpinLock == Abstract!LockSpec
=============================================================================
