---------------------------- MODULE LockedValue ----------------------------
(***************************************************************************)
(* LockedValue<Type> of app/Lock.h with its RWLock of app/Lock.cpp, called *)
(* by several threads.  ++_value and --_value are a load and a store.      *)
(*                                                                         *)
(* External: the pthread_rwlock_t of one process, which readers share and  *)
(* a writer has for itself.  Its functions fail only for more readers than *)
(* it can count or for a thread that takes it twice, which LockedValue     *)
(* does not do; RWLock returns 0 without looking at their results.         *)
(***************************************************************************)
EXTENDS Integers

CONSTANTS Threads, MODULUS, NONE
CONSTANT  MaxCalls   \* bound on the calls the threads make

ASSUME ValueAssumption ==
  /\ MODULUS \in Nat \ {0} /\ MaxCalls \in Nat
  /\ NONE \notin Threads

VARIABLES
  _value,    \* the value
  readers,   \* threads that hold _lock for reading
  writer,    \* the thread that holds it for writing, or NONE
  pc,        \* control point of each thread
  op,        \* the operation it is in, or NONE
  local,     \* its t, or the register of ++ and --
  left       \* calls still to be made

vars == <<_value, readers, writer, pc, op, local, left>>

(* The value of a thread that is past its effect and not yet back.         *)
Done == {"unlock", "return"}

Abstract == INSTANCE AtomicValue WITH
  val  <- _value,
  call <- op,
  ret  <- [t \in Threads |-> IF pc[t] \in Done THEN local[t] ELSE NONE]

(* NONE is neither a value nor an operation.                               *)
ASSUME NoneAssumption == NONE \notin Abstract!Type /\ NONE \notin Abstract!Ops

Init ==
  /\ _value = 0
  /\ readers = {} /\ writer = NONE
  /\ pc = [t \in Threads |-> "idle"]
  /\ op = [t \in Threads |-> NONE]
  /\ local = [t \in Threads |-> 0]
  /\ left = MaxCalls

Goto(t, from, to) == pc[t] = from /\ pc' = [pc EXCEPT ![t] = to]
----------------------------------------------------------------------------
Call(t, o) ==
  /\ left > 0
  /\ Goto(t, "idle", "lock")
  /\ op' = [op EXCEPT ![t] = o]
  /\ left' = left - 1
  /\ UNCHANGED <<_value, readers, writer, local>>

(* Mutant of Reads: increase() takes the lock for reading.                 *)
ReadsIncrease(o) == o.name \in {"get", "increase"}

(* Which operations lock with ReadLock(); the others use WriteLock().      *)
Reads(o) == o.name = "get"

(* RWLock::ReadLock()                                                      *)
ReadLock(t) ==
  /\ Reads(op[t])
  /\ writer = NONE
  /\ readers' = readers \cup {t}
  /\ UNCHANGED writer

(* RWLock::WriteLock()                                                     *)
WriteLock(t) ==
  /\ ~Reads(op[t])
  /\ writer = NONE /\ readers = {}
  /\ writer' = t
  /\ UNCHANGED readers

(* Mutant of Lock: get() does not wait for its turn.                       *)
LockNotGet(t) ==
  /\ Goto(t, "lock", "access")
  /\ (Reads(op[t]) /\ UNCHANGED <<readers, writer>>) \/ WriteLock(t)
  /\ UNCHANGED <<_value, op, local, left>>

Lock(t) ==
  /\ Goto(t, "lock", "access")
  /\ ReadLock(t) \/ WriteLock(t)
  /\ UNCHANGED <<_value, op, local, left>>

(* t = _value in get(), and the load of ++ and --.                         *)
Load(t) ==
  /\ pc[t] = "access" /\ op[t].name # "set"
  /\ Goto(t, "access", IF op[t].name = "get" THEN "unlock" ELSE "store")
  /\ local' = [local EXCEPT ![t] = _value]
  /\ UNCHANGED <<_value, readers, writer, op, left>>

(* _value = value in set(), and the store of ++ and --, with t.            *)
Store(t) ==
  /\ \/ /\ Goto(t, "access", "unlock") /\ op[t].name = "set"
        /\ _value' = op[t].value
     \/ /\ Goto(t, "store", "unlock")
        /\ _value' = (IF op[t].name = "increase" THEN local[t] + 1
                                                 ELSE local[t] - 1) % MODULUS
  /\ local' = [local EXCEPT ![t] = _value']
  /\ UNCHANGED <<readers, writer, op, left>>

(* Mutant of UnLock: a reader leaves without it.                           *)
UnLockWriter(t) ==
  /\ Goto(t, "unlock", "return")
  /\ writer' = IF writer = t THEN NONE ELSE writer
  /\ UNCHANGED <<_value, readers, op, local, left>>

(* RWLock::UnLock()                                                        *)
UnLock(t) ==
  /\ Goto(t, "unlock", "return")
  /\ readers' = readers \ {t}
  /\ writer' = IF writer = t THEN NONE ELSE writer
  /\ UNCHANGED <<_value, op, local, left>>

Return(t) ==
  /\ Goto(t, "return", "idle")
  /\ op' = [op EXCEPT ![t] = NONE]
  /\ UNCHANGED <<_value, readers, writer, local, left>>

Step(t) == Lock(t) \/ Load(t) \/ Store(t) \/ UnLock(t) \/ Return(t)

Next ==
  \E t \in Threads : (\E o \in Abstract!Ops : Call(t, o)) \/ Step(t)

Spec == Init /\ [][Next]_vars

(* Every thread is scheduled.  A writer may have to wait for readers, but  *)
(* only as long as there are calls to come.                                *)
FairSpec == Spec /\ \A t \in Threads : WF_vars(Step(t))
----------------------------------------------------------------------------
Touching(t) == pc[t] \in {"access", "store"}

(* No two threads are at _value at the same time unless both only read it: *)
(* there is no data race, for which C++ defines no behaviour.              *)
NoRace ==
  \A t, u \in Threads :
    t # u /\ Touching(t) /\ Touching(u) => Reads(op[t]) /\ Reads(op[u])

(* "Atomic operation template": every operation takes effect at once,      *)
(* between its call and its return, and returns the value it left or       *)
(* found.  No increase() is lost and no two get the same result.           *)
IsAtomic == Abstract!Spec

(* Every call comes back: the lock is released on every path.              *)
CallsReturn == \A t \in Threads : op[t] # NONE ~> op[t] = NONE
============================================================================
