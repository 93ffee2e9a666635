------------------------- MODULE LockedValueProofs -------------------------
(***************************************************************************)
(* Theorems about LockedValue, for any number of threads and any bound on  *)
(* their calls: no data race, and the class implements AtomicValue.        *)
(***************************************************************************)
EXTENDS LockedValue, TLAPS

Points == {"idle", "lock", "access", "store", "unlock", "return"}

(* The type invariant: the value wraps around as its type does.            *)
TypeOK ==
  /\ _value \in Abstract!Type
  /\ readers \subseteq Threads /\ writer \in Threads \cup {NONE}
  /\ pc \in [Threads -> Points]
  /\ op \in [Threads -> Abstract!Ops \cup {NONE}]
  /\ local \in [Threads -> Abstract!Type]

(* A thread has an operation exactly while it is in a call; it loads what  *)
(* it is going to change, and set() does not load.                         *)
Calling ==
  \A t \in Threads :
    /\ pc[t] = "idle" <=> op[t] = NONE
    /\ pc[t] = "store" => op[t].name \in {"increase", "decrease"}

(* Between Lock and UnLock a thread has the lock its operation asks for.   *)
Holds(t) == IF Reads(op[t]) THEN t \in readers ELSE writer = t
Locking ==
  /\ writer # NONE => readers = {}
  /\ \A t \in Threads : pc[t] \in {"access", "store", "unlock"} => Holds(t)

(* What ++ and -- have loaded is still the value when they store.          *)
Fresh == \A t \in Threads : pc[t] = "store" => local[t] = _value

IInv == TypeOK /\ Calling /\ Locking /\ Fresh

(* The initial state: nobody calls, nobody has the lock.                   *)
LEMMA InitIInv == Init => IInv
  BY ValueAssumption, NoneAssumption
     DEF Init, IInv, TypeOK, Points, Calling, Locking, Fresh, Abstract!Type

(* A thread moves alone.                                                   *)
LEMMA GotoMoves ==
  ASSUME NEW t \in Threads, NEW from, NEW to \in Points, TypeOK,
         Goto(t, from, to)
  PROVE  /\ pc[t] = from /\ pc'[t] = to
         /\ pc' \in [Threads -> Points]
         /\ \A u \in Threads \ {t} : pc'[u] = pc[u]
  BY DEF Goto, TypeOK, Points

(* The remainder that ++ and -- leave is a value of the type.              *)
LEMMA Wraps ==
  ASSUME NEW x \in Int
  PROVE  x % MODULUS \in Abstract!Type
  BY ValueAssumption DEF Abstract!Type

(* Two threads are past the lock together only if both read: a writer      *)
(* excludes everybody else.                                                *)
LEMMA Exclusion ==
  ASSUME Locking, NEW t \in Threads, NEW u \in Threads, t # u,
         pc[t] \in {"access", "store", "unlock"},
         pc[u] \in {"access", "store", "unlock"}
  PROVE  Reads(op[t]) /\ Reads(op[u])
  BY ValueAssumption DEF Locking, Holds

(* No step of a thread breaks the invariant.                               *)
LEMMA StepIInv == IInv /\ [Next]_vars => IInv'
  <1> SUFFICES ASSUME IInv, [Next]_vars
               PROVE  IInv'
    OBVIOUS
  <1> USE DEF IInv
  <1>1. ASSUME NEW t \in Threads, NEW o \in Abstract!Ops, Call(t, o)
        PROVE  IInv'
    <2>1. /\ UNCHANGED <<_value, readers, writer, local>>
          /\ pc[t] = "idle" /\ pc'[t] = "lock"
          /\ pc' \in [Threads -> Points]
          /\ \A u \in Threads \ {t} : pc'[u] = pc[u]
          /\ op' = [op EXCEPT ![t] = o]
      BY <1>1, GotoMoves DEF Call, Points
    <2>2. /\ op' \in [Threads -> Abstract!Ops \cup {NONE}]
          /\ op'[t] = o /\ o # NONE
          /\ \A u \in Threads \ {t} : op'[u] = op[u]
      BY <2>1, NoneAssumption DEF TypeOK
    <2>3. TypeOK'
      BY <2>1, <2>2 DEF TypeOK
    <2>4. Calling'
      BY <2>1, <2>2 DEF Calling
    <2>5. Locking'
      BY <2>1, <2>2 DEF Locking, Holds, Reads
    <2>6. Fresh'
      BY <2>1 DEF Fresh
    <2> QED
      BY <2>3, <2>4, <2>5, <2>6
  <1>2. ASSUME NEW t \in Threads, Lock(t)
        PROVE  IInv'
    <2>1. /\ UNCHANGED <<_value, op, local>>
          /\ pc[t] = "lock" /\ pc'[t] = "access"
          /\ pc' \in [Threads -> Points]
          /\ \A u \in Threads \ {t} : pc'[u] = pc[u]
          /\ ReadLock(t) \/ WriteLock(t)
      BY <1>2, GotoMoves DEF Lock, Points
    <2>2. TypeOK'
      BY <2>1 DEF TypeOK, ReadLock, WriteLock
    <2>3. Calling' /\ Fresh'
      BY <2>1 DEF Calling, Fresh
    <2>4. Locking'
      <3>1. CASE ReadLock(t)
        BY <2>1, <3>1 DEF ReadLock, Locking, Holds, Reads
      <3>2. CASE WriteLock(t)
        <4>1. \A u \in Threads : pc[u] \notin {"access", "store", "unlock"}
          BY <3>2, ValueAssumption DEF WriteLock, Locking, Holds
        <4> QED
          BY <2>1, <3>2, <4>1 DEF WriteLock, Locking, Holds, Reads
      <3> QED
        BY <2>1, <3>1, <3>2
    <2> QED
      BY <2>2, <2>3, <2>4
  <1>3. ASSUME NEW t \in Threads, Load(t)
        PROVE  IInv'
    <2>1. /\ UNCHANGED <<_value, readers, writer, op>>
          /\ pc[t] = "access" /\ pc'[t] \in {"unlock", "store"}
          /\ pc'[t] = "store" => op[t].name \notin {"get", "set"}
          /\ pc' \in [Threads -> Points]
          /\ \A u \in Threads \ {t} : pc'[u] = pc[u]
          /\ local' = [local EXCEPT ![t] = _value]
      BY <1>3 DEF Load, Goto, Points, TypeOK
    <2>2. TypeOK'
      BY <2>1 DEF TypeOK
    <2>3. Calling'
      <3>1. op[t] \in Abstract!Ops
        BY <2>1 DEF TypeOK, Calling
      <3>2. op[t].name \in {"set", "get", "increase", "decrease"}
        BY <3>1 DEF Abstract!Ops
      <3> QED
        BY <2>1, <3>2 DEF Calling
    <2>4. Locking'
      BY <2>1 DEF Locking, Holds, Reads
    <2>5. Fresh'
      BY <2>1 DEF Fresh, TypeOK
    <2> QED
      BY <2>2, <2>3, <2>4, <2>5
  <1>4. ASSUME NEW t \in Threads, Store(t)
        PROVE  IInv'
    <2>1. /\ UNCHANGED <<readers, writer, op>>
          /\ pc[t] \in {"access", "store"} /\ pc'[t] = "unlock"
          /\ pc[t] = "access" => op[t].name = "set"
          /\ pc' \in [Threads -> Points]
          /\ \A u \in Threads \ {t} : pc'[u] = pc[u]
          /\ local' = [local EXCEPT ![t] = _value']
      BY <1>4, GotoMoves DEF Store, Points
    <2>2. op[t] \in Abstract!Ops /\ ~Reads(op[t])
      BY <2>1 DEF TypeOK, Calling, Reads
    <2>3. _value' \in Abstract!Type
      <3>1. CASE op[t].name = "set" /\ _value' = op[t].value
        BY <3>1, <2>2 DEF Abstract!Ops
      <3>2. ASSUME NEW x \in Int, _value' = x % MODULUS
            PROVE  _value' \in Abstract!Type
        BY <3>2, Wraps
      <3>3. local[t] \in Int
        BY DEF TypeOK, Abstract!Type
      <3> QED
        BY <1>4, <3>1, <3>2, <3>3 DEF Store
    <2>4. TypeOK'
      BY <2>1, <2>3 DEF TypeOK
    <2>5. Calling'
      BY <2>1 DEF Calling
    <2>6. Locking'
      BY <2>1 DEF Locking, Holds, Reads
    <2>7. \A u \in Threads \ {t} : pc[u] # "store"
      BY <2>1, <2>2, Exclusion
    <2>8. Fresh'
      BY <2>1, <2>7 DEF Fresh
    <2> QED
      BY <2>4, <2>5, <2>6, <2>8
  <1>5. ASSUME NEW t \in Threads, UnLock(t)
        PROVE  IInv'
    <2>1. /\ UNCHANGED <<_value, op, local>>
          /\ pc[t] = "unlock" /\ pc'[t] = "return"
          /\ pc' \in [Threads -> Points]
          /\ \A u \in Threads \ {t} : pc'[u] = pc[u]
          /\ readers' = readers \ {t}
          /\ writer' = IF writer = t THEN NONE ELSE writer
      BY <1>5, GotoMoves DEF UnLock, Points
    <2>2. TypeOK'
      BY <2>1 DEF TypeOK
    <2>3. Calling' /\ Fresh'
      BY <2>1 DEF Calling, Fresh
    <2>4. Locking'
      BY <2>1 DEF Locking, Holds, Reads
    <2> QED
      BY <2>2, <2>3, <2>4
  <1>6. ASSUME NEW t \in Threads, Return(t)
        PROVE  IInv'
    <2>1. /\ UNCHANGED <<_value, readers, writer, local>>
          /\ pc[t] = "return" /\ pc'[t] = "idle"
          /\ pc' \in [Threads -> Points]
          /\ \A u \in Threads \ {t} : pc'[u] = pc[u]
          /\ op' = [op EXCEPT ![t] = NONE]
      BY <1>6, GotoMoves DEF Return, Points
    <2>2. TypeOK'
      BY <2>1 DEF TypeOK
    <2>3. op'[t] = NONE /\ \A u \in Threads \ {t} : op'[u] = op[u]
      BY <2>1 DEF TypeOK
    <2>4. Calling' /\ Fresh'
      BY <2>1, <2>3 DEF Calling, Fresh
    <2>5. Locking'
      BY <2>1, <2>3 DEF Locking, Holds, Reads
    <2> QED
      BY <2>2, <2>4, <2>5
  <1>7. CASE UNCHANGED vars
    BY <1>7 DEF vars, TypeOK, Calling, Locking, Holds, Reads, Fresh
  <1> QED
    BY <1>1, <1>2, <1>3, <1>4, <1>5, <1>6, <1>7 DEF Next, Step

(* The invariant holds in every behaviour.                                 *)
THEOREM Invariance == Spec => []IInv
  BY InitIInv, StepIInv, PTL DEF Spec

(* Whatever the threads call and however they interleave, no two of them   *)
(* are at _value at the same time unless both only read it.                *)
THEOREM RaceFree == Spec => []NoRace
  <1>1. IInv => NoRace
    BY Exclusion DEF IInv, NoRace, Touching
  <1> QED
    BY <1>1, Invariance, PTL
----------------------------------------------------------------------------
ret == [t \in Threads |-> IF pc[t] \in Done THEN local[t] ELSE NONE]

(* A step that takes no thread past its effect or back leaves the abstract *)
(* results alone.                                                          *)
LEMMA SameResults ==
  ASSUME UNCHANGED local,
         \A u \in Threads : (pc'[u] \in Done) = (pc[u] \in Done)
  PROVE  ret' = ret
  BY DEF ret

(* get() takes effect when it loads the value, the others when they store  *)
(* it: the value they leave and the result they get are those of the       *)
(* operation on the value they found, because nobody else has changed it.  *)
LEMMA EffectRefines ==
  ASSUME IInv, NEW t \in Threads,
         UNCHANGED op,
         pc[t] \notin Done, pc' = [pc EXCEPT ![t] = "unlock"],
         op[t] # NONE,
         local' = [local EXCEPT ![t] = _value'],
         _value' = Abstract!Effect(op[t], _value)
  PROVE  Abstract!TakeEffect(t)
  <1> USE DEF IInv
  <1>1. \A u \in Threads \ {t} : pc'[u] = pc[u] /\ local'[u] = local[u]
    BY DEF TypeOK
  <1>2. pc'[t] \in Done /\ local'[t] = _value'
    BY DEF TypeOK, Done
  <1>3. ret[t] = NONE
    BY DEF ret
  <1>4. ret' = [ret EXCEPT ![t] = _value']
    BY <1>1, <1>2 DEF ret
  <1> QED
    BY <1>3, <1>4 DEF Abstract!TakeEffect, ret

(***************************************************************************)
(* Every step of a thread is a step of AtomicValue or leaves it alone: the *)
(* call and the return are those of the abstract operation, Load or Store  *)
(* is its effect, and taking and releasing the lock cannot be seen.        *)
(***************************************************************************)
LEMMA StepRefines ==
  IInv /\ [Next]_vars => [Abstract!Next]_<<_value, op, ret>>
  <1> SUFFICES ASSUME IInv, [Next]_vars
               PROVE  [Abstract!Next]_<<_value, op, ret>>
    OBVIOUS
  <1> USE DEF IInv
  <1>1. ASSUME NEW t \in Threads, NEW o \in Abstract!Ops, Call(t, o)
        PROVE  Abstract!Next
    <2>1. /\ op[t] = NONE /\ op' = [op EXCEPT ![t] = o]
          /\ UNCHANGED <<_value, local>>
      BY <1>1 DEF Call, Goto, Calling
    <2>2. \A u \in Threads : (pc'[u] \in Done) = (pc[u] \in Done)
      BY <1>1 DEF Call, Goto, Done, TypeOK
    <2>3. ret' = ret
      BY <2>1, <2>2, SameResults
    <2> QED
      BY <2>1, <2>3 DEF Abstract!Next, Abstract!Call, ret
  <1>2. ASSUME NEW t \in Threads, Lock(t) \/ UnLock(t)
        PROVE  UNCHANGED <<_value, op, ret>>
    <2>1. UNCHANGED <<_value, op, local>>
      BY <1>2 DEF Lock, UnLock
    <2>2. \A u \in Threads : (pc'[u] \in Done) = (pc[u] \in Done)
      BY <1>2 DEF Lock, UnLock, Goto, Done, TypeOK
    <2> QED
      BY <2>1, <2>2, SameResults
  <1>3. ASSUME NEW t \in Threads, Load(t)
        PROVE  [Abstract!Next]_<<_value, op, ret>>
    <2>1. /\ UNCHANGED <<_value, op>> /\ op[t] # NONE
          /\ pc[t] = "access"
          /\ local' = [local EXCEPT ![t] = _value]
      BY <1>3 DEF Load, Calling
    <2>2. CASE op[t].name = "get"
      <3>1. pc' = [pc EXCEPT ![t] = "unlock"]
        BY <1>3, <2>2 DEF Load, Goto
      <3>2. _value' = Abstract!Effect(op[t], _value)
        BY <2>1, <2>2 DEF Abstract!Effect
      <3>3. Abstract!TakeEffect(t)
        BY <2>1, <3>1, <3>2, EffectRefines DEF Done
      <3> QED
        BY <3>3 DEF Abstract!Next
    <2>3. CASE op[t].name # "get"
      <3>1. pc' = [pc EXCEPT ![t] = "store"]
        BY <1>3, <2>3 DEF Load, Goto
      <3>2. ret' = ret
        BY <2>1, <3>1 DEF ret, Done, TypeOK
      <3> QED
        BY <2>1, <3>2
    <2> QED
      BY <2>2, <2>3
  <1>4. ASSUME NEW t \in Threads, Store(t)
        PROVE  Abstract!Next
    <2>1. /\ UNCHANGED op /\ op[t] # NONE
          /\ pc[t] \in {"access", "store"}
          /\ pc' = [pc EXCEPT ![t] = "unlock"]
          /\ local' = [local EXCEPT ![t] = _value']
      BY <1>4 DEF Store, Goto, Calling
    <2>2. _value' = Abstract!Effect(op[t], _value)
      <3>1. CASE op[t].name = "set" /\ _value' = op[t].value
        BY <3>1 DEF Abstract!Effect
      <3>2. CASE Goto(t, "store", "unlock")
        <4>1. local[t] = _value /\ op[t].name \in {"increase", "decrease"}
          BY <3>2 DEF Goto, Fresh, Calling
        <4>2. _value' = (IF op[t].name = "increase" THEN local[t] + 1
                                                    ELSE local[t] - 1) % MODULUS
          BY <1>4, <3>2 DEF Store, Goto
        <4> QED
          BY <4>1, <4>2 DEF Abstract!Effect
      <3> QED
        BY <1>4, <3>1, <3>2 DEF Store
    <2>3. Abstract!TakeEffect(t)
      BY <2>1, <2>2, EffectRefines DEF Done
    <2> QED
      BY <2>3 DEF Abstract!Next
  <1>5. ASSUME NEW t \in Threads, Return(t)
        PROVE  Abstract!Next
    <2>1. /\ UNCHANGED <<_value, local>> /\ op' = [op EXCEPT ![t] = NONE]
          /\ pc[t] = "return" /\ pc' = [pc EXCEPT ![t] = "idle"]
      BY <1>5 DEF Return, Goto
    <2>2. ret[t] # NONE
      BY <2>1, NoneAssumption DEF ret, Done, TypeOK
    <2>3. ret' = [ret EXCEPT ![t] = NONE]
      BY <2>1 DEF ret, Done, TypeOK
    <2>4. Abstract!Return(t)
      BY <2>1, <2>2, <2>3 DEF Abstract!Return, ret
    <2> QED
      BY <2>4 DEF Abstract!Next
  <1>6. CASE UNCHANGED vars
    BY <1>6 DEF vars, ret
  <1> QED
    BY <1>1, <1>2, <1>3, <1>4, <1>5, <1>6 DEF Next, Step

(***************************************************************************)
(* LockedValue is what Lock.h calls it, an atomic operation template: for  *)
(* any number of threads every behaviour of the class is one of            *)
(* AtomicValue, in which each operation takes effect at once.              *)
(***************************************************************************)
THEOREM Atomicity == Spec => IsAtomic
  <1>1. Init => Abstract!Init
    BY DEF Init, Abstract!Init, Done
  <1> QED
    BY <1>1, StepRefines, Invariance, PTL DEF Spec, IsAtomic, Abstract!Spec, ret
============================================================================
