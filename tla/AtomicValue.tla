---------------------------- MODULE AtomicValue ----------------------------
(***************************************************************************)
(* What LockedValue<Type> of app/Lock.h promises ("atomic operation        *)
(* template"): a value whose operations take effect at once, each at some  *)
(* moment between its call and its return.                                 *)
(***************************************************************************)
EXTENDS Integers

CONSTANTS
  Threads,
  MODULUS,  \* Type holds 0..MODULUS - 1 and wraps around
  NONE

Type == 0..MODULUS - 1
Ops  == [name : {"set"}, value : Type]
          \cup [name : {"get", "increase", "decrease"}, value : {0}]

(* The value an operation leaves, which is also the one it returns; set()  *)
(* returns nothing that is used.                                           *)
Effect(op, v) ==
  CASE op.name = "set"      -> op.value
    [] op.name = "get"      -> v
    [] op.name = "increase" -> (v + 1) % MODULUS
    [] op.name = "decrease" -> (v - 1) % MODULUS

VARIABLES
  val,   \* the value
  call,  \* the operation each thread has called, or NONE
  ret    \* its result, NONE until it has taken effect

Init ==
  /\ val = 0
  /\ call = [t \in Threads |-> NONE]
  /\ ret = [t \in Threads |-> NONE]

Call(t, op) ==
  /\ call[t] = NONE
  /\ call' = [call EXCEPT ![t] = op]
  /\ UNCHANGED <<val, ret>>

TakeEffect(t) ==
  /\ call[t] # NONE /\ ret[t] = NONE
  /\ val' = Effect(call[t], val)
  /\ ret' = [ret EXCEPT ![t] = val']
  /\ UNCHANGED call

Return(t) ==
  /\ ret[t] # NONE
  /\ call' = [call EXCEPT ![t] = NONE]
  /\ ret' = [ret EXCEPT ![t] = NONE]
  /\ UNCHANGED val

Next ==
  \E t \in Threads :
    (\E op \in Ops : Call(t, op)) \/ TakeEffect(t) \/ Return(t)

Spec == Init /\ [][Next]_<<val, call, ret>>
============================================================================
