---------------------------- MODULE WorkersProofs ----------------------------
(***************************************************************************)
(* Theorems about Workers: for any number of Thread objects, starts and    *)
(* crashes the tokens of the semaphore are conserved, properly used        *)
(* objects are safe, and none leaves a pthread nobody can join.            *)
(***************************************************************************)
EXTENDS Workers, FiniteSetTheorems, TLAPS

Object == [live : BOOLEAN, m_tid : Tids \cup {NULL}, m_running : {0, 1},
           m_detached : {0, 1}]
Pthread == [at : InRun \cup {"none", "ended", "gone"}, detached : BOOLEAN,
            cancelled : BOOLEAN]

TypeOK ==
  /\ sem \in Nat \cup {NULL} /\ first \in Nat /\ lost \in Nat
  /\ obj \in [Objects -> Object] /\ th \in [Tids -> Pthread]
  /\ starts \in [Objects -> 0..MaxStarts]
  /\ proper \in BOOLEAN /\ stale \in BOOLEAN
  /\ \/ main.op \in {"open", "aborted", "idle"}
     \/ main.op \in {"start", "join", "destroy"} /\ main.on \in Objects
  /\ main = [op |-> main.op, on |-> main.on]

(* The pthreads that exist are those of the start() calls made, m_tid      *)
(* being the last one.                                                     *)
Numbered ==
  /\ \A k \in Tids : k[2] > starts[k[1]] => th[k] = NoThread
  /\ \A o \in Objects : starts[o] > 0 => obj[o].m_tid = <<o, starts[o]>>
  /\ \A o \in Objects : obj[o].m_running = 1 => starts[o] > 0
  /\ main.op \in {"open", "aborted"} => \A o \in Objects : starts[o] = 0
  /\ main.op = "start" => starts[main.on] > 0
  /\ main.op = "join" => obj[main.on].m_running = 1
  /\ main.op \in {"start", "join", "destroy"} => obj[main.on].live

(* Tokens are with the semaphore, with the threads inside, or lost.        *)
Tokens ==
  /\ IsFiniteSet(Holders)
  /\ sem = NULL => main.op \in {"open", "aborted"} /\ lost = 0
  /\ TokensConserved

(* An object that was started once: what its members say of its pthread.   *)
In(k, ats) == th[k].at \in InRun \cup ats
Ending(o) == main = [op |-> "destroy", on |-> o] \/ ~obj[o].live
Once(o) ==
  LET k == <<o, 1>>
      starting == main = [op |-> "start", on |-> o]
      leaving  == obj[o].m_detached = 1 \/ Ending(o)
  IN  IF obj[o].m_running = 0
        THEN \/ starting /\ In(k, {"ended"}) /\ ~th[k].detached
                /\ obj[o].m_detached = 0
             \/ ~starting /\ Joined(k)
        ELSE \/ leaving /\ In(k, {"gone"}) /\ th[k].detached
             \/ ~leaving /\ In(k, {"ended"}) /\ ~th[k].detached
Members ==
  \A o \in Objects :
    /\ starts[o] = 0 => obj[o].m_running = 0 /\ obj[o].m_detached = 0
    /\ starts[o] = 1 => Once(o)

(* What main has not done while it used every object properly.             *)
Proper ==
  proper =>
    /\ ~stale
    /\ \A o \in Objects :
         /\ starts[o] <= 1
         /\ Ending(o) => obj[o].m_running = 0
         /\ main = [op |-> "join", on |-> o] => obj[o].m_detached = 0

IInv == TypeOK /\ Numbered /\ Tokens /\ Members /\ Proper
-----------------------------------------------------------------------------
(* Fresh objects, thread structures and counters are of their types.       *)
LEMMA FreshFacts ==
  /\ [o \in Objects |-> NewObject] \in [Objects -> Object]
  /\ [k \in Tids |-> NoThread] \in [Tids -> Pthread]
  /\ [o \in Objects |-> 0] \in [Objects -> 0..MaxStarts]
  BY WorkersAssumption DEF NewObject, Object, NoThread, Pthread

(* The first states satisfy the invariant.                                 *)
LEMMA InitIInv == Init => IInv
  <1> SUFFICES ASSUME Init
               PROVE  IInv
    OBVIOUS
  <1>1. TypeOK
    BY FreshFacts DEF Init, TypeOK
  <1>2. Numbered
    BY DEF Init, Numbered, NewObject
  <1>3. Holders = {}
    BY DEF Init, Holders, NoThread
  <1>4. Tokens
    BY <1>3, FS_EmptySet DEF Init, Tokens, TokensConserved
  <1>5. Members
    BY DEF Init, Members, NewObject
  <1>6. Proper
    BY DEF Init, Proper, Ending, NewObject
  <1> QED
    BY <1>1, <1>2, <1>4, <1>5, <1>6 DEF IInv

(* Where no thread enters or leaves, the tokens stay where they are.       *)
LEMMA TokensKept ==
  ASSUME IInv, UNCHANGED semaphore,
         \A k \in Tids : th'[k].at = "inside" <=> th[k].at = "inside",
         main.op \notin {"open", "aborted"}
  PROVE  Tokens'
  <1>1. Holders' = Holders
    BY DEF Holders
  <1>2. sem # NULL
    BY DEF IInv, Tokens
  <1> QED
    BY <1>1, <1>2 DEF IInv, Tokens, TokensConserved, semaphore

(* A thread whose run() goes on or ends keeps what its object knows.       *)
LEMMA ThreadMoves ==
  ASSUME IInv, NEW k \in Tids, th[k].at \in InRun,
         NEW ats, th'[k].at = ats, ats \in InRun \cup {Over(th[k])},
         th' \in [Tids -> Pthread], th'[k].detached = th[k].detached,
         \A m \in Tids : m # k => th'[m] = th[m],
         UNCHANGED <<obj, main, starts, proper, stale>>
  PROVE  Numbered' /\ Members' /\ Proper'
  <1>1. Numbered'
    BY DEF IInv, Numbered, NoThread, InRun
  <1>2. Proper'
    BY DEF IInv, Proper, Ending
  <1>3. ASSUME NEW o \in Objects, starts[o] = 1
        PROVE  Once(o)'
    <2>1. Once(o)
      BY <1>3 DEF IInv, Members
    <2>2. PICK t \in Tids : t = <<o, 1>>
      <3>1. 1 \in 1..MaxStarts
        BY <1>3, WorkersAssumption DEF IInv, TypeOK
      <3> QED
        BY <3>1 DEF Tids
    <2>3. CASE t # k
      BY <2>1, <2>2, <2>3 DEF Once, In, Ending, Joined
    <2>4. CASE t = k
      <3>1. th[k].detached \in BOOLEAN /\ Over(th[k]) \in {"gone", "ended"}
            /\ (th[k].detached => Over(th[k]) = "gone")
            /\ (~th[k].detached => Over(th[k]) = "ended")
        BY DEF IInv, TypeOK, Pthread, Over
      <3>2. ~Joined(k)
        BY DEF Joined, InRun
      <3> QED
        BY <2>1, <2>2, <2>4, <3>1, <3>2 DEF Once, In, Ending, Joined
    <2> QED
      BY <2>3, <2>4
  <1>4. Members'
    BY <1>3 DEF IInv, Members
  <1> QED
    BY <1>1, <1>2, <1>4

(* The semaphore operations of run(), and its end by cancellation.         *)
LEMMA RunKeeps ==
  ASSUME IInv, NEW k \in Tids, Run(k) \/ WaitInterrupted(k)
  PROVE  IInv'
  <1>1. UNCHANGED <<first, lost, obj, main, starts, proper, stale>>
    BY DEF Run, Wait, WaitInterrupted, Post, AfterRound, Cancelled, semaphore
  <1>2. th \in [Tids -> Pthread] /\ th[k] \in Pthread
    BY DEF IInv, TypeOK
  <1>3. th[k].at \in InRun
    BY DEF Run, Wait, WaitInterrupted, Post, AfterRound, Cancelled, InRun
  <1>4. starts[k[1]] > 0 /\ k[1] \in Objects
    <2>1. k[1] \in Objects /\ k[2] \in Nat /\ k[2] >= 1
      BY WorkersAssumption DEF Tids
    <2>2. th[k] # NoThread
      BY <1>3 DEF NoThread, InRun
    <2>3. ~(k[2] > starts[k[1]]) /\ starts[k[1]] \in 0..MaxStarts
      BY <2>1, <2>2 DEF IInv, Numbered, TypeOK
    <2> QED
      BY <2>1, <2>3, WorkersAssumption
  <1>5. main.op \notin {"open", "aborted"} /\ sem \in Nat
    <2>1. main.op \notin {"open", "aborted"}
      BY <1>4 DEF IInv, Numbered
    <2> QED
      BY <2>1 DEF IInv, Tokens, TypeOK
  <1>6. /\ IsFiniteSet(Holders) /\ Cardinality(Holders) \in Nat
        /\ sem + Cardinality(Holders) + lost = first
        /\ first \in Nat /\ lost \in Nat
    BY <1>5, WorkersAssumption, FS_CardinalityType
       DEF IInv, Tokens, TokensConserved, TypeOK
  <1>7. Over(th[k]) \in {"gone", "ended"}
    BY DEF Over
  <1>8. ASSUME NEW to \in {"wait", "outside", "blocked", Over(th[k])},
               UNCHANGED sem, th' = [th EXCEPT ![k].at = to],
               th[k].at # "inside"
        PROVE  IInv'
    <2>1. /\ th' \in [Tids -> Pthread] /\ th'[k].at = to
          /\ th'[k].detached = th[k].detached
          /\ \A m \in Tids : m # k => th'[m] = th[m]
      BY <1>2, <1>7, <1>8 DEF Pthread, InRun
    <2>2. Numbered' /\ Members' /\ Proper'
      BY <1>1, <1>3, <2>1, ThreadMoves DEF InRun
    <2>3. Tokens'
      BY <1>1, <1>5, <1>7, <1>8, <2>1, TokensKept DEF semaphore
    <2>4. TypeOK'
      BY <1>1, <1>8, <2>1 DEF IInv, TypeOK
    <2> QED
      BY <2>2, <2>3, <2>4 DEF IInv
  <1>9. CASE /\ sem > 0 /\ sem' = sem - 1 /\ th[k].at = "wait"
             /\ th' = [th EXCEPT ![k].at = "inside"]
    <2>1. /\ th' \in [Tids -> Pthread] /\ th'[k].at = "inside"
          /\ th'[k].detached = th[k].detached
          /\ \A m \in Tids : m # k => th'[m] = th[m]
      BY <1>2, <1>9 DEF Pthread, InRun
    <2>2. Numbered' /\ Members' /\ Proper'
      BY <1>1, <1>3, <2>1, ThreadMoves DEF InRun
    <2>3. Holders' = Holders \cup {k} /\ k \notin Holders
      BY <1>9, <2>1 DEF Holders
    <2>4. /\ IsFiniteSet(Holders')
          /\ Cardinality(Holders') = Cardinality(Holders) + 1
      BY <1>6, <2>3, FS_AddElement
    <2>5. sem' \in Nat /\ sem' # NULL
      BY <1>5, <1>9, WorkersAssumption
    <2>6. sem' + (Cardinality(Holders) + 1) + lost = first
      BY <1>5, <1>6, <1>9
    <2>7. Tokens'
      BY <1>1, <2>4, <2>5, <2>6 DEF Tokens, TokensConserved
    <2>8. TypeOK'
      BY <1>1, <2>1, <2>5 DEF IInv, TypeOK
    <2> QED
      BY <2>2, <2>7, <2>8 DEF IInv
  <1>10. CASE Post(k)
    <2>1. th' = [th EXCEPT ![k].at = "outside"] /\ th[k].at = "inside"
      BY <1>10 DEF Post
    <2>3. /\ th' \in [Tids -> Pthread] /\ th'[k].at = "outside"
          /\ th'[k].detached = th[k].detached
          /\ \A m \in Tids : m # k => th'[m] = th[m]
      BY <1>2, <2>1 DEF Pthread, InRun
    <2>4. Numbered' /\ Members' /\ Proper'
      BY <1>1, <1>3, <2>3, ThreadMoves DEF InRun
    <2>5. Holders' = Holders \ {k} /\ k \in Holders
      BY <2>1, <2>3 DEF Holders
    <2>6. /\ IsFiniteSet(Holders')
          /\ Cardinality(Holders') = Cardinality(Holders) - 1
      BY <1>6, <2>5, FS_RemoveElement
    <2>7. sem' = sem + 1 /\ sem' \in Nat /\ sem' # NULL
      BY <1>5, <1>10, WorkersAssumption DEF Post
    <2>8. sem' + (Cardinality(Holders) - 1) + lost = first
      BY <1>5, <1>6, <2>7
    <2>9. Tokens'
      BY <1>1, <2>6, <2>7, <2>8 DEF Tokens, TokensConserved
    <2>10. TypeOK'
      BY <1>1, <2>3, <2>7 DEF IInv, TypeOK
    <2> QED
      BY <2>4, <2>9, <2>10 DEF IInv
  <1>11. CASE Wait(k)
    <2>1. CASE th[k].cancelled
      BY <1>8, <1>11, <2>1 DEF Wait
    <2>2. CASE ~th[k].cancelled
      BY <1>9, <1>11, <2>2 DEF Wait
    <2> QED
      BY <2>1, <2>2
  <1>12. CASE WaitInterrupted(k)
    BY <1>8, <1>12 DEF WaitInterrupted, semaphore
  <1>13. CASE AfterRound(k)
    BY <1>8, <1>13 DEF AfterRound, semaphore
  <1>14. CASE Cancelled(k)
    BY <1>8, <1>14 DEF Cancelled, semaphore
  <1> QED
    BY <1>10, <1>11, <1>12, <1>13, <1>14 DEF Run

(* The constructor of the semaphore.                                       *)
LEMMA OpenSemKeeps == IInv /\ OpenSem => IInv'
  <1> SUFFICES ASSUME IInv, OpenSem
               PROVE  IInv'
    OBVIOUS
  <1>1. /\ main.op = "open"
        /\ main' \in {Idle, [op |-> "aborted", on |-> NULL]}
        /\ UNCHANGED <<lost, obj, th, starts, proper, stale>>
        /\ \/ sem = NULL /\ sem' \in IValues /\ first' = sem'
           \/ main' = Idle /\ sem # NULL /\ UNCHANGED <<sem, first>>
           \/ main'.op = "aborted" /\ UNCHANGED <<sem, first>>
    BY DEF OpenSem
  <1>2. /\ sem' \in Nat \cup {NULL} /\ first' \in Nat
        /\ sem' = NULL => main'.op = "aborted" /\ sem = NULL /\ lost = 0
    BY <1>1, WorkersAssumption DEF IInv, TypeOK, Tokens
  <1>3. TypeOK'
    BY <1>1, <1>2 DEF IInv, TypeOK, Idle
  <1>4. Numbered' /\ Proper' /\ Members'
    BY <1>1 DEF IInv, Numbered, Proper, Members, Ending, Idle
  <1>5. Holders' = Holders
    BY <1>1 DEF Holders
  <1>6. Holders = {}
    <2>1. ASSUME NEW k \in Tids
          PROVE  th[k] = NoThread
      <3>1. k[1] \in Objects /\ k[2] \in Nat /\ k[2] > 0
        BY WorkersAssumption DEF Tids
      <3> QED
        BY <1>1, <3>1 DEF IInv, Numbered
    <2> QED
      BY <2>1 DEF Holders, NoThread
  <1>7. Tokens'
    <2>1. Cardinality(Holders') = 0 /\ IsFiniteSet(Holders')
      BY <1>5, <1>6, FS_EmptySet
    <2>2. CASE UNCHANGED <<sem, first>>
      BY <1>1, <1>2, <1>5, <2>2 DEF IInv, Tokens, TokensConserved
    <2>3. CASE sem = NULL /\ sem' \in IValues /\ first' = sem'
      <3>1. lost' = 0
        BY <1>1, <2>3 DEF IInv, Tokens
      <3>2. PICK n \in Nat : n = sem' /\ n = first'
        BY <2>3, WorkersAssumption
      <3>3. n + 0 + 0 = n
        OBVIOUS
      <3> QED
        BY <2>1, <3>1, <3>2, <3>3, WorkersAssumption DEF Tokens, TokensConserved
    <2> QED
      BY <1>1, <2>2, <2>3
  <1> QED
    BY <1>3, <1>4, <1>7 DEF IInv

(* The process is killed and started again.                                *)
LEMMA CrashKeeps == IInv /\ Crash => IInv'
  <1> SUFFICES ASSUME IInv, Crash
               PROVE  IInv'
    OBVIOUS
  <1>1. /\ lost' = lost + Cardinality(Holders)
        /\ obj' = [o \in Objects |-> NewObject]
        /\ th' = [k \in Tids |-> NoThread]
        /\ main' = [op |-> "open", on |-> NULL]
        /\ starts' = [o \in Objects |-> 0]
        /\ proper' = TRUE /\ ~stale /\ UNCHANGED <<sem, first, stale>>
    BY DEF Crash, FreshProcess
  <1>2. IsFiniteSet(Holders) /\ Cardinality(Holders) \in Nat
    BY FS_CardinalityType DEF IInv, Tokens
  <1>3. lost \in Nat /\ lost' \in Nat /\ first \in Nat
    BY <1>1, <1>2 DEF IInv, TypeOK
  <1>4. TypeOK'
    BY <1>1, <1>3, FreshFacts DEF IInv, TypeOK
  <1>5. Numbered' /\ Members' /\ Proper'
    BY <1>1 DEF Numbered, Members, Proper, Ending, NewObject
  <1>6. Holders' = {}
    BY <1>1 DEF Holders, NoThread
  <1>7. IsFiniteSet(Holders') /\ Cardinality(Holders') = 0
    BY <1>6, FS_EmptySet
  <1>8. Tokens'
    <2>1. CASE sem = NULL
      <3>1. Holders = {}
        <4>1. ASSUME NEW k \in Tids
              PROVE  th[k] = NoThread
          <5>1. k[1] \in Objects /\ k[2] \in Nat /\ k[2] > 0
            BY WorkersAssumption DEF Tids
          <5> QED
            BY <2>1, <5>1 DEF IInv, Tokens, Numbered
        <4> QED
          BY <4>1 DEF Holders, NoThread
      <3>2. lost' = 0
        BY <1>1, <2>1, <3>1, FS_EmptySet DEF IInv, Tokens
      <3> QED
        BY <1>1, <1>7, <2>1, <3>2 DEF Tokens, TokensConserved
    <2>2. CASE sem # NULL
      <3>1. sem \in Nat /\ sem + Cardinality(Holders) + lost = first
        BY <2>2 DEF IInv, TypeOK, Tokens, TokensConserved
      <3>2. sem + 0 + lost' = first
        BY <1>1, <1>2, <1>3, <3>1
      <3> QED
        BY <1>1, <1>7, <2>2, <3>2 DEF Tokens, TokensConserved
    <2> QED
      BY <2>1, <2>2
  <1> QED
    BY <1>4, <1>5, <1>8 DEF IInv

StartOf(o)   == [op |-> "start", on |-> o]
DestroyOf(o) == [op |-> "destroy", on |-> o]

(* What main does to one object leaves what is known of another.           *)
LEMMA OthersKept ==
  ASSUME IInv, NEW o \in Objects, starts[o] = 1, obj'[o] = obj[o],
         th'[<<o, 1>>] = th[<<o, 1>>],
         main' = StartOf(o) <=> main = StartOf(o),
         main' = DestroyOf(o) <=> main = DestroyOf(o)
  PROVE  Once(o)'
  <1>1. Once(o)
    BY DEF IInv, Members
  <1> QED
    BY <1>1 DEF Once, In, Ending, Joined, StartOf, DestroyOf

(* The pthread of an object that was started.                              *)
LEMMA TidFacts ==
  ASSUME IInv, NEW o \in Objects, starts[o] > 0
  PROVE  /\ obj[o].m_tid = <<o, starts[o]>> /\ obj[o].m_tid \in Tids
         /\ th[obj[o].m_tid] \in Pthread
         /\ starts[o] \in Nat
  <1>1. starts[o] \in 1..MaxStarts /\ starts[o] \in Nat
    BY WorkersAssumption DEF IInv, TypeOK
  <1>2. obj[o].m_tid = <<o, starts[o]>>
    BY DEF IInv, Numbered
  <1>3. <<o, starts[o]>> \in Tids
    BY <1>1 DEF Tids
  <1> QED
    BY <1>1, <1>2, <1>3 DEF IInv, TypeOK

(* Thread::start().                                                        *)
LEMMA StartKeeps ==
  ASSUME IInv, NEW o \in Objects, Start(o)
  PROVE  IInv'
  <1>1. PICK k : k = <<o, starts[o] + 1>>
    OBVIOUS
  <1>2. /\ main = Idle /\ main' = StartOf(o) /\ obj[o].live
        /\ starts[o] < MaxStarts
        /\ obj' = [obj EXCEPT ![o].m_tid = k]
        /\ th' = [th EXCEPT ![k].at = "wait"]
        /\ starts' = [starts EXCEPT ![o] = @ + 1]
        /\ proper' = (proper /\ ~Misuse("start", o))
        /\ UNCHANGED <<sem, first, lost, stale>> /\ ~stale
    BY <1>1 DEF Start, Calls, StartOf, semaphore
  <1>3. starts[o] \in Nat /\ starts[o] + 1 \in 0..MaxStarts
        /\ starts[o] + 1 \in 1..MaxStarts
    BY <1>2, WorkersAssumption DEF IInv, TypeOK
  <1>4. k \in Tids
    BY <1>1, <1>3 DEF Tids
  <1>5. th[k] = NoThread
    BY <1>1, <1>3, <1>4 DEF IInv, Numbered
  <1>6. /\ obj \in [Objects -> Object] /\ th \in [Tids -> Pthread]
        /\ starts \in [Objects -> 0..MaxStarts]
    BY DEF IInv, TypeOK
  <1>7. /\ obj' \in [Objects -> Object]
        /\ obj'[o].m_tid = k /\ obj'[o].live = obj[o].live
        /\ obj'[o].m_running = obj[o].m_running
        /\ obj'[o].m_detached = obj[o].m_detached
        /\ \A p \in Objects : p # o => obj'[p] = obj[p]
    BY <1>2, <1>4, <1>6 DEF Object
  <1>8. /\ th' \in [Tids -> Pthread]
        /\ th'[k].at = "wait" /\ ~th'[k].detached
        /\ \A m \in Tids : m # k => th'[m] = th[m]
    <2>1. th[k] \in Pthread /\ ~th[k].detached
      <3>1. ~NoThread.detached
        BY DEF NoThread
      <3> QED
        BY <1>4, <1>5, <1>6, <3>1
    <2>2. /\ th' \in [Tids -> Pthread] /\ th'[k].at = "wait"
          /\ th'[k].detached = th[k].detached
          /\ \A m \in Tids : m # k => th'[m] = th[m]
      BY <1>2, <1>4, <1>6, <2>1 DEF Pthread, InRun
    <2> QED
      BY <2>1, <2>2
  <1>9. /\ starts' \in [Objects -> 0..MaxStarts]
        /\ starts'[o] = starts[o] + 1
        /\ \A p \in Objects : p # o => starts'[p] = starts[p]
    BY <1>2, <1>3, <1>6
  <1>10. TypeOK'
    BY <1>2, <1>7, <1>8, <1>9 DEF IInv, TypeOK, StartOf
  <1>11. Numbered'
    <2>1. ASSUME NEW m \in Tids, m[2] > starts'[m[1]]
          PROVE  th'[m] = NoThread
      <3>1. m[1] \in Objects /\ m[2] \in Nat /\ starts[m[1]] \in Nat
        BY <1>6, WorkersAssumption DEF Tids
      <3>2. m # k
        BY <1>1, <1>3, <1>9, <2>1
      <3>3. m[2] > starts[m[1]]
        BY <1>3, <1>9, <2>1, <3>1
      <3> QED
        BY <1>8, <3>2, <3>3 DEF IInv, Numbered
    <2>2. ASSUME NEW p \in Objects
          PROVE  /\ starts'[p] > 0 => obj'[p].m_tid = <<p, starts'[p]>>
                 /\ obj'[p].m_running = 1 => starts'[p] > 0
      BY <1>1, <1>3, <1>7, <1>9 DEF IInv, Numbered
    <2>3. starts'[o] > 0
      BY <1>3, <1>9
    <2> QED
      BY <1>2, <1>7, <2>1, <2>2, <2>3 DEF Numbered, StartOf
  <1>12. Tokens'
    <2>1. \A m \in Tids : th'[m].at = "inside" <=> th[m].at = "inside"
      BY <1>5, <1>8 DEF NoThread
    <2> QED
      BY <1>2, <2>1, TokensKept DEF semaphore, Idle
  <1>13. Members'
    <2>1. ASSUME NEW p \in Objects, p # o, starts'[p] = 1
          PROVE  Once(p)'
      <3>1. starts[p] = 1 /\ obj'[p] = obj[p]
        BY <1>7, <1>9, <2>1
      <3>2. th'[<<p, 1>>] = th[<<p, 1>>]
        BY <1>1, <1>2, <2>1
      <3> QED
        BY <1>2, <2>1, <3>1, <3>2, OthersKept DEF StartOf, DestroyOf, Idle
    <2>2. ASSUME starts'[o] = 1
          PROVE  Once(o)'
      <3>1. starts[o] = 0
        BY <1>3, <1>9, <2>2
      <3>2. obj'[o].m_running = 0 /\ obj'[o].m_detached = 0
        BY <1>7, <3>1 DEF IInv, Members
      <3>3. k = <<o, 1>>
        BY <1>1, <3>1
      <3> QED
        BY <1>2, <1>8, <3>2, <3>3 DEF Once, In, StartOf, InRun
    <2>3. ASSUME NEW p \in Objects, starts'[p] = 0
          PROVE  obj'[p].m_running = 0 /\ obj'[p].m_detached = 0
      BY <1>3, <1>7, <1>9, <2>3 DEF IInv, Members
    <2> QED
      BY <2>1, <2>2, <2>3 DEF Members
  <1>14. Proper'
    <2> SUFFICES ASSUME proper'
                 PROVE  Proper'
      BY DEF Proper
    <2>1. proper /\ starts[o] = 0
      BY <1>2, <1>3 DEF Misuse, IInv, TypeOK
    <2>2. \A p \in Objects : starts'[p] <= 1
      BY <1>9, <2>1 DEF IInv, Proper
    <2>3. \A p \in Objects : Ending(p)' => obj'[p].m_running = 0
      BY <1>2, <1>7, <2>1 DEF IInv, Proper, Ending, StartOf
    <2> QED
      BY <1>2, <2>2, <2>3 DEF Proper, StartOf
  <1> QED
    BY <1>10, <1>11, <1>12, <1>13, <1>14 DEF IInv

(* Start() sets m_running once the thread is there, and returns.           *)
LEMMA StartReturnsKeeps == IInv /\ StartReturns => IInv'
  <1> SUFFICES ASSUME IInv, StartReturns
               PROVE  IInv'
    OBVIOUS
  <1>1. PICK o \in Objects : o = main.on
    BY DEF StartReturns, IInv, TypeOK
  <1>2. /\ main = StartOf(o) /\ main' = Idle
        /\ obj' = [obj EXCEPT ![o].m_running = 1]
        /\ UNCHANGED <<sem, first, lost, th, starts, proper, stale>>
    BY <1>1 DEF StartReturns, StartOf, semaphore, IInv, TypeOK
  <1>3. obj \in [Objects -> Object] /\ starts[o] > 0 /\ obj[o].live
    BY <1>2 DEF IInv, TypeOK, Numbered, StartOf
  <1>4. /\ obj' \in [Objects -> Object]
        /\ obj'[o].m_tid = obj[o].m_tid /\ obj'[o].live = obj[o].live
        /\ obj'[o].m_running = 1 /\ obj'[o].m_detached = obj[o].m_detached
        /\ \A p \in Objects : p # o => obj'[p] = obj[p]
    BY <1>2, <1>3 DEF Object
  <1>5. TypeOK'
    BY <1>2, <1>4 DEF IInv, TypeOK, Idle
  <1>6. Numbered'
    BY <1>2, <1>3, <1>4 DEF IInv, Numbered, Idle
  <1>7. Tokens'
    BY <1>2, TokensKept DEF semaphore, StartOf
  <1>8. Members'
    <2>1. ASSUME NEW p \in Objects, p # o, starts[p] = 1
          PROVE  Once(p)'
      BY <1>2, <1>4, <2>1, OthersKept DEF StartOf, DestroyOf, Idle
    <2>2. ASSUME starts[o] = 1
          PROVE  Once(o)'
      <3>1. Once(o)
        BY <2>2 DEF IInv, Members
      <3>2. ~Ending(o) /\ ~Ending(o)'
        BY <1>2, <1>3, <1>4 DEF Ending, StartOf, Idle
      <3> QED
        BY <1>2, <1>4, <3>1, <3>2 DEF Once, In, StartOf, Idle
    <2>3. \A p \in Objects : starts[p] = 0 => p # o
      BY <1>3 DEF IInv, TypeOK
    <2> QED
      BY <1>2, <1>4, <2>1, <2>2, <2>3 DEF IInv, Members
  <1>9. Proper'
    BY <1>2, <1>3, <1>4 DEF IInv, Proper, Ending, StartOf, Idle
  <1> QED
    BY <1>5, <1>6, <1>7, <1>8, <1>9 DEF IInv

(* Thread::join() up to pthread_join().                                    *)
LEMMA JoinKeeps ==
  ASSUME IInv, NEW o \in Objects, Join(o)
  PROVE  IInv'
  <1>1. /\ obj[o].m_running = 1 /\ main = Idle /\ obj[o].live
        /\ main' = [op |-> "join", on |-> o]
        /\ proper' = (proper /\ ~Misuse("join", o))
        /\ UNCHANGED <<sem, first, lost, obj, th, starts, stale>>
    BY DEF Join, Calls, semaphore
  <1>2. TypeOK'
    BY <1>1 DEF IInv, TypeOK
  <1>3. Numbered'
    BY <1>1 DEF IInv, Numbered
  <1>4. Tokens'
    BY <1>1, TokensKept DEF semaphore, Idle
  <1>5. Members'
    <2>1. ASSUME NEW p \in Objects, starts[p] = 1
          PROVE  Once(p)'
      BY <1>1, <2>1, OthersKept DEF StartOf, DestroyOf, Idle
    <2> QED
      BY <1>1, <2>1 DEF IInv, Members
  <1>6. Proper'
    <2> SUFFICES ASSUME proper'
                 PROVE  Proper'
      BY DEF Proper
    <2>1. proper /\ ~th[obj[o].m_tid].detached
      BY <1>1 DEF Misuse, IInv, TypeOK
    <2>2. starts[o] = 1
      BY <1>1, <2>1 DEF IInv, Numbered, Proper, TypeOK
    <2>3. obj[o].m_tid = <<o, 1>>
      BY <2>2 DEF IInv, Numbered
    <2>4. Once(o) /\ ~Ending(o)
      BY <1>1, <2>2 DEF IInv, Members, Ending, Idle
    <2>5. obj[o].m_detached \in {0, 1}
      BY DEF IInv, TypeOK, Object
    <2>6. obj[o].m_detached = 0
      BY <1>1, <2>1, <2>3, <2>4, <2>5 DEF Once
    <2> QED
      BY <1>1, <2>1, <2>6 DEF IInv, Proper, Ending, Idle
  <1> QED
    BY <1>2, <1>3, <1>4, <1>5, <1>6 DEF IInv

(* The end of Thread::join().                                              *)
LEMMA JoinReturnsKeeps == IInv /\ JoinReturns => IInv'
  <1> SUFFICES ASSUME IInv, JoinReturns
               PROVE  IInv'
    OBVIOUS
  <1>1. PICK o \in Objects : o = main.on
    BY DEF JoinReturns, IInv, TypeOK
  <1>2. PICK k : k = obj[o].m_tid
    OBVIOUS
  <1>3. /\ main = [op |-> "join", on |-> o] /\ main' = Idle
        /\ UNCHANGED <<sem, first, lost, starts, proper>>
        /\ \/ th[k].at = "gone" /\ stale' = TRUE /\ UNCHANGED <<obj, th>>
           \/ /\ th[k].at # "gone" /\ th[k].detached
              /\ UNCHANGED <<obj, th, stale>>
           \/ /\ th[k].at = "ended" /\ th' = [th EXCEPT ![k].at = "gone"]
              /\ obj' = Joins(o) /\ UNCHANGED stale
    BY <1>1, <1>2 DEF JoinReturns, semaphore, IInv, TypeOK
  <1>4. /\ obj \in [Objects -> Object] /\ th \in [Tids -> Pthread]
        /\ obj[o].m_running = 1 /\ obj[o].live /\ starts[o] > 0
    BY <1>3 DEF IInv, TypeOK, Numbered
  <1>5. k = <<o, starts[o]>> /\ k \in Tids /\ th[k] \in Pthread
    BY <1>2, <1>4, TidFacts
  <1>6. starts[o] = 1 =>
          \/ obj[o].m_detached = 1 /\ In(k, {"gone"}) /\ th[k].detached
          \/ obj[o].m_detached # 1 /\ In(k, {"ended"}) /\ ~th[k].detached
    <2> SUFFICES ASSUME starts[o] = 1
                 PROVE  \/ obj[o].m_detached = 1 /\ In(k, {"gone"}) /\ th[k].detached
                        \/ obj[o].m_detached # 1 /\ In(k, {"ended"}) /\ ~th[k].detached
      OBVIOUS
    <2>1. Once(o) /\ k = <<o, 1>>
      BY <1>5 DEF IInv, Members
    <2>2. ~Ending(o)
      BY <1>3, <1>4 DEF Ending
    <2> QED
      BY <1>4, <2>1, <2>2 DEF Once
  <1>7. proper => starts[o] = 1 /\ obj[o].m_detached = 0
    BY <1>3, <1>4 DEF IInv, Proper, TypeOK
  <1>8. CASE UNCHANGED <<obj, th>>
    <2>1. TypeOK'
      BY <1>3, <1>8 DEF IInv, TypeOK, Idle
    <2>2. Numbered'
      BY <1>3, <1>8 DEF IInv, Numbered, Idle
    <2>3. Tokens'
      BY <1>3, <1>8, TokensKept DEF semaphore
    <2>4. Members'
      <3>1. ASSUME NEW p \in Objects, starts[p] = 1
            PROVE  Once(p)'
        BY <1>3, <1>8, <3>1, OthersKept DEF StartOf, DestroyOf, Idle
      <3> QED
        BY <1>3, <1>8, <3>1 DEF IInv, Members
    <2>5. ~proper \/ UNCHANGED stale
      BY <1>3, <1>6, <1>7 DEF In, InRun
    <2>6. Proper'
      BY <1>3, <1>8, <2>5 DEF IInv, Proper, Ending, Idle
    <2> QED
      BY <2>1, <2>2, <2>3, <2>4, <2>6 DEF IInv
  <1>9. CASE /\ th[k].at = "ended" /\ th' = [th EXCEPT ![k].at = "gone"]
             /\ obj' = Joins(o) /\ UNCHANGED stale
    <2>1. /\ th' \in [Tids -> Pthread] /\ th'[k].at = "gone"
          /\ th'[k].detached = th[k].detached
          /\ \A m \in Tids : m # k => th'[m] = th[m]
      BY <1>4, <1>5, <1>9 DEF Pthread
    <2>2. /\ obj' \in [Objects -> Object]
          /\ obj'[o].m_tid = obj[o].m_tid /\ obj'[o].live = obj[o].live
          /\ obj'[o].m_running = 0 /\ obj'[o].m_detached = 1
          /\ \A p \in Objects : p # o => obj'[p] = obj[p]
      BY <1>4, <1>9 DEF Joins, Object
    <2>3. TypeOK'
      BY <1>3, <1>9, <2>1, <2>2 DEF IInv, TypeOK, Idle
    <2>4. Numbered'
      <3>1. \A m \in Tids : m[2] > starts[m[1]] => m # k
        BY <1>5, TidFacts, <1>4
      <3> QED
        BY <1>3, <1>4, <2>1, <2>2, <3>1 DEF IInv, Numbered, Idle
    <2>5. Tokens'
      BY <1>3, <1>9, <2>1, TokensKept DEF semaphore
    <2>6. ASSUME NEW p \in Objects, p # o, starts[p] = 1
          PROVE  Once(p)'
      <3>1. th'[<<p, 1>>] = th[<<p, 1>>]
        BY <1>5, <1>9, <2>6
      <3> QED
        BY <1>3, <2>2, <2>6, <3>1, OthersKept DEF StartOf, DestroyOf, Idle
    <2>7. ASSUME starts[o] = 1
          PROVE  Once(o)'
      <3>1. ~th[k].detached
        BY <1>6, <1>9, <2>7 DEF In, InRun
      <3> QED
        BY <1>3, <1>5, <2>1, <2>2, <2>7, <3>1 DEF Once, Joined, Idle
    <2>8. Members'
      <3>1. \A p \in Objects : starts[p] = 0 => p # o
        BY <1>4, TidFacts
      <3> QED
        BY <1>3, <2>2, <2>6, <2>7, <3>1 DEF IInv, Members
    <2>9. Proper'
      BY <1>3, <1>4, <1>9, <2>2 DEF IInv, Proper, Ending, Idle
    <2> QED
      BY <2>3, <2>4, <2>5, <2>8, <2>9 DEF IInv
  <1> QED
    BY <1>3, <1>8, <1>9

(* pthread_detach() on an id that may or may not be valid any more.        *)
LEMMA DetachFacts ==
  ASSUME IInv, NEW k \in Tids, PthreadDetach(k)
  PROVE  /\ th' \in [Tids -> Pthread]
         /\ \A m \in Tids : m # k => th'[m] = th[m]
         /\ \A m \in Tids : th'[m].at = "inside" <=> th[m].at = "inside"
         /\ stale' \in BOOLEAN
         /\ th[k].at # "gone" =>
              /\ UNCHANGED stale /\ th'[k].detached
              /\ th'[k].at = IF th[k].at = "ended" THEN "gone" ELSE th[k].at
  <1>1. th \in [Tids -> Pthread] /\ th[k] \in Pthread /\ stale \in BOOLEAN
    BY DEF IInv, TypeOK
  <1>2. CASE th[k].at = "gone"
    BY <1>1, <1>2 DEF PthreadDetach
  <1>3. CASE th[k].at # "gone"
    <2>1. PICK a \in InRun \cup {"none", "ended", "gone"} :
            a = IF th[k].at = "ended" THEN "gone" ELSE th[k].at
      BY <1>1 DEF Pthread
    <2>2. /\ th' = [th EXCEPT ![k].detached = TRUE, ![k].at = a]
          /\ UNCHANGED stale
      BY <1>1, <1>3, <2>1 DEF PthreadDetach, Pthread
    <2>3. th'[k] = [th[k] EXCEPT !.detached = TRUE, !.at = a]
      BY <1>1, <2>2
    <2>4. th'[k] \in Pthread /\ th'[k].at = a /\ th'[k].detached
      BY <1>1, <2>3 DEF Pthread
    <2>5. /\ th' \in [Tids -> Pthread]
          /\ \A m \in Tids : m # k => th'[m] = th[m]
      BY <1>1, <2>2, <2>4
    <2>6. th'[k].at = "inside" <=> th[k].at = "inside"
      BY <2>1, <2>4
    <2> QED
      BY <1>1, <1>3, <2>1, <2>2, <2>4, <2>5, <2>6
  <1> QED
    BY <1>2, <1>3

(* The pthread of an object started once that runs and is not detached.    *)
LEMMA RunningOnce ==
  ASSUME IInv, NEW o \in Objects, starts[o] = 1, obj[o].m_running = 1,
         obj[o].m_detached = 0, ~Ending(o)
  PROVE  In(<<o, 1>>, {"ended"}) /\ ~th[<<o, 1>>].detached
  <1>1. Once(o)
    BY DEF IInv, Members
  <1> QED
    BY <1>1 DEF Once

(* Thread::detach().                                                       *)
LEMMA DetachKeeps ==
  ASSUME IInv, NEW o \in Objects, Detach(o)
  PROVE  IInv'
  <1>1. PICK k : k = obj[o].m_tid
    OBVIOUS
  <1>2. /\ obj[o].m_running = 1 /\ obj[o].m_detached = 0
        /\ main = Idle /\ main' = Idle /\ obj[o].live
        /\ proper' = (proper /\ ~Misuse("detach", o))
        /\ PthreadDetach(k)
        /\ obj' = [obj EXCEPT ![o].m_detached = 1]
        /\ UNCHANGED <<sem, first, lost, starts>>
    BY <1>1 DEF Detach, Calls, semaphore
  <1>3. obj \in [Objects -> Object] /\ starts[o] > 0
    BY <1>2 DEF IInv, TypeOK, Numbered
  <1>4. k = <<o, starts[o]>> /\ k \in Tids /\ starts[o] \in Nat
    BY <1>1, <1>3, TidFacts
  <1>5. /\ obj' \in [Objects -> Object]
        /\ obj'[o].m_tid = obj[o].m_tid /\ obj'[o].live = obj[o].live
        /\ obj'[o].m_running = obj[o].m_running /\ obj'[o].m_detached = 1
        /\ \A p \in Objects : p # o => obj'[p] = obj[p]
    BY <1>2, <1>3 DEF Object
  <1>6. /\ th' \in [Tids -> Pthread]
        /\ \A m \in Tids : m # k => th'[m] = th[m]
        /\ \A m \in Tids : th'[m].at = "inside" <=> th[m].at = "inside"
        /\ stale' \in BOOLEAN
        /\ th[k].at # "gone" =>
             /\ UNCHANGED stale /\ th'[k].detached
             /\ th'[k].at = IF th[k].at = "ended" THEN "gone" ELSE th[k].at
    BY <1>2, <1>4, DetachFacts
  <1>7. ~Ending(o)
    BY <1>2 DEF Ending, Idle
  <1>8. starts[o] = 1 => In(k, {"ended"}) /\ k = <<o, 1>>
    BY <1>2, <1>4, <1>7, RunningOnce
  <1>9. TypeOK'
    BY <1>2, <1>5, <1>6 DEF IInv, TypeOK, Idle
  <1>10. Numbered'
    <2>1. \A m \in Tids : m[2] > starts[m[1]] => m # k
      BY <1>4
    <2> QED
      BY <1>2, <1>3, <1>5, <1>6, <2>1 DEF IInv, Numbered, Idle
  <1>11. Tokens'
    BY <1>2, <1>6, TokensKept DEF semaphore, Idle
  <1>12. Members'
    <2>1. ASSUME NEW p \in Objects, p # o, starts[p] = 1
          PROVE  Once(p)'
      <3>1. <<p, 1>> \in Tids /\ <<p, 1>> # k
        BY <1>4, <2>1, TidFacts
      <3> QED
        BY <1>2, <1>5, <1>6, <2>1, <3>1, OthersKept DEF StartOf, DestroyOf, Idle
    <2>2. ASSUME starts[o] = 1
          PROVE  Once(o)'
      <3>1. th'[k].detached /\ In(k, {"gone"})' /\ k = <<o, 1>>
        BY <1>6, <1>8, <2>2 DEF In, InRun
      <3> QED
        BY <1>2, <1>5, <3>1 DEF Once, In
    <2>3. \A p \in Objects : starts[p] = 0 => p # o
      BY <1>3, <1>4
    <2> QED
      BY <1>2, <1>5, <2>1, <2>2, <2>3 DEF IInv, Members
  <1>13. Proper'
    <2> SUFFICES ASSUME proper'
                 PROVE  Proper'
      BY DEF Proper
    <2>1. proper /\ ~stale /\ starts[o] = 1
      BY <1>2, <1>3, <1>4 DEF IInv, TypeOK, Proper
    <2>2. ~stale'
      BY <1>6, <1>8, <2>1 DEF In, InRun
    <2> QED
      BY <1>2, <1>5, <2>1, <2>2 DEF IInv, Proper, Ending, Idle
  <1> QED
    BY <1>9, <1>10, <1>11, <1>12, <1>13 DEF IInv

(* Thread::~Thread() up to pthread_cancel().                               *)
LEMMA DestroyKeeps ==
  ASSUME IInv, NEW o \in Objects, Destroy(o)
  PROVE  IInv'
  <1>1. PICK k : k = obj[o].m_tid
    OBVIOUS
  <1>2. /\ main = Idle /\ main' = DestroyOf(o) /\ obj[o].live
        /\ proper' = (proper /\ ~Misuse("destroy", o))
        /\ IF obj[o].m_running = 1 /\ obj[o].m_detached = 0
             THEN PthreadDetach(k) ELSE UNCHANGED <<th, stale>>
        /\ UNCHANGED <<sem, first, lost, obj, starts>>
    BY <1>1 DEF Destroy, Calls, DestroyOf, semaphore
  <1>3. ~Ending(o)
    BY <1>2 DEF Ending, Idle
  <1>4. obj[o] \in Object /\ th \in [Tids -> Pthread] /\ stale \in BOOLEAN
    BY DEF IInv, TypeOK
  <1>5. obj[o].m_running = 1 =>
          k = <<o, starts[o]>> /\ k \in Tids /\ starts[o] \in Nat
    BY <1>1, TidFacts DEF IInv, Numbered
  <1>6. /\ th' \in [Tids -> Pthread]
        /\ \A m \in Tids : (m # k \/ obj[o].m_running # 1) => th'[m] = th[m]
        /\ \A m \in Tids : th'[m].at = "inside" <=> th[m].at = "inside"
        /\ stale' \in BOOLEAN
    BY <1>2, <1>4, <1>5, DetachFacts
  <1>7. starts[o] = 1 /\ obj[o].m_running = 1 =>
          UNCHANGED stale /\ th'[k].detached /\ In(k, {"gone"})'
    <2> SUFFICES ASSUME starts[o] = 1, obj[o].m_running = 1
                 PROVE  UNCHANGED stale /\ th'[k].detached /\ In(k, {"gone"})'
      OBVIOUS
    <2>1. k = <<o, 1>> /\ k \in Tids
      BY <1>5
    <2>2. CASE obj[o].m_detached = 0
      <3>1. In(k, {"ended"})
        BY <1>3, <2>1, <2>2, RunningOnce
      <3>2. th[k].at # "gone"
        BY <3>1 DEF In, InRun
      <3>3. /\ UNCHANGED stale /\ th'[k].detached
            /\ th'[k].at = IF th[k].at = "ended" THEN "gone" ELSE th[k].at
        BY <1>2, <2>1, <2>2, <3>2, DetachFacts
      <3> QED
        BY <3>1, <3>3 DEF In, InRun
    <2>3. CASE obj[o].m_detached = 1
      <3>1. Once(o)
        BY DEF IInv, Members
      <3>2. In(k, {"gone"}) /\ th[k].detached
        BY <2>1, <2>3, <3>1 DEF Once
      <3> QED
        BY <1>2, <2>3, <3>2 DEF In
    <2> QED
      BY <1>4, <2>2, <2>3 DEF Object
  <1>8. TypeOK'
    BY <1>2, <1>6 DEF IInv, TypeOK, DestroyOf
  <1>9. Numbered'
    <2>1. \A m \in Tids : m[2] > starts[m[1]] => th'[m] = th[m]
      BY <1>5, <1>6
    <2> QED
      BY <1>2, <2>1 DEF IInv, Numbered, DestroyOf
  <1>10. Tokens'
    BY <1>2, <1>6, TokensKept DEF semaphore, Idle
  <1>11. Members'
    <2>1. ASSUME NEW p \in Objects, p # o, starts[p] = 1
          PROVE  Once(p)'
      <3>1. <<p, 1>> \in Tids /\ th'[<<p, 1>>] = th[<<p, 1>>]
        BY <1>5, <1>6, <2>1, TidFacts
      <3> QED
        BY <1>2, <2>1, <3>1, OthersKept DEF StartOf, DestroyOf, Idle
    <2>2. ASSUME starts[o] = 1
          PROVE  Once(o)'
      <3>1. CASE obj[o].m_running = 1
        BY <1>2, <1>5, <1>7, <2>2, <3>1 DEF Once, In, Ending, DestroyOf
      <3>2. CASE obj[o].m_running = 0
        <4>1. Once(o) /\ UNCHANGED <<th, obj>>
          BY <1>2, <2>2, <3>2 DEF IInv, Members
        <4> QED
          BY <1>2, <3>2, <4>1 DEF Once, Joined, DestroyOf, Idle
      <3> QED
        BY <1>4, <3>1, <3>2 DEF Object
    <2> QED
      BY <1>2, <2>1, <2>2 DEF IInv, Members
  <1>12. Proper'
    <2> SUFFICES ASSUME proper'
                 PROVE  Proper'
      BY DEF Proper
    <2>1. proper /\ \A m \in Started(o) : Joined(m)
      BY <1>2 DEF Misuse, IInv, TypeOK
    <2>2. obj[o].m_running = 0
      <3> SUFFICES ASSUME obj[o].m_running = 1
                   PROVE  FALSE
        BY <1>4 DEF Object
      <3>1. starts[o] = 1 /\ k = <<o, 1>> /\ k \in Tids
        BY <1>5, <2>1 DEF IInv, Proper, Numbered
      <3>2. Once(o)
        BY <3>1 DEF IInv, Members
      <3>3. th[k].at # "none" /\ ~Joined(k)
        BY <1>3, <3>1, <3>2 DEF Once, In, InRun, Joined
      <3>4. k \in Started(o)
        BY <3>1, <3>3 DEF Started
      <3> QED
        BY <2>1, <3>3, <3>4
    <2>3. UNCHANGED stale
      BY <1>2, <2>2
    <2> QED
      BY <1>2, <2>1, <2>2, <2>3 DEF IInv, Proper, Ending, DestroyOf, Idle
  <1> QED
    BY <1>8, <1>9, <1>10, <1>11, <1>12 DEF IInv

(* The end of the destructor.                                              *)
LEMMA DestroyReturnsKeeps == IInv /\ DestroyReturns => IInv'
  <1> SUFFICES ASSUME IInv, DestroyReturns
               PROVE  IInv'
    OBVIOUS
  <1>1. PICK o \in Objects : o = main.on
    BY DEF DestroyReturns, IInv, TypeOK
  <1>2. PICK k : k = obj[o].m_tid
    OBVIOUS
  <1>3. /\ main = DestroyOf(o) /\ main' = Idle /\ ~stale
        /\ obj' = [obj EXCEPT ![o].live = FALSE]
        /\ UNCHANGED <<sem, first, lost, starts, proper>>
        /\ \/ obj[o].m_running = 0 /\ UNCHANGED <<th, stale>>
           \/ obj[o].m_running = 1 /\ stale' = TRUE /\ UNCHANGED th
           \/ /\ obj[o].m_running = 1 /\ UNCHANGED stale
              /\ th' = [th EXCEPT ![k].cancelled = TRUE]
    BY <1>1, <1>2 DEF DestroyReturns, DestroyOf, semaphore, IInv, TypeOK
  <1>4. obj \in [Objects -> Object] /\ th \in [Tids -> Pthread]
    BY DEF IInv, TypeOK
  <1>5. /\ obj' \in [Objects -> Object]
        /\ obj'[o].m_tid = obj[o].m_tid /\ ~obj'[o].live
        /\ obj'[o].m_running = obj[o].m_running
        /\ obj'[o].m_detached = obj[o].m_detached
        /\ \A p \in Objects : p # o => obj'[p] = obj[p]
    BY <1>3, <1>4 DEF Object
  <1>6. obj[o].m_running = 1 =>
          k = <<o, starts[o]>> /\ k \in Tids /\ starts[o] \in Nat
    BY <1>2, TidFacts DEF IInv, Numbered
  <1>7. /\ th' \in [Tids -> Pthread]
        /\ \A m \in Tids : (m # k \/ obj[o].m_running # 1) => th'[m] = th[m]
        /\ \A m \in Tids : th'[m].at = th[m].at
        /\ \A m \in Tids : th'[m].detached = th[m].detached
    <2>1. CASE UNCHANGED th
      BY <1>4, <2>1
    <2>2. CASE /\ obj[o].m_running = 1
               /\ th' = [th EXCEPT ![k].cancelled = TRUE]
      <3>1. k \in Tids /\ th[k] \in Pthread
        BY <1>4, <1>6, <2>2
      <3>2. /\ th'[k] = [th[k] EXCEPT !.cancelled = TRUE]
            /\ \A m \in Tids : m # k => th'[m] = th[m]
        BY <1>4, <2>2, <3>1
      <3>3. /\ th'[k] \in Pthread /\ th'[k].at = th[k].at
            /\ th'[k].detached = th[k].detached
        BY <3>1, <3>2 DEF Pthread
      <3>4. th' \in [Tids -> Pthread]
        BY <1>4, <2>2, <3>1, <3>2, <3>3
      <3> QED
        BY <2>2, <3>2, <3>3, <3>4
    <2> QED
      BY <1>3, <2>1, <2>2
  <1>8. TypeOK'
    BY <1>3, <1>5, <1>7 DEF IInv, TypeOK, Idle
  <1>9. Numbered'
    <2>1. \A m \in Tids : m[2] > starts[m[1]] => th'[m] = th[m]
      BY <1>6, <1>7
    <2>2. \A p \in Objects : /\ obj'[p].m_tid = obj[p].m_tid
                              /\ obj'[p].m_running = obj[p].m_running
      BY <1>5
    <2> QED
      BY <1>3, <2>1, <2>2 DEF IInv, Numbered, Idle
  <1>10. Tokens'
    <2>1. \A m \in Tids : th'[m].at = "inside" <=> th[m].at = "inside"
      BY <1>7
    <2>2. UNCHANGED semaphore /\ main.op \notin {"open", "aborted"}
      BY <1>3 DEF semaphore, DestroyOf
    <2> QED
      BY <2>1, <2>2, TokensKept
  <1>11. Members'
    <2>1. ASSUME NEW p \in Objects, p # o, starts[p] = 1
          PROVE  Once(p)'
      <3>1. <<p, 1>> \in Tids /\ th'[<<p, 1>>] = th[<<p, 1>>]
        BY <1>6, <1>7, <2>1, TidFacts
      <3> QED
        BY <1>3, <1>5, <2>1, <3>1, OthersKept DEF StartOf, DestroyOf, Idle
    <2>2. ASSUME starts[o] = 1
          PROVE  Once(o)'
      <3>1. Once(o)
        BY <2>2 DEF IInv, Members
      <3>2. <<o, 1>> \in Tids
        BY <2>2, TidFacts
      <3>3. /\ th'[<<o, 1>>].at = th[<<o, 1>>].at
            /\ th'[<<o, 1>>].detached = th[<<o, 1>>].detached
        BY <1>7, <3>2
      <3>4. CASE obj[o].m_running = 0
        BY <1>3, <1>5, <3>1, <3>3, <3>4 DEF Once, Joined, DestroyOf, Idle
      <3>5. CASE obj[o].m_running # 0
        <4>1. In(<<o, 1>>, {"gone"}) /\ th[<<o, 1>>].detached
          BY <1>3, <3>1, <3>5 DEF Once, Ending, DestroyOf
        <4>2. In(<<o, 1>>, {"gone"})' /\ th'[<<o, 1>>].detached
          BY <3>3, <4>1 DEF In
        <4>3. Ending(o)'
          BY <1>5 DEF Ending
        <4> QED
          BY <1>5, <3>5, <4>2, <4>3 DEF Once
      <3> QED
        BY <3>4, <3>5
    <2> QED
      BY <1>3, <1>5, <2>1, <2>2 DEF IInv, Members
  <1>12. Proper'
    <2> SUFFICES ASSUME proper'
                 PROVE  Proper'
      BY DEF Proper
    <2>1. proper /\ obj[o].m_running = 0
      BY <1>3 DEF IInv, Proper, Ending, DestroyOf
    <2> QED
      BY <1>3, <1>5, <2>1 DEF IInv, Proper, Ending, DestroyOf, Idle
  <1> QED
    BY <1>8, <1>9, <1>10, <1>11, <1>12 DEF IInv

(* Every step keeps the invariant.                                         *)
LEMMA StepIInv == IInv /\ [Next]_vars => IInv'
  <1> SUFFICES ASSUME IInv, [Next]_vars
               PROVE  IInv'
    OBVIOUS
  <1>1. CASE UNCHANGED vars
    BY <1>1 DEF vars, semaphore, IInv, TypeOK, Numbered, Tokens,
       TokensConserved, Holders, Members, Once, In, Joined, Ending, Proper
  <1>2. CASE Next
    BY <1>2, CrashKeeps, OpenSemKeeps, StartKeeps, StartReturnsKeeps, JoinKeeps,
       JoinReturnsKeeps, DetachKeeps, DestroyKeeps, DestroyReturnsKeeps,
       RunKeeps DEF Next, Main
  <1> QED
    BY <1>1, <1>2

(* The invariant holds in every state of every process.                    *)
THEOREM Invariance == Spec => []IInv
  BY InitIInv, StepIInv, PTL DEF Spec

(* The semaphore's tokens are conserved over every constructor, failing or *)
(* reopening, every wait(), interrupted or not, post(), cancellation and   *)
(* destruction; only a crash takes those its threads had.                  *)
THEOREM TokensAreConserved == Spec => []TokensConserved
  <1>1. IInv => TokensConserved
    BY DEF IInv, Tokens
  <1> QED
    BY <1>1, Invariance, PTL

(* Objects used as their class provides for never hand pthreads the id of  *)
(* a thread that is gone, nor are destroyed under a running thread.        *)
THEOREM ProperUse == Spec => []ProperUseIsSafe
  <1>1. IInv => ProperUseIsSafe
    <2> SUFFICES ASSUME IInv, proper
                 PROVE  /\ ~stale
                        /\ \A k \in Tids : th[k].at \in InRun => obj[k[1]].live
      BY DEF ProperUseIsSafe
    <2>1. ~stale
      BY DEF IInv, Proper
    <2>2. ASSUME NEW k \in Tids, th[k].at \in InRun, ~obj[k[1]].live
          PROVE  FALSE
      <3>1. PICK o \in Objects : o = k[1]
        BY DEF Tids
      <3>2. k = <<k[1], k[2]>> /\ k[2] \in Nat /\ k[2] >= 1
        BY WorkersAssumption DEF Tids
      <3>3. th[k] # NoThread
        BY <2>2 DEF NoThread, InRun
      <3>4. ~(k[2] > starts[o]) /\ starts[o] <= 1 /\ starts[o] \in Nat
        BY <3>1, <3>3, WorkersAssumption DEF IInv, Numbered, Proper, TypeOK
      <3>5. starts[o] = 1 /\ k = <<o, 1>>
        BY <3>1, <3>2, <3>4
      <3>6. Once(o) /\ Ending(o) /\ obj[o].m_running = 0
        BY <2>2, <3>1, <3>5 DEF IInv, Members, Proper, Ending
      <3>7. main # [op |-> "start", on |-> o]
        BY <2>2, <3>1 DEF IInv, Numbered
      <3>8. Joined(k)
        BY <3>5, <3>6, <3>7 DEF Once
      <3> QED
        BY <2>2, <3>8 DEF Joined, InRun
    <2> QED
      BY <2>1, <2>2
  <1> QED
    BY <1>1, Invariance, PTL

(* However it is used, an object started once leaves no pthread behind     *)
(* that is neither joined nor detached.                                    *)
THEOREM NoneIsLeft == Spec => []NoneLeft
  <1>1. IInv => NoneLeft
    <2> SUFFICES ASSUME IInv, NEW o \in Objects, ~obj[o].live, starts[o] = 1,
                        NEW k \in Started(o)
                 PROVE  th[k].at = "gone" \/ th[k].detached
      BY DEF NoneLeft
    <2>1. k \in Tids /\ k[1] = o /\ th[k].at # "none"
      BY DEF Started
    <2>2. k = <<k[1], k[2]>> /\ k[2] \in Nat /\ k[2] >= 1
      BY <2>1, WorkersAssumption DEF Tids
    <2>3. th[k] # NoThread
      BY <2>1 DEF NoThread
    <2>4. ~(k[2] > 1)
      BY <2>1, <2>3 DEF IInv, Numbered
    <2>5. k = <<o, 1>>
      BY <2>1, <2>2, <2>4
    <2>6. Once(o) /\ Ending(o) /\ main # [op |-> "start", on |-> o]
      BY DEF IInv, Members, Numbered, Ending
    <2> QED
      BY <2>5, <2>6 DEF Once, Joined
  <1> QED
    BY <1>1, Invariance, PTL
=============================================================================
