------------------------------ MODULE Workers ------------------------------
(***************************************************************************)
(* The class Thread of app/Thread.cpp with threads whose run() shares a    *)
(* PosixSemaphore of app/Lock.cpp, in a process that may be killed and     *)
(* started again.                                                          *)
(*                                                                         *)
(* One thread, main, calls the methods of the Thread objects.  run() is    *)
(* pure virtual and not part of the repository; here it takes the          *)
(* semaphore and gives it back any number of times, then returns (Finite   *)
(* objects) or blocks at a cancellation point (the others).                *)
(*                                                                         *)
(* External: pthreads, where a pthread is released by a join after its     *)
(* end, or at its end if detached, and a cancellation takes effect in      *)
(* sem_wait(); and named semaphores, which outlive the process.            *)
(***************************************************************************)
EXTENDS Integers, FiniteSets

CONSTANTS
  Objects,     \* the Thread objects
  Finite,      \* those whose run() returns
  IValues,     \* values a process may give the semaphore's constructor
  MaxStarts,   \* bound on the calls of start() on an object
  MaxCrashes,  \* bound on the crashes
  NULL

ASSUME WorkersAssumption ==
  /\ Finite \subseteq Objects /\ IValues \subseteq Nat
  /\ {MaxStarts, MaxCrashes} \subseteq Nat
  /\ NULL \notin Nat

(* A pthread_t: the object it runs and the number of its start().          *)
Tids == Objects \X (1..MaxStarts)

VARIABLES
  sem,       \* the value of the named semaphore, NULL before it exists
  first,     \* what it was created with
  lost,      \* tokens held by threads of a process that was killed
  crashes,   \* how often it was
  obj,       \* the objects: [live, m_tid, m_running, m_detached]
  th,        \* the pthreads: [at, detached, cancelled]
  main,      \* what main is in: [op, on]
  starts,    \* how often start() was called on each object
  proper,    \* FALSE once main has misused an object, see Misuse
  stale      \* TRUE once a pthread function got an id no longer valid

semaphore == <<sem, first, lost>>
vars == <<semaphore, crashes, obj, th, main, starts, proper, stale>>

NewObject == [live |-> TRUE, m_tid |-> NULL, m_running |-> 0, m_detached |-> 0]
NoThread  == [at |-> "none", detached |-> FALSE, cancelled |-> FALSE]
Idle      == [op |-> "idle", on |-> NULL]

InRun == {"wait", "inside", "outside", "blocked"}
Holders == {k \in Tids : th[k].at = "inside"}

FreshProcess ==
  /\ obj' = [o \in Objects |-> NewObject]
  /\ th' = [k \in Tids |-> NoThread]
  /\ main' = [op |-> "open", on |-> NULL]
  /\ starts' = [o \in Objects |-> 0]
  /\ proper' = TRUE

Init ==
  /\ sem = NULL /\ first = 0 /\ lost = 0 /\ crashes = 0
  /\ obj = [o \in Objects |-> NewObject]
  /\ th = [k \in Tids |-> NoThread]
  /\ main = [op |-> "open", on |-> NULL]
  /\ starts = [o \in Objects |-> 0]
  /\ proper = TRUE /\ stale = FALSE
----------------------------------------------------------------------------
(* mode = O_RDWR, which sem_open() takes for permission bits.              *)
Mode == 2

(* Mutant of OpenSem: mode and iValue in each other's place.               *)
OpenSemSwapped ==
  /\ main.op = "open"
  /\ \/ /\ IF sem = NULL
             THEN \E iValue \in IValues : sem' = Mode /\ first' = iValue
             ELSE UNCHANGED <<sem, first>>
        /\ main' = Idle
     \/ /\ main' = [op |-> "aborted", on |-> NULL]
        /\ UNCHANGED <<sem, first>>
  /\ UNCHANGED <<lost, crashes, obj, th, starts, proper, stale>>

(***************************************************************************)
(* PosixSemaphore(iValue, pName): sem_open() with O_CREAT makes the        *)
(* semaphore with iValue, or ignores iValue if it exists.  It may fail,    *)
(* and on one that exists it does for every user but root, since Mode lets *)
(* nobody both read and write; then assert() ends the process.             *)
(***************************************************************************)
OpenSem ==
  /\ main.op = "open"
  /\ \/ /\ IF sem = NULL
             THEN \E iValue \in IValues : sem' = iValue /\ first' = iValue
             ELSE UNCHANGED <<sem, first>>
        /\ main' = Idle
     \/ /\ main' = [op |-> "aborted", on |-> NULL]
        /\ UNCHANGED <<sem, first>>
  /\ UNCHANGED <<lost, crashes, obj, th, starts, proper, stale>>

(* The process is killed, or has aborted, and is started again.  The       *)
(* semaphore stays, and what its threads held is not given back.           *)
Crash ==
  /\ crashes < MaxCrashes /\ ~stale
  /\ crashes' = crashes + 1
  /\ lost' = lost + Cardinality(Holders)
  /\ FreshProcess
  /\ UNCHANGED <<sem, first, stale>>
----------------------------------------------------------------------------
(* The thread is over; a detached one is released.                         *)
Over(t) == IF t.detached THEN "gone" ELSE "ended"

(* PosixSemaphore::wait(): ends the thread if it was cancelled, or takes a *)
(* token when there is one, and returns 0.                                 *)
Wait(k) ==
  /\ th[k].at = "wait"
  /\ IF th[k].cancelled
       THEN /\ th' = [th EXCEPT ![k].at = Over(th[k])]
            /\ UNCHANGED sem
       ELSE /\ sem > 0
            /\ sem' = sem - 1
            /\ th' = [th EXCEPT ![k].at = "inside"]
  /\ UNCHANGED <<first, lost, crashes, obj, main, starts, proper, stale>>

(* It returns -1, without a token, when a signal handler interrupts it.    *)
WaitInterrupted(k) ==
  /\ th[k].at = "wait" /\ ~th[k].cancelled
  /\ th' = [th EXCEPT ![k].at = "outside"]
  /\ UNCHANGED <<semaphore, crashes, obj, main, starts, proper, stale>>

(* PosixSemaphore::post()                                                  *)
Post(k) ==
  /\ th[k].at = "inside"
  /\ th' = [th EXCEPT ![k].at = "outside"]
  /\ sem' = sem + 1
  /\ UNCHANGED <<first, lost, crashes, obj, main, starts, proper, stale>>

(* run() after a round: it returns or blocks, or goes for another.         *)
AfterRound(k) ==
  /\ th[k].at = "outside"
  /\ \E to \in {"wait", IF k[1] \in Finite THEN Over(th[k]) ELSE "blocked"} :
       th' = [th EXCEPT ![k].at = to]
  /\ UNCHANGED <<semaphore, crashes, obj, main, starts, proper, stale>>

(* A thread blocked elsewhere ends when it is cancelled.                   *)
Cancelled(k) ==
  /\ th[k].at = "blocked" /\ th[k].cancelled
  /\ th' = [th EXCEPT ![k].at = Over(th[k])]
  /\ UNCHANGED <<semaphore, crashes, obj, main, starts, proper, stale>>
----------------------------------------------------------------------------
(***************************************************************************)
(* Uses of an object its class does not provide for: to start it again, to *)
(* join a detached thread, to destroy it before its thread was joined.     *)
(***************************************************************************)
Joined(k) == th[k].at = "gone" /\ ~th[k].detached
Started(o) == {k \in Tids : k[1] = o /\ th[k].at # "none"}
Misuse(op, o) ==
  \/ op = "start" /\ starts[o] > 0
  \/ op = "join" /\ th[obj[o].m_tid].detached
  \/ op = "destroy" /\ \E k \in Started(o) : ~Joined(k)

Calls(op, o) ==
  /\ main = Idle /\ ~stale /\ obj[o].live
  /\ proper' = (proper /\ ~Misuse(op, o))

(* Thread::start(): pthread_create(), or nothing if that fails ...         *)
Start(o) ==
  /\ Calls("start", o) /\ starts[o] < MaxStarts
  /\ LET k == <<o, starts[o] + 1>>
     IN  /\ obj' = [obj EXCEPT ![o].m_tid = k]
         /\ th' = [th EXCEPT ![k].at = "wait"]
  /\ starts' = [starts EXCEPT ![o] = @ + 1]
  /\ main' = [op |-> "start", on |-> o]
  /\ UNCHANGED <<semaphore, crashes, stale>>

(* ... and, while the thread may already be running, m_running = 1.        *)
StartReturns ==
  /\ main.op = "start"
  /\ obj' = [obj EXCEPT ![main.on].m_running = 1]
  /\ main' = Idle
  /\ UNCHANGED <<semaphore, crashes, th, starts, proper, stale>>

(* Thread::join() calls pthread_join() if m_running is set ...             *)
Join(o) ==
  /\ obj[o].m_running = 1 /\ Calls("join", o)
  /\ main' = [op |-> "join", on |-> o]
  /\ UNCHANGED <<semaphore, crashes, obj, th, starts, stale>>

(* Mutant of Joins: m_running stays set.                                   *)
JoinsRunning(o) == [obj EXCEPT ![o].m_detached = 1]

(* What join() notes when pthread_join() returns 0.                        *)
Joins(o) == [obj EXCEPT ![o].m_detached = 1, ![o].m_running = 0]

(* ... which waits for the end of the thread and releases it, or fails for *)
(* a detached one.                                                         *)
JoinReturns ==
  /\ main.op = "join"
  /\ LET k == obj[main.on].m_tid
     IN  \/ /\ th[k].at = "gone"
            /\ stale' = TRUE
            /\ UNCHANGED <<obj, th>>
         \/ /\ th[k].at # "gone" /\ th[k].detached
            /\ UNCHANGED <<obj, th, stale>>
         \/ /\ th[k].at = "ended"
            /\ th' = [th EXCEPT ![k].at = "gone"]
            /\ obj' = Joins(main.on)
            /\ UNCHANGED stale
  /\ main' = Idle
  /\ UNCHANGED <<semaphore, crashes, starts, proper>>

(* pthread_detach(m_tid)                                                   *)
PthreadDetach(k) ==
  IF th[k].at = "gone"
    THEN stale' = TRUE /\ UNCHANGED th
    ELSE /\ th' = [th EXCEPT ![k].detached = TRUE,
                             ![k].at = IF @ = "ended" THEN "gone" ELSE @]
         /\ UNCHANGED stale

(* Thread::detach()                                                        *)
Detach(o) ==
  /\ obj[o].m_running = 1 /\ obj[o].m_detached = 0 /\ Calls("detach", o)
  /\ PthreadDetach(obj[o].m_tid)
  /\ obj' = [obj EXCEPT ![o].m_detached = 1]
  /\ UNCHANGED <<semaphore, crashes, main, starts>>

(* Mutant of Destroy: a thread that runs is only cancelled.                *)
DestroyNotDetaching(o) ==
  /\ Calls("destroy", o)
  /\ main' = [op |-> "destroy", on |-> o]
  /\ UNCHANGED <<semaphore, crashes, obj, th, starts, stale>>

(* Thread::~Thread() detaches a thread that runs ...                       *)
Destroy(o) ==
  /\ Calls("destroy", o)
  /\ IF obj[o].m_running = 1 /\ obj[o].m_detached = 0
       THEN PthreadDetach(obj[o].m_tid)
       ELSE UNCHANGED <<th, stale>>
  /\ main' = [op |-> "destroy", on |-> o]
  /\ UNCHANGED <<semaphore, crashes, obj, starts>>

(* Mutant of DestroyReturns: the thread is left to itself.                 *)
DestroyReturnsNoCancel ==
  /\ main.op = "destroy" /\ ~stale
  /\ obj' = [obj EXCEPT ![main.on].live = FALSE]
  /\ main' = Idle
  /\ UNCHANGED <<semaphore, crashes, th, starts, proper, stale>>

(* ... and then cancels it, ended or not.                                  *)
DestroyReturns ==
  /\ main.op = "destroy" /\ ~stale
  /\ LET k == obj[main.on].m_tid
     IN  \/ /\ obj[main.on].m_running = 0
            /\ UNCHANGED <<th, stale>>
         \/ /\ obj[main.on].m_running = 1 /\ th[k].at = "gone"
            /\ stale' = TRUE
            /\ UNCHANGED th
         \/ /\ obj[main.on].m_running = 1 /\ th[k].at # "gone"
            /\ th' = [th EXCEPT ![k].cancelled = TRUE]
            /\ UNCHANGED stale
  /\ obj' = [obj EXCEPT ![main.on].live = FALSE]
  /\ main' = Idle
  /\ UNCHANGED <<semaphore, crashes, starts, proper>>

Run(k) == ~stale /\ (Wait(k) \/ Post(k) \/ AfterRound(k) \/ Cancelled(k))

Main ==
  \/ OpenSem \/ StartReturns \/ JoinReturns \/ DestroyReturns
  \/ \E o \in Objects : Start(o) \/ Join(o) \/ Detach(o) \/ Destroy(o)

Next ==
  \/ Crash \/ Main
  \/ \E k \in Tids : Run(k) \/ (~stale /\ WaitInterrupted(k))

Spec == Init /\ [][Next]_vars

(* Every thread that is not blocked runs; main returns from what it calls. *)
FairSpec ==
  /\ Spec
  /\ WF_vars(OpenSem \/ StartReturns \/ JoinReturns \/ DestroyReturns)
  /\ \A k \in Tids : WF_vars(Run(k))
----------------------------------------------------------------------------
(***************************************************************************)
(* Objects that are started once, joined or detached and not both, and     *)
(* destroyed after a join are safe: join(), detach() and the destructor    *)
(* never hand pthreads the id of a thread that is gone, although           *)
(* m_running says nothing about whether run() has returned; and no thread  *)
(* is in the run() of a destroyed object.                                  *)
(***************************************************************************)
ProperUseIsSafe ==
  proper => /\ ~stale
            /\ \A k \in Tids : th[k].at \in InRun => obj[k[1]].live

(* However it is used, an object that was started once leaves no pthread   *)
(* behind when it is destroyed that nobody can join any more: it was       *)
(* joined, or is detached and goes when it ends.                           *)
NoneLeft ==
  \A o \in Objects :
    ~obj[o].live /\ starts[o] = 1 =>
      \A k \in Started(o) : th[k].at = "gone" \/ th[k].detached

(***************************************************************************)
(* Tokens are neither made nor lost by cancelling threads, by a wait()     *)
(* that is interrupted, by a constructor that finds the semaphore there or *)
(* fails, or by destroying objects; only a crash takes those its threads   *)
(* held.  So there are never more threads between wait() and post() than   *)
(* the process that made the semaphore asked for.                          *)
(***************************************************************************)
TokensConserved == sem # NULL => sem + Cardinality(Holders) + lost = first

(***************************************************************************)
(* The destructor ends the thread of an object that was started once,      *)
(* whatever the thread was at and whether it was joined, detached or       *)
(* neither: it detaches and cancels it, so that the pthread is released.   *)
(* run() needs to come to a cancellation point for that, and the ids the   *)
(* destructor uses must be valid (~stale).                                 *)
(***************************************************************************)
DestroyedThreadsGo ==
  \A o \in Objects :
    ~obj[o].live /\ starts[o] = 1
      ~> stale \/ obj[o].live \/ \A k \in Started(o) : th[k].at = "gone"
============================================================================
