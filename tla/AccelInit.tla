------------------------------ MODULE AccelInit ------------------------------
(***************************************************************************)
(* Initialisation and shutdown of the NNPA accelerator by concurrent calls  *)
(* of compiled models (src/Accelerators/NNPA/Runtime/OMRuntimeNNPA.c).      *)
(* OMIsInitAccelNNPA is read outside the mutex, so every access to it is a   *)
(* step of its own; what only the holder of the mutex touches is merged with *)
(* the step before it.  Z memory is strongly consistent.                    *)
(***************************************************************************)
EXTENDS Naturals

CONSTANTS
  Threads,    \* threads calling models
  Versions,   \* zDNN versions the models were compiled for
  Runnable,   \* external: zdnn_is_version_runnable
  MaxCalls,   \* bound on the calls a thread makes
  NoThread, NoVersion

ASSUME ThreadsAssumption == NoThread \notin Threads
ASSUME VersionsAssumption == NoVersion \notin Versions
ASSUME MaxCallsAssumption == MaxCalls \in Nat

VARIABLES
  OMIsInitAccelNNPA,
  mutex,         \* holder of OMMutexForInitShutdownNNPA, or NoThread
  isCompatible,  \* the static of OMInitCompatibleAccelNNPA
  pc,
  fn,            \* the function a thread is in, or "none"
  ver,           \* its versionNum argument, or NoVersion
  calls,         \* calls made so far, by thread
  inits,         \* history: runs of zdnn_init since start-up or shutdown
  seen           \* history: versions of the models called so far

vars == <<OMIsInitAccelNNPA, mutex, isCompatible, pc, fn, ver, calls, inits, seen>>
callVars == <<fn, ver, calls, seen>>

Functions == {"none", "OMInitAccelNNPA", "OMInitCompatibleAccelNNPA", "OMShutdownAccelNNPA"}
PCs == {"idle", "test", "lock", "retest", "zdnn_init", "publish", "unlock",
        "compatible", "relock", "recheck", "reunlock", "verdict",
        "using", "refused",
        "testDown", "lockDown", "clear", "unlockDown"}

TypeOK ==
  /\ OMIsInitAccelNNPA \in BOOLEAN
  /\ mutex \in Threads \cup {NoThread}
  /\ isCompatible \in BOOLEAN
  /\ pc \in [Threads -> PCs]
  /\ fn \in [Threads -> Functions]
  /\ ver \in [Threads -> Versions \cup {NoVersion}]
  /\ calls \in [Threads -> 0..MaxCalls]
  /\ inits \in Nat
  /\ seen \subseteq Versions

Init ==
  /\ OMIsInitAccelNNPA = FALSE
  /\ mutex = NoThread
  /\ isCompatible = FALSE
  /\ pc = [t \in Threads |-> "idle"]
  /\ fn = [t \in Threads |-> "none"]
  /\ ver = [t \in Threads |-> NoVersion]
  /\ calls = [t \in Threads |-> 0]
  /\ inits = 0
  /\ seen = {}

Goto(t, l) == pc' = [pc EXCEPT ![t] = l]
Lock(t) == mutex = NoThread /\ mutex' = t
Unlock == mutex' = NoThread

Leave(t) ==
  /\ fn' = [fn EXCEPT ![t] = "none"]
  /\ ver' = [ver EXCEPT ![t] = NoVersion]
  /\ Goto(t, "idle")

ShuttingDown(t) == fn[t] = "OMShutdownAccelNNPA"

-----------------------------------------------------------------------------
(* A model is called: run_main_graph initialises the accelerator first.      *)
(* Nobody calls a model while the accelerator is being shut down, nor the    *)
(* reverse: the restriction OMShutdownAccelNNPA states for its callers.      *)
CallModel(t, f, v) ==
  /\ pc[t] = "idle"
  /\ calls[t] < MaxCalls
  /\ \A u \in Threads : ~ShuttingDown(u)
  /\ fn' = [fn EXCEPT ![t] = f]
  /\ ver' = [ver EXCEPT ![t] = v]
  /\ calls' = [calls EXCEPT ![t] = calls[t] + 1]
  /\ seen' = IF f = "OMInitCompatibleAccelNNPA" THEN seen \cup {v} ELSE seen
  /\ Goto(t, "test")
  /\ UNCHANGED <<OMIsInitAccelNNPA, mutex, isCompatible, inits>>

CallShutdown(t) ==
  /\ pc[t] = "idle"
  /\ calls[t] < MaxCalls
  /\ \A u \in Threads : pc[u] = "idle" \/ ShuttingDown(u)
  /\ fn' = [fn EXCEPT ![t] = "OMShutdownAccelNNPA"]
  /\ calls' = [calls EXCEPT ![t] = calls[t] + 1]
  /\ Goto(t, "testDown")
  /\ UNCHANGED <<OMIsInitAccelNNPA, mutex, isCompatible, ver, inits, seen>>

(* Where both init functions go on once the device is initialised.           *)
Initialised(t) ==
  IF fn[t] = "OMInitCompatibleAccelNNPA" THEN "compatible" ELSE "using"

Test(t) ==
  /\ pc[t] = "test"
  /\ Goto(t, IF OMIsInitAccelNNPA THEN Initialised(t) ELSE "lock")
  /\ UNCHANGED <<OMIsInitAccelNNPA, mutex, isCompatible, callVars, inits>>

LockMutex(t) ==
  /\ pc[t] = "lock"
  /\ Lock(t)
  /\ Goto(t, "retest")
  /\ UNCHANGED <<OMIsInitAccelNNPA, isCompatible, callVars, inits>>

(* Slip: no second test under the mutex.                                     *)
RetestMissing(t) ==
  /\ pc[t] = "retest"
  /\ Goto(t, "zdnn_init")
  /\ UNCHANGED <<OMIsInitAccelNNPA, mutex, isCompatible, callVars, inits>>

(* The second test; OMInitCompatibleAccelNNPA stores the flag either way.    *)
Retest(t) ==
  /\ pc[t] = "retest"
  /\ Goto(t, IF ~OMIsInitAccelNNPA THEN "zdnn_init"
             ELSE IF fn[t] = "OMInitCompatibleAccelNNPA" THEN "publish"
             ELSE "unlock")
  /\ UNCHANGED <<OMIsInitAccelNNPA, mutex, isCompatible, callVars, inits>>

(* Slip: the compatible verdict is stored without asking zdnn.               *)
ZdnnInitUnchecked(t) ==
  /\ pc[t] = "zdnn_init"
  /\ inits' = inits + 1
  /\ isCompatible' = TRUE
  /\ Goto(t, "publish")
  /\ UNCHANGED <<OMIsInitAccelNNPA, mutex, callVars>>

(* zdnn_init and zDNNExtensionInit return; the version is checked.           *)
ZdnnInit(t) ==
  /\ pc[t] = "zdnn_init"
  /\ inits' = inits + 1
  /\ isCompatible' = (isCompatible \/ (/\ fn[t] = "OMInitCompatibleAccelNNPA"
                                       /\ ver[t] \in Runnable))
  /\ Goto(t, "publish")
  /\ UNCHANGED <<OMIsInitAccelNNPA, mutex, callVars>>

Publish(t) ==
  /\ pc[t] = "publish"
  /\ OMIsInitAccelNNPA' = TRUE
  /\ Goto(t, "unlock")
  /\ UNCHANGED <<mutex, isCompatible, callVars, inits>>

(* Slip: the mutex is not released on this path.                             *)
UnlockMutexMissing(t) ==
  /\ pc[t] = "unlock"
  /\ Goto(t, Initialised(t))
  /\ UNCHANGED <<OMIsInitAccelNNPA, mutex, isCompatible, callVars, inits>>

UnlockMutex(t) ==
  /\ pc[t] = "unlock"
  /\ Unlock
  /\ Goto(t, Initialised(t))
  /\ UNCHANGED <<OMIsInitAccelNNPA, isCompatible, callVars, inits>>

(* The unlocked read of isCompatible.                                        *)
Compatible(t) ==
  /\ pc[t] = "compatible"
  /\ Goto(t, IF isCompatible THEN "using" ELSE "relock")
  /\ UNCHANGED <<OMIsInitAccelNNPA, mutex, isCompatible, callVars, inits>>

Relock(t) ==
  /\ pc[t] = "relock"
  /\ Lock(t)
  /\ Goto(t, "recheck")
  /\ UNCHANGED <<OMIsInitAccelNNPA, isCompatible, callVars, inits>>

(* Slip: the version is only checked by the call that initialises.           *)
RecheckMissing(t) ==
  /\ pc[t] = "recheck"
  /\ Goto(t, "reunlock")
  /\ UNCHANGED <<OMIsInitAccelNNPA, mutex, isCompatible, callVars, inits>>

Recheck(t) ==
  /\ pc[t] = "recheck"
  /\ isCompatible' = (isCompatible \/ ver[t] \in Runnable)
  /\ Goto(t, "reunlock")
  /\ UNCHANGED <<OMIsInitAccelNNPA, mutex, callVars, inits>>

Reunlock(t) ==
  /\ pc[t] = "reunlock"
  /\ Unlock
  /\ Goto(t, "verdict")
  /\ UNCHANGED <<OMIsInitAccelNNPA, isCompatible, callVars, inits>>

(* The second unlocked read: true, or errno = EPERM and false, upon which    *)
(* the entry point of the model returns NULL.                                *)
Verdict(t) ==
  /\ pc[t] = "verdict"
  /\ Goto(t, IF isCompatible THEN "using" ELSE "refused")
  /\ UNCHANGED <<OMIsInitAccelNNPA, mutex, isCompatible, callVars, inits>>

ModelReturns(t) ==
  /\ pc[t] \in {"using", "refused"}
  /\ Leave(t)
  /\ UNCHANGED <<OMIsInitAccelNNPA, mutex, isCompatible, calls, seen, inits>>

-----------------------------------------------------------------------------
TestDown(t) ==
  /\ pc[t] = "testDown"
  /\ IF OMIsInitAccelNNPA
     THEN Goto(t, "lockDown") /\ UNCHANGED <<fn, ver>>
     ELSE Leave(t)
  /\ UNCHANGED <<OMIsInitAccelNNPA, mutex, isCompatible, calls, seen, inits>>

LockDown(t) ==
  /\ pc[t] = "lockDown"
  /\ Lock(t)
  /\ Goto(t, "clear")
  /\ UNCHANGED <<OMIsInitAccelNNPA, isCompatible, callVars, inits>>

(* Slip: the flag keeps its value.                                           *)
ClearMissing(t) ==
  /\ pc[t] = "clear"
  /\ inits' = 0
  /\ Goto(t, "unlockDown")
  /\ UNCHANGED <<OMIsInitAccelNNPA, mutex, isCompatible, callVars>>

Clear(t) ==
  /\ pc[t] = "clear"
  /\ OMIsInitAccelNNPA' = FALSE
  /\ inits' = 0
  /\ Goto(t, "unlockDown")
  /\ UNCHANGED <<mutex, isCompatible, callVars>>

UnlockDown(t) ==
  /\ pc[t] = "unlockDown"
  /\ Unlock
  /\ Leave(t)
  /\ UNCHANGED <<OMIsInitAccelNNPA, isCompatible, calls, seen, inits>>

-----------------------------------------------------------------------------
Call(t) ==
  \/ \E f \in {"OMInitAccelNNPA", "OMInitCompatibleAccelNNPA"}, v \in Versions :
       CallModel(t, f, v)
  \/ CallShutdown(t)

Step(t) ==
  \/ Test(t) \/ LockMutex(t) \/ Retest(t) \/ ZdnnInit(t) \/ Publish(t)
  \/ UnlockMutex(t)
  \/ Compatible(t) \/ Relock(t) \/ Recheck(t) \/ Reunlock(t) \/ Verdict(t)
  \/ ModelReturns(t)
  \/ TestDown(t) \/ LockDown(t) \/ Clear(t) \/ UnlockDown(t)

Next == \E t \in Threads : Call(t) \/ Step(t)

Spec == Init /\ [][Next]_vars

(* A thread inside a call is scheduled.  With the calls of every thread      *)
(* bounded a free mutex is eventually granted to a waiter, which is all      *)
(* pthread_mutex_lock promises.                                              *)
FairSpec == Spec /\ \A t \in Threads : WF_vars(Step(t))

-----------------------------------------------------------------------------
InMutex(t) == pc[t] \in {"retest", "zdnn_init", "publish", "unlock", "recheck",
                         "reunlock", "clear", "unlockDown"}

(* "the initializing code is executed exactly once": never twice without a   *)
(* shutdown in between, whichever mix of init functions races.               *)
InitOnce == inits <= 1

(* The claim behind the unlocked test of OMIsInitAccelNNPA: a thread that    *)
(* uses the accelerator, or asks zdnn about a version, does so after a       *)
(* zdnn_init has returned and while no other thread is inside zdnn_init.     *)
UseAfterInit ==
  \A t \in Threads : pc[t] \in {"using", "refused", "recheck"} =>
    /\ inits = 1
    /\ \A u \in Threads : pc[u] # "zdnn_init"

(* A call whose version the device can run is never refused: the verdict is  *)
(* read outside the mutex, but nothing ever takes isCompatible back.         *)
RunnableNeverRefused ==
  \A t \in Threads : pc[t] = "refused" => ver[t] \notin Runnable

(* A checked call gets through only after some model with a runnable version *)
(* has been called: where all models are compiled for one version (the       *)
(* documented assumption) this makes the check exact.                        *)
AcceptedOnlyIfRunnableSeen ==
  \A t \in Threads :
    pc[t] = "using" /\ fn[t] = "OMInitCompatibleAccelNNPA" =>
      seen \cap Runnable # {}

(* No call hangs: every init, refusal and shutdown returns to its caller.    *)
CallsReturn == \A t \in Threads : (pc[t] # "idle") ~> (pc[t] = "idle")

-----------------------------------------------------------------------------
(* The inductive invariant: the mutex is held by the thread whose pc says    *)
(* so; the flag is the truth about inits but in the window between zdnn_init *)
(* and the store; whoever is past the test has seen it set.                  *)
MutexInv ==
  \A t \in Threads : InMutex(t) <=> mutex = t

FlagInv ==
  /\ OMIsInitAccelNNPA => inits = 1
  /\ ~OMIsInitAccelNNPA => inits = 0 \/ \E t \in Threads : pc[t] = "publish"
  /\ \A t \in Threads : pc[t] = "zdnn_init" => ~OMIsInitAccelNNPA
  /\ \A t \in Threads : pc[t] = "publish" => inits = 1
  /\ inits \in {0, 1}

PastInit == {"unlock", "compatible", "relock", "recheck", "reunlock", "verdict",
             "using", "refused"}
Down == {"testDown", "lockDown", "clear", "unlockDown"}

PcInv ==
  /\ \A t \in Threads : pc[t] \in PastInit => OMIsInitAccelNNPA
  /\ \A t \in Threads : pc[t] \in Down <=> ShuttingDown(t)
  /\ \A t, u \in Threads : pc[t] \in Down => pc[u] \in Down \cup {"idle"}
  /\ \A t \in Threads : pc[t] \in {"compatible", "relock", "recheck", "reunlock",
                                   "verdict", "refused"} =>
       fn[t] = "OMInitCompatibleAccelNNPA"

VerdictInv ==
  /\ \A t \in Threads : pc[t] \notin Down \cup {"idle"}
                        /\ fn[t] = "OMInitCompatibleAccelNNPA" => ver[t] \in seen
  /\ isCompatible => seen \cap Runnable # {}
  /\ \A t \in Threads : pc[t] \in {"reunlock", "verdict"} /\ ver[t] \in Runnable =>
       isCompatible
  /\ \A t \in Threads : pc[t] = "using" /\ fn[t] = "OMInitCompatibleAccelNNPA" =>
       isCompatible
  /\ RunnableNeverRefused

IInv == TypeOK /\ MutexInv /\ FlagInv /\ PcInv /\ VerdictInv
=============================================================================
