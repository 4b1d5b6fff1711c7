--------------------------- MODULE AccelInitProofs ---------------------------
(***************************************************************************)
(* Proofs about AccelInit for any number of threads, calls and versions.    *)
(***************************************************************************)
EXTENDS AccelInit, TLAPS

LEMMA InitInv == Init => IInv
<1>. SUFFICES ASSUME Init PROVE IInv
  OBVIOUS
<1>0. \A t \in Threads : pc[t] = "idle"
  BY DEF Init
<1>1. TypeOK
  <2>1. fn \in [Threads -> Functions]
    BY DEF Init, Functions
  <2>2. calls \in [Threads -> 0..MaxCalls]
    BY MaxCallsAssumption DEF Init
  <2>. QED BY <2>1, <2>2 DEF Init, TypeOK, PCs
<1>2. MutexInv
  BY <1>0, ThreadsAssumption DEF Init, MutexInv, InMutex
<1>3. FlagInv
  BY <1>0 DEF Init, FlagInv
<1>4. PcInv
  BY <1>0 DEF Init, PcInv, ShuttingDown, PastInit, Down
<1>5. VerdictInv
  BY <1>0 DEF Init, VerdictInv, RunnableNeverRefused
<1>. QED BY <1>1, <1>2, <1>3, <1>4, <1>5 DEF IInv

LEMMA CallModelKeeps ==
  ASSUME IInv, NEW t \in Threads, NEW v \in Versions, NEW f \in {"OMInitAccelNNPA", "OMInitCompatibleAccelNNPA"},
         CallModel(t, f, v)
  PROVE  IInv'
<1> USE DEF CallModel, Goto
<1>1. TypeOK'
  <2>1. calls' \in [Threads -> 0..MaxCalls]
    BY MaxCallsAssumption DEF IInv, TypeOK
  <2>2. fn' \in [Threads -> Functions] /\ ver' \in [Threads -> Versions \cup {NoVersion}]
    BY DEF IInv, TypeOK, Functions
  <2>. QED BY <2>1, <2>2 DEF IInv, TypeOK, PCs
<1>2. MutexInv'
  BY DEF IInv, TypeOK, MutexInv, InMutex
<1>3. FlagInv'
  BY DEF IInv, TypeOK, FlagInv
<1>4. PcInv'
  BY DEF IInv, TypeOK, PcInv, ShuttingDown, PastInit, Down
<1>5. VerdictInv'
  BY DEF IInv, TypeOK, VerdictInv, PcInv, RunnableNeverRefused
<1>. QED BY <1>1, <1>2, <1>3, <1>4, <1>5 DEF IInv

LEMMA CallShutdownKeeps == ASSUME IInv, NEW t \in Threads, CallShutdown(t) PROVE IInv'
<1> USE DEF CallShutdown, Goto
<1>1. TypeOK'
  <2>1. calls' \in [Threads -> 0..MaxCalls]
    BY MaxCallsAssumption DEF IInv, TypeOK
  <2>2. fn' \in [Threads -> Functions]
    BY DEF IInv, TypeOK, Functions
  <2>. QED BY <2>1, <2>2 DEF IInv, TypeOK, PCs
<1>2. MutexInv'
  BY DEF IInv, TypeOK, MutexInv, InMutex
<1>3. FlagInv'
  BY DEF IInv, TypeOK, FlagInv
<1>4. PcInv'
  BY DEF IInv, TypeOK, PcInv, ShuttingDown, PastInit, Down
<1>5. VerdictInv'
  BY DEF IInv, TypeOK, VerdictInv, PcInv, RunnableNeverRefused, Down
<1>. QED BY <1>1, <1>2, <1>3, <1>4, <1>5 DEF IInv

LEMMA TestKeeps == ASSUME IInv, NEW t \in Threads, Test(t) PROVE IInv'
<1> USE DEF Test, Goto, Lock, Unlock, callVars, Initialised
<1>1. TypeOK'
  BY DEF IInv, TypeOK, PCs
<1>2. MutexInv'
  BY ThreadsAssumption DEF IInv, TypeOK, MutexInv, InMutex
<1>3. FlagInv'
  BY DEF IInv, TypeOK, MutexInv, InMutex, FlagInv, PcInv, PastInit
<1>4. PcInv'
  BY DEF IInv, TypeOK, MutexInv, InMutex, PcInv, ShuttingDown, PastInit, Down, Functions
<1>5. VerdictInv'
  BY DEF IInv, TypeOK, VerdictInv, PcInv, RunnableNeverRefused, Down
<1>. QED BY <1>1, <1>2, <1>3, <1>4, <1>5 DEF IInv

LEMMA LockMutexKeeps == ASSUME IInv, NEW t \in Threads, LockMutex(t) PROVE IInv'
<1> USE DEF LockMutex, Goto, Lock, Unlock, callVars, Initialised
<1>1. TypeOK'
  BY DEF IInv, TypeOK, PCs
<1>2. MutexInv'
  BY ThreadsAssumption DEF IInv, TypeOK, MutexInv, InMutex
<1>3. FlagInv'
  BY DEF IInv, TypeOK, MutexInv, InMutex, FlagInv, PcInv, PastInit
<1>4. PcInv'
  BY DEF IInv, TypeOK, MutexInv, InMutex, PcInv, ShuttingDown, PastInit, Down, Functions
<1>5. VerdictInv'
  BY DEF IInv, TypeOK, VerdictInv, PcInv, RunnableNeverRefused, Down
<1>. QED BY <1>1, <1>2, <1>3, <1>4, <1>5 DEF IInv

LEMMA RetestKeeps == ASSUME IInv, NEW t \in Threads, Retest(t) PROVE IInv'
<1> USE DEF Retest, Goto, Lock, Unlock, callVars, Initialised
<1>1. TypeOK'
  BY DEF IInv, TypeOK, PCs
<1>2. MutexInv'
  BY ThreadsAssumption DEF IInv, TypeOK, MutexInv, InMutex
<1>3. FlagInv'
  BY DEF IInv, TypeOK, MutexInv, InMutex, FlagInv, PcInv, PastInit
<1>4. PcInv'
  BY DEF IInv, TypeOK, MutexInv, InMutex, PcInv, ShuttingDown, PastInit, Down, Functions
<1>5. VerdictInv'
  BY DEF IInv, TypeOK, VerdictInv, PcInv, RunnableNeverRefused, Down
<1>. QED BY <1>1, <1>2, <1>3, <1>4, <1>5 DEF IInv

LEMMA ZdnnInitKeeps == ASSUME IInv, NEW t \in Threads, ZdnnInit(t) PROVE IInv'
<1> USE DEF ZdnnInit, Goto, Lock, Unlock, callVars, Initialised
<1>1. TypeOK'
  BY DEF IInv, TypeOK, PCs
<1>2. MutexInv'
  BY ThreadsAssumption DEF IInv, TypeOK, MutexInv, InMutex
<1>3. FlagInv'
  BY DEF IInv, TypeOK, MutexInv, InMutex, FlagInv, PcInv, PastInit
<1>4. PcInv'
  BY DEF IInv, TypeOK, MutexInv, InMutex, PcInv, ShuttingDown, PastInit, Down, Functions
<1>5. VerdictInv'
  BY DEF IInv, TypeOK, VerdictInv, PcInv, RunnableNeverRefused, Down
<1>. QED BY <1>1, <1>2, <1>3, <1>4, <1>5 DEF IInv

LEMMA PublishKeeps == ASSUME IInv, NEW t \in Threads, Publish(t) PROVE IInv'
<1> USE DEF Publish, Goto, Lock, Unlock, callVars, Initialised
<1>1. TypeOK'
  BY DEF IInv, TypeOK, PCs
<1>2. MutexInv'
  BY ThreadsAssumption DEF IInv, TypeOK, MutexInv, InMutex
<1>3. FlagInv'
  BY DEF IInv, TypeOK, MutexInv, InMutex, FlagInv, PcInv, PastInit
<1>4. PcInv'
  BY DEF IInv, TypeOK, MutexInv, InMutex, PcInv, ShuttingDown, PastInit, Down, Functions
<1>5. VerdictInv'
  BY DEF IInv, TypeOK, VerdictInv, PcInv, RunnableNeverRefused, Down
<1>. QED BY <1>1, <1>2, <1>3, <1>4, <1>5 DEF IInv

LEMMA UnlockMutexKeeps == ASSUME IInv, NEW t \in Threads, UnlockMutex(t) PROVE IInv'
<1> USE DEF UnlockMutex, Goto, Lock, Unlock, callVars, Initialised
<1>1. TypeOK'
  BY DEF IInv, TypeOK, PCs
<1>2. MutexInv'
  BY ThreadsAssumption DEF IInv, TypeOK, MutexInv, InMutex
<1>3. FlagInv'
  BY DEF IInv, TypeOK, MutexInv, InMutex, FlagInv, PcInv, PastInit
<1>4. PcInv'
  BY DEF IInv, TypeOK, MutexInv, InMutex, PcInv, ShuttingDown, PastInit, Down, Functions
<1>5. VerdictInv'
  BY DEF IInv, TypeOK, VerdictInv, PcInv, RunnableNeverRefused, Down
<1>. QED BY <1>1, <1>2, <1>3, <1>4, <1>5 DEF IInv

LEMMA CompatibleKeeps == ASSUME IInv, NEW t \in Threads, Compatible(t) PROVE IInv'
<1> USE DEF Compatible, Goto, Lock, Unlock, callVars, Initialised
<1>1. TypeOK'
  BY DEF IInv, TypeOK, PCs
<1>2. MutexInv'
  BY ThreadsAssumption DEF IInv, TypeOK, MutexInv, InMutex
<1>3. FlagInv'
  BY DEF IInv, TypeOK, MutexInv, InMutex, FlagInv, PcInv, PastInit
<1>4. PcInv'
  BY DEF IInv, TypeOK, MutexInv, InMutex, PcInv, ShuttingDown, PastInit, Down, Functions
<1>5. VerdictInv'
  BY DEF IInv, TypeOK, VerdictInv, PcInv, RunnableNeverRefused, Down
<1>. QED BY <1>1, <1>2, <1>3, <1>4, <1>5 DEF IInv

LEMMA RelockKeeps == ASSUME IInv, NEW t \in Threads, Relock(t) PROVE IInv'
<1> USE DEF Relock, Goto, Lock, Unlock, callVars, Initialised
<1>1. TypeOK'
  BY DEF IInv, TypeOK, PCs
<1>2. MutexInv'
  BY ThreadsAssumption DEF IInv, TypeOK, MutexInv, InMutex
<1>3. FlagInv'
  BY DEF IInv, TypeOK, MutexInv, InMutex, FlagInv, PcInv, PastInit
<1>4. PcInv'
  BY DEF IInv, TypeOK, MutexInv, InMutex, PcInv, ShuttingDown, PastInit, Down, Functions
<1>5. VerdictInv'
  BY DEF IInv, TypeOK, VerdictInv, PcInv, RunnableNeverRefused, Down
<1>. QED BY <1>1, <1>2, <1>3, <1>4, <1>5 DEF IInv

LEMMA RecheckKeeps == ASSUME IInv, NEW t \in Threads, Recheck(t) PROVE IInv'
<1> USE DEF Recheck, Goto, Lock, Unlock, callVars, Initialised
<1>1. TypeOK'
  BY DEF IInv, TypeOK, PCs
<1>2. MutexInv'
  BY ThreadsAssumption DEF IInv, TypeOK, MutexInv, InMutex
<1>3. FlagInv'
  BY DEF IInv, TypeOK, MutexInv, InMutex, FlagInv, PcInv, PastInit
<1>4. PcInv'
  BY DEF IInv, TypeOK, MutexInv, InMutex, PcInv, ShuttingDown, PastInit, Down, Functions
<1>5. VerdictInv'
  BY DEF IInv, TypeOK, VerdictInv, PcInv, RunnableNeverRefused, Down
<1>. QED BY <1>1, <1>2, <1>3, <1>4, <1>5 DEF IInv

LEMMA ReunlockKeeps == ASSUME IInv, NEW t \in Threads, Reunlock(t) PROVE IInv'
<1> USE DEF Reunlock, Goto, Lock, Unlock, callVars, Initialised
<1>1. TypeOK'
  BY DEF IInv, TypeOK, PCs
<1>2. MutexInv'
  BY ThreadsAssumption DEF IInv, TypeOK, MutexInv, InMutex
<1>3. FlagInv'
  BY DEF IInv, TypeOK, MutexInv, InMutex, FlagInv, PcInv, PastInit
<1>4. PcInv'
  BY DEF IInv, TypeOK, MutexInv, InMutex, PcInv, ShuttingDown, PastInit, Down, Functions
<1>5. VerdictInv'
  BY DEF IInv, TypeOK, VerdictInv, PcInv, RunnableNeverRefused, Down
<1>. QED BY <1>1, <1>2, <1>3, <1>4, <1>5 DEF IInv

LEMMA VerdictKeeps == ASSUME IInv, NEW t \in Threads, Verdict(t) PROVE IInv'
<1> USE DEF Verdict, Goto, Lock, Unlock, callVars, Initialised
<1>1. TypeOK'
  BY DEF IInv, TypeOK, PCs
<1>2. MutexInv'
  BY ThreadsAssumption DEF IInv, TypeOK, MutexInv, InMutex
<1>3. FlagInv'
  BY DEF IInv, TypeOK, MutexInv, InMutex, FlagInv, PcInv, PastInit
<1>4. PcInv'
  BY DEF IInv, TypeOK, MutexInv, InMutex, PcInv, ShuttingDown, PastInit, Down, Functions
<1>5. VerdictInv'
  BY DEF IInv, TypeOK, VerdictInv, PcInv, RunnableNeverRefused, Down
<1>. QED BY <1>1, <1>2, <1>3, <1>4, <1>5 DEF IInv

LEMMA ModelReturnsKeeps == ASSUME IInv, NEW t \in Threads, ModelReturns(t) PROVE IInv'
<1> USE DEF ModelReturns, Goto, Lock, Unlock, callVars, Initialised, Leave
<1>1. TypeOK'
  <2>1. fn' \in [Threads -> Functions] /\ ver' \in [Threads -> Versions \cup {NoVersion}]
    BY DEF IInv, TypeOK, Functions
  <2>. QED BY <2>1 DEF IInv, TypeOK, PCs
<1>2. MutexInv'
  BY ThreadsAssumption DEF IInv, TypeOK, MutexInv, InMutex
<1>3. FlagInv'
  BY DEF IInv, TypeOK, MutexInv, InMutex, FlagInv, PcInv, PastInit
<1>4. PcInv'
  BY DEF IInv, TypeOK, MutexInv, InMutex, PcInv, ShuttingDown, PastInit, Down, Functions
<1>5. VerdictInv'
  BY DEF IInv, TypeOK, VerdictInv, PcInv, RunnableNeverRefused, Down
<1>. QED BY <1>1, <1>2, <1>3, <1>4, <1>5 DEF IInv

LEMMA TestDownKeeps == ASSUME IInv, NEW t \in Threads, TestDown(t) PROVE IInv'
<1> USE DEF TestDown, Goto, Lock, Unlock, callVars, Initialised, Leave
<1>1. TypeOK'
  <2>1. fn' \in [Threads -> Functions] /\ ver' \in [Threads -> Versions \cup {NoVersion}]
    BY DEF IInv, TypeOK, Functions
  <2>. QED BY <2>1 DEF IInv, TypeOK, PCs
<1>2. MutexInv'
  BY ThreadsAssumption DEF IInv, TypeOK, MutexInv, InMutex
<1>3. FlagInv'
  BY DEF IInv, TypeOK, MutexInv, InMutex, FlagInv, PcInv, PastInit
<1>4. PcInv'
  BY DEF IInv, TypeOK, MutexInv, InMutex, PcInv, ShuttingDown, PastInit, Down, Functions
<1>5. VerdictInv'
  BY DEF IInv, TypeOK, VerdictInv, PcInv, RunnableNeverRefused, Down
<1>. QED BY <1>1, <1>2, <1>3, <1>4, <1>5 DEF IInv

LEMMA LockDownKeeps == ASSUME IInv, NEW t \in Threads, LockDown(t) PROVE IInv'
<1> USE DEF LockDown, Goto, Lock, Unlock, callVars, Initialised
<1>1. TypeOK'
  BY DEF IInv, TypeOK, PCs
<1>2. MutexInv'
  BY ThreadsAssumption DEF IInv, TypeOK, MutexInv, InMutex
<1>3. FlagInv'
  BY DEF IInv, TypeOK, MutexInv, InMutex, FlagInv, PcInv, PastInit
<1>4. PcInv'
  BY DEF IInv, TypeOK, MutexInv, InMutex, PcInv, ShuttingDown, PastInit, Down, Functions
<1>5. VerdictInv'
  BY DEF IInv, TypeOK, VerdictInv, PcInv, RunnableNeverRefused, Down
<1>. QED BY <1>1, <1>2, <1>3, <1>4, <1>5 DEF IInv

LEMMA ClearKeeps == ASSUME IInv, NEW t \in Threads, Clear(t) PROVE IInv'
<1> USE DEF Clear, Goto, Lock, Unlock, callVars, Initialised
<1>1. TypeOK'
  BY DEF IInv, TypeOK, PCs
<1>2. MutexInv'
  BY ThreadsAssumption DEF IInv, TypeOK, MutexInv, InMutex
<1>3. FlagInv'
  BY DEF IInv, TypeOK, MutexInv, InMutex, FlagInv, PcInv, PastInit
<1>4. PcInv'
  BY DEF IInv, TypeOK, MutexInv, InMutex, PcInv, ShuttingDown, PastInit, Down, Functions
<1>5. VerdictInv'
  BY DEF IInv, TypeOK, VerdictInv, PcInv, RunnableNeverRefused, Down
<1>. QED BY <1>1, <1>2, <1>3, <1>4, <1>5 DEF IInv

LEMMA UnlockDownKeeps == ASSUME IInv, NEW t \in Threads, UnlockDown(t) PROVE IInv'
<1> USE DEF UnlockDown, Goto, Lock, Unlock, callVars, Initialised, Leave
<1>1. TypeOK'
  <2>1. fn' \in [Threads -> Functions] /\ ver' \in [Threads -> Versions \cup {NoVersion}]
    BY DEF IInv, TypeOK, Functions
  <2>. QED BY <2>1 DEF IInv, TypeOK, PCs
<1>2. MutexInv'
  BY ThreadsAssumption DEF IInv, TypeOK, MutexInv, InMutex
<1>3. FlagInv'
  BY DEF IInv, TypeOK, MutexInv, InMutex, FlagInv, PcInv, PastInit
<1>4. PcInv'
  BY DEF IInv, TypeOK, MutexInv, InMutex, PcInv, ShuttingDown, PastInit, Down, Functions
<1>5. VerdictInv'
  BY DEF IInv, TypeOK, VerdictInv, PcInv, RunnableNeverRefused, Down
<1>. QED BY <1>1, <1>2, <1>3, <1>4, <1>5 DEF IInv

-----------------------------------------------------------------------------
LEMMA NextKeeps == IInv /\ [Next]_vars => IInv'
<1>. SUFFICES ASSUME IInv, [Next]_vars PROVE IInv'
  OBVIOUS
<1>1. ASSUME NEW t \in Threads, Call(t) PROVE IInv'
  BY <1>1, CallModelKeeps, CallShutdownKeeps DEF Call
<1>2. ASSUME NEW t \in Threads, Step(t) PROVE IInv'
  BY <1>2, TestKeeps, LockMutexKeeps, RetestKeeps, ZdnnInitKeeps, PublishKeeps,
     UnlockMutexKeeps, CompatibleKeeps, RelockKeeps, RecheckKeeps, ReunlockKeeps,
     VerdictKeeps, ModelReturnsKeeps, TestDownKeeps, LockDownKeeps, ClearKeeps,
     UnlockDownKeeps DEF Step
<1>3. CASE UNCHANGED vars
  BY <1>3 DEF vars, IInv, TypeOK, MutexInv, FlagInv, PcInv, VerdictInv, InMutex,
     ShuttingDown, RunnableNeverRefused
<1>. QED BY <1>1, <1>2, <1>3 DEF Next

LEMMA Invariance == Spec => []IInv
BY InitInv, NextKeeps, PTL DEF Spec

(* zdnn_init runs at most once between two shutdowns, for any number of      *)
(* threads racing through either init function.                              *)
THEOREM InitialisedOnce == Spec => []InitOnce
<1>1. IInv => InitOnce
  BY DEF IInv, FlagInv, InitOnce
<1>. QED BY <1>1, Invariance, PTL

(* The unlocked test of OMIsInitAccelNNPA is sound: no thread uses the       *)
(* accelerator before a zdnn_init has returned or during another one.        *)
THEOREM UsedOnlyAfterInit == Spec => []UseAfterInit
<1>1. IInv => UseAfterInit
  BY DEF IInv, FlagInv, PcInv, PastInit, UseAfterInit
<1>. QED BY <1>1, Invariance, PTL

(* A model whose version the device can run is never refused.                *)
THEOREM NeverRefused == Spec => []RunnableNeverRefused
<1>1. IInv => RunnableNeverRefused
  BY DEF IInv, VerdictInv
<1>. QED BY <1>1, Invariance, PTL

(* A checked call is accepted only after a runnable version has been seen.   *)
THEOREM AcceptedAfterRunnable == Spec => []AcceptedOnlyIfRunnableSeen
<1>1. IInv => AcceptedOnlyIfRunnableSeen
  BY DEF IInv, VerdictInv, AcceptedOnlyIfRunnableSeen
<1>. QED BY <1>1, Invariance, PTL

-----------------------------------------------------------------------------
(***************************************************************************)
(* What can be proved of CallsReturn without fairness. A thread that waits  *)
(* for the mutex waits for one that does not wait, and every step of a call *)
(* brings its return nearer.                                               *)
(***************************************************************************)
Waiting(t) == pc[t] \in {"lock", "relock", "lockDown"}
Blocked(t) == Waiting(t) /\ mutex # NoThread

(* The most steps that a call still takes, by where it is.                   *)
Stages == <<{"using", "refused", "unlockDown"}, {"verdict", "clear"}, {"reunlock", "lockDown"},
            {"recheck", "testDown"}, {"relock"}, {"compatible"}, {"unlock"}, {"publish"},
            {"zdnn_init"}, {"retest"}, {"lock"}, {"test"}>>
StepsFrom(l) == IF l = "idle" THEN 0 ELSE CHOOSE n \in 1..12 : l \in Stages[n]
StepsLeft(t) == StepsFrom(pc[t])

(* No set of threads waits for one another: while a call is under way, one   *)
(* of those under way can go on, and the holder of the mutex always can.     *)
NoDeadlock ==
  /\ mutex # NoThread => mutex \in Threads /\ ~Waiting(mutex) /\ pc[mutex] # "idle"
  /\ (\E t \in Threads : pc[t] # "idle") => \E t \in Threads : pc[t] # "idle" /\ ~Blocked(t)

(* A step of a call takes it nearer to its return, whichever way it goes, and*)
(* no step of another takes it back.                                        *)
CallsAdvance ==
  [][\A t \in Threads :
       /\ Step(t) => StepsLeft(t)' < StepsLeft(t)
       /\ ~Step(t) /\ pc[t] # "idle" => StepsLeft(t)' = StepsLeft(t)]_vars

(* The mutex of OMInitAccelNNPA and OMShutdownAccelNNPA, with its tests      *)
(* before and under it, leaves no call waiting for itself or in a circle.    *)
THEOREM NeverDeadlocks == Spec => []NoDeadlock
<1>1. IInv => NoDeadlock
  <2>. SUFFICES ASSUME IInv PROVE NoDeadlock
    OBVIOUS
  <2>1. mutex # NoThread => mutex \in Threads /\ InMutex(mutex)
    BY DEF IInv, TypeOK, MutexInv
  <2>2. \A t : InMutex(t) => ~Waiting(t) /\ pc[t] # "idle"
    BY DEF InMutex, Waiting
  <2>. QED BY <2>1, <2>2 DEF NoDeadlock, Blocked
<1>. QED BY <1>1, Invariance, PTL

LEMMA StagesOrdered ==
  ASSUME NEW l \in PCs
  PROVE  /\ StepsFrom(l) \in 0..12
         /\ l = "idle" <=> StepsFrom(l) = 0
         /\ \A n \in 1..12 : l \in Stages[n] <=> StepsFrom(l) = n
<1>. DEFINE S(n) == l \in Stages[n]
<1>1. l # "idle" => \E n \in 1..12 : S(n)
  BY DEF PCs, Stages
<1>2. \A m, n \in 1..12 : S(m) /\ S(n) => m = n
  BY DEF Stages
<1>3. l = "idle" => \A n \in 1..12 : ~S(n)
  BY DEF Stages
<1>. HIDE DEF S
<1>4. StepsFrom(l) = IF l = "idle" THEN 0 ELSE CHOOSE n \in 1..12 : S(n)
  BY DEF StepsFrom, S
<1>. QED BY <1>1, <1>2, <1>3, <1>4 DEF S

LEMMA StepsByStage ==
  /\ \A l \in {"using", "refused", "unlockDown"} : StepsFrom(l) = 1
  /\ \A l \in {"verdict", "clear"} : StepsFrom(l) = 2
  /\ \A l \in {"reunlock", "lockDown"} : StepsFrom(l) = 3
  /\ \A l \in {"recheck", "testDown"} : StepsFrom(l) = 4
  /\ StepsFrom("relock") = 5 /\ StepsFrom("compatible") = 6 /\ StepsFrom("unlock") = 7
  /\ StepsFrom("publish") = 8 /\ StepsFrom("zdnn_init") = 9 /\ StepsFrom("retest") = 10
  /\ StepsFrom("lock") = 11 /\ StepsFrom("test") = 12 /\ StepsFrom("idle") = 0
<1>1. \A n \in 1..12 : \A l \in Stages[n] : l \in PCs
  BY DEF Stages, PCs
<1>2. \A n \in 1..12 : \A l \in Stages[n] : StepsFrom(l) = n
  BY <1>1, StagesOrdered
<1>3. StepsFrom("idle") = 0
  BY DEF StepsFrom
<1>. QED BY <1>2, <1>3 DEF Stages

(* Where the steps of a call lead from each of its places.                   *)
LEMMA StepGoes ==
  ASSUME TypeOK, NEW t \in Threads, Step(t)
  PROVE  /\ pc' = [pc EXCEPT ![t] = pc'[t]]
         /\ StepsFrom(pc'[t]) < StepsFrom(pc[t])
<1>. USE StepsByStage DEF TypeOK, Goto
<1>. DEFINE Nearer == \E to \in PCs : /\ pc' = [pc EXCEPT ![t] = to]
                                       /\ StepsFrom(to) < StepsFrom(pc[t])
<1>. SUFFICES Nearer
  OBVIOUS
<1>1. ASSUME Test(t) \/ UnlockMutex(t) PROVE Nearer
  BY <1>1 DEF Test, UnlockMutex, Initialised, PCs
<1>2. ASSUME Retest(t) \/ Compatible(t) \/ Verdict(t) PROVE Nearer
  BY <1>2 DEF Retest, Compatible, Verdict, PCs
<1>3. ASSUME LockMutex(t) \/ ZdnnInit(t) \/ Publish(t) PROVE Nearer
  BY <1>3 DEF LockMutex, ZdnnInit, Publish, PCs
<1>4. ASSUME Relock(t) \/ Recheck(t) \/ Reunlock(t) PROVE Nearer
  BY <1>4 DEF Relock, Recheck, Reunlock, PCs
<1>5. ASSUME ModelReturns(t) \/ TestDown(t) \/ UnlockDown(t) PROVE Nearer
  BY <1>5 DEF ModelReturns, TestDown, UnlockDown, Leave, PCs
<1>6. ASSUME LockDown(t) \/ Clear(t) PROVE Nearer
  BY <1>6 DEF LockDown, Clear, PCs
<1>. QED BY <1>1, <1>2, <1>3, <1>4, <1>5, <1>6 DEF Step

(* Every way through the two init functions and the shutdown is at most      *)
(* twelve steps long, so that a call of a model fails to return only if a    *)
(* thread is not scheduled or the mutex is not granted.                      *)
THEOREM CallsAlwaysAdvance == Spec => CallsAdvance
<1>. DEFINE Advance == \A t \in Threads :
              /\ Step(t) => StepsLeft(t)' < StepsLeft(t)
              /\ ~Step(t) /\ pc[t] # "idle" => StepsLeft(t)' = StepsLeft(t)
<1>1. IInv /\ [Next]_vars => [Advance]_vars
  <2>. SUFFICES ASSUME IInv, Next, NEW t \in Threads
                PROVE  /\ Step(t) => StepsLeft(t)' < StepsLeft(t)
                       /\ ~Step(t) /\ pc[t] # "idle" => StepsLeft(t)' = StepsLeft(t)
    OBVIOUS
  <2>1. Step(t) => StepsLeft(t)' < StepsLeft(t)
    BY StepGoes DEF IInv, StepsLeft
  <2>2. ASSUME ~Step(t), pc[t] # "idle"
        PROVE  pc'[t] = pc[t]
    <3>1. PICK u \in Threads : Call(u) \/ Step(u)
      BY DEF Next
    <3>2. CASE Call(u)
      BY <2>2, <3>2 DEF Call, CallModel, CallShutdown, Goto, IInv, TypeOK
    <3>3. CASE Step(u)
      BY <2>2, <3>3, StepGoes DEF IInv, TypeOK
    <3>. QED BY <3>1, <3>2, <3>3
  <2>. QED BY <2>1, <2>2 DEF StepsLeft
<1>. QED BY <1>1, Invariance, PTL DEF Spec, CallsAdvance
=============================================================================
