----------------------------- MODULE JobsProofs -----------------------------
(***************************************************************************)
(* Safety of Jobs for any number of jobs, sandboxes and callers.           *)
(*                                                                         *)
(* The four safety properties are not inductive.  JobInv ties the drain of *)
(* a job to its state, CallInv ties what a request may still do to the job *)
(* it points to, and NoOrphanStream completes them.  The argument:         *)
(*   - whoever is inside an SDK call owns handleMu of that job, the drain  *)
(*     included, so at most one is, and none is left once the drain has    *)
(*     locked handleMu to close the handle;                                *)
(*   - a request only gets to "killing" through a step that cancelled the  *)
(*     context of the job it points to;                                    *)
(*   - a request never points to an unborn job, except the one launching   *)
(*     it, so an outcome is only ever written to a job with a drain.       *)
(*                                                                         *)
(* After them come the refinement of JobLifecycle and what it means for a  *)
(* client, and two modules about jobs with a state of their own, the run   *)
(* panel of the dashboard (Panel) and the output buffer (Ring).            *)
(***************************************************************************)
EXTENDS Commands, Integers, SequenceTheorems, TLAPS

\* The drain and the bookkeeping of one job.
JobInv ==
  \A j \in Job :
    /\ state[j] = "unborn" <=> drain[j] = "none"
    /\ state[j] = "running" => drain[j] \in {"recv", "apply"}
    /\ j \in tracked => state[j] \notin {"unborn", "lost"}
    /\ state[j] \in {"done", "dead", "killed"} => finished[j]
    /\ drain[j] = "closing" => handleMu[j] = "drain"

\* What a request knows of the job it points to.
CallInv ==
  \A c \in Caller :
    /\ pc[c] \notin {"idle", "dropping"} => target[c] \in Job
    /\ pc[c] = "streamed" =>
         /\ state[target[c]] = "unborn"
         /\ \A d \in Caller : target[d] = target[c] => d = c
    /\ pc[c] \notin {"idle", "dropping", "streamed"} => state[target[c]] # "unborn"
    /\ pc[c] \in {"locking", "killing", "marking"} => target[c] \in cancelled
    /\ pc[c] \in {"killing", "signalling"} =>
         handleMu[target[c]] = c /\ target[c] \notin closed
    /\ victims[c] # {} => pc[c] \in {"dropping", "locking", "killing"}
    /\ \A j \in victims[c] : state[j] # "unborn"

IInv == TypeOK /\ JobInv /\ CallInv /\ NoOrphanStream

\* Every variable starts within its type.
LEMMA TypeInit == Init => TypeOK
  BY JobsAssumption DEF Init, TypeOK, JobState, DrainAt, CallAt

\* The outcome a final event leaves is a state of a launched, finished job.
LEMMA OutcomeType ==
  ASSUME NEW e \in FinalEvent, NEW s \in JobState
  PROVE  /\ OutcomeOf(e, s) \in JobState
         /\ OutcomeOf(e, s) # "running"
         /\ OutcomeOf(e, s) = "unborn" => s = "unborn"
         /\ OutcomeOf(e, s) = "lost" => s = "lost"
  BY DEF OutcomeOf, JobState

\* No handler, drain step or SDK call takes a variable out of its type; the job and
\* caller facts bound the jobs a request may touch.
LEMMA TypeStep == TypeOK /\ JobInv /\ CallInv /\ [Next]_vars => TypeOK'
<1> SUFFICES ASSUME TypeOK, JobInv, CallInv, [Next]_vars
             PROVE  TypeOK'
  OBVIOUS
<1>1. ASSUME NEW j \in Job, RecvOutput(j) PROVE TypeOK'
  BY <1>1 DEF RecvOutput, Recv, callVars, TypeOK, DrainAt
<1>2. ASSUME NEW j \in Job, RecvFinal(j) PROVE TypeOK'
  BY <1>2 DEF RecvFinal, Recv, callVars, TypeOK, DrainAt
<1>3. ASSUME NEW j \in Job, ApplyOutput(j) PROVE TypeOK'
  BY <1>3, JobsAssumption DEF ApplyOutput, jobVars, callVars, TypeOK, JobInv, DrainAt
<1>4. ASSUME NEW j \in Job, ApplyFinal(j) PROVE TypeOK'
  BY <1>4, OutcomeType DEF ApplyFinal, callVars, TypeOK, DrainAt
<1>5. ASSUME NEW j \in Job, DrainLock(j) PROVE TypeOK'
  BY <1>5 DEF DrainLock, callVars, TypeOK, DrainAt
<1>6. ASSUME NEW j \in Job, DrainClose(j) PROVE TypeOK'
  BY <1>6 DEF DrainClose, jobVars, callVars, TypeOK, DrainAt
<1>7. ASSUME NEW c \in Caller, NEW j \in Job, LaunchStream(c, j) PROVE TypeOK'
  BY <1>7 DEF LaunchStream, Enter, jobVars, drainVars, TypeOK, CallAt
<1>8. ASSUME NEW c \in Caller, NEW j \in Job, CancelLookup(c, j) PROVE TypeOK'
  BY <1>8 DEF CancelLookup, Enter, jobVars, drainVars, TypeOK, CallAt
<1>9. ASSUME NEW c \in Caller, NEW j \in Job, SignalLookup(c, j) PROVE TypeOK'
  BY <1>9 DEF SignalLookup, Enter, jobVars, drainVars, TypeOK, CallAt
<1>10. ASSUME NEW c \in Caller, NEW s \in Sandbox, Drop(c, s) PROVE TypeOK'
  BY <1>10 DEF Drop, drainVars, TypeOK, CallAt
<1>11. ASSUME NEW c \in Caller, LaunchRegister(c) PROVE TypeOK'
  BY <1>11 DEF LaunchRegister, Leave, TypeOK, CallInv, JobState, DrainAt, CallAt
<1>12. ASSUME NEW c \in Caller, CancelFinished(c) PROVE TypeOK'
  BY <1>12 DEF CancelFinished, Leave, jobVars, drainVars, TypeOK, CallAt
<1>13. ASSUME NEW c \in Caller, CancelRunning(c) PROVE TypeOK'
  BY <1>13 DEF CancelRunning, Advance, jobVars, drainVars, TypeOK, CallAt
<1>14. ASSUME NEW c \in Caller, CancelContext(c) PROVE TypeOK'
  BY <1>14 DEF CancelContext, Advance, drainVars, TypeOK, CallInv, CallAt
<1>15. ASSUME NEW c \in Caller, KillLock(c) PROVE TypeOK'
  BY <1>15 DEF KillLock, Advance, drainVars, TypeOK, CallInv, CallAt
<1>16. ASSUME NEW c \in Caller, KillSkip(c) PROVE TypeOK'
  BY <1>16 DEF KillSkip, AfterKill, jobVars, drainVars, TypeOK, CallAt
<1>17. ASSUME NEW c \in Caller, KillReturn(c) PROVE TypeOK'
  BY <1>17 DEF KillReturn, AfterKill, jobVars, drainVars, TypeOK, CallAt
<1>18. ASSUME NEW c \in Caller, MarkKilled(c) PROVE TypeOK'
  BY <1>18 DEF MarkKilled, Advance, drainVars, TypeOK, JobState, CallAt
<1>19. ASSUME NEW c \in Caller, CancelReturn(c) PROVE TypeOK'
  BY <1>19 DEF CancelReturn, Leave, jobVars, drainVars, TypeOK, CallAt
<1>20. ASSUME NEW c \in Caller, SignalLock(c) PROVE TypeOK'
  BY <1>20 DEF SignalLock, Advance, jobVars, drainVars, TypeOK, CallAt
<1>21. ASSUME NEW c \in Caller, SignalSkip(c) PROVE TypeOK'
  BY <1>21 DEF SignalSkip, Leave, jobVars, drainVars, TypeOK, CallAt
<1>22. ASSUME NEW c \in Caller, SignalReturn(c) PROVE TypeOK'
  BY <1>22 DEF SignalReturn, Leave, jobVars, drainVars, TypeOK, CallAt
<1>23. ASSUME NEW c \in Caller, DropNext(c) PROVE TypeOK'
  BY <1>23 DEF DropNext, drainVars, TypeOK, CallAt
<1>24. ASSUME NEW S \in SUBSET Job, Evict(S) PROVE TypeOK'
  BY <1>24 DEF Evict, drainVars, callVars, TypeOK
<1>25. ASSUME Restart PROVE TypeOK'
  BY <1>25, JobsAssumption DEF Restart, TypeOK, JobState, DrainAt, CallAt
<1>26. CASE UNCHANGED vars
  BY <1>26 DEF vars, jobVars, drainVars, callVars, TypeOK
<1> QED
  BY <1>1, <1>2, <1>3, <1>4, <1>5, <1>6, <1>7, <1>8, <1>9, <1>10, <1>11, <1>12, <1>13, <1>14,
     <1>15, <1>16, <1>17, <1>18, <1>19, <1>20, <1>21, <1>22, <1>23, <1>24, <1>25, <1>26
    DEF Next, DrainStep, CallStart, CallStep

\* The drain and the bookkeeping of a job stay in step with its state.
LEMMA JobStep == TypeOK /\ JobInv /\ CallInv /\ [Next]_vars => JobInv'
<1> SUFFICES ASSUME TypeOK, JobInv, CallInv, [Next]_vars
             PROVE  JobInv'
  OBVIOUS
<1>1. ASSUME NEW j \in Job, RecvOutput(j) PROVE JobInv'
  BY <1>1 DEF RecvOutput, Recv, JobInv
<1>2. ASSUME NEW j \in Job, RecvFinal(j) PROVE JobInv'
  BY <1>2 DEF RecvFinal, Recv, TypeOK, JobInv, FinalEvent, ProcessEnd
<1>3. ASSUME NEW j \in Job, ApplyOutput(j) PROVE JobInv'
  BY <1>3 DEF ApplyOutput, jobVars, TypeOK, JobInv
<1>4. ASSUME NEW j \in Job, ApplyFinal(j) PROVE JobInv'
  BY <1>4, OutcomeType DEF ApplyFinal, TypeOK, JobInv
<1>5. ASSUME NEW j \in Job, DrainLock(j) PROVE JobInv'
  BY <1>5 DEF DrainLock, TypeOK, JobInv
<1>6. ASSUME NEW j \in Job, DrainClose(j) PROVE JobInv'
  BY <1>6 DEF DrainClose, jobVars, TypeOK, JobInv
<1>7. ASSUME NEW c \in Caller, NEW j \in Job, LaunchStream(c, j) PROVE JobInv'
  BY <1>7 DEF LaunchStream, jobVars, drainVars, JobInv
<1>8. ASSUME NEW c \in Caller, NEW j \in Job, CancelLookup(c, j) PROVE JobInv'
  BY <1>8 DEF CancelLookup, jobVars, drainVars, JobInv
<1>9. ASSUME NEW c \in Caller, NEW j \in Job, SignalLookup(c, j) PROVE JobInv'
  BY <1>9 DEF SignalLookup, jobVars, drainVars, JobInv
<1>10. ASSUME NEW c \in Caller, NEW s \in Sandbox, Drop(c, s) PROVE JobInv'
  BY <1>10 DEF Drop, drainVars, JobInv
<1>11. ASSUME NEW c \in Caller, LaunchRegister(c) PROVE JobInv'
  BY <1>11 DEF LaunchRegister, TypeOK, JobInv
<1>12. ASSUME NEW c \in Caller, CancelFinished(c) PROVE JobInv'
  BY <1>12 DEF CancelFinished, jobVars, drainVars, JobInv
<1>13. ASSUME NEW c \in Caller, CancelRunning(c) PROVE JobInv'
  BY <1>13 DEF CancelRunning, jobVars, drainVars, JobInv
<1>14. ASSUME NEW c \in Caller, CancelContext(c) PROVE JobInv'
  BY <1>14 DEF CancelContext, drainVars, JobInv
<1>15. ASSUME NEW c \in Caller, KillLock(c) PROVE JobInv'
  BY <1>15 DEF KillLock, drainVars, JobInv
<1>16. ASSUME NEW c \in Caller, KillSkip(c) PROVE JobInv'
  BY <1>16 DEF KillSkip, jobVars, drainVars, JobInv
<1>17. ASSUME NEW c \in Caller, KillReturn(c) PROVE JobInv'
  BY <1>17, JobsAssumption DEF KillReturn, jobVars, drainVars, JobInv, CallInv
<1>18. ASSUME NEW c \in Caller, MarkKilled(c) PROVE JobInv'
  BY <1>18 DEF MarkKilled, drainVars, TypeOK, JobInv, CallInv
<1>19. ASSUME NEW c \in Caller, CancelReturn(c) PROVE JobInv'
  BY <1>19 DEF CancelReturn, jobVars, drainVars, JobInv
<1>20. ASSUME NEW c \in Caller, SignalLock(c) PROVE JobInv'
  BY <1>20 DEF SignalLock, jobVars, drainVars, JobInv
<1>21. ASSUME NEW c \in Caller, SignalSkip(c) PROVE JobInv'
  BY <1>21 DEF SignalSkip, jobVars, drainVars, JobInv
<1>22. ASSUME NEW c \in Caller, SignalReturn(c) PROVE JobInv'
  BY <1>22, JobsAssumption DEF SignalReturn, jobVars, drainVars, JobInv, CallInv
<1>23. ASSUME NEW c \in Caller, DropNext(c) PROVE JobInv'
  BY <1>23 DEF DropNext, drainVars, JobInv
<1>24. ASSUME NEW S \in SUBSET Job, Evict(S) PROVE JobInv'
  BY <1>24 DEF Evict, drainVars, JobInv
<1>25. ASSUME Restart PROVE JobInv'
  BY <1>25 DEF Restart, JobInv
<1>26. CASE UNCHANGED vars
  BY <1>26 DEF vars, jobVars, drainVars, JobInv
<1> QED
  BY <1>1, <1>2, <1>3, <1>4, <1>5, <1>6, <1>7, <1>8, <1>9, <1>10, <1>11, <1>12, <1>13, <1>14,
     <1>15, <1>16, <1>17, <1>18, <1>19, <1>20, <1>21, <1>22, <1>23, <1>24, <1>25, <1>26
    DEF Next, DrainStep, CallStart, CallStep

\* What a request knows of its job survives the steps of every other request and drain.
LEMMA CallStepInv == TypeOK /\ JobInv /\ CallInv /\ [Next]_vars => CallInv'
<1> SUFFICES ASSUME TypeOK, JobInv, CallInv, [Next]_vars
             PROVE  CallInv'
  OBVIOUS
<1>1. ASSUME NEW j \in Job, RecvOutput(j) PROVE CallInv'
  BY <1>1 DEF RecvOutput, Recv, callVars, CallInv
<1>2. ASSUME NEW j \in Job, RecvFinal(j) PROVE CallInv'
  BY <1>2 DEF RecvFinal, Recv, callVars, CallInv
<1>3. ASSUME NEW j \in Job, ApplyOutput(j) PROVE CallInv'
  BY <1>3 DEF ApplyOutput, jobVars, callVars, CallInv
<1>4. ASSUME NEW j \in Job, ApplyFinal(j) PROVE CallInv'
  BY <1>4, OutcomeType DEF ApplyFinal, callVars, TypeOK, JobInv, CallInv
<1>5. ASSUME NEW j \in Job, DrainLock(j) PROVE CallInv'
  BY <1>5, JobsAssumption DEF DrainLock, callVars, CallInv
<1>6. ASSUME NEW j \in Job, DrainClose(j) PROVE CallInv'
  BY <1>6, JobsAssumption DEF DrainClose, jobVars, callVars, JobInv, CallInv
<1>7. ASSUME NEW c \in Caller, NEW j \in Job, LaunchStream(c, j) PROVE CallInv'
  BY <1>7 DEF LaunchStream, Enter, jobVars, TypeOK, CallInv
<1>8. ASSUME NEW c \in Caller, NEW j \in Job, CancelLookup(c, j) PROVE CallInv'
  BY <1>8 DEF CancelLookup, Enter, jobVars, TypeOK, JobInv, CallInv
<1>9. ASSUME NEW c \in Caller, NEW j \in Job, SignalLookup(c, j) PROVE CallInv'
  BY <1>9 DEF SignalLookup, Enter, jobVars, TypeOK, JobInv, CallInv
<1>10. ASSUME NEW c \in Caller, NEW s \in Sandbox, Drop(c, s) PROVE CallInv'
  BY <1>10 DEF Drop, TypeOK, JobInv, CallInv
<1>11. ASSUME NEW c \in Caller, LaunchRegister(c) PROVE CallInv'
  BY <1>11, JobsAssumption DEF LaunchRegister, Leave, TypeOK, CallInv
<1>12. ASSUME NEW c \in Caller, CancelFinished(c) PROVE CallInv'
  BY <1>12, JobsAssumption DEF CancelFinished, Leave, jobVars, TypeOK, CallInv
<1>13. ASSUME NEW c \in Caller, CancelRunning(c) PROVE CallInv'
  BY <1>13 DEF CancelRunning, Advance, jobVars, CallInv
<1>14. ASSUME NEW c \in Caller, CancelContext(c) PROVE CallInv'
  BY <1>14 DEF CancelContext, Advance, CallInv
<1>15. ASSUME NEW c \in Caller, KillLock(c) PROVE CallInv'
  BY <1>15, JobsAssumption DEF KillLock, Advance, Usable, TypeOK, CallInv
<1>16. ASSUME NEW c \in Caller, KillSkip(c) PROVE CallInv'
  BY <1>16, JobsAssumption DEF KillSkip, AfterKill, jobVars, TypeOK, CallInv
<1>17. ASSUME NEW c \in Caller, KillReturn(c) PROVE CallInv'
  BY <1>17, JobsAssumption DEF KillReturn, AfterKill, jobVars, TypeOK, CallInv
<1>18. ASSUME NEW c \in Caller, MarkKilled(c) PROVE CallInv'
  BY <1>18 DEF MarkKilled, Advance, CallInv
<1>19. ASSUME NEW c \in Caller, CancelReturn(c) PROVE CallInv'
  BY <1>19, JobsAssumption DEF CancelReturn, Leave, jobVars, TypeOK, CallInv
<1>20. ASSUME NEW c \in Caller, SignalLock(c) PROVE CallInv'
  BY <1>20, JobsAssumption DEF SignalLock, Advance, Usable, jobVars, TypeOK, CallInv
<1>21. ASSUME NEW c \in Caller, SignalSkip(c) PROVE CallInv'
  BY <1>21, JobsAssumption DEF SignalSkip, Leave, jobVars, TypeOK, CallInv
<1>22. ASSUME NEW c \in Caller, SignalReturn(c) PROVE CallInv'
  BY <1>22, JobsAssumption DEF SignalReturn, Leave, jobVars, TypeOK, CallInv
<1>23. ASSUME NEW c \in Caller, DropNext(c) PROVE CallInv'
  BY <1>23 DEF DropNext, TypeOK, CallInv
<1>24. ASSUME NEW S \in SUBSET Job, Evict(S) PROVE CallInv'
  BY <1>24 DEF Evict, callVars, CallInv
<1>25. ASSUME Restart PROVE CallInv'
  BY <1>25 DEF Restart, CallInv
<1>26. CASE UNCHANGED vars
  BY <1>26 DEF vars, jobVars, callVars, CallInv
<1> QED
  BY <1>1, <1>2, <1>3, <1>4, <1>5, <1>6, <1>7, <1>8, <1>9, <1>10, <1>11, <1>12, <1>13, <1>14,
     <1>15, <1>16, <1>17, <1>18, <1>19, <1>20, <1>21, <1>22, <1>23, <1>24, <1>25, <1>26
    DEF Next, DrainStep, CallStart, CallStep

\* An exec stream without an entry in the table always has a context cancelled or a drain
\* that ends it: eviction, dropSandbox and the drain keep it so.
LEMMA OrphanStep == TypeOK /\ JobInv /\ CallInv /\ NoOrphanStream /\ [Next]_vars => NoOrphanStream'
<1> SUFFICES ASSUME TypeOK, JobInv, CallInv, NoOrphanStream, [Next]_vars
             PROVE  NoOrphanStream'
  OBVIOUS
<1>1. ASSUME NEW j \in Job, RecvOutput(j) PROVE NoOrphanStream'
  BY <1>1 DEF RecvOutput, Recv, callVars, NoOrphanStream
<1>2. ASSUME NEW j \in Job, RecvFinal(j) PROVE NoOrphanStream'
  BY <1>2 DEF RecvFinal, Recv, callVars, NoOrphanStream
<1>3. ASSUME NEW j \in Job, ApplyOutput(j) PROVE NoOrphanStream'
  BY <1>3 DEF ApplyOutput, jobVars, callVars, NoOrphanStream
<1>4. ASSUME NEW j \in Job, ApplyFinal(j) PROVE NoOrphanStream'
  BY <1>4 DEF ApplyFinal, callVars, NoOrphanStream
<1>5. ASSUME NEW j \in Job, DrainLock(j) PROVE NoOrphanStream'
  BY <1>5 DEF DrainLock, callVars, NoOrphanStream
<1>6. ASSUME NEW j \in Job, DrainClose(j) PROVE NoOrphanStream'
  BY <1>6 DEF DrainClose, jobVars, callVars, NoOrphanStream
<1>7. ASSUME NEW c \in Caller, NEW j \in Job, LaunchStream(c, j) PROVE NoOrphanStream'
  BY <1>7 DEF LaunchStream, Enter, jobVars, drainVars, NoOrphanStream
<1>8. ASSUME NEW c \in Caller, NEW j \in Job, CancelLookup(c, j) PROVE NoOrphanStream'
  BY <1>8 DEF CancelLookup, Enter, jobVars, drainVars, NoOrphanStream
<1>9. ASSUME NEW c \in Caller, NEW j \in Job, SignalLookup(c, j) PROVE NoOrphanStream'
  BY <1>9 DEF SignalLookup, Enter, jobVars, drainVars, NoOrphanStream
<1>10. ASSUME NEW c \in Caller, NEW s \in Sandbox, Drop(c, s) PROVE NoOrphanStream'
  BY <1>10 DEF Drop, drainVars, TypeOK, CallInv, NoOrphanStream
<1>11. ASSUME NEW c \in Caller, LaunchRegister(c) PROVE NoOrphanStream'
  BY <1>11 DEF LaunchRegister, Leave, NoOrphanStream
<1>12. ASSUME NEW c \in Caller, CancelFinished(c) PROVE NoOrphanStream'
  BY <1>12 DEF CancelFinished, Leave, jobVars, drainVars, NoOrphanStream
<1>13. ASSUME NEW c \in Caller, CancelRunning(c) PROVE NoOrphanStream'
  BY <1>13 DEF CancelRunning, Advance, jobVars, drainVars, NoOrphanStream
<1>14. ASSUME NEW c \in Caller, CancelContext(c) PROVE NoOrphanStream'
  BY <1>14 DEF CancelContext, Advance, drainVars, NoOrphanStream
<1>15. ASSUME NEW c \in Caller, KillLock(c) PROVE NoOrphanStream'
  BY <1>15 DEF KillLock, Advance, drainVars, NoOrphanStream
<1>16. ASSUME NEW c \in Caller, KillSkip(c) PROVE NoOrphanStream'
  BY <1>16 DEF KillSkip, AfterKill, jobVars, drainVars, CallInv, NoOrphanStream
<1>17. ASSUME NEW c \in Caller, KillReturn(c) PROVE NoOrphanStream'
  BY <1>17 DEF KillReturn, AfterKill, jobVars, drainVars, CallInv, NoOrphanStream
<1>18. ASSUME NEW c \in Caller, MarkKilled(c) PROVE NoOrphanStream'
  BY <1>18 DEF MarkKilled, Advance, drainVars, NoOrphanStream
<1>19. ASSUME NEW c \in Caller, CancelReturn(c) PROVE NoOrphanStream'
  BY <1>19 DEF CancelReturn, Leave, jobVars, drainVars, NoOrphanStream
<1>20. ASSUME NEW c \in Caller, SignalLock(c) PROVE NoOrphanStream'
  BY <1>20 DEF SignalLock, Advance, jobVars, drainVars, NoOrphanStream
<1>21. ASSUME NEW c \in Caller, SignalSkip(c) PROVE NoOrphanStream'
  BY <1>21 DEF SignalSkip, Leave, jobVars, drainVars, NoOrphanStream
<1>22. ASSUME NEW c \in Caller, SignalReturn(c) PROVE NoOrphanStream'
  BY <1>22 DEF SignalReturn, Leave, jobVars, drainVars, NoOrphanStream
<1>23. ASSUME NEW c \in Caller, DropNext(c) PROVE NoOrphanStream'
  BY <1>23 DEF DropNext, drainVars, NoOrphanStream
<1>24. ASSUME NEW S \in SUBSET Job, Evict(S) PROVE NoOrphanStream'
  BY <1>24 DEF Evict, drainVars, callVars, NoOrphanStream
<1>25. ASSUME Restart PROVE NoOrphanStream'
  BY <1>25 DEF Restart, NoOrphanStream
<1>26. CASE UNCHANGED vars
  BY <1>26 DEF vars, jobVars, drainVars, callVars, NoOrphanStream
<1> QED
  BY <1>1, <1>2, <1>3, <1>4, <1>5, <1>6, <1>7, <1>8, <1>9, <1>10, <1>11, <1>12, <1>13, <1>14,
     <1>15, <1>16, <1>17, <1>18, <1>19, <1>20, <1>21, <1>22, <1>23, <1>24, <1>25, <1>26
    DEF Next, DrainStep, CallStart, CallStep

-----------------------------------------------------------------------------
\* The inductive invariant holds before the first request.
LEMMA InvInit == Init => IInv
  BY TypeInit DEF Init, IInv, JobInv, CallInv, NoOrphanStream

\* The inductive invariant survives every step.
LEMMA InvStep == IInv /\ [Next]_vars => IInv'
  BY TypeStep, JobStep, CallStepInv, OrphanStep DEF IInv

\* JobInv, CallInv, TypeOK and NoOrphanStream together hold in every reachable state.
THEOREM Invariance == Spec => []IInv
  BY InvInit, InvStep, PTL DEF Spec

\* Type correctness of every variable of Jobs.
THEOREM TypeCorrect == Spec => []TypeOK
<1>1. IInv => TypeOK
  BY DEF IInv
<1> QED
  BY <1>1, Invariance, PTL

\* At most one of Kill, Signal and Close is inside a job's handle, and nothing but the
\* drain's own Close once the handle is closed: whoever is inside owns handleMu.
THEOREM HandleExclusive == Spec => []ExclusiveHandle
<1>1. IInv => ExclusiveHandle
  <2> SUFFICES ASSUME IInv, NEW j \in Job
               PROVE  /\ \A a, b \in InHandle(j) : a = b
                      /\ j \in closed => InHandle(j) \subseteq {"drain"}
    BY DEF ExclusiveHandle
  <2>1. \A a \in InHandle(j) : a = handleMu[j]
    BY DEF IInv, JobInv, CallInv, InHandle
  <2>2. ASSUME j \in closed, NEW c \in Caller, target[c] = j
        PROVE  pc[c] \notin {"killing", "signalling"}
    BY <2>2 DEF IInv, CallInv
  <2> QED
    BY <2>1, <2>2 DEF InHandle
<1> QED
  BY <1>1, Invariance, PTL

\* No Kill is sent to a job whose Recv still waits on a live context.
THEOREM KillFollowsCancel == Spec => []KillAfterCancel
<1>1. IInv => KillAfterCancel
  BY DEF IInv, CallInv, KillAfterCancel
<1> QED
  BY <1>1, Invariance, PTL

\* What a poller sees running is being drained; what it sees finished can be evicted.
THEOREM OutcomesRecorded == Spec => []OutcomeRecorded
<1>1. IInv => OutcomeRecorded
  BY DEF IInv, TypeOK, JobState, JobInv, OutcomeRecorded
<1> QED
  BY <1>1, Invariance, PTL

\* No stream is left behind: out of the map means finished, cancelled or about to be.
THEOREM StreamsNotOrphaned == Spec => []NoOrphanStream
<1>1. IInv => NoOrphanStream
  BY DEF IInv
<1> QED
  BY <1>1, Invariance, PTL
\* handleMu is taken for an SDK call and given back when the call returns: by the request
\* or the drain that took it, since nobody else is in a place where it is released.
LEMMA ReturnStep == TypeOK /\ JobInv /\ CallInv /\ HandleMuReturned /\ [Next]_vars => HandleMuReturned'
<1> SUFFICES ASSUME TypeOK, JobInv, CallInv, HandleMuReturned, [Next]_vars
             PROVE  HandleMuReturned'
  OBVIOUS
<1>1. ASSUME NEW j \in Job, RecvOutput(j) PROVE HandleMuReturned'
  BY <1>1 DEF RecvOutput, Recv, callVars, HandleMuReturned
<1>2. ASSUME NEW j \in Job, RecvFinal(j) PROVE HandleMuReturned'
  BY <1>2 DEF RecvFinal, Recv, callVars, HandleMuReturned
<1>3. ASSUME NEW j \in Job, ApplyOutput(j) PROVE HandleMuReturned'
  BY <1>3 DEF ApplyOutput, jobVars, callVars, HandleMuReturned
<1>4. ASSUME NEW j \in Job, ApplyFinal(j) PROVE HandleMuReturned'
  BY <1>4 DEF ApplyFinal, callVars, HandleMuReturned
<1>5. ASSUME NEW j \in Job, DrainLock(j) PROVE HandleMuReturned'
  BY <1>5, JobsAssumption DEF DrainLock, callVars, TypeOK, HandleMuReturned
<1>6. ASSUME NEW j \in Job, DrainClose(j) PROVE HandleMuReturned'
  BY <1>6, JobsAssumption DEF DrainClose, callVars, TypeOK, JobInv, HandleMuReturned
<1>7. ASSUME NEW c \in Caller, NEW j \in Job, LaunchStream(c, j) PROVE HandleMuReturned'
  BY <1>7 DEF LaunchStream, Enter, jobVars, drainVars, HandleMuReturned
<1>8. ASSUME NEW c \in Caller, NEW j \in Job, CancelLookup(c, j) PROVE HandleMuReturned'
  BY <1>8 DEF CancelLookup, Enter, jobVars, drainVars, HandleMuReturned
<1>9. ASSUME NEW c \in Caller, NEW j \in Job, SignalLookup(c, j) PROVE HandleMuReturned'
  BY <1>9 DEF SignalLookup, Enter, jobVars, drainVars, HandleMuReturned
<1>10. ASSUME NEW c \in Caller, NEW s \in Sandbox, Drop(c, s) PROVE HandleMuReturned'
  BY <1>10 DEF Drop, drainVars, TypeOK, CallInv, HandleMuReturned
<1>11. ASSUME NEW c \in Caller, LaunchRegister(c) PROVE HandleMuReturned'
  BY <1>11 DEF LaunchRegister, Leave, TypeOK, JobInv, CallInv, HandleMuReturned
<1>12. ASSUME NEW c \in Caller, CancelFinished(c) PROVE HandleMuReturned'
  BY <1>12 DEF CancelFinished, Leave, jobVars, drainVars, HandleMuReturned
<1>13. ASSUME NEW c \in Caller, CancelRunning(c) PROVE HandleMuReturned'
  BY <1>13 DEF CancelRunning, Advance, jobVars, drainVars, HandleMuReturned
<1>14. ASSUME NEW c \in Caller, CancelContext(c) PROVE HandleMuReturned'
  BY <1>14 DEF CancelContext, Advance, drainVars, HandleMuReturned
<1>15. ASSUME NEW c \in Caller, KillLock(c) PROVE HandleMuReturned'
  BY <1>15, JobsAssumption DEF KillLock, Advance, drainVars, TypeOK, CallInv, HandleMuReturned
<1>16. ASSUME NEW c \in Caller, KillSkip(c) PROVE HandleMuReturned'
  BY <1>16 DEF KillSkip, AfterKill, jobVars, drainVars, CallInv, HandleMuReturned
<1>17. ASSUME NEW c \in Caller, KillReturn(c) PROVE HandleMuReturned'
  BY <1>17, JobsAssumption DEF KillReturn, AfterKill, drainVars, TypeOK, CallInv, HandleMuReturned
<1>18. ASSUME NEW c \in Caller, MarkKilled(c) PROVE HandleMuReturned'
  BY <1>18 DEF MarkKilled, Advance, drainVars, HandleMuReturned
<1>19. ASSUME NEW c \in Caller, CancelReturn(c) PROVE HandleMuReturned'
  BY <1>19 DEF CancelReturn, Leave, jobVars, drainVars, HandleMuReturned
<1>20. ASSUME NEW c \in Caller, SignalLock(c) PROVE HandleMuReturned'
  BY <1>20, JobsAssumption DEF SignalLock, Advance, drainVars, TypeOK, CallInv, HandleMuReturned
<1>21. ASSUME NEW c \in Caller, SignalSkip(c) PROVE HandleMuReturned'
  BY <1>21 DEF SignalSkip, Leave, jobVars, drainVars, HandleMuReturned
<1>22. ASSUME NEW c \in Caller, SignalReturn(c) PROVE HandleMuReturned'
  BY <1>22, JobsAssumption DEF SignalReturn, Leave, drainVars, TypeOK, CallInv, HandleMuReturned
<1>23. ASSUME NEW c \in Caller, DropNext(c) PROVE HandleMuReturned'
  BY <1>23 DEF DropNext, drainVars, HandleMuReturned
<1>24. ASSUME NEW S \in SUBSET Job, Evict(S) PROVE HandleMuReturned'
  BY <1>24 DEF Evict, drainVars, callVars, HandleMuReturned
<1>25. ASSUME Restart PROVE HandleMuReturned'
  BY <1>25, JobsAssumption DEF Restart, HandleMuReturned
<1>26. CASE UNCHANGED vars
  BY <1>26 DEF vars, jobVars, drainVars, callVars, HandleMuReturned
<1> QED
  BY <1>1, <1>2, <1>3, <1>4, <1>5, <1>6, <1>7, <1>8, <1>9, <1>10, <1>11, <1>12, <1>13, <1>14,
     <1>15, <1>16, <1>17, <1>18, <1>19, <1>20, <1>21, <1>22, <1>23, <1>24, <1>25, <1>26
    DEF Next, DrainStep, CallStart, CallStep

\* handleMu is only ever held by somebody inside the SDK call it was taken for.
THEOREM LockIsReturned == Spec => []HandleMuReturned
<1>1. Init => HandleMuReturned
  BY JobsAssumption DEF Init, HandleMuReturned
<1>2. IInv /\ HandleMuReturned /\ [Next]_vars => HandleMuReturned'
  BY ReturnStep DEF IInv
<1> QED
  BY <1>1, <1>2, Invariance, PTL DEF Spec
-----------------------------------------------------------------------------
(* What a cancel can promise *)

\* A Kill in progress is one the process was sent; a cancel past it, or past the look that
\* showed the handle closed, knows one or the other; and when it has recorded the kill
\* only an exit or a failure that the drain still had in hand may take it back.
CancelFacts ==
  /\ CancelOutcome
  /\ \A c \in Caller :
       /\ pc[c] = "killing" => target[c] \in ended
       /\ pc[c] = "marking" => target[c] \in ended \cup closed

\* Every step keeps what the cancels in progress know.
LEMMA OutcomeStep == TypeOK /\ JobInv /\ CallInv /\ CancelFacts /\ [Next]_vars => CancelFacts'
<1> SUFFICES ASSUME TypeOK, JobInv, CallInv, CancelFacts, [Next]_vars
             PROVE  CancelFacts'
  OBVIOUS
<1> USE DEF CancelFacts, CancelOutcome, TypeOK
<1>1. ASSUME NEW j \in Job, RecvOutput(j) PROVE CancelFacts'
  BY <1>1 DEF RecvOutput, Recv, callVars
<1>2. ASSUME NEW j \in Job, RecvFinal(j) PROVE CancelFacts'
  BY <1>2 DEF RecvFinal, Recv, callVars
<1>3. ASSUME NEW j \in Job, ApplyOutput(j) PROVE CancelFacts'
  BY <1>3 DEF ApplyOutput, jobVars, callVars
<1>4. ASSUME NEW j \in Job, ApplyFinal(j) PROVE CancelFacts'
  BY <1>4 DEF ApplyFinal, OutcomeOf, FinalEvent, callVars
<1>5. ASSUME NEW j \in Job, DrainLock(j) PROVE CancelFacts'
  BY <1>5, JobsAssumption DEF DrainLock, callVars
<1>6. ASSUME NEW j \in Job, DrainClose(j) PROVE CancelFacts'
  BY <1>6, JobsAssumption DEF DrainClose, jobVars, callVars, JobInv
<1>7. ASSUME NEW c \in Caller, NEW j \in Job, LaunchStream(c, j) PROVE CancelFacts'
  BY <1>7 DEF LaunchStream, Enter, jobVars, drainVars
<1>8. ASSUME NEW c \in Caller, NEW j \in Job, CancelLookup(c, j) PROVE CancelFacts'
  BY <1>8 DEF CancelLookup, Enter, jobVars, drainVars
<1>9. ASSUME NEW c \in Caller, NEW j \in Job, SignalLookup(c, j) PROVE CancelFacts'
  BY <1>9 DEF SignalLookup, Enter, jobVars, drainVars
<1>10. ASSUME NEW c \in Caller, NEW s \in Sandbox, Drop(c, s) PROVE CancelFacts'
  BY <1>10 DEF Drop, drainVars, CallInv
<1>11. ASSUME NEW c \in Caller, LaunchRegister(c) PROVE CancelFacts'
  BY <1>11 DEF LaunchRegister, Leave, JobInv, CallInv
<1>12. ASSUME NEW c \in Caller, CancelFinished(c) PROVE CancelFacts'
  BY <1>12 DEF CancelFinished, Leave, jobVars, drainVars
<1>13. ASSUME NEW c \in Caller, CancelRunning(c) PROVE CancelFacts'
  BY <1>13 DEF CancelRunning, Advance, jobVars, drainVars
<1>14. ASSUME NEW c \in Caller, CancelContext(c) PROVE CancelFacts'
  BY <1>14 DEF CancelContext, Advance, drainVars
<1>15. ASSUME NEW c \in Caller, KillLock(c) PROVE CancelFacts'
  BY <1>15, JobsAssumption DEF KillLock, Advance, drainVars, CallInv
<1>16. ASSUME NEW c \in Caller, KillSkip(c) PROVE CancelFacts'
  BY <1>16 DEF KillSkip, Usable, AfterKill, jobVars, drainVars, CallInv
<1>17. ASSUME NEW c \in Caller, KillReturn(c) PROVE CancelFacts'
  BY <1>17, JobsAssumption DEF KillReturn, AfterKill, jobVars, drainVars, CallInv
<1>18. ASSUME NEW c \in Caller, MarkKilled(c) PROVE CancelFacts'
  BY <1>18 DEF MarkKilled, Advance, drainVars
<1>19. ASSUME NEW c \in Caller, CancelReturn(c) PROVE CancelFacts'
  BY <1>19 DEF CancelReturn, Leave, jobVars, drainVars
<1>20. ASSUME NEW c \in Caller, SignalLock(c) PROVE CancelFacts'
  BY <1>20, JobsAssumption DEF SignalLock, Advance, jobVars, drainVars, CallInv
<1>21. ASSUME NEW c \in Caller, SignalSkip(c) PROVE CancelFacts'
  BY <1>21 DEF SignalSkip, Leave, jobVars, drainVars
<1>22. ASSUME NEW c \in Caller, SignalReturn(c) PROVE CancelFacts'
  BY <1>22, JobsAssumption DEF SignalReturn, Leave, jobVars, drainVars, CallInv
<1>23. ASSUME NEW c \in Caller, DropNext(c) PROVE CancelFacts'
  BY <1>23 DEF DropNext, drainVars
<1>24. ASSUME NEW S \in SUBSET Job, Evict(S) PROVE CancelFacts'
  BY <1>24 DEF Evict, drainVars, callVars
<1>25. ASSUME Restart PROVE CancelFacts'
  BY <1>25, JobsAssumption DEF Restart
<1>26. CASE UNCHANGED vars
  BY <1>26 DEF vars, jobVars, drainVars, callVars
<1> QED
  BY <1>1, <1>2, <1>3, <1>4, <1>5, <1>6, <1>7, <1>8, <1>9, <1>10, <1>11, <1>12, <1>13, <1>14,
     <1>15, <1>16, <1>17, <1>18, <1>19, <1>20, <1>21, <1>22, <1>23, <1>24, <1>25, <1>26
    DEF Next, DrainStep, CallStart, CallStep

\* When a cancel returns, the process was reached or had ended, and the job is killed unless
\* the guest reported an exit or a failure.
THEOREM CancelKeepsWord == Spec => []CancelOutcome
<1>1. Init => CancelFacts
  BY DEF Init, CancelFacts, CancelOutcome
<1>2. IInv /\ CancelFacts /\ [Next]_vars => CancelFacts'
  BY OutcomeStep DEF IInv
<1>3. CancelFacts => CancelOutcome
  BY DEF CancelFacts
<1> QED
  BY <1>1, <1>2, <1>3, Invariance, PTL DEF Spec
-----------------------------------------------------------------------------
(* The refinement of JobLifecycle *)

StatusOf == [j \in Job |-> Poll(j)]
OpenOf == [j \in Job |-> Open(j)]

\* A process that has launched nothing is the initial state of the lifecycle.
LEMMA LifecycleInit == Init => Lifecycle!Init
<1> SUFFICES ASSUME Init PROVE Lifecycle!Init
  OBVIOUS
<1>1. \A j \in Job : Poll(j) = "unborn"
  BY DEF Init, Poll
<1>2. \A j \in Job : Open(j) = FALSE
  BY DEF Init, Open, Cancelling
<1> QED
  BY <1>1, <1>2 DEF Lifecycle!Init

\* What a poll answers: the state of a tracked job, "gone" once it is not in the table.
LEMMA PollType ==
  ASSUME IInv, NEW j \in Job
  PROVE  /\ j \in tracked => Poll(j) = state[j] /\ state[j] \in {"running", "done", "dead", "killed"}
         /\ j \notin tracked /\ state[j] # "unborn" => Poll(j) = "gone"
         /\ Poll(j) = "unborn" <=> state[j] = "unborn"
  BY DEF IInv, TypeOK, JobState, JobInv, Poll

\* A step that leaves every answer and every open outcome alone is a stutter.
LEMMA Stutters ==
  ASSUME \A j \in Job : Poll(j)' = Poll(j) /\ Open(j)' = Open(j)
  PROVE  UNCHANGED Lifecycle!lifecycleVars
  BY DEF Lifecycle!lifecycleVars

\* Facts about one job that make up a step of the contract.
LEMMA ReportStep ==
  ASSUME NEW j \in Job, Open(j), Open(j) \in BOOLEAN, Open(j)' \in BOOLEAN,
         Poll(j) \in {"running"} \cup Lifecycle!Outcome, Poll(j)' \in Lifecycle!Outcome,
         \A i \in Job \ {j} : Poll(i)' = Poll(i) /\ Open(i)' = Open(i)
  PROVE  Lifecycle!Next
<1>1. StatusOf' = [StatusOf EXCEPT ![j] = Poll(j)'] /\ OpenOf' = [OpenOf EXCEPT ![j] = Open(j)']
  BY DEF StatusOf, OpenOf
<1>2. OpenOf[j] /\ StatusOf[j] = Poll(j)
  BY DEF OpenOf, StatusOf
<1> QED
  BY <1>1, <1>2 DEF StatusOf, OpenOf, Lifecycle!Next, Lifecycle!Report

\* The outcome of a job nobody can poll any more becomes fixed.
LEMMA SettleStep ==
  ASSUME NEW j \in Job, Open(j), Open(j) \in BOOLEAN, Open(j)' \in BOOLEAN,
         Poll(j) = "gone", Poll(j)' = "gone",
         \A i \in Job \ {j} : Poll(i)' = Poll(i) /\ Open(i)' = Open(i)
  PROVE  [Lifecycle!Next]_Lifecycle!lifecycleVars
<1>1. CASE Open(j)'
  <2>1. Open(j)' = Open(j)
    BY <1>1
  <2> QED
    BY <2>1, Stutters
<1>2. CASE ~Open(j)'
  <2>1. StatusOf' = StatusOf /\ OpenOf' = [OpenOf EXCEPT ![j] = FALSE]
    BY <1>2 DEF StatusOf, OpenOf
  <2>2. OpenOf[j] /\ StatusOf[j] = "gone"
    BY DEF OpenOf, StatusOf
  <2> QED
    BY <2>1, <2>2 DEF StatusOf, OpenOf, Lifecycle!Next, Lifecycle!Settle
<1> QED
  BY <1>1, <1>2

\* A launch is the Start of the lifecycle.
LEMMA StartStep ==
  ASSUME NEW j \in Job, Poll(j) = "unborn", Poll(j)' = "running", Open(j)' = TRUE,
         \A i \in Job \ {j} : Poll(i)' = Poll(i) /\ Open(i)' = Open(i)
  PROVE  Lifecycle!Next
<1>1. StatusOf' = [StatusOf EXCEPT ![j] = "running"]
  BY DEF StatusOf
<1>2. OpenOf' = [OpenOf EXCEPT ![j] = TRUE]
  BY DEF OpenOf
<1>3. StatusOf[j] = "unborn"
  BY DEF StatusOf
<1> QED
  BY <1>1, <1>2, <1>3 DEF StatusOf, OpenOf, Lifecycle!Next, Lifecycle!Start

\* Dropping entries from the table is the Forget of the lifecycle.
LEMMA ForgetStep ==
  ASSUME NEW R \in SUBSET Job, \A j \in R : Poll(j) \in {"running"} \cup Lifecycle!Outcome,
         \A j \in Job : Poll(j)' = IF j \in R THEN "gone" ELSE Poll(j),
         \A j \in Job : Open(j)' = Open(j)
  PROVE  Lifecycle!Next
<1>1. StatusOf' = [j \in Job |-> IF j \in R THEN "gone" ELSE StatusOf[j]]
  BY DEF StatusOf
<1>2. OpenOf' = OpenOf
  BY DEF OpenOf
<1>3. \A j \in R : StatusOf[j] \in {"running"} \cup Lifecycle!Outcome
  BY DEF StatusOf
<1>4. Lifecycle!Forget(R)
  BY <1>1, <1>2, <1>3 DEF StatusOf, OpenOf, Lifecycle!Forget
<1> QED
  BY <1>4 DEF Lifecycle!Next

\* The end of the process is the Lose of the lifecycle.
LEMMA LoseStep ==
  ASSUME \A j \in Job : Poll(j)' = IF Poll(j) = "unborn" THEN "unborn" ELSE "gone",
         \A j \in Job : Open(j)' = FALSE
  PROVE  Lifecycle!Next
<1>1. StatusOf' = [j \in Job |-> IF StatusOf[j] = "unborn" THEN "unborn" ELSE "gone"]
  BY DEF StatusOf
<1>2. OpenOf' = [j \in Job |-> FALSE]
  BY DEF OpenOf
<1> QED
  BY <1>1, <1>2 DEF StatusOf, OpenOf, Lifecycle!Next, Lifecycle!Lose

\* Whether the outcome of a job is open is a Boolean, before and after a step.
LEMMA OpenType == \A j \in Job : Open(j) \in BOOLEAN /\ Open(j)' \in BOOLEAN
  BY DEF Open

\* Every step of the job code is a step of the lifecycle or changes nothing a client can see.
LEMMA LifecycleStep == IInv /\ [Next]_vars => [Lifecycle!Next]_Lifecycle!lifecycleVars
<1> SUFFICES ASSUME IInv, [Next]_vars
             PROVE  [Lifecycle!Next]_Lifecycle!lifecycleVars
  OBVIOUS
<1>1. ASSUME NEW j \in Job, RecvOutput(j) PROVE UNCHANGED Lifecycle!lifecycleVars
  <2>1. \A i \in Job : Poll(i)' = Poll(i) /\ Open(i)' = Open(i)
    BY <1>1 DEF RecvOutput, Recv, Poll, Open, Cancelling, callVars
  <2> QED
    BY <2>1, Stutters
<1>2. ASSUME NEW j \in Job, RecvFinal(j) PROVE UNCHANGED Lifecycle!lifecycleVars
  <2>1. \A i \in Job : Poll(i)' = Poll(i) /\ Open(i)' = Open(i)
    BY <1>2 DEF RecvFinal, Recv, Poll, Open, Cancelling, callVars
  <2> QED
    BY <2>1, Stutters
<1>3. ASSUME NEW j \in Job, ApplyOutput(j) PROVE UNCHANGED Lifecycle!lifecycleVars
  <2>1. \A i \in Job : Poll(i)' = Poll(i) /\ Open(i)' = Open(i)
    BY <1>3 DEF ApplyOutput, Poll, Open, Cancelling, jobVars, callVars
  <2> QED
    BY <2>1, Stutters
<1>4. ASSUME NEW j \in Job, ApplyFinal(j) PROVE [Lifecycle!Next]_Lifecycle!lifecycleVars
  <2>1. \A i \in Job \ {j} : Poll(i)' = Poll(i) /\ Open(i)' = Open(i)
    BY <1>4 DEF ApplyFinal, Poll, Open, Cancelling, callVars
  <2>2. Open(j) /\ Open(j) \in BOOLEAN /\ Open(j)' \in BOOLEAN
    BY <1>4, OpenType DEF ApplyFinal, Open
  <2>3. j \in tracked => Poll(j)' \in Lifecycle!Outcome /\ Poll(j) \in {"running"} \cup Lifecycle!Outcome
    BY <1>4, PollType DEF ApplyFinal, OutcomeOf, Poll, Lifecycle!Outcome, IInv, TypeOK
  <2>4. j \notin tracked => Poll(j) = "gone" /\ Poll(j)' = "gone"
    BY <1>4, OutcomeType, PollType DEF ApplyFinal, Poll, IInv, TypeOK, JobInv
  <2> QED
    BY <2>1, <2>2, <2>3, <2>4, ReportStep, SettleStep
<1>5. ASSUME NEW j \in Job, DrainLock(j) PROVE UNCHANGED Lifecycle!lifecycleVars
  <2>1. \A i \in Job : Poll(i)' = Poll(i) /\ Open(i)' = Open(i)
    BY <1>5 DEF DrainLock, Poll, Open, Cancelling, callVars
  <2> QED
    BY <2>1, Stutters
<1>6. ASSUME NEW j \in Job, DrainClose(j) PROVE UNCHANGED Lifecycle!lifecycleVars
  <2>1. \A i \in Job : Poll(i)' = Poll(i) /\ Open(i)' = Open(i)
    BY <1>6 DEF DrainClose, Poll, Open, Cancelling, jobVars, callVars
  <2> QED
    BY <2>1, Stutters
<1>7. ASSUME NEW c \in Caller, NEW j \in Job, LaunchStream(c, j) PROVE UNCHANGED Lifecycle!lifecycleVars
  <2>1. \A i \in Job : Poll(i)' = Poll(i) /\ Open(i)' = Open(i)
    BY <1>7 DEF LaunchStream, Enter, Poll, Open, Cancelling, jobVars, drainVars
  <2> QED
    BY <2>1, Stutters
<1>8. ASSUME NEW c \in Caller, NEW j \in Job, CancelLookup(c, j) PROVE UNCHANGED Lifecycle!lifecycleVars
  <2>1. \A i \in Job : Poll(i)' = Poll(i) /\ Open(i)' = Open(i)
    BY <1>8 DEF CancelLookup, Enter, Poll, Open, Cancelling, jobVars, drainVars
  <2> QED
    BY <2>1, Stutters
<1>9. ASSUME NEW c \in Caller, NEW j \in Job, SignalLookup(c, j) PROVE UNCHANGED Lifecycle!lifecycleVars
  <2>1. \A i \in Job : Poll(i)' = Poll(i) /\ Open(i)' = Open(i)
    BY <1>9 DEF SignalLookup, Enter, Poll, Open, Cancelling, jobVars, drainVars
  <2> QED
    BY <2>1, Stutters
<1>10. ASSUME NEW c \in Caller, NEW s \in Sandbox, Drop(c, s) PROVE Lifecycle!Next
  <2> PICK R \in SUBSET Job : R \subseteq tracked /\ R = {j \in tracked : SandboxOf[j] = s}
    BY <1>10 DEF Drop, IInv, TypeOK
  <2>1. \A j \in Job : Poll(j)' = IF j \in R THEN "gone" ELSE Poll(j)
    BY <1>10 DEF Drop, Poll, IInv, JobInv
  <2>2. \A j \in Job : Open(j)' = Open(j)
    BY <1>10 DEF Drop, Open, Cancelling, drainVars
  <2>3. \A j \in R : Poll(j) \in {"running"} \cup Lifecycle!Outcome
    BY PollType DEF Lifecycle!Outcome
  <2> QED
    BY <2>1, <2>2, <2>3, ForgetStep
<1>11. ASSUME NEW c \in Caller, LaunchRegister(c) PROVE Lifecycle!Next
  <2> PICK j \in Job : j = target[c]
    BY <1>11 DEF LaunchRegister, IInv, CallInv
  <2>1. state[j] = "unborn" /\ j \notin tracked
    BY <1>11 DEF LaunchRegister, IInv, JobInv, CallInv
  <2>2. \A i \in Job \ {j} : Poll(i)' = Poll(i) /\ Open(i)' = Open(i)
    BY <1>11, <2>1 DEF LaunchRegister, Leave, Poll, Open, Cancelling
  <2>3. Poll(j) = "unborn" /\ Poll(j)' = "running"
    BY <1>11, <2>1 DEF LaunchRegister, Poll, IInv, TypeOK
  <2>4. Open(j)' = TRUE
    BY <1>11, <2>1 DEF LaunchRegister, Open, IInv, TypeOK
  <2> QED
    BY <2>2, <2>3, <2>4, StartStep
<1>12. ASSUME NEW c \in Caller, CancelFinished(c) PROVE UNCHANGED Lifecycle!lifecycleVars
  <2>1. \A i \in Job : Poll(i)' = Poll(i) /\ Open(i)' = Open(i)
    BY <1>12 DEF CancelFinished, Leave, Poll, Open, Cancelling, jobVars, drainVars
  <2> QED
    BY <2>1, Stutters
<1>13. ASSUME NEW c \in Caller, CancelRunning(c) PROVE UNCHANGED Lifecycle!lifecycleVars
  <2>1. \A i \in Job : Poll(i)' = Poll(i) /\ Open(i)' = Open(i)
    BY <1>13
      DEF CancelRunning, Advance, Poll, Open, Cancelling, jobVars, drainVars, IInv, JobInv
  <2> QED
    BY <2>1, Stutters
<1>14. ASSUME NEW c \in Caller, CancelContext(c) PROVE UNCHANGED Lifecycle!lifecycleVars
  <2>1. \A i \in Job : Poll(i)' = Poll(i) /\ Open(i)' = Open(i)
    BY <1>14 DEF CancelContext, Advance, Poll, Open, Cancelling, drainVars
  <2> QED
    BY <2>1, Stutters
<1>15. ASSUME NEW c \in Caller, KillLock(c) PROVE UNCHANGED Lifecycle!lifecycleVars
  <2>1. \A i \in Job : Poll(i)' = Poll(i) /\ Open(i)' = Open(i)
    BY <1>15 DEF KillLock, Advance, Poll, Open, Cancelling, drainVars
  <2> QED
    BY <2>1, Stutters
<1>16. ASSUME NEW c \in Caller, KillSkip(c) PROVE UNCHANGED Lifecycle!lifecycleVars
  <2>1. \A i \in Job : Poll(i)' = Poll(i) /\ Open(i)' = Open(i)
    BY <1>16 DEF KillSkip, AfterKill, Poll, Open, Cancelling, jobVars, drainVars, IInv, TypeOK
  <2> QED
    BY <2>1, Stutters
<1>17. ASSUME NEW c \in Caller, KillReturn(c) PROVE UNCHANGED Lifecycle!lifecycleVars
  <2>1. \A i \in Job : Poll(i)' = Poll(i) /\ Open(i)' = Open(i)
    BY <1>17 DEF KillReturn, AfterKill, Poll, Open, Cancelling, jobVars, drainVars, IInv, TypeOK
  <2> QED
    BY <2>1, Stutters
<1>18. ASSUME NEW c \in Caller, MarkKilled(c) PROVE [Lifecycle!Next]_Lifecycle!lifecycleVars
  <2> PICK j \in Job : j = target[c]
    BY <1>18 DEF MarkKilled, IInv, CallInv
  <2>1. \A i \in Job \ {j} : Poll(i)' = Poll(i) /\ Open(i)' = Open(i)
    BY <1>18 DEF MarkKilled, Advance, Poll, Open, Cancelling, drainVars
  <2>2. Open(j) /\ Open(j) \in BOOLEAN /\ Open(j)' \in BOOLEAN
    BY <1>18, OpenType DEF MarkKilled, Open, Cancelling, IInv, CallInv
  <2>3. j \in tracked => Poll(j)' \in Lifecycle!Outcome /\ Poll(j) \in {"running"} \cup Lifecycle!Outcome
    BY <1>18, PollType DEF MarkKilled, Poll, Lifecycle!Outcome, IInv, TypeOK
  <2>4. j \notin tracked => Poll(j) = "gone" /\ Poll(j)' = "gone"
    BY <1>18, PollType DEF MarkKilled, Poll, IInv, CallInv
  <2> QED
    BY <2>1, <2>2, <2>3, <2>4, ReportStep, SettleStep
<1>19. ASSUME NEW c \in Caller, CancelReturn(c) PROVE UNCHANGED Lifecycle!lifecycleVars
  <2>1. \A i \in Job : Poll(i)' = Poll(i) /\ Open(i)' = Open(i)
    BY <1>19 DEF CancelReturn, Leave, Poll, Open, Cancelling, jobVars, drainVars
  <2> QED
    BY <2>1, Stutters
<1>20. ASSUME NEW c \in Caller, SignalLock(c) PROVE UNCHANGED Lifecycle!lifecycleVars
  <2>1. \A i \in Job : Poll(i)' = Poll(i) /\ Open(i)' = Open(i)
    BY <1>20 DEF SignalLock, Advance, Poll, Open, Cancelling, jobVars, drainVars
  <2> QED
    BY <2>1, Stutters
<1>21. ASSUME NEW c \in Caller, SignalSkip(c) PROVE UNCHANGED Lifecycle!lifecycleVars
  <2>1. \A i \in Job : Poll(i)' = Poll(i) /\ Open(i)' = Open(i)
    BY <1>21 DEF SignalSkip, Leave, Poll, Open, Cancelling, jobVars, drainVars
  <2> QED
    BY <2>1, Stutters
<1>22. ASSUME NEW c \in Caller, SignalReturn(c) PROVE UNCHANGED Lifecycle!lifecycleVars
  <2>1. \A i \in Job : Poll(i)' = Poll(i) /\ Open(i)' = Open(i)
    BY <1>22 DEF SignalReturn, Leave, Poll, Open, Cancelling, jobVars, drainVars
  <2> QED
    BY <2>1, Stutters
<1>23. ASSUME NEW c \in Caller, DropNext(c) PROVE UNCHANGED Lifecycle!lifecycleVars
  <2>1. \A i \in Job : Poll(i)' = Poll(i) /\ Open(i)' = Open(i)
    BY <1>23 DEF DropNext, Poll, Open, Cancelling, drainVars
  <2> QED
    BY <2>1, Stutters
<1>24. ASSUME NEW S \in SUBSET Job, Evict(S) PROVE Lifecycle!Next
  <2> PICK R \in SUBSET Job : R \subseteq tracked /\ R = S
    BY <1>24 DEF Evict
  <2>1. \A j \in Job : Poll(j)' = IF j \in R THEN "gone" ELSE Poll(j)
    BY <1>24 DEF Evict, Poll, IInv, JobInv
  <2>2. \A j \in Job : Open(j)' = Open(j)
    BY <1>24 DEF Evict, Open, Cancelling, drainVars, callVars
  <2>3. \A j \in R : Poll(j) \in {"running"} \cup Lifecycle!Outcome
    BY PollType DEF Lifecycle!Outcome
  <2> QED
    BY <2>1, <2>2, <2>3, ForgetStep
<1>25. ASSUME Restart PROVE Lifecycle!Next
  <2>1. \A j \in Job : Poll(j)' = IF Poll(j) = "unborn" THEN "unborn" ELSE "gone"
    BY <1>25, PollType DEF Restart, Poll
  <2>2. \A j \in Job : Open(j)' = FALSE
    BY <1>25 DEF Restart, Open, Cancelling
  <2> QED
    BY <2>1, <2>2, LoseStep
<1>26. CASE UNCHANGED vars
  <2>1. \A i \in Job : Poll(i)' = Poll(i) /\ Open(i)' = Open(i)
    BY <1>26 DEF vars, jobVars, drainVars, callVars, Poll, Open, Cancelling
  <2> QED
    BY <2>1, Stutters
<1> QED
  BY <1>1, <1>2, <1>3, <1>4, <1>5, <1>6, <1>7, <1>8, <1>9, <1>10, <1>11, <1>12, <1>13, <1>14,
     <1>15, <1>16, <1>17, <1>18, <1>19, <1>20, <1>21, <1>22, <1>23, <1>24, <1>25, <1>26
    DEF Next, DrainStep, CallStart, CallStep

\* What pollers observe is the contract of JobLifecycle.
THEOREM ImplementsLifecycle == Spec => LifecycleSpec
<1>1. Init => Lifecycle!Init
  BY LifecycleInit
<1>2. IInv /\ [Next]_vars => [Lifecycle!Next]_Lifecycle!lifecycleVars
  BY LifecycleStep
<1> QED
  BY <1>1, <1>2, Invariance, PTL DEF Spec, LifecycleSpec, Lifecycle!Spec

\* What a poller has been told of a job stays true of it: never running again, never back
\* from gone, and final once settled, whatever cancels, signals, drops and restarts do.
THEOREM AnswersStayTrue == Spec => Lifecycle!NeverBack /\ Lifecycle!SettledIsFinal
<1> USE DEF Lifecycle!Status, Lifecycle!Outcome
<1> DEFINE Back ==
             \A j \in Job :
               /\ StatusOf[j] \notin {"unborn", "running"} => StatusOf'[j] # "running"
               /\ StatusOf[j] = "gone" => StatusOf'[j] = "gone"
           Final ==
             \A j \in Job :
               ~OpenOf[j] /\ StatusOf[j] \in Lifecycle!Outcome =>
                 ~OpenOf'[j] /\ StatusOf'[j] \in {StatusOf[j], "gone"}
<1>1. Lifecycle!Next => Back /\ Final
  BY DEF Lifecycle!Next, Lifecycle!Start, Lifecycle!Report, Lifecycle!Settle, Lifecycle!Forget,
         Lifecycle!Lose, StatusOf, OpenOf
<1> QED
  BY <1>1, ImplementsLifecycle, PTL
  DEF LifecycleSpec, Lifecycle!Spec, Lifecycle!NeverBack, Lifecycle!SettledIsFinal, StatusOf,
      OpenOf
-----------------------------------------------------------------------------
(* What the run panel shows last, for any number of clicks on Cancel       *)
(*                                                                         *)
(* The flag is set before the job is looked at, and taken only by a poll   *)
(* that found the job ended; a job that has ended is never found running   *)
(* again.  So a click that finds it running has its flag still up, or the  *)
(* panel has been told by another click (Shown).                           *)

\* While the job has not been dropped: it is in the map, so no click fails; an end that was
\* polled is one the job has come to; a click that can still find it running has its flag
\* up; and one that has found it running is shown, or will be when the flag is taken.
Shown ==
  ~dropped =>
    /\ inMap
    /\ \A c \in Panel!Cancel : request[c] # "unmarking"
    /\ polled # "running" => pJob # "running"
    /\ pJob = "running" => \A c \in Click : request[c] \in {"marked", "found"} => flag
    /\ \A c \in Click : request[c] \in {"cancelling", "killing", "killed"} =>
         view = "cancelled" \/ (flag /\ view = "running")

\* The panel says that the command has ended only after a poll that said so, and then the
\* stream is over.
LastView == view # "running" => polled # "running" /\ stream \in {"showing", "left"}

PanelInv == Panel!TypeOK /\ Shown /\ LastView

\* The job runs and the panel shows it running.
LEMMA PanelInit == Panel!Init => PanelInv
BY DEF Panel!Init, PanelInv, Panel!TypeOK, Shown, LastView, Panel!Outcome, Panel!RequestAt,
       Panel!Cancel

\* Every step of the job, the stream and the requests keeps the invariant.
LEMMA PanelStep == PanelInv /\ [Panel!Next]_Panel!vars => PanelInv'
<1> SUFFICES ASSUME PanelInv, [Panel!Next]_Panel!vars
             PROVE  PanelInv'
  OBVIOUS
<1> USE DEF PanelInv, Panel!TypeOK, Shown, LastView, Panel!Outcome, Panel!FinalEvent,
            Panel!RequestAt, Panel!Cancel, Panel!jobVars, Panel!Goto
<1>1. ASSUME NEW e \in Panel!FinalEvent, Panel!JobRecv(e) PROVE PanelInv'
  BY <1>1 DEF Panel!JobRecv
<1>2. CASE Panel!JobEnds
  <2>1. pJob' \in Panel!Outcome
    BY <1>2 DEF Panel!JobEnds, Panel!OutcomeOf
  <2> QED
    BY <1>2, <2>1 DEF Panel!JobEnds
<1>3. CASE Panel!JobForgotten
  <2>1. inMap' \in BOOLEAN /\ pStopped' \in BOOLEAN /\ dropped'
    BY <1>3 DEF Panel!JobForgotten
  <2> QED
    BY <1>3, <2>1 DEF Panel!JobForgotten
<1>4. CASE Panel!Poll
  BY <1>4 DEF Panel!Poll, Panel!Answer
<1>5. CASE Panel!TakeCancelled
  BY <1>5 DEF Panel!TakeCancelled
<1>6. CASE Panel!Show
  BY <1>6 DEF Panel!Show
<1>7. CASE Panel!Wait
  BY <1>7 DEF Panel!Wait
<1>8. ASSUME NEW c \in Panel!Cancel, Panel!MarkCancelled(c) PROVE PanelInv'
  BY <1>8 DEF Panel!MarkCancelled
<1>9. ASSUME NEW c \in Panel!Cancel, Panel!CancelLookup(c) PROVE PanelInv'
  BY <1>9 DEF Panel!CancelLookup
<1>10. ASSUME NEW c \in Panel!Cancel, Panel!CancelFails(c) PROVE PanelInv'
  BY <1>10 DEF Panel!CancelFails
<1>11. ASSUME NEW c \in Panel!Cancel, Panel!CancelRunning(c) PROVE PanelInv'
  BY <1>11 DEF Panel!CancelRunning
<1>12. ASSUME NEW c \in Panel!Cancel, Panel!CancelFinished(c) PROVE PanelInv'
  BY <1>12 DEF Panel!CancelFinished
<1>13. ASSUME NEW c \in Panel!Cancel, Panel!CancelContext(c) PROVE PanelInv'
  BY <1>13 DEF Panel!CancelContext
<1>14. ASSUME NEW c \in Panel!Cancel, Panel!CancelKilled(c) PROVE PanelInv'
  <2>1. Panel!TypeOK'
    BY <1>14 DEF Panel!CancelKilled
  <2>2. Shown'
    <3>1. request' = [request EXCEPT ![c] = "killed"] /\ request[c] = "killing"
      BY <1>14 DEF Panel!CancelKilled
    <3>2. /\ pJob' = "killed" /\ inMap' = inMap /\ polled' = polled /\ flag' = flag
          /\ view' = view /\ dropped' = dropped
      BY <1>14 DEF Panel!CancelKilled
    <3>3. /\ \A d \in Panel!Cancel : request'[d] = "unmarking" => request[d] = "unmarking"
          /\ \A d \in Click : request'[d] \in {"cancelling", "killing", "killed"} =>
               request[d] \in {"cancelling", "killing", "killed"}
      BY <3>1
    <3> QED
      BY <3>2, <3>3
  <2>3. LastView'
    BY <1>14 DEF Panel!CancelKilled
  <2> QED
    BY <2>1, <2>2, <2>3
<1>15. ASSUME NEW c \in Panel!Cancel, Panel!Unmark(c) PROVE PanelInv'
  <2>1. dropped
    BY <1>15 DEF Panel!Unmark
  <2>2. dropped' = dropped
    BY <1>15 DEF Panel!Unmark
  <2>3. Shown'
    BY <2>1, <2>2
  <2>4. Panel!TypeOK'
    <3>1. request' \in [Panel!Cancel -> Panel!RequestAt]
      BY <1>15 DEF Panel!Unmark
    <3>2. flag' \in BOOLEAN
      BY <1>15 DEF Panel!Unmark
    <3> QED
      BY <1>15, <3>1, <3>2 DEF Panel!Unmark
  <2>5. LastView'
    BY <1>15 DEF Panel!Unmark
  <2> QED
    BY <2>3, <2>4, <2>5
<1>16. CASE UNCHANGED Panel!vars
  BY <1>16 DEF Panel!vars
<1> QED
  BY <1>1, <1>2, <1>3, <1>4, <1>5, <1>6, <1>7, <1>8, <1>9, <1>10, <1>11, <1>12, <1>13, <1>14,
     <1>15, <1>16
  DEF Panel!Next, Panel!StreamStep, Panel!RequestStep, Panel!Stopped

\* A command that a click has found running is never shown as done or dead.
THEOREM PanelShowsKill == Panel!Spec => []KillShown
<1>1. PanelInv => KillShown
  BY DEF PanelInv, Shown, LastView, KillShown, Panel!KillShown, Panel!Ended
<1> QED
  BY <1>1, PanelInit, PanelStep, PTL DEF Panel!Spec

\* Every reachable state of RunPanel is well typed.
THEOREM PanelTypeCorrect == Panel!Spec => []Panel!TypeOK
<1>1. PanelInv => Panel!TypeOK
  BY DEF PanelInv
<1> QED
  BY <1>1, PanelInit, PanelStep, PTL DEF Panel!Spec

\* Somebody has asked when anything says so that only a cancel can set.
Asked ==
  flag \/ pJob = "killed" \/ polled = "killed" \/ view = "cancelled"
    => \E c \in Panel!Cancel : request[c] # "idle"

\* A request does not return to where it was before it was made.
LEMMA StaysMade ==
  ASSUME NEW c \in Panel!Cancel, NEW at \in Panel!RequestAt \ {"idle"}, PanelInv,
         Panel!Goto(c, at)
  PROVE  \E d \in Panel!Cancel : request'[d] # "idle"
BY DEF PanelInv, Panel!TypeOK, Panel!Goto

\* Every step keeps Asked: only MarkCancelled and CancelKilled say anything new.
LEMMA AskedStep == PanelInv /\ Asked /\ [Panel!Next]_Panel!vars => Asked'
<1> SUFFICES ASSUME PanelInv, Asked, [Panel!Next]_Panel!vars
             PROVE  Asked'
  OBVIOUS
<1> USE DEF Asked, Panel!jobVars
<1>1. ASSUME NEW e \in Panel!FinalEvent, Panel!JobRecv(e) PROVE Asked'
  BY <1>1 DEF Panel!JobRecv
<1>2. CASE Panel!JobEnds
  <2>1. pJob' = "killed" => pJob = "killed"
    BY <1>2 DEF Panel!JobEnds, Panel!OutcomeOf, Panel!FinalEvent
  <2> QED
    BY <1>2, <2>1 DEF Panel!JobEnds
<1>3. CASE Panel!JobForgotten
  BY <1>3 DEF Panel!JobForgotten
<1>4. CASE Panel!Poll
  BY <1>4 DEF Panel!Poll, Panel!Answer
<1>5. CASE Panel!TakeCancelled
  BY <1>5 DEF Panel!TakeCancelled, PanelInv, Panel!TypeOK, Panel!Outcome
<1>6. CASE Panel!Show
  BY <1>6 DEF Panel!Show
<1>7. CASE Panel!Wait
  BY <1>7 DEF Panel!Wait
<1>8. ASSUME NEW c \in Panel!Cancel, Panel!MarkCancelled(c) \/ Panel!RequestStep(c)
      PROVE  Asked'
  <2>1. \E at \in Panel!RequestAt \ {"idle"} : Panel!Goto(c, at)
    BY <1>8 DEF Panel!RequestAt, Panel!MarkCancelled, Panel!RequestStep, Panel!CancelLookup,
                Panel!CancelFails, Panel!CancelRunning, Panel!CancelFinished,
                Panel!CancelContext, Panel!CancelKilled, Panel!Unmark
  <2> QED
    BY <2>1, StaysMade
<1>9. CASE UNCHANGED Panel!vars
  BY <1>9 DEF Panel!vars
<1> QED
  BY <1>1, <1>2, <1>3, <1>4, <1>5, <1>6, <1>7, <1>8, <1>9
  DEF Panel!Next, Panel!StreamStep, Panel!Stopped

\* A panel says "cancelled" only if somebody asked for it.
THEOREM PanelCancelsOnRequest == Panel!Spec => []Panel!CancelledWasAsked
<1>1. Panel!Init => Asked
  BY DEF Panel!Init, Asked
<1>2. Asked => Panel!CancelledWasAsked
  BY DEF Asked, Panel!CancelledWasAsked
<1> QED
  BY <1>1, <1>2, PanelInit, PanelStep, AskedStep, PTL DEF Panel!Spec
-----------------------------------------------------------------------------
(* The output buffer of a job, for any capacity and any writes             *)
(*                                                                         *)
(* The output is always what has been lost followed by the buffer, and     *)
(* something is lost only when the buffer is full and the flag up (LostIs).*)

\* The output is what has been lost and the buffer after it.
LostIs(lost) ==
  /\ lost \in Seq(Byte)
  /\ written = lost \o buf
  /\ lost # <<>> => trunc /\ Len(buf) = RingCap

RingInv ==
  /\ Ring!TypeOK
  /\ total = Len(written)
  /\ \E lost : LostIs(lost)

\* A sequence is its first k elements and the rest.
LEMMA DropSplits ==
  ASSUME NEW S, NEW s \in Seq(S), NEW k \in 0..Len(s)
  PROVE  /\ Ring!Drop(s, k) \in Seq(S)
         /\ Len(Ring!Drop(s, k)) = Len(s) - k
         /\ SubSeq(s, 1, k) \in Seq(S)
         /\ s = SubSeq(s, 1, k) \o Ring!Drop(s, k)
<1>1. Len(s) \in Nat /\ \A i \in 1..Len(s) : s[i] \in S
  BY LenProperties, ElementOfSeq
<1>2. SubSeq(s, 1, k) \in Seq(S)
  BY <1>1, SubSeqProperties
<1>3. /\ SubSeq(s, k + 1, Len(s)) \in Seq(S)
      /\ Len(SubSeq(s, k + 1, Len(s))) = Len(s) - k
  BY <1>1, SubSeqProperties
<1>4. SubSeq(s, 1, k) \o SubSeq(s, k + 1, Len(s)) = s
  <2>1. /\ 1 \in 1..(Len(s) + 1) /\ k \in (1 - 1)..Len(s) /\ Len(s) \in k..Len(s)
    BY <1>1
  <2>2. SubSeq(s, 1, k) \o SubSeq(s, k + 1, Len(s)) = SubSeq(s, 1, Len(s))
    BY <2>1, ConcatAdjacentSubSeq
  <2> QED
    BY <2>2, SubSeqFull
<1> QED
  BY <1>2, <1>3, <1>4 DEF Ring!Drop

\* Without its first part, a concatenation is its second.
LEMMA DropConcat ==
  ASSUME NEW S, NEW s \in Seq(S), NEW t \in Seq(S)
  PROVE  Ring!Drop(s \o t, Len(s)) = t
<1>1. /\ s \o t \in Seq(S) /\ Len(s \o t) = Len(s) + Len(t) /\ Len(s) \in Nat /\ Len(t) \in Nat
  BY ConcatProperties, LenProperties
<1>2. CASE Len(t) = 0
  <2>1. t = <<>> /\ Ring!Drop(s \o t, Len(s)) = <<>>
    BY <1>1, <1>2, EmptySeq, SubSeqEmpty DEF Ring!Drop
  <2> QED
    BY <2>1
<1>3. CASE Len(t) > 0
  <2>1. SubSeq(s \o t, Len(s) + 1, Len(s \o t)) = SubSeq(t, 1, Len(t))
    BY <1>1, <1>3, SubSeqOfConcat2
  <2> QED
    BY <2>1, SubSeqFull DEF Ring!Drop
<1> QED
  BY <1>1, <1>2, <1>3

\* Nothing is written and nothing is lost.
LEMMA RingInit == ASSUME Buffer PROVE Ring!Init => RingInv
<1> SUFFICES ASSUME Ring!Init PROVE RingInv
  OBVIOUS
<1>1. Ring!TypeOK /\ total = Len(written)
  <2>1. <<>> \in Seq(Byte) /\ Len(<<>>) = 0
    BY EmptySeq
  <2>2. trunc \in BOOLEAN /\ buf = <<>> /\ written = <<>> /\ total = 0
    BY DEF Ring!Init
  <2> QED
    BY <2>1, <2>2 DEF Buffer, Ring!TypeOK
<1>2. LostIs(<<>>)
  BY EmptySeq, ConcatEmptySeq DEF Ring!Init, LostIs
<1> QED
  BY <1>1, <1>2 DEF RingInv

\* Each of the three ways to write drops from the front what does not fit.
LEMMA RingWrite ==
  ASSUME Buffer, RingInv, NEW p \in Seq(Byte), Ring!Write(p)
  PROVE  RingInv'
<1>1. PICK lost : LostIs(lost)
  BY DEF RingInv
<1>2. /\ buf \in Seq(Byte) /\ lost \in Seq(Byte) /\ written = lost \o buf
      /\ lost # <<>> => trunc /\ Len(buf) = RingCap
      /\ Len(buf) \in Nat /\ Len(p) \in Nat
      /\ Len(buf) <= RingCap /\ RingCap \in Nat \ {0}
  BY <1>1, LenProperties DEF RingInv, Ring!TypeOK, LostIs, Buffer
<1>3. \A s, t \in Seq(Byte) : s \o t \in Seq(Byte) /\ Len(s \o t) = Len(s) + Len(t)
  BY ConcatProperties
<1>4. \A s, t, u \in Seq(Byte) : (s \o t) \o u = s \o (t \o u)
  BY ConcatAssociative
<1>5. written' = (lost \o buf) \o p
  BY <1>2 DEF Ring!Write
<1>6. written' \in Seq(Byte) /\ total' = Len(written') /\ total' \in 0..MaxTotal
  <2>1. written \in Seq(Byte) /\ Len(written) \in Nat /\ MaxTotal \in Nat
    BY LenProperties DEF RingInv, Ring!TypeOK, Buffer
  <2> QED
    BY <1>2, <1>3, <2>1 DEF Ring!Write, Ring!Written, RingInv
<1>7. ASSUME NEW gone \in Seq(Byte), written' = gone \o buf', buf' \in Seq(Byte),
             Len(buf') <= RingCap, trunc' \in BOOLEAN,
             gone # <<>> => trunc' /\ Len(buf') = RingCap
      PROVE  RingInv'
  BY <1>6, <1>7 DEF RingInv, LostIs, Ring!TypeOK
<1>8. CASE Ring!Replace(p)
  <2> DEFINE head == SubSeq(p, 1, Len(p) - RingCap)
             gone == (lost \o buf) \o head
  <2>1. Len(p) - RingCap \in 0..Len(p) /\ buf' = Ring!Drop(p, Len(p) - RingCap)
    BY <1>2, <1>8 DEF Ring!Replace
  <2>2. /\ buf' \in Seq(Byte) /\ Len(buf') = Len(p) - (Len(p) - RingCap)
        /\ head \in Seq(Byte) /\ p = head \o buf'
    BY <2>1, DropSplits
  <2>3. trunc' /\ trunc' \in BOOLEAN /\ Len(buf') = RingCap /\ Len(buf') <= RingCap
    BY <1>2, <1>8, <2>2 DEF Ring!Replace
  <2> HIDE DEF head
  <2>4. lost \o buf \in Seq(Byte) /\ gone \in Seq(Byte)
    BY <1>2, <1>3, <2>2
  <2>5. (lost \o buf) \o (head \o buf') = gone \o buf'
    <3>1. head \in Seq(Byte) /\ buf' \in Seq(Byte)
      BY <2>2
    <3> QED
      BY <1>4, <2>4, <3>1
  <2>6. written' = gone \o buf'
    BY <1>5, <2>2, <2>5
  <2> HIDE DEF gone
  <2> QED
    BY <1>7, <2>2, <2>3, <2>4, <2>6
<1>9. CASE Ring!Shift(p)
  <2> DEFINE k == Ring!Overrun(p)
             head == SubSeq(buf, 1, k)
             rest == Ring!Drop(buf, k)
             gone == lost \o head
  <2>1. k \in 0..Len(buf) /\ Len(buf) - k = RingCap - Len(p)
    BY <1>2, <1>9 DEF Ring!Shift, Ring!Overrun
  <2>2. /\ rest \in Seq(Byte) /\ head \in Seq(Byte) /\ buf = head \o rest
        /\ Len(rest) = RingCap - Len(p)
    BY <1>2, <2>1, DropSplits
  <2>3. buf' = rest \o p /\ trunc' /\ trunc' \in BOOLEAN
    BY <1>9 DEF Ring!Shift
  <2> HIDE DEF k, head, rest
  <2>4. buf' \in Seq(Byte) /\ Len(buf') = RingCap /\ Len(buf') <= RingCap
    BY <1>2, <1>3, <2>2, <2>3
  <2>5. gone \in Seq(Byte) /\ lost \o (head \o rest) = gone \o rest
    <3>1. lost \in Seq(Byte) /\ head \in Seq(Byte) /\ rest \in Seq(Byte)
      BY <1>2, <2>2
    <3>2. lost \o head \in Seq(Byte)
      BY <1>3, <3>1
    <3>3. lost \o (head \o rest) = (lost \o head) \o rest
      BY <1>4, <3>1
    <3> QED
      BY <3>2, <3>3
  <2> HIDE DEF gone
  <2>6. (gone \o rest) \o p = gone \o (rest \o p)
    BY <1>4, <2>2, <2>5
  <2>7. written' = gone \o buf'
    BY <1>5, <2>2, <2>3, <2>5, <2>6
  <2> QED
    BY <1>7, <2>3, <2>4, <2>5, <2>7
<1>10. CASE Ring!Extend(p)
  <2>1. /\ buf' = buf \o p /\ trunc' = trunc /\ Len(buf) + Len(p) <= RingCap
        /\ Len(buf) = RingCap => Len(p) = 0
    BY <1>2, <1>10 DEF Ring!Extend, Ring!Overrun
  <2>2. buf' \in Seq(Byte) /\ Len(buf') = Len(buf) + Len(p)
    BY <1>2, <1>3, <2>1
  <2>3. written' = lost \o buf'
    <3>1. (lost \o buf) \o p = lost \o (buf \o p)
      BY <1>2, <1>4
    <3> QED
      BY <1>5, <2>1, <3>1
  <2>4. (lost # <<>> => trunc' /\ Len(buf') = RingCap) /\ Len(buf') <= RingCap
    BY <1>2, <2>1, <2>2
  <2>5. trunc' \in BOOLEAN
    BY <2>1 DEF RingInv, Ring!TypeOK
  <2> QED
    BY <1>2, <1>7, <2>2, <2>3, <2>4, <2>5
<1> QED
  BY <1>8, <1>9, <1>10 DEF Ring!Write

\* Every step keeps the invariant.
LEMMA RingStep == ASSUME Buffer PROVE RingInv /\ [Ring!Next]_Ring!ringVars => RingInv'
<1> SUFFICES ASSUME RingInv, [Ring!Next]_Ring!ringVars PROVE RingInv'
  OBVIOUS
<1>1. ASSUME NEW k \in 1..MaxWrite, NEW p \in [1..k -> Byte], Ring!Write(p) PROVE RingInv'
  <2>1. p \in Seq(Byte)
    BY SeqDef DEF Buffer
  <2> QED
    BY <1>1, <2>1, RingWrite
<1>2. CASE UNCHANGED Ring!ringVars
  BY <1>2 DEF RingInv, Ring!TypeOK, Ring!ringVars, LostIs
<1> QED
  BY <1>1, <1>2 DEF Ring!Next

\* The buffer is the tail of the output, and a lost byte is never concealed, whatever the
\* capacity and the sizes of the writes.
THEOREM RingIsFaithful == ASSUME Buffer PROVE Ring!Spec => []RingFaithful
<1>1. RingInv => RingFaithful
  <2> SUFFICES ASSUME RingInv PROVE RingFaithful
    OBVIOUS
  <2>1. PICK lost : LostIs(lost)
    BY DEF RingInv
  <2>2. /\ lost \in Seq(Byte) /\ buf \in Seq(Byte) /\ written = lost \o buf
        /\ lost # <<>> => trunc /\ Len(buf) = RingCap
    BY <2>1 DEF RingInv, LostIs, Ring!TypeOK
  <2>3. Len(lost) \in 0..Len(written) /\ (Len(lost) = 0 <=> lost = <<>>)
    BY <2>2, ConcatProperties, LenProperties, EmptySeq
  <2>4. buf = Ring!Drop(written, Len(lost))
    BY <2>2, DropConcat
  <2>5. Ring!HoldsTail
    BY <2>2, <2>3, <2>4 DEF Ring!HoldsTail
  <2>6. ~trunc => buf = written
    BY <2>2, ConcatEmptySeq
  <2> QED
    BY <2>5, <2>6 DEF RingFaithful, Ring!RingFaithful, Ring!LossIsReported, RingInv
<1> QED
  BY <1>1, RingInit, RingStep, PTL DEF Ring!Spec

\* Every reachable state of RingBuffer is well typed.
THEOREM RingTypeCorrect == ASSUME Buffer PROVE Ring!Spec => []Ring!TypeOK
<1>1. RingInv => Ring!TypeOK
  BY DEF RingInv
<1> QED
  BY <1>1, RingInit, RingStep, PTL DEF Ring!Spec

\* The flag goes up only with as much output as the buffer holds: the truncation it reports
\* is true, or the output fills the buffer exactly.
THEOREM FlagNeedsFull == ASSUME Buffer PROVE Ring!Spec => []Ring!TruncatedMeansFull
<1>1. Ring!Init => Ring!TruncatedMeansFull
  BY DEF Ring!Init, Ring!TruncatedMeansFull
<1>2. ASSUME RingInv, Ring!TruncatedMeansFull, NEW p \in Seq(Byte), Ring!Write(p)
      PROVE  Ring!TruncatedMeansFull'
  <2>1. PICK lost : LostIs(lost)
    BY <1>2 DEF RingInv
  <2>2. /\ lost \in Seq(Byte) /\ buf \in Seq(Byte) /\ written \in Seq(Byte)
        /\ written = lost \o buf
    BY <1>2, <2>1 DEF RingInv, Ring!TypeOK, LostIs
  <2>3. /\ Len(written) \in Nat /\ Len(buf) \in Nat /\ Len(p) \in Nat
        /\ Len(buf) <= Len(written)
    BY <2>2, ConcatProperties, LenProperties
  <2>4. Len(written') = Len(written) + Len(p)
    BY <1>2, <2>2, ConcatProperties DEF Ring!Write
  <2>5. RingCap \in Nat
    BY DEF Buffer
  <2>6. CASE Ring!Replace(p)
    <3>1. Len(p) >= RingCap
      BY <2>6 DEF Ring!Replace
    <3>2. Len(written') >= RingCap
      BY <2>3, <2>4, <2>5, <3>1
    <3> QED
      BY <3>2 DEF Ring!TruncatedMeansFull
  <2>7. CASE Ring!Shift(p)
    <3>1. Len(buf) + Len(p) - RingCap > 0
      BY <2>7 DEF Ring!Shift, Ring!Overrun
    <3>2. Len(written') >= RingCap
      BY <2>3, <2>4, <2>5, <3>1
    <3> QED
      BY <3>2 DEF Ring!TruncatedMeansFull
  <2>8. CASE Ring!Extend(p)
    <3>1. trunc' = trunc /\ (trunc => Len(written) >= RingCap)
      BY <1>2, <2>8 DEF Ring!Extend, Ring!TruncatedMeansFull
    <3>2. trunc' => Len(written') >= RingCap
      BY <2>3, <2>4, <2>5, <3>1
    <3> QED
      BY <3>2 DEF Ring!TruncatedMeansFull
  <2> QED
    BY <1>2, <2>6, <2>7, <2>8 DEF Ring!Write
<1>3. RingInv /\ Ring!TruncatedMeansFull /\ [Ring!Next]_Ring!ringVars => Ring!TruncatedMeansFull'
  <2> SUFFICES ASSUME RingInv, Ring!TruncatedMeansFull, [Ring!Next]_Ring!ringVars
               PROVE  Ring!TruncatedMeansFull'
    OBVIOUS
  <2>1. ASSUME NEW k \in 1..MaxWrite, NEW p \in [1..k -> Byte], Ring!Write(p)
        PROVE  Ring!TruncatedMeansFull'
    <3>1. p \in Seq(Byte)
      BY SeqDef DEF Buffer
    <3> QED
      BY <1>2, <2>1, <3>1
  <2>2. CASE UNCHANGED Ring!ringVars
    BY <2>2 DEF Ring!TruncatedMeansFull, Ring!ringVars
  <2> QED
    BY <2>1, <2>2 DEF Ring!Next
<1> QED
  BY <1>1, <1>3, RingInit, RingStep, PTL DEF Ring!Spec
=============================================================================
