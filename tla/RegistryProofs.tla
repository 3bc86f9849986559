---------------------------- MODULE RegistryProofs ----------------------------
(***************************************************************************)
(* The handle cache for any number of requests and boots.                  *)
(*                                                                         *)
(* But for Create, only the leader of the flight starts the sandbox or     *)
(* fills the cache, and it does so only after it found the cache empty; so *)
(* a boot never happens behind the back of a cached handle, which is why a *)
(* stale handle belongs to a sandbox that is down, or came from a Create   *)
(* that cached it late.                                                    *)
(*                                                                         *)
(* Below is what the registry and the job map remember of a sandbox that   *)
(* is deleted (Record), which has a state of its own.                      *)
(***************************************************************************)
EXTENDS SandboxState, TLAPS

LeaderInv ==
  \A c \in Caller :
    /\ pc[c] \in Filling => live = NoHandle \/ late
    /\ pc[c] \in {"verifying", "reverifying", "caching"} => hnd[c] = boot
    /\ pc[c] = "caching" => boot \in up

\* A sandbox that runs is in an incarnation whose guest agent came up.
RunningIsUp == vm = "running" => boot \in up

\* What CreateSandbox returns is the first incarnation, which came up; before it has
\* appeared, there is nothing but requests that create.
CreateInv ==
  /\ boot > 0 => 1 \in up
  /\ boot = 0 =>
       /\ up = {}
       /\ \A c \in Caller : pc[c] \in {"idle", "creating", "cleanStop", "cleanRemove", "error"}
  /\ \A c \in Caller : pc[c] = "created" => hnd[c] \in up

IInv ==
  /\ TypeOK
  /\ OneFlight
  /\ LeaderInv
  /\ RunningIsUp
  /\ CreateInv
  /\ NoDeadHandle
  /\ StuckOnlyByCreate
-----------------------------------------------------------------------------
\* A boot within the bound has a handle of its own.
LEMMA NextBoot ==
  ASSUME TypeOK, boot < MaxBoots
  PROVE  boot + 1 \in Handle
  BY RegistryAssumption DEF TypeOK, Handle

\* No handle and the handle of the first boot are handles.
LEMMA Handles == NoHandle \in Handle /\ 1 \in Handle
  BY RegistryAssumption DEF Handle, NoHandle

\* Start, on any of its outcomes, keeps every variable within its type.
LEMMA StartType ==
  ASSUME TypeOK, NEW c \in Caller, NEW here, NEW n \in At, "publish" \in At, Start(c, here, n)
  PROVE  TypeOK'
<1>1. CASE /\ vm' = vm /\ boot' = boot /\ up' = up /\ awake' = awake
           /\ pc' = [pc EXCEPT ![c] = "publish"] /\ UNCHANGED <<kind, hnd, genuine>>
  BY <1>1 DEF Start, TypeOK
<1>2. CASE /\ boot + 1 \in Handle
           /\ vm' \in VmState /\ boot' = boot + 1 /\ up' \subseteq up \cup {boot + 1}
           /\ awake' \subseteq Caller
           /\ hnd' = [hnd EXCEPT ![c] = boot + 1] /\ pc' = [pc EXCEPT ![c] = n]
           /\ UNCHANGED <<kind, genuine>>
  BY <1>2 DEF Start, TypeOK
<1> QED
  BY <1>1, <1>2, NextBoot DEF Start, Goto, Take, TypeOK, VmState, sandboxVars

\* No step of a request, of the guest or of the host takes a variable out of its type.
LEMMA TypeStep ==
  TypeOK /\ [Next]_vars => TypeOK'
<1> SUFFICES ASSUME TypeOK, [Next]_vars
             PROVE  TypeOK'
  OBVIOUS
<1>1. ASSUME NEW c \in Caller, NEW k \in Kind, NEW n \in {"resolve", "stopGet", "delGet"},
             Request(c, k, n)
      PROVE  TypeOK'
  BY <1>1 DEF Request, sandboxVars, TypeOK, At
<1>2. ASSUME NEW c \in Caller, Return(c)
      PROVE  TypeOK'
  BY <1>2, RegistryAssumption DEF Return, sandboxVars, TypeOK, Kind, At, Handle, NoHandle
<1>3. ASSUME NEW c \in Caller, Hit(c)
      PROVE  TypeOK'
  BY <1>3 DEF Hit, Take, Resolved, sandboxVars, TypeOK, At
<1>4. ASSUME NEW c \in Caller, Miss(c)
      PROVE  TypeOK'
  BY <1>4 DEF Miss, Goto, sandboxVars, TypeOK, At
<1>5. ASSUME NEW c \in Caller, Lead(c)
      PROVE  TypeOK'
  BY <1>5 DEF Lead, Goto, sandboxVars, TypeOK, At, Leading
<1>6. ASSUME NEW c \in Caller, Join(c)
      PROVE  TypeOK'
  BY <1>6 DEF Join, Goto, sandboxVars, TypeOK, At
<1>7. ASSUME NEW c \in Caller, Recheck(c)
      PROVE  TypeOK'
  BY <1>7 DEF Recheck, Take, sandboxVars, TypeOK, At, Leading
<1>8. ASSUME NEW c \in Caller, Look(c)
      PROVE  TypeOK'
  BY <1>8 DEF Look, Goto, sandboxVars, TypeOK, At, Leading
<1>9. ASSUME NEW c \in Caller, Connect(c)
      PROVE  TypeOK'
  BY <1>9 DEF Connect, Goto, Take, sandboxVars, TypeOK, At, Leading
<1>10. ASSUME NEW c \in Caller, Start(c, "booting", "verifying")
      PROVE  TypeOK'
  BY <1>10, StartType DEF At, Leading
<1>11. ASSUME NEW c \in Caller, Verify(c, "verifying", "recovering")
      PROVE  TypeOK'
  BY <1>11, RegistryAssumption
    DEF Verify, Goto, Take, sandboxVars, TypeOK, At, Leading, Handle, NoHandle
<1>12. ASSUME NEW c \in Caller, Recover(c)
      PROVE  TypeOK'
  BY <1>12 DEF Recover, Goto, TypeOK, VmState, At, Leading
<1>13. ASSUME NEW c \in Caller, Start(c, "rebooting", "reverifying")
      PROVE  TypeOK'
  BY <1>13, StartType DEF At, Leading
<1>14. ASSUME NEW c \in Caller, Verify(c, "reverifying", "publish")
      PROVE  TypeOK'
  BY <1>14, RegistryAssumption
    DEF Verify, Goto, Take, sandboxVars, TypeOK, At, Leading, Handle, NoHandle
<1>15. ASSUME NEW c \in Caller, Cache(c)
      PROVE  TypeOK'
  BY <1>15 DEF Cache, Goto, sandboxVars, TypeOK, At, Leading
<1>16. ASSUME NEW c \in Caller, Publish(c)
      PROVE  TypeOK'
  BY <1>16 DEF Publish, Resolved, sandboxVars, TypeOK, At
<1>17. ASSUME NEW c \in Caller, Use(c)
      PROVE  TypeOK'
  BY <1>17 DEF Use, Goto, AfterFailure, sandboxVars, TypeOK, At
<1>18. ASSUME NEW c \in Caller, Check(c)
      PROVE  TypeOK'
  BY <1>18 DEF Check, Goto, sandboxVars, TypeOK, At
<1>19. ASSUME NEW c \in Caller, Retry(c)
      PROVE  TypeOK'
  BY <1>19, Handles DEF Retry, sandboxVars, TypeOK, Kind, At
<1>20. ASSUME NEW c \in Caller, StopGet(c)
      PROVE  TypeOK'
  BY <1>20 DEF StopGet, Goto, sandboxVars, TypeOK, At
<1>21. ASSUME NEW c \in Caller, Stop(c)
      PROVE  TypeOK'
  BY <1>21 DEF Stop, Goto, TypeOK, VmState, At
<1>22. ASSUME NEW c \in Caller, StopForget(c)
      PROVE  TypeOK'
  BY <1>22, Handles DEF StopForget, Goto, sandboxVars, TypeOK, At
<1>23. ASSUME NEW c \in Caller, DeleteGet(c)
      PROVE  TypeOK'
  BY <1>23 DEF DeleteGet, Goto, sandboxVars, TypeOK, At
<1>24. ASSUME NEW c \in Caller, DeleteStop(c)
      PROVE  TypeOK'
  BY <1>24 DEF DeleteStop, Goto, TypeOK, VmState, At
<1>25. ASSUME NEW c \in Caller, DeleteForget(c)
      PROVE  TypeOK'
  BY <1>25, Handles DEF DeleteForget, Goto, sandboxVars, TypeOK, At
<1>26. ASSUME NEW c \in Caller, DeleteRemove(c)
      PROVE  TypeOK'
  BY <1>26 DEF DeleteRemove, Goto, TypeOK, VmState, At
<1>27. ASSUME GoDown
      PROVE  TypeOK'
  BY <1>27 DEF GoDown, callVars, TypeOK, VmState
<1>28. ASSUME Restart
      PROVE  TypeOK'
  BY <1>28, Handles DEF Restart, sandboxVars, TypeOK, Kind, At
<1>29. CASE UNCHANGED vars
  BY <1>29 DEF vars, sandboxVars, callVars, TypeOK
<1>30. ASSUME NEW c \in Caller, Create(c)
      PROVE  TypeOK'
  BY <1>30 DEF Create, Goto, sandboxVars, TypeOK, At
<1>31. ASSUME NEW c \in Caller, Materialise(c)
      PROVE  TypeOK'
  BY <1>31, Handles DEF Materialise, callVars, TypeOK, VmState
<1>32. ASSUME NEW c \in Caller, CreateReturns(c)
      PROVE  TypeOK'
  BY <1>32, Handles DEF CreateReturns, Take, sandboxVars, TypeOK, At
<1>33. ASSUME NEW c \in Caller, CreateCache(c)
      PROVE  TypeOK'
  BY <1>33 DEF CreateCache, Goto, sandboxVars, TypeOK, At
<1>34. ASSUME NEW c \in Caller, CreateFails(c)
      PROVE  TypeOK'
  BY <1>34 DEF CreateFails, Goto, sandboxVars, TypeOK, At
<1>35. ASSUME NEW c \in Caller, CleanStop(c)
      PROVE  TypeOK'
  BY <1>35 DEF CleanStop, Goto, TypeOK, VmState, At
<1>36. ASSUME NEW c \in Caller, CleanRemove(c)
      PROVE  TypeOK'
  BY <1>36 DEF CleanRemove, Goto, TypeOK, VmState, At
<1> QED
  BY <1>1, <1>2, <1>3, <1>4, <1>5, <1>6, <1>7, <1>8, <1>9, <1>10, <1>11, <1>12, <1>13, <1>14,
     <1>15, <1>16, <1>17, <1>18, <1>19, <1>20, <1>21, <1>22, <1>23, <1>24, <1>25, <1>26, <1>27,
     <1>28, <1>29, <1>30, <1>31, <1>32, <1>33, <1>34, <1>35, <1>36
    DEF Next, Arrive, ResolveStep, CreateStep, ServiceStep, Kind

\* A request becomes leader only when no flight is on, and leaves with it.
LEMMA FlightStep ==
  TypeOK /\ OneFlight /\ [Next]_vars => OneFlight'
<1> SUFFICES ASSUME TypeOK, OneFlight, [Next]_vars
             PROVE  OneFlight'
  OBVIOUS
<1>1. ASSUME NEW c \in Caller, NEW k \in Kind, NEW n \in {"resolve", "stopGet", "delGet"},
             Request(c, k, n)
      PROVE  OneFlight'
  BY <1>1 DEF Request, OneFlight, Leading
<1>2. ASSUME NEW c \in Caller, Return(c)
      PROVE  OneFlight'
  BY <1>2 DEF Return, OneFlight, Leading
<1>3. ASSUME NEW c \in Caller, Hit(c)
      PROVE  OneFlight'
  BY <1>3 DEF Hit, Take, Resolved, OneFlight, Leading
<1>4. ASSUME NEW c \in Caller, Miss(c)
      PROVE  OneFlight'
  BY <1>4 DEF Miss, Goto, OneFlight, Leading
<1>5. ASSUME NEW c \in Caller, Lead(c)
      PROVE  OneFlight'
  BY <1>5, RegistryAssumption DEF Lead, Goto, TypeOK, OneFlight, Leading
<1>6. ASSUME NEW c \in Caller, Join(c)
      PROVE  OneFlight'
  BY <1>6 DEF Join, Goto, OneFlight, Leading
<1>7. ASSUME NEW c \in Caller, Recheck(c)
      PROVE  OneFlight'
  BY <1>7 DEF Recheck, Take, TypeOK, OneFlight, Leading
<1>8. ASSUME NEW c \in Caller, Look(c)
      PROVE  OneFlight'
  BY <1>8 DEF Look, Goto, TypeOK, OneFlight, Leading
<1>9. ASSUME NEW c \in Caller, Connect(c)
      PROVE  OneFlight'
  BY <1>9 DEF Connect, Goto, Take, TypeOK, OneFlight, Leading
<1>10. ASSUME NEW c \in Caller, Start(c, "booting", "verifying")
      PROVE  OneFlight'
  BY <1>10 DEF Start, Goto, Take, TypeOK, OneFlight, Leading
<1>11. ASSUME NEW c \in Caller, Verify(c, "verifying", "recovering")
      PROVE  OneFlight'
  BY <1>11 DEF Verify, Goto, Take, TypeOK, OneFlight, Leading
<1>12. ASSUME NEW c \in Caller, Recover(c)
      PROVE  OneFlight'
  BY <1>12 DEF Recover, Goto, OneFlight, Leading
<1>13. ASSUME NEW c \in Caller, Start(c, "rebooting", "reverifying")
      PROVE  OneFlight'
  BY <1>13 DEF Start, Goto, Take, TypeOK, OneFlight, Leading
<1>14. ASSUME NEW c \in Caller, Verify(c, "reverifying", "publish")
      PROVE  OneFlight'
  BY <1>14 DEF Verify, Goto, Take, TypeOK, OneFlight, Leading
<1>15. ASSUME NEW c \in Caller, Cache(c)
      PROVE  OneFlight'
  BY <1>15 DEF Cache, Goto, OneFlight, Leading
<1>16. ASSUME NEW c \in Caller, Publish(c)
      PROVE  OneFlight'
  BY <1>16, RegistryAssumption DEF Publish, Resolved, OneFlight, Leading
<1>17. ASSUME NEW c \in Caller, Use(c)
      PROVE  OneFlight'
  BY <1>17 DEF Use, Goto, AfterFailure, TypeOK, OneFlight, Leading
<1>18. ASSUME NEW c \in Caller, Check(c)
      PROVE  OneFlight'
  BY <1>18 DEF Check, Goto, TypeOK, OneFlight, Leading
<1>19. ASSUME NEW c \in Caller, Retry(c)
      PROVE  OneFlight'
  BY <1>19 DEF Retry, OneFlight, Leading
<1>20. ASSUME NEW c \in Caller, StopGet(c)
      PROVE  OneFlight'
  BY <1>20 DEF StopGet, Goto, TypeOK, OneFlight, Leading
<1>21. ASSUME NEW c \in Caller, Stop(c)
      PROVE  OneFlight'
  BY <1>21 DEF Stop, Goto, TypeOK, OneFlight, Leading
<1>22. ASSUME NEW c \in Caller, StopForget(c)
      PROVE  OneFlight'
  BY <1>22 DEF StopForget, Goto, OneFlight, Leading
<1>23. ASSUME NEW c \in Caller, DeleteGet(c)
      PROVE  OneFlight'
  BY <1>23 DEF DeleteGet, Goto, OneFlight, Leading
<1>24. ASSUME NEW c \in Caller, DeleteStop(c)
      PROVE  OneFlight'
  BY <1>24 DEF DeleteStop, Goto, OneFlight, Leading
<1>25. ASSUME NEW c \in Caller, DeleteForget(c)
      PROVE  OneFlight'
  BY <1>25 DEF DeleteForget, Goto, OneFlight, Leading
<1>26. ASSUME NEW c \in Caller, DeleteRemove(c)
      PROVE  OneFlight'
  BY <1>26 DEF DeleteRemove, Goto, TypeOK, OneFlight, Leading
<1>27. ASSUME GoDown
      PROVE  OneFlight'
  BY <1>27 DEF GoDown, callVars, OneFlight
<1>28. ASSUME Restart
      PROVE  OneFlight'
  BY <1>28, RegistryAssumption DEF Restart, OneFlight, Leading
<1>29. CASE UNCHANGED vars
  BY <1>29 DEF vars, callVars, OneFlight
<1>30. ASSUME NEW c \in Caller, Create(c)
      PROVE  OneFlight'
  BY <1>30 DEF Create, Goto, OneFlight, Leading
<1>31. ASSUME NEW c \in Caller, Materialise(c)
      PROVE  OneFlight'
  BY <1>31 DEF Materialise, callVars, OneFlight
<1>32. ASSUME NEW c \in Caller, CreateReturns(c)
      PROVE  OneFlight'
  BY <1>32 DEF CreateReturns, Take, OneFlight, Leading
<1>33. ASSUME NEW c \in Caller, CreateCache(c)
      PROVE  OneFlight'
  BY <1>33 DEF CreateCache, Goto, TypeOK, OneFlight, Leading
<1>34. ASSUME NEW c \in Caller, CreateFails(c)
      PROVE  OneFlight'
  BY <1>34 DEF CreateFails, Goto, TypeOK, OneFlight, Leading
<1>35. ASSUME NEW c \in Caller, CleanStop(c)
      PROVE  OneFlight'
  BY <1>35 DEF CleanStop, Goto, OneFlight, Leading
<1>36. ASSUME NEW c \in Caller, CleanRemove(c)
      PROVE  OneFlight'
  BY <1>36 DEF CleanRemove, Goto, TypeOK, OneFlight, Leading
<1> QED
  BY <1>1, <1>2, <1>3, <1>4, <1>5, <1>6, <1>7, <1>8, <1>9, <1>10, <1>11, <1>12, <1>13, <1>14,
     <1>15, <1>16, <1>17, <1>18, <1>19, <1>20, <1>21, <1>22, <1>23, <1>24, <1>25, <1>26, <1>27,
     <1>28, <1>29, <1>30, <1>31, <1>32, <1>33, <1>34, <1>35, <1>36
    DEF Next, Arrive, ResolveStep, CreateStep, ServiceStep, Kind

\* The cache stays empty under the leader, and the handle it verified is of the current boot.
LEMMA LeaderStep ==
  TypeOK /\ OneFlight /\ CreateInv /\ LeaderInv /\ RunningIsUp /\ [Next]_vars => LeaderInv'
<1> SUFFICES ASSUME TypeOK, OneFlight, CreateInv, LeaderInv, RunningIsUp, [Next]_vars
             PROVE  LeaderInv'
  OBVIOUS
<1>1. ASSUME NEW c \in Caller, NEW k \in Kind, NEW n \in {"resolve", "stopGet", "delGet"},
             Request(c, k, n)
      PROVE  LeaderInv'
  BY <1>1 DEF Request, sandboxVars, LeaderInv, Filling, Leading
<1>2. ASSUME NEW c \in Caller, Return(c)
      PROVE  LeaderInv'
  BY <1>2 DEF Return, sandboxVars, LeaderInv, Filling, Leading
<1>3. ASSUME NEW c \in Caller, Hit(c)
      PROVE  LeaderInv'
  BY <1>3 DEF Hit, Take, Resolved, sandboxVars, LeaderInv, Filling, Leading
<1>4. ASSUME NEW c \in Caller, Miss(c)
      PROVE  LeaderInv'
  BY <1>4 DEF Miss, Goto, sandboxVars, LeaderInv
<1>5. ASSUME NEW c \in Caller, Lead(c)
      PROVE  LeaderInv'
  BY <1>5 DEF Lead, Goto, sandboxVars, LeaderInv, Filling, Leading
<1>6. ASSUME NEW c \in Caller, Join(c)
      PROVE  LeaderInv'
  BY <1>6 DEF Join, Goto, sandboxVars, LeaderInv, Filling, Leading
<1>7. ASSUME NEW c \in Caller, Recheck(c)
      PROVE  LeaderInv'
  BY <1>7 DEF Recheck, Take, sandboxVars, TypeOK, LeaderInv, Filling, Leading
<1>8. ASSUME NEW c \in Caller, Look(c)
      PROVE  LeaderInv'
  BY <1>8 DEF Look, Goto, sandboxVars, TypeOK, LeaderInv, Filling, Leading
<1>9. ASSUME NEW c \in Caller, Connect(c)
      PROVE  LeaderInv'
  BY <1>9 DEF Connect, Goto, Take, sandboxVars, TypeOK, LeaderInv, Filling, Leading, RunningIsUp
<1>10. ASSUME NEW c \in Caller, Start(c, "booting", "verifying")
      PROVE  LeaderInv'
  BY <1>10 DEF Start, Goto, Take, TypeOK, OneFlight, LeaderInv, Filling, Leading
<1>11. ASSUME NEW c \in Caller, Verify(c, "verifying", "recovering")
      PROVE  LeaderInv'
  BY <1>11 DEF Verify, Goto, Take, sandboxVars, TypeOK, LeaderInv, Filling, Leading, RunningIsUp
<1>12. ASSUME NEW c \in Caller, Recover(c)
      PROVE  LeaderInv'
  BY <1>12 DEF Recover, Goto, LeaderInv, Filling, Leading
<1>13. ASSUME NEW c \in Caller, Start(c, "rebooting", "reverifying")
      PROVE  LeaderInv'
  BY <1>13 DEF Start, Goto, Take, TypeOK, OneFlight, LeaderInv, Filling, Leading
<1>14. ASSUME NEW c \in Caller, Verify(c, "reverifying", "publish")
      PROVE  LeaderInv'
  BY <1>14 DEF Verify, Goto, Take, sandboxVars, TypeOK, LeaderInv, Filling, Leading, RunningIsUp
<1>15. ASSUME NEW c \in Caller, Cache(c)
      PROVE  LeaderInv'
  BY <1>15 DEF Cache, Goto, TypeOK, OneFlight, LeaderInv, Filling, Leading
<1>16. ASSUME NEW c \in Caller, Publish(c)
      PROVE  LeaderInv'
  BY <1>16 DEF Publish, Resolved, sandboxVars, LeaderInv, Filling, Leading
<1>17. ASSUME NEW c \in Caller, Use(c)
      PROVE  LeaderInv'
  BY <1>17 DEF Use, Goto, AfterFailure, sandboxVars, TypeOK, LeaderInv, Filling, Leading
<1>18. ASSUME NEW c \in Caller, Check(c)
      PROVE  LeaderInv'
  BY <1>18 DEF Check, Goto, sandboxVars, TypeOK, LeaderInv, Filling, Leading
<1>19. ASSUME NEW c \in Caller, Retry(c)
      PROVE  LeaderInv'
  BY <1>19 DEF Retry, sandboxVars, LeaderInv
<1>20. ASSUME NEW c \in Caller, StopGet(c)
      PROVE  LeaderInv'
  BY <1>20 DEF StopGet, Goto, sandboxVars, TypeOK, LeaderInv, Filling, Leading
<1>21. ASSUME NEW c \in Caller, Stop(c)
      PROVE  LeaderInv'
  BY <1>21 DEF Stop, Goto, TypeOK, LeaderInv, Filling, Leading
<1>22. ASSUME NEW c \in Caller, StopForget(c)
      PROVE  LeaderInv'
  BY <1>22 DEF StopForget, Goto, sandboxVars, LeaderInv
<1>23. ASSUME NEW c \in Caller, DeleteGet(c)
      PROVE  LeaderInv'
  BY <1>23 DEF DeleteGet, Goto, sandboxVars, LeaderInv, Filling, Leading
<1>24. ASSUME NEW c \in Caller, DeleteStop(c)
      PROVE  LeaderInv'
  BY <1>24 DEF DeleteStop, Goto, LeaderInv, Filling, Leading
<1>25. ASSUME NEW c \in Caller, DeleteForget(c)
      PROVE  LeaderInv'
  BY <1>25 DEF DeleteForget, Goto, sandboxVars, LeaderInv
<1>26. ASSUME NEW c \in Caller, DeleteRemove(c)
      PROVE  LeaderInv'
  BY <1>26 DEF DeleteRemove, Goto, TypeOK, LeaderInv, Filling, Leading
<1>27. ASSUME GoDown
      PROVE  LeaderInv'
  BY <1>27 DEF GoDown, callVars, LeaderInv
<1>28. ASSUME Restart
      PROVE  LeaderInv'
  BY <1>28 DEF Restart, LeaderInv
<1>29. CASE UNCHANGED vars
  BY <1>29 DEF vars, sandboxVars, callVars, LeaderInv
<1>30. ASSUME NEW c \in Caller, Create(c)
      PROVE  LeaderInv'
  BY <1>30 DEF Create, Goto, sandboxVars, TypeOK, LeaderInv, Filling, Leading
<1>31. ASSUME NEW c \in Caller, Materialise(c)
      PROVE  LeaderInv'
  BY <1>31 DEF Materialise, callVars, CreateInv, LeaderInv, Filling, Leading
<1>32. ASSUME NEW c \in Caller, CreateReturns(c)
      PROVE  LeaderInv'
  BY <1>32 DEF CreateReturns, Take, sandboxVars, TypeOK, LeaderInv, Filling, Leading
<1>33. ASSUME NEW c \in Caller, CreateCache(c)
      PROVE  LeaderInv'
  BY <1>33 DEF CreateCache, Goto, sandboxVars, TypeOK, LeaderInv, Filling, Leading
<1>34. ASSUME NEW c \in Caller, CreateFails(c)
      PROVE  LeaderInv'
  BY <1>34 DEF CreateFails, Goto, sandboxVars, TypeOK, LeaderInv, Filling, Leading
<1>35. ASSUME NEW c \in Caller, CleanStop(c)
      PROVE  LeaderInv'
  BY <1>35 DEF CleanStop, Goto, TypeOK, LeaderInv, Filling, Leading
<1>36. ASSUME NEW c \in Caller, CleanRemove(c)
      PROVE  LeaderInv'
  BY <1>36 DEF CleanRemove, Goto, TypeOK, LeaderInv, Filling, Leading
<1> QED
  BY <1>1, <1>2, <1>3, <1>4, <1>5, <1>6, <1>7, <1>8, <1>9, <1>10, <1>11, <1>12, <1>13, <1>14,
     <1>15, <1>16, <1>17, <1>18, <1>19, <1>20, <1>21, <1>22, <1>23, <1>24, <1>25, <1>26, <1>27,
     <1>28, <1>29, <1>30, <1>31, <1>32, <1>33, <1>34, <1>35, <1>36
    DEF Next, Arrive, ResolveStep, CreateStep, ServiceStep, Kind

\* A sandbox only gets to run in an incarnation whose agent came up.
LEMMA RunningStep ==
  TypeOK /\ RunningIsUp /\ [Next]_vars => RunningIsUp'
<1> SUFFICES ASSUME TypeOK, RunningIsUp, [Next]_vars
             PROVE  RunningIsUp'
  OBVIOUS
<1>1. ASSUME NEW c \in Caller, NEW k \in Kind, NEW n \in {"resolve", "stopGet", "delGet"},
             Request(c, k, n)
      PROVE  RunningIsUp'
  BY <1>1 DEF Request, sandboxVars, RunningIsUp
<1>2. ASSUME NEW c \in Caller, Return(c)
      PROVE  RunningIsUp'
  BY <1>2 DEF Return, sandboxVars, RunningIsUp
<1>3. ASSUME NEW c \in Caller, Hit(c)
      PROVE  RunningIsUp'
  BY <1>3 DEF Hit, sandboxVars, RunningIsUp
<1>4. ASSUME NEW c \in Caller, Miss(c)
      PROVE  RunningIsUp'
  BY <1>4 DEF Miss, sandboxVars, RunningIsUp
<1>5. ASSUME NEW c \in Caller, Lead(c)
      PROVE  RunningIsUp'
  BY <1>5 DEF Lead, sandboxVars, RunningIsUp
<1>6. ASSUME NEW c \in Caller, Join(c)
      PROVE  RunningIsUp'
  BY <1>6 DEF Join, sandboxVars, RunningIsUp
<1>7. ASSUME NEW c \in Caller, Recheck(c)
      PROVE  RunningIsUp'
  BY <1>7 DEF Recheck, sandboxVars, RunningIsUp
<1>8. ASSUME NEW c \in Caller, Look(c)
      PROVE  RunningIsUp'
  BY <1>8 DEF Look, sandboxVars, RunningIsUp
<1>9. ASSUME NEW c \in Caller, Connect(c)
      PROVE  RunningIsUp'
  BY <1>9 DEF Connect, sandboxVars, RunningIsUp
<1>10. ASSUME NEW c \in Caller, Start(c, "booting", "verifying")
      PROVE  RunningIsUp'
  BY <1>10 DEF Start, sandboxVars, RunningIsUp
<1>11. ASSUME NEW c \in Caller, Verify(c, "verifying", "recovering")
      PROVE  RunningIsUp'
  BY <1>11 DEF Verify, sandboxVars, RunningIsUp
<1>12. ASSUME NEW c \in Caller, Recover(c)
      PROVE  RunningIsUp'
  BY <1>12 DEF Recover, RunningIsUp
<1>13. ASSUME NEW c \in Caller, Start(c, "rebooting", "reverifying")
      PROVE  RunningIsUp'
  BY <1>13 DEF Start, sandboxVars, RunningIsUp
<1>14. ASSUME NEW c \in Caller, Verify(c, "reverifying", "publish")
      PROVE  RunningIsUp'
  BY <1>14 DEF Verify, sandboxVars, RunningIsUp
<1>15. ASSUME NEW c \in Caller, Cache(c)
      PROVE  RunningIsUp'
  BY <1>15 DEF Cache, sandboxVars, RunningIsUp
<1>16. ASSUME NEW c \in Caller, Publish(c)
      PROVE  RunningIsUp'
  BY <1>16 DEF Publish, sandboxVars, RunningIsUp
<1>17. ASSUME NEW c \in Caller, Use(c)
      PROVE  RunningIsUp'
  BY <1>17 DEF Use, AfterFailure, sandboxVars, RunningIsUp
<1>18. ASSUME NEW c \in Caller, Check(c)
      PROVE  RunningIsUp'
  BY <1>18 DEF Check, sandboxVars, RunningIsUp
<1>19. ASSUME NEW c \in Caller, Retry(c)
      PROVE  RunningIsUp'
  BY <1>19 DEF Retry, sandboxVars, RunningIsUp
<1>20. ASSUME NEW c \in Caller, StopGet(c)
      PROVE  RunningIsUp'
  BY <1>20 DEF StopGet, sandboxVars, RunningIsUp
<1>21. ASSUME NEW c \in Caller, Stop(c)
      PROVE  RunningIsUp'
  BY <1>21 DEF Stop, RunningIsUp
<1>22. ASSUME NEW c \in Caller, StopForget(c)
      PROVE  RunningIsUp'
  BY <1>22 DEF StopForget, sandboxVars, RunningIsUp
<1>23. ASSUME NEW c \in Caller, DeleteGet(c)
      PROVE  RunningIsUp'
  BY <1>23 DEF DeleteGet, sandboxVars, RunningIsUp
<1>24. ASSUME NEW c \in Caller, DeleteStop(c)
      PROVE  RunningIsUp'
  BY <1>24 DEF DeleteStop, RunningIsUp
<1>25. ASSUME NEW c \in Caller, DeleteForget(c)
      PROVE  RunningIsUp'
  BY <1>25 DEF DeleteForget, sandboxVars, RunningIsUp
<1>26. ASSUME NEW c \in Caller, DeleteRemove(c)
      PROVE  RunningIsUp'
  BY <1>26 DEF DeleteRemove, RunningIsUp
<1>27. ASSUME GoDown
      PROVE  RunningIsUp'
  BY <1>27 DEF GoDown, RunningIsUp
<1>28. ASSUME Restart
      PROVE  RunningIsUp'
  BY <1>28 DEF Restart, sandboxVars, RunningIsUp
<1>29. CASE UNCHANGED vars
  BY <1>29 DEF vars, sandboxVars, RunningIsUp
<1>30. ASSUME NEW c \in Caller, Create(c)
      PROVE  RunningIsUp'
  BY <1>30 DEF Create, sandboxVars, RunningIsUp
<1>31. ASSUME NEW c \in Caller, Materialise(c)
      PROVE  RunningIsUp'
  BY <1>31 DEF Materialise, RunningIsUp
<1>32. ASSUME NEW c \in Caller, CreateReturns(c)
      PROVE  RunningIsUp'
  BY <1>32 DEF CreateReturns, sandboxVars, RunningIsUp
<1>33. ASSUME NEW c \in Caller, CreateCache(c)
      PROVE  RunningIsUp'
  BY <1>33 DEF CreateCache, sandboxVars, RunningIsUp
<1>34. ASSUME NEW c \in Caller, CreateFails(c)
      PROVE  RunningIsUp'
  BY <1>34 DEF CreateFails, sandboxVars, RunningIsUp
<1>35. ASSUME NEW c \in Caller, CleanStop(c)
      PROVE  RunningIsUp'
  BY <1>35 DEF CleanStop, RunningIsUp
<1>36. ASSUME NEW c \in Caller, CleanRemove(c)
      PROVE  RunningIsUp'
  BY <1>36 DEF CleanRemove, RunningIsUp
<1> QED
  BY <1>1, <1>2, <1>3, <1>4, <1>5, <1>6, <1>7, <1>8, <1>9, <1>10, <1>11, <1>12, <1>13, <1>14,
     <1>15, <1>16, <1>17, <1>18, <1>19, <1>20, <1>21, <1>22, <1>23, <1>24, <1>25, <1>26, <1>27,
     <1>28, <1>29, <1>30, <1>31, <1>32, <1>33, <1>34, <1>35, <1>36
    DEF Next, Arrive, ResolveStep, CreateStep, ServiceStep, Kind

\* Nothing but a Create is at work before the first boot, whose handle it returns.
LEMMA CreatedStep ==
  TypeOK /\ CreateInv /\ [Next]_vars => CreateInv'
<1> SUFFICES ASSUME TypeOK, CreateInv, [Next]_vars
             PROVE  CreateInv'
  OBVIOUS
<1> USE DEF CreateInv, TypeOK, Handle
<1>1. ASSUME NEW c \in Caller, NEW k \in Kind, NEW n \in {"resolve", "stopGet", "delGet"},
             Request(c, k, n)
      PROVE  CreateInv'
  BY <1>1 DEF Request, sandboxVars
<1>2. ASSUME NEW c \in Caller, Return(c)
      PROVE  CreateInv'
  BY <1>2 DEF Return, sandboxVars
<1>3. ASSUME NEW c \in Caller, Hit(c)
      PROVE  CreateInv'
  BY <1>3 DEF Hit, Take, Resolved, sandboxVars
<1>4. ASSUME NEW c \in Caller, Miss(c)
      PROVE  CreateInv'
  BY <1>4 DEF Miss, Goto, sandboxVars
<1>5. ASSUME NEW c \in Caller, Lead(c)
      PROVE  CreateInv'
  BY <1>5 DEF Lead, Goto, sandboxVars
<1>6. ASSUME NEW c \in Caller, Join(c)
      PROVE  CreateInv'
  BY <1>6 DEF Join, Goto, sandboxVars
<1>7. ASSUME NEW c \in Caller, Recheck(c)
      PROVE  CreateInv'
  BY <1>7 DEF Recheck, Take, sandboxVars
<1>8. ASSUME NEW c \in Caller, Look(c)
      PROVE  CreateInv'
  BY <1>8 DEF Look, Goto, sandboxVars
<1>9. ASSUME NEW c \in Caller, Connect(c)
      PROVE  CreateInv'
  BY <1>9 DEF Connect, Goto, Take, sandboxVars
<1>10. ASSUME NEW c \in Caller, Start(c, "booting", "verifying")
      PROVE  CreateInv'
  BY <1>10 DEF Start, Goto, Take, sandboxVars
<1>11. ASSUME NEW c \in Caller, Verify(c, "verifying", "recovering")
      PROVE  CreateInv'
  BY <1>11 DEF Verify, Goto, Take, sandboxVars
<1>12. ASSUME NEW c \in Caller, Recover(c)
      PROVE  CreateInv'
  BY <1>12 DEF Recover, Goto
<1>13. ASSUME NEW c \in Caller, Start(c, "rebooting", "reverifying")
      PROVE  CreateInv'
  BY <1>13 DEF Start, Goto, Take, sandboxVars
<1>14. ASSUME NEW c \in Caller, Verify(c, "reverifying", "publish")
      PROVE  CreateInv'
  BY <1>14 DEF Verify, Goto, Take, sandboxVars
<1>15. ASSUME NEW c \in Caller, Cache(c)
      PROVE  CreateInv'
  BY <1>15 DEF Cache, Goto, sandboxVars
<1>16. ASSUME NEW c \in Caller, Publish(c)
      PROVE  CreateInv'
  BY <1>16 DEF Publish, Resolved, sandboxVars
<1>17. ASSUME NEW c \in Caller, Use(c)
      PROVE  CreateInv'
  BY <1>17 DEF Use, Goto, AfterFailure, sandboxVars
<1>18. ASSUME NEW c \in Caller, Check(c)
      PROVE  CreateInv'
  BY <1>18 DEF Check, Goto, sandboxVars
<1>19. ASSUME NEW c \in Caller, Retry(c)
      PROVE  CreateInv'
  BY <1>19 DEF Retry, sandboxVars
<1>20. ASSUME NEW c \in Caller, StopGet(c)
      PROVE  CreateInv'
  BY <1>20 DEF StopGet, Goto, sandboxVars
<1>21. ASSUME NEW c \in Caller, Stop(c)
      PROVE  CreateInv'
  BY <1>21 DEF Stop, Goto
<1>22. ASSUME NEW c \in Caller, StopForget(c)
      PROVE  CreateInv'
  BY <1>22 DEF StopForget, Goto, sandboxVars
<1>23. ASSUME NEW c \in Caller, DeleteGet(c)
      PROVE  CreateInv'
  BY <1>23 DEF DeleteGet, Goto, sandboxVars
<1>24. ASSUME NEW c \in Caller, DeleteStop(c)
      PROVE  CreateInv'
  BY <1>24 DEF DeleteStop, Goto
<1>25. ASSUME NEW c \in Caller, DeleteForget(c)
      PROVE  CreateInv'
  BY <1>25 DEF DeleteForget, Goto, sandboxVars
<1>26. ASSUME NEW c \in Caller, DeleteRemove(c)
      PROVE  CreateInv'
  BY <1>26 DEF DeleteRemove, Goto
<1>27. ASSUME GoDown
      PROVE  CreateInv'
  BY <1>27 DEF GoDown, callVars
<1>28. ASSUME Restart
      PROVE  CreateInv'
  BY <1>28 DEF Restart, sandboxVars
<1>29. CASE UNCHANGED vars
  BY <1>29 DEF vars, sandboxVars, callVars
<1>30. ASSUME NEW c \in Caller, Create(c)
      PROVE  CreateInv'
  BY <1>30 DEF Create, Goto, sandboxVars
<1>31. ASSUME NEW c \in Caller, Materialise(c)
      PROVE  CreateInv'
  BY <1>31 DEF Materialise, callVars
<1>32. ASSUME NEW c \in Caller, CreateReturns(c)
      PROVE  CreateInv'
  BY <1>32 DEF CreateReturns, Take, sandboxVars
<1>33. ASSUME NEW c \in Caller, CreateCache(c)
      PROVE  CreateInv'
  BY <1>33 DEF CreateCache, Goto, sandboxVars
<1>34. ASSUME NEW c \in Caller, CreateFails(c)
      PROVE  CreateInv'
  BY <1>34 DEF CreateFails, Goto, sandboxVars
<1>35. ASSUME NEW c \in Caller, CleanStop(c)
      PROVE  CreateInv'
  BY <1>35 DEF CleanStop, Goto
<1>36. ASSUME NEW c \in Caller, CleanRemove(c)
      PROVE  CreateInv'
  BY <1>36 DEF CleanRemove, Goto
<1> QED
  BY <1>1, <1>2, <1>3, <1>4, <1>5, <1>6, <1>7, <1>8, <1>9, <1>10, <1>11, <1>12, <1>13, <1>14,
     <1>15, <1>16, <1>17, <1>18, <1>19, <1>20, <1>21, <1>22, <1>23, <1>24, <1>25, <1>26, <1>27,
     <1>28, <1>29, <1>30, <1>31, <1>32, <1>33, <1>34, <1>35, <1>36
    DEF Next, Arrive, ResolveStep, CreateStep, ServiceStep, Kind

\* A handle is cached only after its agent answered.
LEMMA DeadStep ==
  TypeOK /\ LeaderInv /\ CreateInv /\ NoDeadHandle /\ [Next]_vars => NoDeadHandle'
<1> SUFFICES ASSUME TypeOK, LeaderInv, CreateInv, NoDeadHandle, [Next]_vars
             PROVE  NoDeadHandle'
  OBVIOUS
<1>1. ASSUME NEW c \in Caller, NEW k \in Kind, NEW n \in {"resolve", "stopGet", "delGet"},
             Request(c, k, n)
      PROVE  NoDeadHandle'
  BY <1>1 DEF Request, sandboxVars, NoDeadHandle
<1>2. ASSUME NEW c \in Caller, Return(c)
      PROVE  NoDeadHandle'
  BY <1>2 DEF Return, sandboxVars, NoDeadHandle
<1>3. ASSUME NEW c \in Caller, Hit(c)
      PROVE  NoDeadHandle'
  BY <1>3 DEF Hit, sandboxVars, NoDeadHandle
<1>4. ASSUME NEW c \in Caller, Miss(c)
      PROVE  NoDeadHandle'
  BY <1>4 DEF Miss, NoDeadHandle
<1>5. ASSUME NEW c \in Caller, Lead(c)
      PROVE  NoDeadHandle'
  BY <1>5 DEF Lead, sandboxVars, NoDeadHandle
<1>6. ASSUME NEW c \in Caller, Join(c)
      PROVE  NoDeadHandle'
  BY <1>6 DEF Join, sandboxVars, NoDeadHandle
<1>7. ASSUME NEW c \in Caller, Recheck(c)
      PROVE  NoDeadHandle'
  BY <1>7 DEF Recheck, sandboxVars, NoDeadHandle
<1>8. ASSUME NEW c \in Caller, Look(c)
      PROVE  NoDeadHandle'
  BY <1>8 DEF Look, sandboxVars, NoDeadHandle
<1>9. ASSUME NEW c \in Caller, Connect(c)
      PROVE  NoDeadHandle'
  BY <1>9 DEF Connect, sandboxVars, NoDeadHandle
<1>10. ASSUME NEW c \in Caller, Start(c, "booting", "verifying")
      PROVE  NoDeadHandle'
  BY <1>10 DEF Start, sandboxVars, NoDeadHandle
<1>11. ASSUME NEW c \in Caller, Verify(c, "verifying", "recovering")
      PROVE  NoDeadHandle'
  BY <1>11 DEF Verify, sandboxVars, NoDeadHandle
<1>12. ASSUME NEW c \in Caller, Recover(c)
      PROVE  NoDeadHandle'
  BY <1>12 DEF Recover, NoDeadHandle
<1>13. ASSUME NEW c \in Caller, Start(c, "rebooting", "reverifying")
      PROVE  NoDeadHandle'
  BY <1>13 DEF Start, sandboxVars, NoDeadHandle
<1>14. ASSUME NEW c \in Caller, Verify(c, "reverifying", "publish")
      PROVE  NoDeadHandle'
  BY <1>14 DEF Verify, sandboxVars, NoDeadHandle
<1>15. ASSUME NEW c \in Caller, Cache(c)
      PROVE  NoDeadHandle'
  BY <1>15 DEF Cache, sandboxVars, LeaderInv, NoDeadHandle
<1>16. ASSUME NEW c \in Caller, Publish(c)
      PROVE  NoDeadHandle'
  BY <1>16 DEF Publish, sandboxVars, NoDeadHandle
<1>17. ASSUME NEW c \in Caller, Use(c)
      PROVE  NoDeadHandle'
  BY <1>17 DEF Use, AfterFailure, sandboxVars, NoDeadHandle
<1>18. ASSUME NEW c \in Caller, Check(c)
      PROVE  NoDeadHandle'
  BY <1>18 DEF Check, sandboxVars, NoDeadHandle
<1>19. ASSUME NEW c \in Caller, Retry(c)
      PROVE  NoDeadHandle'
  BY <1>19 DEF Retry, NoDeadHandle
<1>20. ASSUME NEW c \in Caller, StopGet(c)
      PROVE  NoDeadHandle'
  BY <1>20 DEF StopGet, sandboxVars, NoDeadHandle
<1>21. ASSUME NEW c \in Caller, Stop(c)
      PROVE  NoDeadHandle'
  BY <1>21 DEF Stop, NoDeadHandle
<1>22. ASSUME NEW c \in Caller, StopForget(c)
      PROVE  NoDeadHandle'
  BY <1>22 DEF StopForget, NoDeadHandle
<1>23. ASSUME NEW c \in Caller, DeleteGet(c)
      PROVE  NoDeadHandle'
  BY <1>23 DEF DeleteGet, sandboxVars, NoDeadHandle
<1>24. ASSUME NEW c \in Caller, DeleteStop(c)
      PROVE  NoDeadHandle'
  BY <1>24 DEF DeleteStop, NoDeadHandle
<1>25. ASSUME NEW c \in Caller, DeleteForget(c)
      PROVE  NoDeadHandle'
  BY <1>25 DEF DeleteForget, NoDeadHandle
<1>26. ASSUME NEW c \in Caller, DeleteRemove(c)
      PROVE  NoDeadHandle'
  BY <1>26 DEF DeleteRemove, NoDeadHandle
<1>27. ASSUME GoDown
      PROVE  NoDeadHandle'
  BY <1>27 DEF GoDown, NoDeadHandle
<1>28. ASSUME Restart
      PROVE  NoDeadHandle'
  BY <1>28 DEF Restart, NoDeadHandle
<1>29. CASE UNCHANGED vars
  BY <1>29 DEF vars, sandboxVars, NoDeadHandle
<1>30. ASSUME NEW c \in Caller, Create(c)
      PROVE  NoDeadHandle'
  BY <1>30 DEF Create, sandboxVars, NoDeadHandle
<1>31. ASSUME NEW c \in Caller, Materialise(c)
      PROVE  NoDeadHandle'
  BY <1>31 DEF Materialise, NoDeadHandle
<1>32. ASSUME NEW c \in Caller, CreateReturns(c)
      PROVE  NoDeadHandle'
  BY <1>32 DEF CreateReturns, sandboxVars, NoDeadHandle
<1>33. ASSUME NEW c \in Caller, CreateCache(c)
      PROVE  NoDeadHandle'
  BY <1>33 DEF CreateCache, sandboxVars, CreateInv, NoDeadHandle
<1>34. ASSUME NEW c \in Caller, CreateFails(c)
      PROVE  NoDeadHandle'
  BY <1>34 DEF CreateFails, sandboxVars, NoDeadHandle
<1>35. ASSUME NEW c \in Caller, CleanStop(c)
      PROVE  NoDeadHandle'
  BY <1>35 DEF CleanStop, NoDeadHandle
<1>36. ASSUME NEW c \in Caller, CleanRemove(c)
      PROVE  NoDeadHandle'
  BY <1>36 DEF CleanRemove, NoDeadHandle
<1> QED
  BY <1>1, <1>2, <1>3, <1>4, <1>5, <1>6, <1>7, <1>8, <1>9, <1>10, <1>11, <1>12, <1>13, <1>14,
     <1>15, <1>16, <1>17, <1>18, <1>19, <1>20, <1>21, <1>22, <1>23, <1>24, <1>25, <1>26, <1>27,
     <1>28, <1>29, <1>30, <1>31, <1>32, <1>33, <1>34, <1>35, <1>36
    DEF Next, Arrive, ResolveStep, CreateStep, ServiceStep, Kind

\* A cached handle of an earlier boot is left behind a sandbox that runs by Create alone.
LEMMA StuckStep ==
  TypeOK /\ LeaderInv /\ CreateInv /\ NoDeadHandle /\ StuckOnlyByCreate /\ [Next]_vars
    => StuckOnlyByCreate'
<1> SUFFICES ASSUME TypeOK, LeaderInv, CreateInv, NoDeadHandle, StuckOnlyByCreate, [Next]_vars
             PROVE  StuckOnlyByCreate'
  OBVIOUS
<1>1. ASSUME NEW c \in Caller, NEW k \in Kind, NEW n \in {"resolve", "stopGet", "delGet"},
             Request(c, k, n)
      PROVE  StuckOnlyByCreate'
  BY <1>1 DEF Request, sandboxVars, StuckOnlyByCreate
<1>2. ASSUME NEW c \in Caller, Return(c)
      PROVE  StuckOnlyByCreate'
  BY <1>2 DEF Return, sandboxVars, StuckOnlyByCreate
<1>3. ASSUME NEW c \in Caller, Hit(c)
      PROVE  StuckOnlyByCreate'
  BY <1>3 DEF Hit, sandboxVars, StuckOnlyByCreate
<1>4. ASSUME NEW c \in Caller, Miss(c)
      PROVE  StuckOnlyByCreate'
  BY <1>4 DEF Miss, StuckOnlyByCreate
<1>5. ASSUME NEW c \in Caller, Lead(c)
      PROVE  StuckOnlyByCreate'
  BY <1>5 DEF Lead, sandboxVars, StuckOnlyByCreate
<1>6. ASSUME NEW c \in Caller, Join(c)
      PROVE  StuckOnlyByCreate'
  BY <1>6 DEF Join, sandboxVars, StuckOnlyByCreate
<1>7. ASSUME NEW c \in Caller, Recheck(c)
      PROVE  StuckOnlyByCreate'
  BY <1>7 DEF Recheck, sandboxVars, StuckOnlyByCreate
<1>8. ASSUME NEW c \in Caller, Look(c)
      PROVE  StuckOnlyByCreate'
  BY <1>8 DEF Look, sandboxVars, StuckOnlyByCreate
<1>9. ASSUME NEW c \in Caller, Connect(c)
      PROVE  StuckOnlyByCreate'
  BY <1>9 DEF Connect, sandboxVars, StuckOnlyByCreate
<1>10. ASSUME NEW c \in Caller, Start(c, "booting", "verifying")
      PROVE  StuckOnlyByCreate'
  BY <1>10 DEF Start, LeaderInv, Filling, Leading, StuckOnlyByCreate
<1>11. ASSUME NEW c \in Caller, Verify(c, "verifying", "recovering")
      PROVE  StuckOnlyByCreate'
  BY <1>11 DEF Verify, sandboxVars, StuckOnlyByCreate
<1>12. ASSUME NEW c \in Caller, Recover(c)
      PROVE  StuckOnlyByCreate'
  BY <1>12 DEF Recover, StuckOnlyByCreate
<1>13. ASSUME NEW c \in Caller, Start(c, "rebooting", "reverifying")
      PROVE  StuckOnlyByCreate'
  BY <1>13 DEF Start, LeaderInv, Filling, Leading, StuckOnlyByCreate
<1>14. ASSUME NEW c \in Caller, Verify(c, "reverifying", "publish")
      PROVE  StuckOnlyByCreate'
  BY <1>14 DEF Verify, sandboxVars, StuckOnlyByCreate
<1>15. ASSUME NEW c \in Caller, Cache(c)
      PROVE  StuckOnlyByCreate'
  BY <1>15 DEF Cache, sandboxVars, LeaderInv, StuckOnlyByCreate
<1>16. ASSUME NEW c \in Caller, Publish(c)
      PROVE  StuckOnlyByCreate'
  BY <1>16 DEF Publish, sandboxVars, StuckOnlyByCreate
<1>17. ASSUME NEW c \in Caller, Use(c)
      PROVE  StuckOnlyByCreate'
  BY <1>17 DEF Use, AfterFailure, sandboxVars, StuckOnlyByCreate
<1>18. ASSUME NEW c \in Caller, Check(c)
      PROVE  StuckOnlyByCreate'
  BY <1>18 DEF Check, sandboxVars, StuckOnlyByCreate
<1>19. ASSUME NEW c \in Caller, Retry(c)
      PROVE  StuckOnlyByCreate'
  BY <1>19 DEF Retry, StuckOnlyByCreate
<1>20. ASSUME NEW c \in Caller, StopGet(c)
      PROVE  StuckOnlyByCreate'
  BY <1>20 DEF StopGet, sandboxVars, StuckOnlyByCreate
<1>21. ASSUME NEW c \in Caller, Stop(c)
      PROVE  StuckOnlyByCreate'
  BY <1>21 DEF Stop, StuckOnlyByCreate
<1>22. ASSUME NEW c \in Caller, StopForget(c)
      PROVE  StuckOnlyByCreate'
  BY <1>22 DEF StopForget, StuckOnlyByCreate
<1>23. ASSUME NEW c \in Caller, DeleteGet(c)
      PROVE  StuckOnlyByCreate'
  BY <1>23 DEF DeleteGet, sandboxVars, StuckOnlyByCreate
<1>24. ASSUME NEW c \in Caller, DeleteStop(c)
      PROVE  StuckOnlyByCreate'
  BY <1>24 DEF DeleteStop, StuckOnlyByCreate
<1>25. ASSUME NEW c \in Caller, DeleteForget(c)
      PROVE  StuckOnlyByCreate'
  BY <1>25 DEF DeleteForget, StuckOnlyByCreate
<1>26. ASSUME NEW c \in Caller, DeleteRemove(c)
      PROVE  StuckOnlyByCreate'
  BY <1>26 DEF DeleteRemove, StuckOnlyByCreate
<1>27. ASSUME GoDown
      PROVE  StuckOnlyByCreate'
  BY <1>27 DEF GoDown, StuckOnlyByCreate
<1>28. ASSUME Restart
      PROVE  StuckOnlyByCreate'
  BY <1>28 DEF Restart, StuckOnlyByCreate
<1>29. CASE UNCHANGED vars
  BY <1>29 DEF vars, sandboxVars, StuckOnlyByCreate
<1>30. ASSUME NEW c \in Caller, Create(c)
      PROVE  StuckOnlyByCreate'
  BY <1>30 DEF Create, sandboxVars, StuckOnlyByCreate
<1>31. ASSUME NEW c \in Caller, Materialise(c)
      PROVE  StuckOnlyByCreate'
  BY <1>31 DEF Materialise, CreateInv, NoDeadHandle, StuckOnlyByCreate
<1>32. ASSUME NEW c \in Caller, CreateReturns(c)
      PROVE  StuckOnlyByCreate'
  BY <1>32 DEF CreateReturns, sandboxVars, StuckOnlyByCreate
<1>33. ASSUME NEW c \in Caller, CreateCache(c)
      PROVE  StuckOnlyByCreate'
  BY <1>33 DEF CreateCache, sandboxVars, StuckOnlyByCreate
<1>34. ASSUME NEW c \in Caller, CreateFails(c)
      PROVE  StuckOnlyByCreate'
  BY <1>34 DEF CreateFails, sandboxVars, StuckOnlyByCreate
<1>35. ASSUME NEW c \in Caller, CleanStop(c)
      PROVE  StuckOnlyByCreate'
  BY <1>35 DEF CleanStop, StuckOnlyByCreate
<1>36. ASSUME NEW c \in Caller, CleanRemove(c)
      PROVE  StuckOnlyByCreate'
  BY <1>36 DEF CleanRemove, StuckOnlyByCreate
<1> QED
  BY <1>1, <1>2, <1>3, <1>4, <1>5, <1>6, <1>7, <1>8, <1>9, <1>10, <1>11, <1>12, <1>13, <1>14,
     <1>15, <1>16, <1>17, <1>18, <1>19, <1>20, <1>21, <1>22, <1>23, <1>24, <1>25, <1>26, <1>27,
     <1>28, <1>29, <1>30, <1>31, <1>32, <1>33, <1>34, <1>35, <1>36
    DEF Next, Arrive, ResolveStep, CreateStep, ServiceStep, Kind

-----------------------------------------------------------------------------
\* The inductive invariant holds before the first request.
LEMMA InvInit == Init => IInv
<1> SUFFICES ASSUME Init PROVE IInv
  OBVIOUS
<1>1. TypeOK
  <2>1. late \in BOOLEAN
    BY DEF Init
  <2>2. boot \in Handle /\ up \subseteq Handle /\ vm \in VmState
    <3>1. 0 \in Handle
      BY Handles DEF NoHandle
    <3> QED
      BY <3>1, Handles DEF Init, VmState
  <2> QED
    BY <2>1, <2>2, Handles DEF Init, TypeOK, Kind, At
<1>2. OneFlight /\ LeaderInv
  BY RegistryAssumption DEF Init, OneFlight, LeaderInv, Filling, Leading
<1>3. RunningIsUp /\ CreateInv
  BY DEF Init, RunningIsUp, CreateInv
<1>4. NoDeadHandle /\ StuckOnlyByCreate
  BY DEF Init, NoDeadHandle, StuckOnlyByCreate
<1> QED
  BY <1>1, <1>2, <1>3, <1>4 DEF IInv

\* The inductive invariant survives every step.
LEMMA InvStep == IInv /\ [Next]_vars => IInv'
  BY TypeStep, FlightStep, LeaderStep, RunningStep, CreatedStep, DeadStep, StuckStep DEF IInv

\* The inductive invariant (types, the lone leader and what its handle is) always holds.
THEOREM Invariance == Spec => []IInv
  BY InvInit, InvStep, PTL DEF Spec

\* Type correctness of every variable of Registry.
THEOREM TypeCorrect == Spec => []TypeOK
<1>1. IInv => TypeOK
  BY DEF IInv
<1> QED
  BY <1>1, Invariance, PTL

\* One request at a time is inside the singleflight function.
THEOREM FlightsAlone == Spec => []OneFlight
<1>1. IInv => OneFlight
  BY DEF IInv
<1> QED
  BY <1>1, Invariance, PTL

\* The handle of a guest that never came up is never cached.
THEOREM NoDeadHandleCached == Spec => []NoDeadHandle
<1>1. IInv => NoDeadHandle
  BY DEF IInv
<1> QED
  BY <1>1, Invariance, PTL

\* A stale cached handle belongs to a sandbox that is down, unless a Create cached it late.
THEOREM StaleMeansDown == Spec => []StuckOnlyByCreate
<1>1. IInv => StuckOnlyByCreate
  BY DEF IInv
<1> QED
  BY <1>1, Invariance, PTL
-----------------------------------------------------------------------------
(* What is remembered of a deleted sandbox, for any number of requests     *)
(* and jobs                                                                *)
(*                                                                         *)
(* A Delete that ran beside no request that adds to the record clears the  *)
(* jobs when it drops them and the maps when it forgets, and nobody is     *)
(* there to fill either before the removal (Apart, Cleared); afterwards a  *)
(* request that comes for the sandbox gets no further than its look.       *)

\* Which requests are at which places, and what a launch has in hand.
Places ==
  \A r \in Client :
    /\ rPc[r] = "idle" <=> rKind[r] = "none"
    /\ ~serving => rPc[r] = "idle"
    /\ rPc[r] \in {"creating", "caching", "pinning"} => rKind[r] = "create"
    /\ rPc[r] \in {"resolving", "attaching", "filling"} =>
         rKind[r] \in {"start", "run", "retry", "launch"}
    /\ rPc[r] = "running" => rKind[r] = "run"
    /\ rPc[r] \in {"opening", "registering"} => rKind[r] = "launch"
    /\ rPc[r] = "forgetting" => rKind[r] \in {"stop", "run", "delete"}
    /\ rPc[r] \in {"dropping", "removing"} => rKind[r] = "delete"
    /\ rPc[r] = "registering" => held[r] \in {j \in Job : stream[j] # "none"}

\* A Delete runs for a sandbox that has been there, and beside nothing that adds to the record.
Apart ==
  /\ rVm = "none" => Record!Deleting = {}
  /\ ~overlap => Record!Deleting = {} \/ Record!Adding = {}

Clean == ~rLive /\ ~made /\ workdir = NoDir

\* What an undisturbed Delete has behind it: after the drop there are no jobs, after the
\* forget no entries, and once the sandbox is gone nobody comes past the look for it.
Cleared ==
  ~overlap =>
    /\ \A r \in Client :
         /\ rKind[r] = "delete" /\ rPc[r] \in {"forgetting", "removing"} => tracked = {}
         /\ rPc[r] = "removing" => Clean
    /\ rVm = "gone" =>
         /\ Clean /\ tracked = {}
         /\ \A r \in Record!Adding : rPc[r] = "resolving"

RecordInv == Record!TypeOK /\ Places /\ Apart /\ Cleared

\* Nothing is there and nothing is remembered.
LEMMA RecordInit == Record!Init => RecordInv
<1> SUFFICES ASSUME Record!Init PROVE RecordInv
  OBVIOUS
<1> USE DEF Record!Adding, Record!Deleting, Record!At, Record!Kind, Record!Exists
<1>1. Record!TypeOK
  <2>1. rLive \in BOOLEAN /\ made \in BOOLEAN /\ serving \in BOOLEAN /\ overlap \in BOOLEAN
    BY DEF Record!Init
  <2> QED
    BY <2>1 DEF Record!Init, Record!TypeOK
<1>2. Places /\ Apart /\ Cleared
  BY DEF Record!Init, Places, Apart, Cleared, Clean
<1> QED
  BY <1>1, <1>2 DEF RecordInv

\* Every step of a request, a job, the host or the daemon keeps the invariant.
LEMMA RecordStep == RecordInv /\ [Record!Next]_Record!vars => RecordInv'
<1> SUFFICES ASSUME RecordInv, [Record!Next]_Record!vars
             PROVE  RecordInv'
  OBVIOUS
<1> USE DEF RecordInv, Record!TypeOK, Places, Apart, Cleared, Clean, Record!Adding,
            Record!Deleting, Record!At, Record!Kind, Record!Exists, Record!maps,
            Record!request, Record!jobs, Record!Goto, Record!Over, Record!Begin, Record!Cache
<1>1. ASSUME NEW r \in Client, Record!Create(r) PROVE RecordInv'
  BY <1>1 DEF Record!Create
<1>2. ASSUME NEW r \in Client, Record!Materialise(r) PROVE RecordInv'
  BY <1>2 DEF Record!Materialise
<1>3. ASSUME NEW r \in Client, Record!Arrive(r) PROVE RecordInv'
  <2>1. Record!TypeOK'
    <3>1. overlap' = (overlap \/ Record!Deleting # {})
      BY <1>3 DEF Record!Arrive
    <3>2. PICK k \in {"start", "run", "launch"} : Record!Begin(r, k, "resolving")
      BY <1>3 DEF Record!Arrive
    <3>3. UNCHANGED <<rVm, rLive, made, workdir, pin, answered, serving, tracked, stream>>
      BY <1>3 DEF Record!Arrive
    <3>4. overlap' \in BOOLEAN
      <4> HIDE DEF RecordInv
      <4> QED
        BY <3>1
    <3> QED
      BY <3>2, <3>3, <3>4
  <2>2. Places'
    BY <1>3 DEF Record!Arrive
  <2>3. Apart'
    <3>1. Record!Deleting' = Record!Deleting /\ UNCHANGED rVm
      BY <1>3 DEF Record!Arrive
    <3>2. ~overlap' => Record!Deleting = {}
      BY <1>3 DEF Record!Arrive
    <3> QED
      BY <3>1, <3>2
  <2>4. Cleared'
    BY <1>3 DEF Record!Arrive
  <2> QED
    BY <2>1, <2>2, <2>3, <2>4
<1>4. ASSUME NEW r \in Client, Record!Stop(r) PROVE RecordInv'
  BY <1>4 DEF Record!Stop
<1>5. ASSUME NEW r \in Client, Record!Delete(r) PROVE RecordInv'
  <2>1. Record!TypeOK'
    BY <1>5 DEF Record!Delete
  <2>2. Places'
    BY <1>5 DEF Record!Delete
  <2>3. Apart'
    BY <1>5 DEF Record!Delete
  <2>4. Cleared'
    BY <1>5 DEF Record!Delete
  <2> QED
    BY <2>1, <2>2, <2>3, <2>4
<1>6. ASSUME NEW r \in Client, Record!RequestStep(r) PROVE RecordInv'
  <2>1. CASE Record!CreateReturns(r)
    BY <2>1 DEF Record!CreateReturns
  <2>2. CASE Record!CreateFails(r)
    <3>1. Record!TypeOK'
      BY <2>2 DEF Record!CreateFails
    <3>2. Places'
      BY <2>2 DEF Record!CreateFails
    <3>3. Apart'
      BY <2>2 DEF Record!CreateFails
    <3>4. Cleared'
      BY <2>2 DEF Record!CreateFails
    <3> QED
      BY <3>1, <3>2, <3>3, <3>4
  <2>3. CASE Record!CreateCaches(r)
    BY <2>3 DEF Record!CreateCaches
  <2>4. CASE Record!CreatePins(r)
    BY <2>4 DEF Record!CreatePins
  <2>5. CASE Record!Hit(r)
    BY <2>5 DEF Record!Hit, Record!Resolved
  <2>6. CASE Record!Look(r)
    BY <2>6 DEF Record!Look
  <2>7. CASE Record!Attach(r)
    BY <2>7 DEF Record!Attach
  <2>8. CASE Record!Fill(r)
    BY <2>8 DEF Record!Fill, Record!Resolved
  <2>9. CASE Record!GiveUp(r)
    BY <2>9 DEF Record!GiveUp
  <2>10. CASE Record!RunFails(r)
    BY <2>10 DEF Record!RunFails
  <2>11. CASE Record!Open(r)
    BY <2>11 DEF Record!Open
  <2>12. CASE Record!Register(r)
    BY <2>12 DEF Record!Register
  <2>13. CASE Record!Drop(r)
    BY <2>13 DEF Record!Drop
  <2>14. CASE Record!Forget(r)
    <3>1. Record!TypeOK'
      BY <2>14 DEF Record!Forget, Record!Forgotten
    <3>2. Places'
      BY <2>14 DEF Record!Forget, Record!Forgotten
    <3>3. Apart'
      BY <2>14 DEF Record!Forget, Record!Forgotten
    <3>4. Cleared'
      BY <2>14 DEF Record!Forget, Record!Forgotten
    <3> QED
      BY <3>1, <3>2, <3>3, <3>4
  <2>15. CASE Record!Remove(r)
    BY <2>15 DEF Record!Remove
  <2> QED
    BY <1>6, <2>1, <2>2, <2>3, <2>4, <2>5, <2>6, <2>7, <2>8, <2>9, <2>10, <2>11, <2>12, <2>13,
       <2>14, <2>15 DEF Record!RequestStep
<1>7. ASSUME NEW j \in Job, Record!StreamEnds(j) \/ Record!Evict(j) PROVE RecordInv'
  BY <1>7 DEF Record!StreamEnds, Record!Evict
<1>8. CASE Record!GoesDown
  BY <1>8 DEF Record!GoesDown
<1>9. CASE Record!Restart
  BY <1>9 DEF Record!Restart
<1>10. CASE Record!Reconcile
  <2>1. Record!TypeOK'
    <3>1. made' \in {made, made \/ Record!Exists} /\ made \in BOOLEAN
      BY <1>10 DEF Record!Reconcile
    <3>2. serving' \in BOOLEAN
      BY <1>10 DEF Record!Reconcile
    <3>3. made' \in BOOLEAN
      <4> HIDE DEF RecordInv, Record!Exists
      <4> QED
        BY <3>1
    <3> QED
      BY <1>10, <3>2, <3>3 DEF Record!Reconcile
  <2>2. Places'
    BY <1>10 DEF Record!Reconcile
  <2>3. Apart'
    BY <1>10 DEF Record!Reconcile
  <2>4. Cleared'
    BY <1>10 DEF Record!Reconcile
  <2> QED
    BY <2>1, <2>2, <2>3, <2>4
<1>11. CASE UNCHANGED Record!vars
  BY <1>11 DEF Record!vars
<1> QED
  BY <1>1, <1>2, <1>3, <1>4, <1>5, <1>6, <1>7, <1>8, <1>9, <1>10, <1>11 DEF Record!Next

\* What the daemon keeps of a deleted sandbox came from a request beside the Delete.
THEOREM ResidueComesFromOverlap == Record!Spec => []ResidueFromOverlap
<1> USE DEF Record!Adding, Record!Deleting, Record!At, Record!Kind, Record!Exists
<1>1. RecordInv => ResidueFromOverlap
  BY DEF RecordInv, Cleared, Clean, ResidueFromOverlap, Record!ResidueFromOverlap
<1> QED
  BY <1>1, RecordInit, RecordStep, PTL DEF Record!Spec

\* Every reachable state of SandboxRecord is well typed.
THEOREM RecordTypeCorrect == Record!Spec => []Record!TypeOK
<1>1. RecordInv => Record!TypeOK
  BY DEF RecordInv
<1> QED
  BY <1>1, RecordInit, RecordStep, PTL DEF Record!Spec
=============================================================================
