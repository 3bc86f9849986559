--------------------------- MODULE AdmissionProofs ---------------------------
(***************************************************************************)
(* The capacity cap for any number of creates, pulls and names.            *)
(*                                                                         *)
(* A create counts for the cap in three ways, one after the other: by the  *)
(* slot it reserved (inflight), and by its sandbox once count() can list   *)
(* it; in between, and after a failure, by both or by the slot alone.  The *)
(* invariant keeps room for the creates still to come:                     *)
(*   Room     the sandboxes of creates, and the creates whose sandbox is   *)
(*            still to appear, do not exceed the cap together;             *)
(*   Counted  while a request counts, every such sandbox has been listed,  *)
(*            or will be, or belongs to a create that holds a slot.        *)
(* Counted needs that a slot is not released while somebody counts, which  *)
(* is what the admit mutex around the deferred decrement is for.           *)
(*                                                                         *)
(* At the end are two modules that a create reaches and that have a state  *)
(* of their own: the numbers of its request (Opts), and the pull of an     *)
(* image (Image).                                                          *)
(***************************************************************************)
EXTENDS Creation, FiniteSetTheorems, FunctionTheorems, TLAPS

\* The creates that hold a slot, and those of them without a sandbox so far.
Held == {r \in Req : pc[r] \in HoldsSlot}
Coming == {r \in Req : pc[r] \in {"admitted", "booting"}}

\* The name of a create is its own, and new to the host until its sandbox appears.
OwnName ==
  \A r \in Held :
    /\ name[r] \in Name
    /\ name[r] \notin pulled
    /\ r \in Coming => name[r] \notin vms
    /\ \A q \in Held : name[q] = name[r] => q = r

Counted ==
  \A r \in Req : pc[r] = "counting" =>
    vms \ pulled \subseteq seen[r] \cup unlisted[r] \cup {name[q] : q \in Held}

Room == Cardinality(vms \ pulled) + Cardinality(Coming) <= Max

IInv ==
  /\ TypeOK
  /\ SlotsExact
  /\ AdmitHeldToCount
  /\ OwnName
  /\ Counted
  /\ Room
-----------------------------------------------------------------------------
(* Sets *)

\* Sets of requests and of names are finite, so their sizes are numbers.
LEMMA Finite ==
  /\ \A R \in SUBSET Req : IsFiniteSet(R) /\ Cardinality(R) \in Nat
  /\ \A V \in SUBSET Name : IsFiniteSet(V) /\ Cardinality(V) \in Nat
  BY AdmissionAssumption, FS_Subset, FS_CardinalityType

\* One element less, one element more.
LEMMA OneLess ==
  ASSUME NEW S, IsFiniteSet(S), NEW x \in S
  PROVE  Cardinality(S \ {x}) = Cardinality(S) - 1
  BY FS_RemoveElement

\* One more element makes a set larger by one at most.
LEMMA OneMore ==
  ASSUME NEW S, IsFiniteSet(S), NEW x
  PROVE  Cardinality(S \cup {x}) <= Cardinality(S) + 1
<1>1. Cardinality(S) \in Nat
  BY FS_CardinalityType
<1>2. Cardinality(S \cup {x}) = Cardinality(S) \/ Cardinality(S \cup {x}) = Cardinality(S) + 1
  BY FS_AddElement
<1> QED
  BY <1>1, <1>2

\* There are at most as many names as there are requests that have one.
LEMMA NamesOfRequests ==
  ASSUME TypeOK, NEW R \in SUBSET Req, \A q \in R : name[q] \in Name
  PROVE  /\ {name[q] : q \in R} \subseteq Name
         /\ Cardinality({name[q] : q \in R}) <= Cardinality(R)
<1> DEFINE T == {name[q] : q \in R}
           f == [q \in R |-> name[q]]
<1>1. f \in Surjection(R, T)
  <2>1. f \in [R -> T] /\ \A t \in T : \E q \in R : f[q] = t
    OBVIOUS
  <2> QED
    BY <2>1, Fun_IsSurj
<1>2. IsFiniteSet(R)
  BY Finite
<1>3. Cardinality(T) <= Cardinality(R)
  BY <1>1, <1>2, FS_Surjection
<1> QED
  BY <1>3

\* The arithmetic of admission: a count that covers every sandbox of a create, together
\* with the reserved slots, bounds the sandboxes there are and the ones to come.
LEMMA CountCovers ==
  ASSUME TypeOK, SlotsExact, OwnName,
         NEW r \in Req, vms \ pulled \subseteq seen[r] \cup {name[q] : q \in Held}
  PROVE  Cardinality(vms \ pulled) + Cardinality(Coming) <= Cardinality(seen[r]) + inflight
<1> DEFINE Landed == Held \ Coming
           N == {name[q] : q \in Landed}
<1>1. /\ Held \subseteq Req /\ Coming \subseteq Held /\ Landed \subseteq Req
      /\ Landed \cup Coming = Held /\ Landed \cap Coming = {}
  BY DEF Held, Coming, HoldsSlot
<1>2. vms \ pulled \subseteq seen[r] \cup N
  BY DEF OwnName
<1>3. N \subseteq Name /\ Cardinality(N) <= Cardinality(Landed)
  BY <1>1, NamesOfRequests DEF OwnName
<1>4. Cardinality(Held) = Cardinality(Landed) + Cardinality(Coming)
  <2>1. Cardinality(Landed \cap Coming) = 0
    BY <1>1, FS_EmptySet
  <2>2. IsFiniteSet(Landed) /\ IsFiniteSet(Coming)
    BY <1>1, Finite
  <2>3. Cardinality(Landed \cup Coming)
          = Cardinality(Landed) + Cardinality(Coming) - Cardinality(Landed \cap Coming)
    BY <2>2, FS_Union
  <2>5. Cardinality(Landed \cup Coming) = Cardinality(Held)
    BY <1>1
  <2> HIDE DEF Landed
  <2>4. Cardinality(Landed) \in Nat /\ Cardinality(Coming) \in Nat
    BY <1>1, Finite
  <2> QED
    BY <2>1, <2>3, <2>4, <2>5
<1>5. Cardinality(vms \ pulled) <= Cardinality(seen[r]) + Cardinality(N)
  <2>1. seen[r] \subseteq Name /\ seen[r] \cup N \subseteq Name /\ vms \ pulled \subseteq Name
    BY <1>3 DEF TypeOK
  <2>2. Cardinality(vms \ pulled) <= Cardinality(seen[r] \cup N)
    BY <1>2, <2>1, Finite, FS_Subset
  <2> HIDE DEF N
  <2>3. IsFiniteSet(seen[r]) /\ IsFiniteSet(N)
    BY <1>3, <2>1, Finite
  <2>4. Cardinality(seen[r] \cup N)
          = Cardinality(seen[r]) + Cardinality(N) - Cardinality(seen[r] \cap N)
    BY <2>3, FS_Union
  <2>5. /\ Cardinality(seen[r]) \in Nat /\ Cardinality(N) \in Nat
        /\ Cardinality(seen[r] \cap N) \in Nat
        /\ Cardinality(vms \ pulled) \in Nat
    BY <1>3, <2>1, Finite
  <2> HIDE DEF N
  <2> QED
    BY <2>2, <2>4, <2>5
<1>6. /\ Cardinality(vms \ pulled) \in Nat /\ Cardinality(Coming) \in Nat
      /\ Cardinality(Landed) \in Nat /\ Cardinality(seen[r]) \in Nat /\ Cardinality(N) \in Nat
  BY <1>1, <1>3, Finite DEF TypeOK
<1>7. inflight = Cardinality(Held)
  BY DEF SlotsExact, Held
<1> HIDE DEF N, Landed
<1> QED
  BY <1>3, <1>4, <1>5, <1>6, <1>7
-----------------------------------------------------------------------------
(* Each part of the invariant is preserved *)

\* No step of a create or pull takes a variable out of its type; a decrement of inflight
\* stays a number because the decrementing create holds a slot.
LEMMA TypeStep == TypeOK /\ SlotsExact /\ OwnName /\ [Next]_vars => TypeOK'
<1> SUFFICES ASSUME TypeOK, SlotsExact, OwnName, [Next]_vars
             PROVE  TypeOK'
  OBVIOUS
<1>1. ASSUME NEW r \in Req, Arrive(r)
      PROVE  TypeOK'
  BY <1>1 DEF Arrive, Goto, TypeOK, At
<1>2. ASSUME NEW r \in Req, AdmitLock(r)
      PROVE  TypeOK'
  BY <1>2 DEF AdmitLock, Goto, TypeOK, At
<1>3. ASSUME NEW r \in Req, ListPage(r)
      PROVE  TypeOK'
  BY <1>3 DEF ListPage, TypeOK
<1>4. ASSUME NEW r \in Req, CountFails(r)
      PROVE  TypeOK'
  BY <1>4 DEF CountFails, Goto, TypeOK, At
<1>5. ASSUME NEW r \in Req, Refuse(r)
      PROVE  TypeOK'
  BY <1>5 DEF Refuse, Goto, TypeOK, At
<1>6. ASSUME NEW r \in Req, RefuseReturn(r)
      PROVE  TypeOK'
  BY <1>6 DEF RefuseReturn, Goto, TypeOK, At
<1>7. ASSUME NEW r \in Req, Admit(r)
      PROVE  TypeOK'
  BY <1>7 DEF Admit, Goto, TypeOK, At
<1>8. ASSUME NEW r \in Req, BuildFails(r)
      PROVE  TypeOK'
  BY <1>8 DEF BuildFails, Goto, TypeOK, At
<1>9. ASSUME NEW r \in Req, Boot(r)
      PROVE  TypeOK'
  BY <1>9 DEF Boot, Goto, TypeOK, At
<1>10. ASSUME NEW r \in Req, Materialise(r)
      PROVE  TypeOK'
  BY <1>10 DEF Materialise, Goto, TypeOK, At, HoldsSlot, Held, OwnName
<1>11. ASSUME NEW r \in Req, BootReturns(r)
      PROVE  TypeOK'
  BY <1>11 DEF BootReturns, Goto, TypeOK, At
<1>12. ASSUME NEW r \in Req, BootFails(r)
      PROVE  TypeOK'
  BY <1>12 DEF BootFails, Goto, TypeOK, At
<1>13. ASSUME NEW r \in Req, CleanupRemoves(r)
      PROVE  TypeOK'
  BY <1>13 DEF CleanupRemoves, Goto, TypeOK, At, HoldsSlot, Held, OwnName
<1>14. ASSUME NEW r \in Req, CleanupFails(r)
      PROVE  TypeOK'
  BY <1>14 DEF CleanupFails, Goto, TypeOK, At
<1>15. ASSUME NEW r \in Req, Probed(r)
      PROVE  TypeOK'
  BY <1>15 DEF Probed, Goto, TypeOK, At
<1>16. ASSUME NEW r \in Req, Release(r)
      PROVE  TypeOK'
  <2>1. Cardinality(Held) # 0
    BY <1>16, Finite, FS_EmptySet DEF Release, HoldsSlot, Held
  <2>2. inflight - 1 \in Nat
    BY <2>1 DEF SlotsExact, TypeOK, Held
  <2> QED
    BY <1>16, <2>2 DEF Release, Goto, TypeOK, At
<1>17. ASSUME NEW n \in Name, Delete(n)
      PROVE  TypeOK'
  BY <1>17 DEF Delete, createVars, TypeOK
<1>18. ASSUME NEW p \in Puller, PullBoot(p)
      PROVE  TypeOK'
  BY <1>18 DEF PullBoot, createVars, TypeOK
<1>19. ASSUME NEW p \in Puller, PullReturn(p)
      PROVE  TypeOK'
  BY <1>19 DEF PullReturn, createVars, TypeOK
<1>20. ASSUME Restart
      PROVE  TypeOK'
  BY <1>20 DEF Restart, TypeOK, At
<1>21. CASE UNCHANGED vars
  BY <1>21 DEF vars, createVars, TypeOK
<1> QED
  BY <1>1, <1>2, <1>3, <1>4, <1>5, <1>6, <1>7, <1>8, <1>9, <1>10, <1>11, <1>12, <1>13, <1>14,
     <1>15, <1>16, <1>17, <1>18, <1>19, <1>20, <1>21
    DEF Next, CreateStep, CreateFault

\* Whoever is between locking and unlocking admit is its owner, alone.
LEMMA MutexStep == TypeOK /\ AdmitHeldToCount /\ [Next]_vars => AdmitHeldToCount'
<1> SUFFICES ASSUME TypeOK, AdmitHeldToCount, [Next]_vars
             PROVE  AdmitHeldToCount'
  OBVIOUS
<1>1. ASSUME NEW r \in Req, Arrive(r)
      PROVE  AdmitHeldToCount'
  BY <1>1 DEF Arrive, Goto, AdmitHeldToCount
<1>2. ASSUME NEW r \in Req, AdmitLock(r)
      PROVE  AdmitHeldToCount'
  BY <1>2, AdmissionAssumption DEF AdmitLock, Goto, TypeOK, AdmitHeldToCount
<1>3. ASSUME NEW r \in Req, ListPage(r)
      PROVE  AdmitHeldToCount'
  BY <1>3 DEF ListPage, AdmitHeldToCount
<1>4. ASSUME NEW r \in Req, CountFails(r)
      PROVE  AdmitHeldToCount'
  BY <1>4, AdmissionAssumption DEF CountFails, Goto, TypeOK, AdmitHeldToCount
<1>5. ASSUME NEW r \in Req, Refuse(r)
      PROVE  AdmitHeldToCount'
  BY <1>5, AdmissionAssumption DEF Refuse, Goto, TypeOK, AdmitHeldToCount
<1>6. ASSUME NEW r \in Req, RefuseReturn(r)
      PROVE  AdmitHeldToCount'
  BY <1>6 DEF RefuseReturn, Goto, AdmitHeldToCount
<1>7. ASSUME NEW r \in Req, Admit(r)
      PROVE  AdmitHeldToCount'
  BY <1>7, AdmissionAssumption DEF Admit, Goto, TypeOK, AdmitHeldToCount
<1>8. ASSUME NEW r \in Req, BuildFails(r)
      PROVE  AdmitHeldToCount'
  BY <1>8 DEF BuildFails, Goto, AdmitHeldToCount
<1>9. ASSUME NEW r \in Req, Boot(r)
      PROVE  AdmitHeldToCount'
  BY <1>9 DEF Boot, Goto, AdmitHeldToCount
<1>10. ASSUME NEW r \in Req, Materialise(r)
      PROVE  AdmitHeldToCount'
  BY <1>10 DEF Materialise, Goto, AdmitHeldToCount
<1>11. ASSUME NEW r \in Req, BootReturns(r)
      PROVE  AdmitHeldToCount'
  BY <1>11 DEF BootReturns, Goto, AdmitHeldToCount
<1>12. ASSUME NEW r \in Req, BootFails(r)
      PROVE  AdmitHeldToCount'
  BY <1>12 DEF BootFails, Goto, AdmitHeldToCount
<1>13. ASSUME NEW r \in Req, CleanupRemoves(r)
      PROVE  AdmitHeldToCount'
  BY <1>13 DEF CleanupRemoves, Goto, AdmitHeldToCount
<1>14. ASSUME NEW r \in Req, CleanupFails(r)
      PROVE  AdmitHeldToCount'
  BY <1>14 DEF CleanupFails, Goto, AdmitHeldToCount
<1>15. ASSUME NEW r \in Req, Probed(r)
      PROVE  AdmitHeldToCount'
  BY <1>15 DEF Probed, Goto, AdmitHeldToCount
<1>16. ASSUME NEW r \in Req, Release(r)
      PROVE  AdmitHeldToCount'
  BY <1>16 DEF Release, Goto, AdmitHeldToCount
<1>17. ASSUME NEW n \in Name, Delete(n)
      PROVE  AdmitHeldToCount'
  BY <1>17 DEF Delete, createVars, AdmitHeldToCount
<1>18. ASSUME NEW p \in Puller, PullBoot(p)
      PROVE  AdmitHeldToCount'
  BY <1>18 DEF PullBoot, createVars, AdmitHeldToCount
<1>19. ASSUME NEW p \in Puller, PullReturn(p)
      PROVE  AdmitHeldToCount'
  BY <1>19 DEF PullReturn, createVars, AdmitHeldToCount
<1>20. ASSUME Restart
      PROVE  AdmitHeldToCount'
  BY <1>20, AdmissionAssumption DEF Restart, AdmitHeldToCount
<1>21. CASE UNCHANGED vars
  BY <1>21 DEF vars, createVars, AdmitHeldToCount
<1> QED
  BY <1>1, <1>2, <1>3, <1>4, <1>5, <1>6, <1>7, <1>8, <1>9, <1>10, <1>11, <1>12, <1>13, <1>14,
     <1>15, <1>16, <1>17, <1>18, <1>19, <1>20, <1>21
    DEF Next, CreateStep, CreateFault

\* inflight changes exactly when a create gains or gives back its slot.
LEMMA SlotStep == TypeOK /\ SlotsExact /\ [Next]_vars => SlotsExact'
<1> SUFFICES ASSUME TypeOK, SlotsExact, [Next]_vars
             PROVE  SlotsExact'
  OBVIOUS
<1>1. ASSUME NEW r \in Req, Arrive(r)
      PROVE  SlotsExact'
  <2>1. Held' = Held
    BY <1>1 DEF Arrive, Goto, HoldsSlot, Held
  <2> QED
    BY <1>1, <2>1 DEF Arrive, Held, SlotsExact
<1>2. ASSUME NEW r \in Req, AdmitLock(r)
      PROVE  SlotsExact'
  <2>1. Held' = Held
    BY <1>2 DEF AdmitLock, Goto, HoldsSlot, Held
  <2> QED
    BY <1>2, <2>1 DEF AdmitLock, Held, SlotsExact
<1>3. ASSUME NEW r \in Req, ListPage(r)
      PROVE  SlotsExact'
  <2>1. Held' = Held
    BY <1>3 DEF ListPage, Held
  <2> QED
    BY <1>3, <2>1 DEF ListPage, SlotsExact
<1>4. ASSUME NEW r \in Req, CountFails(r)
      PROVE  SlotsExact'
  <2>1. Held' = Held
    BY <1>4 DEF CountFails, Goto, HoldsSlot, Held
  <2> QED
    BY <1>4, <2>1 DEF CountFails, Held, SlotsExact
<1>5. ASSUME NEW r \in Req, Refuse(r)
      PROVE  SlotsExact'
  <2>1. Held' = Held
    BY <1>5 DEF Refuse, Goto, HoldsSlot, Held
  <2> QED
    BY <1>5, <2>1 DEF Refuse, Held, SlotsExact
<1>6. ASSUME NEW r \in Req, RefuseReturn(r)
      PROVE  SlotsExact'
  <2>1. Held' = Held
    BY <1>6 DEF RefuseReturn, Goto, HoldsSlot, Held
  <2> QED
    BY <1>6, <2>1 DEF RefuseReturn, Held, SlotsExact
<1>7. ASSUME NEW r \in Req, Admit(r)
      PROVE  SlotsExact'
  <2>1. Held' = Held \cup {r} /\ r \notin Held
    BY <1>7 DEF Admit, Goto, TypeOK, HoldsSlot, Held
  <2>2. Cardinality(Held') = Cardinality(Held) + 1
    BY <2>1, Finite, FS_AddElement DEF Held
  <2> QED
    BY <1>7, <2>2 DEF Admit, Held, SlotsExact
<1>8. ASSUME NEW r \in Req, BuildFails(r)
      PROVE  SlotsExact'
  <2>1. Held' = Held
    BY <1>8 DEF BuildFails, Goto, HoldsSlot, Held
  <2> QED
    BY <1>8, <2>1 DEF BuildFails, Held, SlotsExact
<1>9. ASSUME NEW r \in Req, Boot(r)
      PROVE  SlotsExact'
  <2>1. Held' = Held
    BY <1>9 DEF Boot, Goto, HoldsSlot, Held
  <2> QED
    BY <1>9, <2>1 DEF Boot, Held, SlotsExact
<1>10. ASSUME NEW r \in Req, Materialise(r)
      PROVE  SlotsExact'
  <2>1. Held' = Held
    BY <1>10 DEF Materialise, Goto, HoldsSlot, Held
  <2> QED
    BY <1>10, <2>1 DEF Materialise, Held, SlotsExact
<1>11. ASSUME NEW r \in Req, BootReturns(r)
      PROVE  SlotsExact'
  <2>1. Held' = Held
    BY <1>11 DEF BootReturns, Goto, HoldsSlot, Held
  <2> QED
    BY <1>11, <2>1 DEF BootReturns, Held, SlotsExact
<1>12. ASSUME NEW r \in Req, BootFails(r)
      PROVE  SlotsExact'
  <2>1. Held' = Held
    BY <1>12 DEF BootFails, Goto, HoldsSlot, Held
  <2> QED
    BY <1>12, <2>1 DEF BootFails, Held, SlotsExact
<1>13. ASSUME NEW r \in Req, CleanupRemoves(r)
      PROVE  SlotsExact'
  <2>1. Held' = Held
    BY <1>13 DEF CleanupRemoves, Goto, HoldsSlot, Held
  <2> QED
    BY <1>13, <2>1 DEF CleanupRemoves, Held, SlotsExact
<1>14. ASSUME NEW r \in Req, CleanupFails(r)
      PROVE  SlotsExact'
  <2>1. Held' = Held
    BY <1>14 DEF CleanupFails, Goto, HoldsSlot, Held
  <2> QED
    BY <1>14, <2>1 DEF CleanupFails, Held, SlotsExact
<1>15. ASSUME NEW r \in Req, Probed(r)
      PROVE  SlotsExact'
  <2>1. Held' = Held
    BY <1>15 DEF Probed, Goto, HoldsSlot, Held
  <2> QED
    BY <1>15, <2>1 DEF Probed, Held, SlotsExact
<1>16. ASSUME NEW r \in Req, Release(r)
      PROVE  SlotsExact'
  <2>1. Held' = Held \ {r} /\ r \in Held
    BY <1>16 DEF Release, Goto, TypeOK, HoldsSlot, Held
  <2>3. IsFiniteSet(Held)
    BY Finite DEF Held
  <2>2. Cardinality(Held') = Cardinality(Held) - 1
    BY <2>1, <2>3, OneLess
  <2> QED
    BY <1>16, <2>2 DEF Release, Held, SlotsExact
<1>17. ASSUME NEW n \in Name, Delete(n)
      PROVE  SlotsExact'
  <2>1. Held' = Held
    BY <1>17 DEF Delete, createVars, Held
  <2> QED
    BY <1>17, <2>1 DEF Delete, createVars, SlotsExact
<1>18. ASSUME NEW p \in Puller, PullBoot(p)
      PROVE  SlotsExact'
  <2>1. Held' = Held
    BY <1>18 DEF PullBoot, createVars, Held
  <2> QED
    BY <1>18, <2>1 DEF PullBoot, createVars, SlotsExact
<1>19. ASSUME NEW p \in Puller, PullReturn(p)
      PROVE  SlotsExact'
  <2>1. Held' = Held
    BY <1>19 DEF PullReturn, createVars, Held
  <2> QED
    BY <1>19, <2>1 DEF PullReturn, createVars, SlotsExact
<1>20. ASSUME Restart
      PROVE  SlotsExact'
  <2>1. Held' = {}
    BY <1>20 DEF Restart, HoldsSlot, Held
  <2> QED
    BY <1>20, <2>1, FS_EmptySet DEF Restart, Held, SlotsExact
<1>21. CASE UNCHANGED vars
  BY <1>21 DEF vars, createVars, SlotsExact
<1> QED
  BY <1>1, <1>2, <1>3, <1>4, <1>5, <1>6, <1>7, <1>8, <1>9, <1>10, <1>11, <1>12, <1>13, <1>14,
     <1>15, <1>16, <1>17, <1>18, <1>19, <1>20, <1>21
    DEF Next, CreateStep, CreateFault

\* A fresh name stays out of everybody else's hands until its sandbox appears.
LEMMA NameStep == TypeOK /\ OwnName /\ [Next]_vars => OwnName'
<1> SUFFICES ASSUME TypeOK, OwnName, [Next]_vars
             PROVE  OwnName'
  OBVIOUS
<1>1. ASSUME NEW r \in Req, Arrive(r)
      PROVE  OwnName'
  BY <1>1 DEF Arrive, Goto, HoldsSlot, Held, Coming, OwnName
<1>2. ASSUME NEW r \in Req, AdmitLock(r)
      PROVE  OwnName'
  BY <1>2 DEF AdmitLock, Goto, HoldsSlot, Held, Coming, OwnName
<1>3. ASSUME NEW r \in Req, ListPage(r)
      PROVE  OwnName'
  BY <1>3 DEF ListPage, Held, Coming, OwnName
<1>4. ASSUME NEW r \in Req, CountFails(r)
      PROVE  OwnName'
  BY <1>4 DEF CountFails, Goto, HoldsSlot, Held, Coming, OwnName
<1>5. ASSUME NEW r \in Req, Refuse(r)
      PROVE  OwnName'
  BY <1>5 DEF Refuse, Goto, HoldsSlot, Held, Coming, OwnName
<1>6. ASSUME NEW r \in Req, RefuseReturn(r)
      PROVE  OwnName'
  BY <1>6 DEF RefuseReturn, Goto, HoldsSlot, Held, Coming, OwnName
<1>7. ASSUME NEW r \in Req, Admit(r)
      PROVE  OwnName'
  BY <1>7 DEF Admit, Goto, Fresh, TypeOK, Held, Coming, OwnName
<1>8. ASSUME NEW r \in Req, BuildFails(r)
      PROVE  OwnName'
  BY <1>8 DEF BuildFails, Goto, HoldsSlot, Held, Coming, OwnName
<1>9. ASSUME NEW r \in Req, Boot(r)
      PROVE  OwnName'
  BY <1>9 DEF Boot, Goto, HoldsSlot, Held, Coming, OwnName
<1>10. ASSUME NEW r \in Req, Materialise(r)
      PROVE  OwnName'
  BY <1>10 DEF Materialise, Goto, TypeOK, HoldsSlot, Held, Coming, OwnName
<1>11. ASSUME NEW r \in Req, BootReturns(r)
      PROVE  OwnName'
  BY <1>11 DEF BootReturns, Goto, HoldsSlot, Held, Coming, OwnName
<1>12. ASSUME NEW r \in Req, BootFails(r)
      PROVE  OwnName'
  BY <1>12 DEF BootFails, Goto, HoldsSlot, Held, Coming, OwnName
<1>13. ASSUME NEW r \in Req, CleanupRemoves(r)
      PROVE  OwnName'
  BY <1>13 DEF CleanupRemoves, Goto, HoldsSlot, Held, Coming, OwnName
<1>14. ASSUME NEW r \in Req, CleanupFails(r)
      PROVE  OwnName'
  BY <1>14 DEF CleanupFails, Goto, HoldsSlot, Held, Coming, OwnName
<1>15. ASSUME NEW r \in Req, Probed(r)
      PROVE  OwnName'
  BY <1>15 DEF Probed, Goto, HoldsSlot, Held, Coming, OwnName
<1>16. ASSUME NEW r \in Req, Release(r)
      PROVE  OwnName'
  BY <1>16 DEF Release, Goto, TypeOK, HoldsSlot, Held, Coming, OwnName
<1>17. ASSUME NEW n \in Name, Delete(n)
      PROVE  OwnName'
  BY <1>17 DEF Delete, createVars, Held, Coming, OwnName
<1>18. ASSUME NEW p \in Puller, PullBoot(p)
      PROVE  OwnName'
  BY <1>18 DEF PullBoot, Fresh, createVars, Held, Coming, OwnName
<1>19. ASSUME NEW p \in Puller, PullReturn(p)
      PROVE  OwnName'
  BY <1>19 DEF PullReturn, createVars, Held, Coming, OwnName
<1>20. ASSUME Restart
      PROVE  OwnName'
  BY <1>20 DEF Restart, HoldsSlot, Held, OwnName
<1>21. CASE UNCHANGED vars
  BY <1>21 DEF vars, createVars, Held, Coming, OwnName
<1> QED
  BY <1>1, <1>2, <1>3, <1>4, <1>5, <1>6, <1>7, <1>8, <1>9, <1>10, <1>11, <1>12, <1>13, <1>14,
     <1>15, <1>16, <1>17, <1>18, <1>19, <1>20, <1>21
    DEF Next, CreateStep, CreateFault

\* A count in progress never misses a sandbox whose create has given back its slot.
LEMMA CountedStep == TypeOK /\ AdmitHeldToCount /\ OwnName /\ Counted /\ [Next]_vars => Counted'
<1> SUFFICES ASSUME TypeOK, AdmitHeldToCount, OwnName, Counted, [Next]_vars
             PROVE  Counted'
  OBVIOUS
<1>1. ASSUME NEW r \in Req, Arrive(r)
      PROVE  Counted'
  BY <1>1 DEF Arrive, Goto, HoldsSlot, Held, Counted
<1>2. ASSUME NEW r \in Req, AdmitLock(r)
      PROVE  Counted'
  BY <1>2 DEF AdmitLock, Goto, TypeOK, HoldsSlot, Held, Counted
<1>3. ASSUME NEW r \in Req, ListPage(r)
      PROVE  Counted'
  BY <1>3 DEF ListPage, TypeOK, Held, Counted
<1>4. ASSUME NEW r \in Req, CountFails(r)
      PROVE  Counted'
  BY <1>4 DEF CountFails, Goto, TypeOK, AdmitHeldToCount, Counted
<1>5. ASSUME NEW r \in Req, Refuse(r)
      PROVE  Counted'
  BY <1>5 DEF Refuse, Goto, TypeOK, AdmitHeldToCount, Counted
<1>6. ASSUME NEW r \in Req, RefuseReturn(r)
      PROVE  Counted'
  BY <1>6 DEF RefuseReturn, Goto, HoldsSlot, Held, Counted
<1>7. ASSUME NEW r \in Req, Admit(r)
      PROVE  Counted'
  BY <1>7 DEF Admit, Goto, Fresh, TypeOK, AdmitHeldToCount, Counted
<1>8. ASSUME NEW r \in Req, BuildFails(r)
      PROVE  Counted'
  BY <1>8 DEF BuildFails, Goto, HoldsSlot, Held, Counted
<1>9. ASSUME NEW r \in Req, Boot(r)
      PROVE  Counted'
  BY <1>9 DEF Boot, Goto, HoldsSlot, Held, Counted
<1>10. ASSUME NEW r \in Req, Materialise(r)
      PROVE  Counted'
  BY <1>10 DEF Materialise, Goto, HoldsSlot, Held, Counted
<1>11. ASSUME NEW r \in Req, BootReturns(r)
      PROVE  Counted'
  BY <1>11 DEF BootReturns, Goto, HoldsSlot, Held, Counted
<1>12. ASSUME NEW r \in Req, BootFails(r)
      PROVE  Counted'
  BY <1>12 DEF BootFails, Goto, HoldsSlot, Held, Counted
<1>13. ASSUME NEW r \in Req, CleanupRemoves(r)
      PROVE  Counted'
  BY <1>13 DEF CleanupRemoves, Goto, Held, Counted
<1>14. ASSUME NEW r \in Req, CleanupFails(r)
      PROVE  Counted'
  BY <1>14 DEF CleanupFails, Goto, HoldsSlot, Held, Counted
<1>15. ASSUME NEW r \in Req, Probed(r)
      PROVE  Counted'
  BY <1>15 DEF Probed, Goto, HoldsSlot, Held, Counted
<1>16. ASSUME NEW r \in Req, Release(r)
      PROVE  Counted'
  BY <1>16, AdmissionAssumption DEF Release, Goto, AdmitHeldToCount, Counted
<1>17. ASSUME NEW n \in Name, Delete(n)
      PROVE  Counted'
  BY <1>17 DEF Delete, createVars, Held, Counted
<1>18. ASSUME NEW p \in Puller, PullBoot(p)
      PROVE  Counted'
  BY <1>18 DEF PullBoot, Fresh, createVars, Held, Counted
<1>19. ASSUME NEW p \in Puller, PullReturn(p)
      PROVE  Counted'
  BY <1>19 DEF PullReturn, createVars, Held, Counted
<1>20. ASSUME Restart
      PROVE  Counted'
  BY <1>20 DEF Restart, Counted
<1>21. CASE UNCHANGED vars
  BY <1>21 DEF vars, createVars, Held, Counted
<1> QED
  BY <1>1, <1>2, <1>3, <1>4, <1>5, <1>6, <1>7, <1>8, <1>9, <1>10, <1>11, <1>12, <1>13, <1>14,
     <1>15, <1>16, <1>17, <1>18, <1>19, <1>20, <1>21
    DEF Next, CreateStep, CreateFault

\* Fewer sandboxes and fewer creates to come leave room.
LEMMA RoomShrinks ==
  ASSUME TypeOK, Room, Coming' \subseteq Coming, vms' \ pulled' \subseteq vms \ pulled
  PROVE  Room'
<1>1. Coming \subseteq Req /\ vms \ pulled \subseteq Name
  BY DEF Coming, TypeOK
<1>2. /\ Cardinality(Coming') <= Cardinality(Coming)
      /\ Cardinality(vms' \ pulled') <= Cardinality(vms \ pulled)
  BY <1>1, Finite, FS_Subset
<1>3. /\ Cardinality(Coming) \in Nat /\ Cardinality(Coming') \in Nat
      /\ Cardinality(vms \ pulled) \in Nat /\ Cardinality(vms' \ pulled') \in Nat
  BY <1>1, Finite
<1> QED
  BY <1>2, <1>3, AdmissionAssumption DEF Room

\* Admitting, booting, failing and releasing all keep the room for the creates to come.
LEMMA RoomStep == TypeOK /\ SlotsExact /\ OwnName /\ Counted /\ Room /\ [Next]_vars => Room'
<1> SUFFICES ASSUME TypeOK, SlotsExact, OwnName, Counted, Room, [Next]_vars
             PROVE  Room'
  OBVIOUS
<1>1. ASSUME NEW r \in Req, Arrive(r)
      PROVE  Room'
  <2>1. Coming' \subseteq Coming
    BY <1>1 DEF Arrive, Goto, Coming
  <2>2. vms' \ pulled' \subseteq vms \ pulled
    BY <1>1 DEF Arrive
  <2> QED
    BY <2>1, <2>2, RoomShrinks
<1>2. ASSUME NEW r \in Req, AdmitLock(r)
      PROVE  Room'
  <2>1. Coming' \subseteq Coming
    BY <1>2 DEF AdmitLock, Goto, Coming
  <2>2. vms' \ pulled' \subseteq vms \ pulled
    BY <1>2 DEF AdmitLock
  <2> QED
    BY <2>1, <2>2, RoomShrinks
<1>3. ASSUME NEW r \in Req, ListPage(r)
      PROVE  Room'
  <2>1. Coming' \subseteq Coming
    BY <1>3 DEF ListPage, Coming
  <2>2. vms' \ pulled' \subseteq vms \ pulled
    BY <1>3 DEF ListPage
  <2> QED
    BY <2>1, <2>2, RoomShrinks
<1>4. ASSUME NEW r \in Req, CountFails(r)
      PROVE  Room'
  <2>1. Coming' \subseteq Coming
    BY <1>4 DEF CountFails, Goto, Coming
  <2>2. vms' \ pulled' \subseteq vms \ pulled
    BY <1>4 DEF CountFails
  <2> QED
    BY <2>1, <2>2, RoomShrinks
<1>5. ASSUME NEW r \in Req, Refuse(r)
      PROVE  Room'
  <2>1. Coming' \subseteq Coming
    BY <1>5 DEF Refuse, Goto, Coming
  <2>2. vms' \ pulled' \subseteq vms \ pulled
    BY <1>5 DEF Refuse
  <2> QED
    BY <2>1, <2>2, RoomShrinks
<1>6. ASSUME NEW r \in Req, RefuseReturn(r)
      PROVE  Room'
  <2>1. Coming' \subseteq Coming
    BY <1>6 DEF RefuseReturn, Goto, Coming
  <2>2. vms' \ pulled' \subseteq vms \ pulled
    BY <1>6 DEF RefuseReturn
  <2> QED
    BY <2>1, <2>2, RoomShrinks
<1>7. ASSUME NEW r \in Req, Admit(r)
      PROVE  Room'
  <2>1. Coming' = Coming \cup {r} /\ r \notin Coming /\ vms' = vms /\ pulled' = pulled
    BY <1>7 DEF Admit, Goto, TypeOK, Coming
  <2>2. vms \ pulled \subseteq seen[r] \cup {name[q] : q \in Held}
    BY <1>7 DEF Admit, Counted
  <2>3. Cardinality(vms \ pulled) + Cardinality(Coming) <= Cardinality(seen[r]) + inflight
    BY <2>2, CountCovers
  <2>4. Cardinality(seen[r]) + inflight < Max
    <3>1. Cardinality(seen[r]) \in Nat
      BY Finite DEF TypeOK
    <3> QED
      BY <1>7, <3>1, AdmissionAssumption DEF Admit, Full, TypeOK
  <2>5. Cardinality(Coming') = Cardinality(Coming) + 1
    BY <2>1, Finite, FS_AddElement DEF Coming
  <2>6. /\ Cardinality(vms \ pulled) \in Nat /\ Cardinality(Coming) \in Nat
        /\ Cardinality(seen[r]) \in Nat
    BY Finite DEF TypeOK, Coming
  <2> QED
    BY <2>1, <2>3, <2>4, <2>5, <2>6, AdmissionAssumption DEF TypeOK, Room
<1>8. ASSUME NEW r \in Req, BuildFails(r)
      PROVE  Room'
  <2>1. Coming' \subseteq Coming
    BY <1>8 DEF BuildFails, Goto, Coming
  <2>2. vms' \ pulled' \subseteq vms \ pulled
    BY <1>8 DEF BuildFails
  <2> QED
    BY <2>1, <2>2, RoomShrinks
<1>9. ASSUME NEW r \in Req, Boot(r)
      PROVE  Room'
  <2>1. Coming' \subseteq Coming
    BY <1>9 DEF Boot, Goto, Coming
  <2>2. vms' \ pulled' \subseteq vms \ pulled
    BY <1>9 DEF Boot
  <2> QED
    BY <2>1, <2>2, RoomShrinks
<1>10. ASSUME NEW r \in Req, Materialise(r)
      PROVE  Room'
  <2>1. Coming' = Coming \ {r} /\ r \in Coming
    BY <1>10 DEF Materialise, Goto, TypeOK, Coming
  <2>2. vms' \ pulled' = (vms \ pulled) \cup {name[r]}
    BY <1>10, <2>1 DEF Materialise, OwnName, HoldsSlot, Held
  <2>8. IsFiniteSet(Coming) /\ IsFiniteSet(vms \ pulled)
    BY Finite DEF TypeOK, Coming
  <2>4. Cardinality(Coming') = Cardinality(Coming) - 1
    BY <2>1, <2>8, OneLess
  <2>5. Cardinality(vms \ pulled) \in Nat /\ Cardinality(Coming) \in Nat
    BY Finite DEF TypeOK, Coming
  <2>6. vms' \ pulled' \subseteq Name
    BY <1>10, <2>2, <2>1 DEF OwnName, TypeOK, HoldsSlot, Held, Coming
  <2>7. Cardinality(vms' \ pulled') \in Nat
    BY <2>6, Finite
  <2>3. Cardinality(vms' \ pulled') <= Cardinality(vms \ pulled) + 1
    BY <2>2, <2>5, <2>8, OneMore
  <2> QED
    BY <2>3, <2>4, <2>5, <2>7, AdmissionAssumption DEF Room
<1>11. ASSUME NEW r \in Req, BootReturns(r)
      PROVE  Room'
  <2>1. Coming' \subseteq Coming
    BY <1>11 DEF BootReturns, Goto, Coming
  <2>2. vms' \ pulled' \subseteq vms \ pulled
    BY <1>11 DEF BootReturns
  <2> QED
    BY <2>1, <2>2, RoomShrinks
<1>12. ASSUME NEW r \in Req, BootFails(r)
      PROVE  Room'
  <2>1. Coming' \subseteq Coming
    BY <1>12 DEF BootFails, Goto, Coming
  <2>2. vms' \ pulled' \subseteq vms \ pulled
    BY <1>12 DEF BootFails
  <2> QED
    BY <2>1, <2>2, RoomShrinks
<1>13. ASSUME NEW r \in Req, CleanupRemoves(r)
      PROVE  Room'
  <2>1. Coming' \subseteq Coming
    BY <1>13 DEF CleanupRemoves, Goto, Coming
  <2>2. vms' \ pulled' \subseteq vms \ pulled
    BY <1>13 DEF CleanupRemoves
  <2> QED
    BY <2>1, <2>2, RoomShrinks
<1>14. ASSUME NEW r \in Req, CleanupFails(r)
      PROVE  Room'
  <2>1. Coming' \subseteq Coming
    BY <1>14 DEF CleanupFails, Goto, Coming
  <2>2. vms' \ pulled' \subseteq vms \ pulled
    BY <1>14 DEF CleanupFails
  <2> QED
    BY <2>1, <2>2, RoomShrinks
<1>15. ASSUME NEW r \in Req, Probed(r)
      PROVE  Room'
  <2>1. Coming' \subseteq Coming
    BY <1>15 DEF Probed, Goto, Coming
  <2>2. vms' \ pulled' \subseteq vms \ pulled
    BY <1>15 DEF Probed
  <2> QED
    BY <2>1, <2>2, RoomShrinks
<1>16. ASSUME NEW r \in Req, Release(r)
      PROVE  Room'
  <2>1. Coming' \subseteq Coming
    BY <1>16 DEF Release, Goto, Coming
  <2>2. vms' \ pulled' \subseteq vms \ pulled
    BY <1>16 DEF Release
  <2> QED
    BY <2>1, <2>2, RoomShrinks
<1>17. ASSUME NEW n \in Name, Delete(n)
      PROVE  Room'
  <2>1. Coming' \subseteq Coming
    BY <1>17 DEF Delete, createVars, Coming
  <2>2. vms' \ pulled' \subseteq vms \ pulled
    BY <1>17 DEF Delete
  <2> QED
    BY <2>1, <2>2, RoomShrinks
<1>18. ASSUME NEW p \in Puller, PullBoot(p)
      PROVE  Room'
  <2>1. Coming' \subseteq Coming
    BY <1>18 DEF PullBoot, createVars, Coming
  <2>2. vms' \ pulled' \subseteq vms \ pulled
    BY <1>18 DEF PullBoot, Fresh
  <2> QED
    BY <2>1, <2>2, RoomShrinks
<1>19. ASSUME NEW p \in Puller, PullReturn(p)
      PROVE  Room'
  <2>1. Coming' \subseteq Coming
    BY <1>19 DEF PullReturn, createVars, Coming
  <2>2. vms' \ pulled' \subseteq vms \ pulled
    BY <1>19 DEF PullReturn
  <2> QED
    BY <2>1, <2>2, RoomShrinks
<1>20. ASSUME Restart
      PROVE  Room'
  <2>1. Coming' \subseteq Coming
    BY <1>20 DEF Restart, Coming
  <2>2. vms' \ pulled' \subseteq vms \ pulled
    BY <1>20 DEF Restart
  <2> QED
    BY <2>1, <2>2, RoomShrinks
<1>21. CASE UNCHANGED vars
  BY <1>21, RoomShrinks DEF vars, createVars, Coming
<1> QED
  BY <1>1, <1>2, <1>3, <1>4, <1>5, <1>6, <1>7, <1>8, <1>9, <1>10, <1>11, <1>12, <1>13, <1>14,
     <1>15, <1>16, <1>17, <1>18, <1>19, <1>20, <1>21
    DEF Next, CreateStep, CreateFault

-----------------------------------------------------------------------------
\* The inductive invariant holds on a host with no create in progress.
LEMMA InvInit == Init => IInv
<1> SUFFICES ASSUME Init PROVE IInv
  OBVIOUS
<1>1. TypeOK
  BY DEF TypeOK, At, Init
<1>2. Held = {} /\ Coming = {}
  BY DEF Held, Coming, HoldsSlot, Init
<1>3. SlotsExact
  BY <1>2, FS_EmptySet DEF SlotsExact, Held, Init
<1>4. AdmitHeldToCount /\ OwnName /\ Counted
  BY <1>2, AdmissionAssumption DEF AdmitHeldToCount, OwnName, Counted, Init
<1>5. Room
  <2>1. Cardinality(Coming) = 0 /\ vms \ pulled = vms
    BY <1>2, FS_EmptySet DEF Init
  <2>2. Cardinality(vms) \in Nat /\ Cardinality(vms) <= Max
    BY Finite DEF Init
  <2> QED
    BY <2>1, <2>2 DEF Room
<1> QED
  BY <1>1, <1>3, <1>4, <1>5 DEF IInv

\* The inductive invariant survives every step.
LEMMA InvStep == IInv /\ [Next]_vars => IInv'
  BY TypeStep, MutexStep, SlotStep, NameStep, CountedStep, RoomStep DEF IInv

\* The inductive invariant (types, slots, mutex, names, Counted and Room) always holds.
THEOREM Invariance == Spec => []IInv
  BY InvInit, InvStep, PTL DEF Spec

\* Type correctness of every variable of Admission.
THEOREM TypeCorrect == Spec => []TypeOK
<1>1. IInv => TypeOK
  BY DEF IInv
<1> QED
  BY <1>1, Invariance, PTL

\* Creates never overshoot the cap, however many race and whatever fails or restarts.
THEOREM CapHolds == Spec => []CreatesWithinCap
<1>1. IInv => CreatesWithinCap
  <2> SUFFICES ASSUME IInv PROVE Cardinality(vms \ pulled) <= Max
    BY DEF CreatesWithinCap
  <2>1. Cardinality(vms \ pulled) \in Nat /\ Cardinality(Coming) \in Nat
    BY Finite DEF IInv, TypeOK, Coming
  <2> QED
    BY <2>1, AdmissionAssumption DEF IInv, Room
<1> QED
  BY <1>1, Invariance, PTL

\* The in-flight counter is exactly the number of creates that owe a release.
THEOREM SlotsBalance == Spec => []SlotsExact
<1>1. IInv => SlotsExact
  BY DEF IInv
<1> QED
  BY <1>1, Invariance, PTL

\* The admit mutex is held by the request that counts and by nobody else.
THEOREM AdmissionSerialized == Spec => []AdmitHeldToCount
<1>1. IInv => AdmitHeldToCount
  BY DEF IInv
<1> QED
  BY <1>1, Invariance, PTL
-----------------------------------------------------------------------------
(* The numbers of a create request, for integers of any width              *)
(*                                                                         *)
(* The check of the disk is a division by the unit (maxDiskGB), so that    *)
(* what passes it can be multiplied by the unit without wrapping.          *)

\* What is at most the quotient can be multiplied back.
LEMMA TimesFits ==
  ASSUME NEW d \in Nat, NEW m \in Nat \ {0}, NEW limit \in Nat, d <= limit \div m
  PROVE  d * m <= limit /\ d <= limit
<1> DEFINE q == limit \div m
<1>1. q \in Nat /\ m * q <= limit
  OBVIOUS
<1>2. d * m <= m * q
  BY <1>1
<1>3. d <= d * m
  OBVIOUS
<1> QED
  BY <1>1, <1>2, <1>3

\* A number that fits is not changed by keeping its low bits.
LEMMA SmallRemainder ==
  ASSUME NEW k \in Nat, NEW w \in Nat \ {0}, k < w
  PROVE  k % w = k
  OBVIOUS

\* A valid request is in range, and a built one has got what it asked for.
OptionsInv ==
  /\ params \in Opts!Params
  /\ stage = "valid" => Opts!InRange(params)
  /\ Opts!DiskAndPortsKept

\* Nothing is valid or built yet.
LEMMA OptionsInit == ASSUME Widths PROVE Opts!Init => OptionsInv
BY DEF Opts!Init, OptionsInv, Opts!DiskAndPortsKept

\* What is kept of a number fits the width.
LEMMA RemainderFits == ASSUME NEW k \in Int, NEW w \in Nat \ {0} PROVE k % w \in 0..(w - 1)
OBVIOUS

\* So does the signed reading of what is kept.
LEMMA SignedFits ==
  ASSUME NEW k \in Int, NEW w \in Nat \ {0}, w % 2 = 0
  PROVE  Opts!Signed(k, w) \in (-(w \div 2))..(w \div 2 - 1)
<1> DEFINE h == w \div 2
<1>1. h \in Nat /\ w = h + h
  OBVIOUS
<1>2. (k + h) % w \in 0..(w - 1)
  <2>1. k + h \in Int
    BY <1>1
  <2> HIDE DEF h
  <2> QED
    BY <2>1, RemainderFits
<1> HIDE DEF h
<1>3. ((k + h) % w) - h \in (-h)..(h - 1)
  BY <1>1, <1>2
<1> QED
  BY <1>3 DEF Opts!Signed, h

\* A disk that passes the check is not wrapped, neither as gigabytes nor as mebibytes; a
\* port that is in range is not either.
LEMMA OptionsStep == ASSUME Widths PROVE OptionsInv /\ [Opts!Next]_Opts!vars => OptionsInv'
<1> SUFFICES ASSUME OptionsInv, [Opts!Next]_Opts!vars PROVE OptionsInv'
  OBVIOUS
<1> USE DEF OptionsInv, Opts!DiskAndPortsKept
<1>1. CASE Opts!Validate
  BY <1>1 DEF Opts!Validate
<1>2. CASE Opts!Build
  <2>1. /\ params.DiskGB \in Nat /\ params.DiskGB <= (U32 - 1) \div Mib
        /\ params.HostPort \in Nat /\ params.HostPort < U16
        /\ params.GuestPort \in Nat /\ params.GuestPort < U16
    <3>1. params.DiskGB \in Int /\ params.HostPort \in Int /\ params.GuestPort \in Int
      BY DEF Opts!Params, Widths
    <3>2. /\ 0 <= params.DiskGB /\ params.DiskGB <= (U32 - 1) \div Mib
          /\ 0 <= params.HostPort /\ params.HostPort <= U16 - 1
          /\ 0 <= params.GuestPort /\ params.GuestPort <= U16 - 1
      BY <1>2 DEF Opts!Build, Opts!DiskFits, Opts!maxDiskGB, Opts!InRange
    <3> QED
      BY <3>1, <3>2 DEF Widths
  <2>2. /\ params.DiskGB * Mib \in Nat /\ params.DiskGB * Mib < U32
        /\ params.DiskGB < U32
    <3>1. U32 - 1 \in Nat /\ Mib \in Nat \ {0} /\ U32 \in Nat
      BY DEF Widths
    <3>2. params.DiskGB * Mib <= U32 - 1 /\ params.DiskGB <= U32 - 1
      BY <2>1, <3>1, TimesFits
    <3>3. params.DiskGB * Mib \in Nat
      BY <2>1, <3>1
    <3> QED
      BY <2>1, <3>1, <3>2, <3>3
  <2>3. Opts!DiskOption(params.DiskGB) = params.DiskGB * Mib
    BY <2>1, <2>2, SmallRemainder DEF Opts!DiskOption, Widths
  <2>4. params.HostPort % U16 = params.HostPort /\ params.GuestPort % U16 = params.GuestPort
    BY <2>1, SmallRemainder DEF Widths
  <2> QED
    BY <1>2, <2>3, <2>4 DEF Opts!Build
<1>3. CASE Opts!Refuse
  BY <1>3 DEF Opts!Refuse
<1>4. CASE UNCHANGED Opts!vars
  BY <1>4 DEF Opts!vars
<1> QED
  BY <1>1, <1>2, <1>3, <1>4 DEF Opts!Next

\* The disk and the ports a sandbox is built with are those asked for, at any widths.
THEOREM NumbersKept == ASSUME Widths PROVE Opts!Spec => []DiskAndPortsKept
<1>1. OptionsInv => DiskAndPortsKept
  BY DEF OptionsInv, DiskAndPortsKept
<1> QED
  BY <1>1, OptionsInit, OptionsStep, PTL DEF Opts!Spec


\* Each option is within the width of its field, since each has been converted to it or
\* checked against it.
LEMMA TypesStep ==
  ASSUME Widths
  PROVE  OptionsInv /\ Opts!TypeOK /\ [Opts!Next]_Opts!vars => Opts!TypeOK'
<1> SUFFICES ASSUME OptionsInv, Opts!TypeOK, [Opts!Next]_Opts!vars PROVE Opts!TypeOK'
  OBVIOUS
<1>1. CASE Opts!Build
  <2>1. /\ params.CPU \in Int /\ params.MemoryMB \in Int /\ params.DiskGB \in Int
        /\ params.HostPort \in Int /\ params.GuestPort \in Int /\ params.AutoStopSecs \in Int
    BY DEF OptionsInv, Opts!Params, Widths
  <2>2. /\ U8 \in Nat \ {0} /\ U16 \in Nat \ {0} /\ U32 \in Nat \ {0}
        /\ Mib \in Nat /\ Nanos \in Nat
    BY DEF Widths
  <2>3. params.CPU \div 2 \in 0..(U8 - 1)
    <3>1. 0 <= params.CPU /\ params.CPU <= 2 * (U8 - 1)
      BY <1>1 DEF OptionsInv, Opts!Build, Opts!InRange
    <3> QED
      BY <2>1, <2>2, <3>1
  <2>4. /\ params.MemoryMB % U32 \in 0..(U32 - 1) /\ params.HostPort % U16 \in 0..(U16 - 1)
        /\ params.GuestPort % U16 \in 0..(U16 - 1)
    BY <2>1, <2>2, RemainderFits
  <2>5. Opts!DiskOption(params.DiskGB) \in 0..(U32 - 1)
    <3> DEFINE low == params.DiskGB % U32
    <3>1. low \in Int
      BY <2>1, <2>2, RemainderFits
    <3> HIDE DEF low
    <3>2. low * Mib \in Int
      BY <2>2, <3>1
    <3>3. (low * Mib) % U32 \in 0..(U32 - 1)
      BY <2>2, <3>2, RemainderFits
    <3> QED
      BY <3>3 DEF Opts!DiskOption, low
  <2>6. Opts!Signed(params.AutoStopSecs * Nanos, I64) \in (-(I64 \div 2))..(I64 \div 2 - 1)
    <3>1. params.AutoStopSecs * Nanos \in Int
      BY <2>1, <2>2
    <3> QED
      BY <3>1, SignedFits DEF Widths
  <2> QED
    BY <1>1, <2>3, <2>4, <2>5, <2>6 DEF Opts!Build, Opts!TypeOK
<1>2. CASE ~Opts!Build
  BY <1>2 DEF Opts!Next, Opts!Validate, Opts!Refuse, Opts!vars, Opts!TypeOK
<1> QED
  BY <1>1, <1>2

\* The options that are not passed fit.
LEMMA TypesInit == ASSUME Widths PROVE Opts!Init => Opts!TypeOK
<1>1. I64 \div 2 \in Nat \ {0}
  BY DEF Widths
<1> HIDE DEF Widths
<1>2. ASSUME Opts!Init PROVE Opts!TypeOK
  <2>1. 0 \in (-(I64 \div 2))..(I64 \div 2 - 1)
    BY <1>1
  <2> QED
    BY <1>2, <2>1 DEF Opts!Init, Opts!TypeOK, Opts!Default, Widths
<1> QED
  BY <1>2

\* Whatever is asked for, what the SDK is given fits its fields: a value may be wrong (the
\* memory, the idle timeout), but none is out of the range of its type.
THEOREM OptionsFit == ASSUME Widths PROVE Opts!Spec => []Opts!TypeOK
BY OptionsInit, OptionsStep, TypesInit, TypesStep, PTL DEF Opts!Spec

\* A built request was in range, and its memory, idle timeout and CPUs are converted ones.
Converted ==
  /\ stage = "valid" => Opts!InRange(params)
  /\ stage = "built" =>
       /\ Opts!InRange(params)
       /\ options.memory = params.MemoryMB % U32
       /\ options.idle = Opts!Signed(params.AutoStopSecs * Nanos, I64)
       /\ options.cpus = params.CPU \div 2

\* A number that is not below half the width is not read back, and one that is, is.
LEMMA SignedKeeps ==
  ASSUME NEW k \in Nat, NEW w \in Nat \ {0}, w % 2 = 0
  PROVE  Opts!Signed(k, w) = k <=> k < w \div 2
<1> DEFINE h == w \div 2
<1>1. h \in Nat /\ w = h + h
  OBVIOUS
<1>2. ASSUME k < h PROVE Opts!Signed(k, w) = k
  <2> HIDE DEF h
  <2>1. k + h \in Nat /\ k + h < w
    BY <1>1, <1>2
  <2>2. (k + h) % w = k + h
    BY <2>1, SmallRemainder
  <2>3. ((k + h) % w) - h = k
    BY <1>1, <2>2
  <2> QED
    BY <2>3 DEF Opts!Signed, h
<1>3. ASSUME Opts!Signed(k, w) = k PROVE k < h
  <2>1. k \in (-h)..(h - 1)
    BY <1>3, SignedFits
  <2> QED
    BY <1>1, <2>1
<1> QED
  BY <1>2, <1>3

\* What is wrong in a built request is beyond its field, and what is beyond it is wrong.
THEOREM OptionsLost == ASSUME Widths PROVE Opts!Spec => []Opts!LostOnlyBeyondField
<1>1. Opts!Init => Converted
  BY DEF Opts!Init, Converted
<1>2. Converted /\ [Opts!Next]_Opts!vars => Converted'
  <2> SUFFICES ASSUME Converted, [Opts!Next]_Opts!vars PROVE Converted'
    OBVIOUS
  <2>1. CASE Opts!Validate
    BY <2>1 DEF Converted, Opts!Validate, Opts!InRange
  <2>2. CASE Opts!Build
    BY <2>2 DEF Converted, Opts!Build, Opts!InRange
  <2>3. CASE Opts!Refuse
    BY <2>3 DEF Converted, Opts!Refuse
  <2>4. CASE UNCHANGED Opts!vars
    BY <2>4 DEF Converted, Opts!vars, Opts!InRange
  <2> QED
    BY <2>1, <2>2, <2>3, <2>4 DEF Opts!Next
<1>3. OptionsInv /\ Converted => Opts!LostOnlyBeyondField
  <2> SUFFICES ASSUME OptionsInv, Converted, stage = "built" PROVE Opts!LostOnlyBeyondField
    BY DEF Opts!LostOnlyBeyondField
  <2>1. /\ params.CPU \in Nat /\ params.MemoryMB \in Nat /\ params.AutoStopSecs \in Nat
        /\ U32 \in Nat \ {0} /\ I64 \in Nat \ {0} /\ I64 % 2 = 0 /\ Nanos \in Nat
    <3>1. /\ params.CPU \in Int /\ params.MemoryMB \in Int /\ params.AutoStopSecs \in Int
          /\ U32 \in Nat \ {0} /\ I64 \in Nat \ {0} /\ I64 % 2 = 0 /\ Nanos \in Nat
      BY DEF OptionsInv, Opts!Params, Widths
    <3>2. 0 <= params.CPU /\ 0 <= params.MemoryMB /\ 0 <= params.AutoStopSecs
      BY DEF Converted, Opts!InRange
    <3> QED
      BY <3>1, <3>2
  <2>2. Opts!MemoryKept <=> params.MemoryMB < U32
    <3>1. params.MemoryMB % U32 \in 0..(U32 - 1)
      <4> DEFINE m == params.MemoryMB
      <4>1. m \in Int /\ U32 \in Nat \ {0}
        BY <2>1
      <4> HIDE DEF m
      <4> QED
        BY <4>1, RemainderFits DEF m
    <3>2. params.MemoryMB < U32 => params.MemoryMB % U32 = params.MemoryMB
      BY <2>1, SmallRemainder
    <3>3. options.memory = params.MemoryMB % U32
      BY DEF Converted
    <3> QED
      BY <2>1, <3>1, <3>2, <3>3 DEF Opts!MemoryKept
  <2>3. Opts!IdleKept <=> params.AutoStopSecs * Nanos < I64 \div 2
    BY <2>1, SignedKeeps DEF Converted, Opts!IdleKept
  <2>4. Opts!CpusKept <=> params.CPU # 1
    BY <2>1 DEF Converted, Opts!CpusKept
  <2> QED
    BY <2>2, <2>3, <2>4 DEF Opts!LostOnlyBeyondField
<1> QED
  BY <1>1, <1>2, <1>3, OptionsInit, OptionsStep, PTL DEF Opts!Spec
-----------------------------------------------------------------------------
(* Pulls of an image, for any number of panels, API requests and manifests *)
(*                                                                         *)
(* A request keeps its worker for itself until it is over (Started), so a  *)
(* box belongs to a pull that will tear it down.  What a forced pull reads *)
(* back may be another pull's, but that one took it from the tag after the *)
(* forced one had begun, or had it in hand at that time (Remembered,       *)
(* InHand, Newer).                                                         *)

\* PullImage is running.
Working == {"resolving", "fetching", "booting", "booted", "cleaning", "sending"}

\* A pull at work is that of a request which started it; a request that has not started its
\* pull has neither a worker nor an outcome in its channel.
Started(p) ==
  worker[p] \in Working \/ (p \in Panel /\ done[p]) =>
    handler[p] \in {"watching", "over", "blocked"}

\* What the tag has pointed to since the boot began, the present one included.
Remembered(p) == p \in Panel /\ worker[p] \in Working => registry \in offered[p]

\* Nothing, or as new as the pull: the tag had it since, or somebody was downloading it.
New(p, d) == d \in offered[p] \cup beside[p] \cup {Image!None}

\* What anybody downloads while a panel's pull runs is as new as that.
InHand(p) ==
  p \in Panel /\ worker[p] \in Working => \A q \in Image!Pull : New(p, fetch[q])

\* A forced pull past its download has written the cache; until it reads the image back,
\* whoever caches another had it in hand, and whoever removes it leaves none.
Newer(p) ==
  p \in Panel /\ force[p] =>
    /\ worker[p] \in {"booting", "booted"} => New(p, cached)
    /\ worker[p] \in {"cleaning", "sending"} \/ done[p] => New(p, result[p])

\* A panel goes on past a cached image only to fetch a newer one.
Forced(p) == handler[p] \in {"inspected", "watching"} /\ prior[p] # Image!None => force[p]

\* What the panel was told stays so: its pull is over.
Told(p) ==
  p \in Panel /\ note[p] \in {"same", "updated"} =>
    /\ handler[p] = "over" /\ worker[p] = "none"
    /\ result[p] \in offered[p] \cup beside[p]

Kept(p) == Started(p) /\ Remembered(p) /\ InHand(p) /\ Newer(p) /\ Forced(p) /\ Told(p)

PullInv ==
  /\ Image!TypeOK
  /\ \A p \in Image!Pull : Kept(p)
  /\ Image!NoBoxLeft

\* Nobody pulls.
LEMMA PullInit == Image!Init => PullInv
BY DEF Image!Init, PullInv, Image!TypeOK, Started, Remembered, InHand, New, Newer, Forced,
       Told, Kept, Working, Image!NoBoxLeft, Image!Pull

\* Every step of a handler, a pull, the tag or the cache keeps the invariant.
LEMMA PullStep == ASSUME Apart PROVE PullInv /\ [Image!Next]_Image!vars => PullInv'
<1> SUFFICES ASSUME PullInv, [Image!Next]_Image!vars
             PROVE  PullInv'
  OBVIOUS
<1> USE DEF PullInv, Image!TypeOK, Started, Remembered, InHand, New, Newer, Forced, Told,
            Kept, Working, Image!NoBoxLeft, Image!Goto, Image!Run, Image!image, Image!request,
            Image!pull
<1>1. ASSUME NEW p \in Image!Pull, Image!Ask(p) PROVE PullInv'
  BY <1>1 DEF Image!Ask
<1>2. ASSUME NEW p \in Image!Pull, Image!Block(p) PROVE PullInv'
  BY <1>2 DEF Image!Block, Apart
<1>3. ASSUME NEW p \in Image!Pull, Image!Inspect(p) PROVE PullInv'
  BY <1>3 DEF Image!Inspect
<1>4. ASSUME NEW p \in Image!Pull, Image!Watch(p) PROVE PullInv'
  <2>1. /\ handler[p] = "inspected" /\ worker' = [worker EXCEPT ![p] = "resolving"]
        /\ handler' = [handler EXCEPT ![p] = "watching"]
        /\ offered' = [offered EXCEPT ![p] = {registry}]
        /\ beside' = [beside EXCEPT ![p] = {fetch[q] : q \in Image!Pull} \ {Image!None}]
        /\ UNCHANGED <<registry, cached, force, prior, note, fetch, result, done, box, leaked>>
    BY <1>4 DEF Image!Watch
  <2>2. worker[p] \notin Working /\ (p \in Panel => ~done[p])
    BY <2>1
  <2>3. Image!TypeOK'
    <3>1. {fetch[q] : q \in Image!Pull} \ {Image!None} \in SUBSET Digest
      OBVIOUS
    <3>2. /\ offered' \in [Panel -> SUBSET Digest] /\ beside' \in [Panel -> SUBSET Digest]
      BY <2>1, <3>1
    <3>3. /\ handler' \in [Image!Pull -> {"idle", "asked", "inspected", "watching", "blocked",
                                           "over"}]
          /\ worker' \in [Image!Pull -> {"none", "resolving", "fetching", "booting", "booted",
                                          "cleaning", "sending"}]
          /\ \A q \in Panel : done'[q] => worker'[q] = "none"
      BY <2>1, <2>2
    <3> QED
      BY <2>1, <3>2, <3>3
  <2>4. Image!NoBoxLeft'
    BY <2>1, <2>2
  <2>5. ASSUME NEW q \in Image!Pull, q # p PROVE Kept(q)'
    <3>1. /\ worker'[q] = worker[q] /\ handler'[q] = handler[q]
          /\ offered'[q] = offered[q] /\ beside'[q] = beside[q]
      BY <2>1, <2>5
    <3> QED
      BY <2>1, <3>1
  <2>6. Kept(p)'
    <3>1. p \in Panel => offered'[p] = {registry}
      BY <2>1
    <3>2. p \in Panel => beside'[p] = {fetch[q] : q \in Image!Pull} \ {Image!None}
      BY <2>1
    <3>3. InHand(p)'
      BY <2>1, <3>2
    <3>4. worker'[p] = "resolving" /\ handler'[p] = "watching"
      BY <2>1
    <3> QED
      BY <2>1, <2>2, <3>1, <3>3, <3>4
  <2> QED
    BY <2>3, <2>4, <2>5, <2>6
<1>5. ASSUME NEW p \in Image!Pull, Image!Receive(p) PROVE PullInv'
  <2>1. /\ handler[p] = "watching" /\ done[p]
        /\ handler' = [handler EXCEPT ![p] = "over"]
        /\ done' = [done EXCEPT ![p] = FALSE]
        /\ note' = [note EXCEPT ![p] = Image!Outcome(p)]
        /\ UNCHANGED <<registry, cached, offered, beside, worker, fetch, force, prior, result,
                       box, leaked>>
    BY <1>5 DEF Image!Receive
  <2>2. /\ Image!Outcome(p) \in {"pulled", "updated", "same", "failed"}
        /\ Image!Outcome(p) \in {"same", "updated"} =>
             prior[p] # Image!None /\ result[p] # Image!None
    BY DEF Image!Outcome
  <2>3. Image!TypeOK'
    BY <2>1, <2>2
  <2>4. Image!NoBoxLeft'
    BY <2>1
  <2>5. ASSUME NEW q \in Image!Pull, q # p PROVE Kept(q)'
    BY <2>1, <2>5
  <2>6. Kept(p)'
    BY <2>1, <2>2
  <2> QED
    BY <2>3, <2>4, <2>5, <2>6
<1>6. ASSUME NEW p \in Image!Pull, Image!Leave(p) PROVE PullInv'
  BY <1>6 DEF Image!Leave
<1>7. ASSUME NEW p \in Image!Pull, Image!Again(p) PROVE PullInv'
  BY <1>7 DEF Image!Again
<1>8. ASSUME NEW p \in Image!Pull, Image!Boot(p) PROVE PullInv'
  BY <1>8 DEF Image!Boot
<1>9. ASSUME NEW p \in Image!Pull, Image!BootFails(p) PROVE PullInv'
  BY <1>9 DEF Image!BootFails, Image!Creating
<1>10. ASSUME NEW p \in Image!Pull, Image!Get(p) PROVE PullInv'
  BY <1>10 DEF Image!Get
<1>11. ASSUME NEW p \in Image!Pull, Image!Cleanup(p) PROVE PullInv'
  BY <1>11 DEF Image!Cleanup
<1>12. ASSUME NEW p \in Image!Pull, Image!Send(p) PROVE PullInv'
  <2>1. /\ p \in Panel /\ worker[p] = "sending"
        /\ worker' = [worker EXCEPT ![p] = "none"]
        /\ \A q \in Panel : q # p => done'[q] = done[q]
        /\ done' \in [Panel -> BOOLEAN]
        /\ UNCHANGED <<registry, cached, offered, beside, handler, fetch, force, prior, note,
                       result, box, leaked>>
    BY <1>12 DEF Image!Send
  <2>2. Image!TypeOK'
    BY <2>1
  <2>3. Image!NoBoxLeft'
    BY <2>1
  <2>4. \A q \in Image!Pull :
          Kept(q)'
    <3>1. ASSUME NEW q \in Image!Pull, q # p
          PROVE  Kept(q)'
      <4>1. worker'[q] = worker[q] /\ (q \in Panel => done'[q] = done[q])
        BY <2>1, <3>1
      <4> QED
        BY <2>1, <3>1, <4>1
    <3>2. Started(p)' /\ Remembered(p)' /\ InHand(p)' /\ Forced(p)' /\ Told(p)'
      BY <2>1
    <3>3. Newer(p)'
      BY <2>1
    <3> QED
      BY <3>1, <3>2, <3>3
  <2> QED
    BY <2>2, <2>3, <2>4
<1>13. ASSUME NEW p \in Image!Pull, Image!Answer(p) PROVE PullInv'
  BY <1>13 DEF Image!Answer
<1>14. CASE Image!Push
  BY <1>14 DEF Image!Push
<1>15. CASE Image!RemoveImage
  BY <1>15 DEF Image!RemoveImage
<1>16. CASE Image!Restart
  BY <1>16 DEF Image!Restart, Image!Pull
<1>17. ASSUME NEW p \in Image!Pull, Image!Resolve(p) PROVE PullInv'
  <2>1. CASE Image!Fetches(p)
    <3>1. /\ worker[p] = "resolving" /\ worker' = [worker EXCEPT ![p] = "fetching"]
          /\ fetch' = [fetch EXCEPT ![p] = registry]
          /\ UNCHANGED <<registry, cached, offered, beside, handler, force, prior, note, result,
                         done, box, leaked>>
      BY <1>17, <2>1 DEF Image!Resolve
    <3>2. Image!TypeOK' /\ Image!NoBoxLeft'
      BY <3>1
    <3>3. ASSUME NEW q \in Image!Pull PROVE InHand(q)'
      <4>1. worker'[q] \in Working => worker[q] \in Working
        BY <3>1
      <4>2. \A o \in Image!Pull : fetch'[o] \in {registry, fetch[o]}
        BY <3>1
      <4> QED
        BY <3>1, <4>1, <4>2
    <3>4. ASSUME NEW q \in Image!Pull PROVE Newer(q)'
      BY <3>1
    <3>5. ASSUME NEW q \in Image!Pull
          PROVE  Started(q)' /\ Remembered(q)' /\ Forced(q)' /\ Told(q)'
      BY <3>1
    <3> QED
      BY <3>2, <3>3, <3>4, <3>5
  <2>2. CASE ~Image!Fetches(p)
    <3>1. /\ worker[p] = "resolving" /\ worker' = [worker EXCEPT ![p] = "booting"]
          /\ ~force[p]
          /\ UNCHANGED <<registry, cached, offered, beside, fetch, handler, force, prior, note,
                         result, done, box, leaked>>
      BY <1>17, <2>2 DEF Image!Resolve, Image!Fetches
    <3> QED
      BY <3>1
  <2> QED
    BY <2>1, <2>2
<1>18. ASSUME NEW p \in Image!Pull, Image!Store(p) PROVE PullInv'
  BY <1>18 DEF Image!Store
<1>19. CASE UNCHANGED Image!vars
  BY <1>19 DEF Image!vars
<1> QED
  BY <1>1, <1>2, <1>3, <1>4, <1>5, <1>6, <1>7, <1>8, <1>9, <1>10, <1>11, <1>12, <1>13, <1>14,
     <1>15, <1>16, <1>17, <1>18, <1>19
  DEF Image!Next, Image!PullStep, Image!HandlerStep

\* What a forced pull reports as the registry's, the registry had while the pull ran, or
\* another pull had in hand when it began.
THEOREM PullReportsRegistry == ASSUME Apart PROVE Image!Spec => []ReportsRegistry
<1>1. PullInv => ReportsRegistry
  BY DEF PullInv, Kept, Told, ReportsRegistry, Image!ReportsRegistry, Image!Pull
<1> QED
  BY <1>1, PullInit, PullStep, PTL DEF Image!Spec

\* A throwaway box outlives its pull only after a failed boot or teardown.
THEOREM PullLeavesNoBox == ASSUME Apart PROVE Image!Spec => []NoBoxLeft
<1>1. PullInv => NoBoxLeft
  BY DEF PullInv, NoBoxLeft
<1> QED
  BY <1>1, PullInit, PullStep, PTL DEF Image!Spec

\* Every reachable state of ImagePull is well typed.
THEOREM PullTypeCorrect == ASSUME Apart PROVE Image!Spec => []Image!TypeOK
<1>1. PullInv => Image!TypeOK
  BY DEF PullInv
<1> QED
  BY <1>1, PullInit, PullStep, PTL DEF Image!Spec
=============================================================================
