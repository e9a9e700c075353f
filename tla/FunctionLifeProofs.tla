-------------------------- MODULE FunctionLifeProofs --------------------------
(***************************************************************************)
(* Theorems about FunctionLife, for every set of SLAs and nodes.  The core *)
(* is the inductive invariant IInv: one lemma per group of its conjuncts   *)
(* shows that every action of a fog node preserves it.                     *)
(***************************************************************************)
EXTENDS FunctionLife, FiniteSetTheorems, FiniteSetsExt, TLAPS

(* The one action that moves two tasks: the pay call and the expiry. *)
LEMMA ArmEffect ==
  ASSUME TypeOK, NEW s \in Slas, PayArm(s)
  PROVE  /\ \A t \in Slas : pc'["pay"][t] = IF t = s THEN "arming" ELSE pc["pay"][t]
         /\ \A t \in Slas : pc'["expiry"][t] = IF t = s THEN "armed" ELSE pc["expiry"][t]
         /\ pc'["provision"] = pc["provision"]
         /\ pc' \in [Kinds -> [Slas -> Labels]]
         /\ pc["pay"][s] = "accounted"
         /\ UNCHANGED <<tracking, placement, used, holders, at, read, deployed, faulted, late, panicked>>
BY DEF TypeOK, PayArm, Kinds, Labels, Critical

(* No task enters or leaves another label by it. *)
LEMMA ArmQuiet ==
  ASSUME TypeOK, TaskInv, NEW s \in Slas, PayArm(s)
  PROVE  \A k \in Kinds, t \in Slas :
           \/ pc'[k][t] = pc[k][t]
           \/ k = "pay" /\ pc[k][t] = "accounted" /\ pc'[k][t] = "arming"
           \/ k = "expiry" /\ pc[k][t] = "idle" /\ pc'[k][t] = "armed"
<1>1. pc["pay"][s] = "accounted" /\ pc["expiry"][s] = "idle"
  BY ArmEffect DEF TaskInv
<1>2. \A t \in Slas : /\ pc'["pay"][t] = IF t = s THEN "arming" ELSE pc["pay"][t]
                      /\ pc'["expiry"][t] = IF t = s THEN "armed" ELSE pc["expiry"][t]
                      /\ pc'["provision"][t] = pc["provision"][t]
  BY ArmEffect
<1> QED
  BY <1>1, <1>2 DEF Kinds

(* Two tasks in their critical sections are the same task. *)
LEMMA Exclusive ==
  ASSUME LockInv, NEW k \in Kinds, NEW s \in Slas, pc[k][s] \in Critical
  PROVE  \A j \in Kinds, t \in Slas : pc[j][t] \in Critical => j = k /\ t = s
BY DEF LockInv

(* Types, and the node in every record and copy, survive a step. *)
LEMMA TypeStep == IInv /\ [Next]_vars => TypeOK' /\ Placed'
<1> SUFFICES ASSUME IInv, [Next]_vars PROVE TypeOK' /\ Placed'
  OBVIOUS
<1> USE ConstantsAssumption DEF IInv, TypeOK, Placed, StageInv, Resources, Kinds, Finishers,
        Stages, Finishable, Labels, Critical, Accounted, Nothing
<1>1. ASSUME NEW s \in Slas, NEW n \in Nodes, Bid(s, n) PROVE TypeOK' /\ Placed'
  BY <1>1 DEF Bid
<1>2. ASSUME NEW s \in Slas, PayReserve(s) PROVE TypeOK' /\ Placed'
  BY <1>2 DEF PayReserve, Acquire, SavePaid, Save, Goto
<1>3. ASSUME NEW s \in Slas, PayRefuse(s) PROVE TypeOK' /\ Placed'
  BY <1>3 DEF PayRefuse, Goto
<1>4. ASSUME NEW s \in Slas, PayConfirm(s) PROVE TypeOK' /\ Placed'
  BY <1>4 DEF PayConfirm, Goto
<1>5. ASSUME NEW s \in Slas, PayOverwritten(s) PROVE TypeOK' /\ Placed'
  BY <1>5 DEF PayOverwritten, Release, Goto
<1>6. ASSUME NEW s \in Slas, PayAccount(s) PROVE TypeOK' /\ Placed'
  BY <1>6 DEF PayAccount, Goto
<1>7. ASSUME NEW s \in Slas, PayArm(s) PROVE TypeOK' /\ Placed'
  BY <1>7, ArmEffect
<1>8. ASSUME NEW s \in Slas, PayReturn(s) PROVE TypeOK' /\ Placed'
  BY <1>8 DEF PayReturn, Release, Goto
<1>9. ASSUME NEW s \in Slas, PayDropped(s) PROVE TypeOK' /\ Placed'
  BY <1>9 DEF PayDropped, Release, Goto
<1>10. ASSUME NEW s \in Slas, ProvisionStart(s) PROVE TypeOK' /\ Placed'
  BY <1>10 DEF ProvisionStart, Acquire, Goto
<1>11. ASSUME NEW s \in Slas, ProvisionRefuse(s) PROVE TypeOK' /\ Placed'
  BY <1>11 DEF ProvisionRefuse, Goto
<1>12. ASSUME NEW s \in Slas, Deployed(s) PROVE TypeOK' /\ Placed'
  BY <1>12 DEF Deployed, SaveProvisioned, Save, Release, Goto
<1>13. ASSUME NEW s \in Slas, DeployFailed(s) PROVE TypeOK' /\ Placed'
  BY <1>13 DEF DeployFailed, Release, Goto
<1>14. ASSUME NEW s \in Slas, ProbeStart(s) PROVE TypeOK' /\ Placed'
  BY <1>14 DEF ProbeStart, Goto
<1>15. ASSUME NEW s \in Slas, ProbeUp(s) PROVE TypeOK' /\ Placed'
  BY <1>15 DEF ProbeUp, Goto
<1>16. ASSUME NEW s \in Slas, ProbeDown(s) PROVE TypeOK' /\ Placed'
  BY <1>16 DEF ProbeDown, Goto
<1>17. ASSUME NEW s \in Slas, ProbeSave(s) PROVE TypeOK' /\ Placed'
  BY <1>17 DEF ProbeSave, SaveLive, Save, Goto
<1>18. ASSUME NEW s \in Slas, ProbeAgain(s) PROVE TypeOK' /\ Placed'
  BY <1>18 DEF ProbeAgain, Goto
<1>19. ASSUME NEW s \in Slas, ProbeGiveUp(s) PROVE TypeOK' /\ Placed'
  BY <1>19 DEF ProbeGiveUp, Goto
<1>20. ASSUME NEW s \in Slas, ProvisionDropped(s) PROVE TypeOK' /\ Placed'
  BY <1>20 DEF ProvisionDropped, Release, Goto, Dropped, Waiting
<1>21. ASSUME NEW s \in Slas, DoneUnasked(s) PROVE TypeOK' /\ Placed'
  BY <1>21 DEF DoneUnasked
<1>22. ASSUME NEW s \in Slas, Expire(s) PROVE TypeOK' /\ Placed'
  BY <1>22 DEF Expire, Goto
<1>23. ASSUME NEW k \in Finishers, NEW s \in Slas, FinishStart(k, s) PROVE TypeOK' /\ Placed'
  BY <1>23 DEF FinishStart, Acquire, Goto, FinishFrom
<1>24. ASSUME NEW k \in Finishers, NEW s \in Slas, Removed(k, s) PROVE TypeOK' /\ Placed'
  BY <1>24 DEF Removed, Goto
<1>25. ASSUME NEW k \in Finishers, NEW s \in Slas, RemoveFailed(k, s) PROVE TypeOK' /\ Placed'
  BY <1>25 DEF RemoveFailed, Goto
<1>26. ASSUME NEW k \in Finishers, NEW s \in Slas, FinishSettle(k, s) PROVE TypeOK' /\ Placed'
  BY <1>26 DEF FinishSettle, SaveFinished, Goto
<1>27. ASSUME NEW k \in Finishers, NEW s \in Slas, FinishNothing(k, s) PROVE TypeOK' /\ Placed'
  BY <1>27 DEF FinishNothing, Release, Goto
<1>28. ASSUME NEW k \in Finishers, NEW s \in Slas, FinishRead(k, s) PROVE TypeOK' /\ Placed'
  BY <1>28 DEF FinishRead, Goto
<1>29. ASSUME NEW k \in Finishers, NEW s \in Slas, FinishOverwritten(k, s) PROVE TypeOK' /\ Placed'
  BY <1>29 DEF FinishOverwritten, Release, Goto
<1>30. ASSUME NEW k \in Finishers, NEW s \in Slas, FinishCredit(k, s) PROVE TypeOK' /\ Placed'
  <2>1. at[s] \in Nodes
    BY <1>30 DEF FinishCredit, TaskInv
  <2>2. used' \in [Nodes -> [Resources -> Nat]]
    BY <1>30, <2>1 DEF FinishCredit
  <2> QED
    BY <1>30, <2>1, <2>2 DEF FinishCredit, Release, Goto
<1>31. CASE UNCHANGED vars
  BY <1>31 DEF vars
<1> HIDE DEF TypeOK, Placed, IInv
<1> QED
  BY <1>1, <1>2, <1>3, <1>4, <1>5, <1>6, <1>7, <1>8, <1>9, <1>10, <1>11, <1>12,
     <1>13, <1>14, <1>15, <1>16, <1>17, <1>18, <1>19, <1>20, <1>21, <1>22, <1>23,
     <1>24, <1>25, <1>26, <1>27, <1>28, <1>29, <1>30, <1>31 DEF Next, Pay,
     Provision, Finish, Quiescent

(* The permit stays unique and with its task. *)
LEMMA LockStep == IInv /\ [Next]_vars => LockInv' /\ TaskInv'
<1> SUFFICES ASSUME IInv, [Next]_vars PROVE LockInv' /\ TaskInv'
  OBVIOUS
<1> USE DEF IInv, TypeOK, LockInv, TaskInv, StageInv, Kinds, Finishers, Labels, Critical,
        Accounted
<1>1. ASSUME NEW s \in Slas, NEW n \in Nodes, Bid(s, n) PROVE LockInv' /\ TaskInv'
  BY <1>1 DEF Bid
<1>2. ASSUME NEW s \in Slas, PayReserve(s) PROVE LockInv' /\ TaskInv'
  BY <1>2 DEF PayReserve, Acquire, SavePaid, Save, Goto
<1>3. ASSUME NEW s \in Slas, PayRefuse(s) PROVE LockInv' /\ TaskInv'
  BY <1>3 DEF PayRefuse, Goto
<1>4. ASSUME NEW s \in Slas, PayConfirm(s) PROVE LockInv' /\ TaskInv'
  BY <1>4 DEF PayConfirm, Goto
<1>5. ASSUME NEW s \in Slas, PayOverwritten(s) PROVE LockInv' /\ TaskInv'
  BY <1>5 DEF PayOverwritten, Release, Goto
<1>6. ASSUME NEW s \in Slas, PayAccount(s) PROVE LockInv' /\ TaskInv'
  BY <1>6 DEF PayAccount, Goto
<1>7. ASSUME NEW s \in Slas, PayArm(s) PROVE LockInv' /\ TaskInv'
  <2>1. pc["pay"][s] = "accounted" /\ holders' = holders
    BY <1>7, ArmEffect
  <2>2. \A k \in Kinds, t \in Slas : pc'[k][t] \in Critical <=> pc[k][t] \in Critical
    BY <1>7, ArmQuiet
  <2>3. LockInv'
    BY <2>1, <2>2
  <2>4. TaskInv'
    BY <1>7, ArmEffect
  <2> QED
    BY <2>3, <2>4
<1>8. ASSUME NEW s \in Slas, PayReturn(s) PROVE LockInv' /\ TaskInv'
  BY <1>8 DEF PayReturn, Release, Goto
<1>9. ASSUME NEW s \in Slas, PayDropped(s) PROVE LockInv' /\ TaskInv'
  BY <1>9 DEF PayDropped, Release, Goto
<1>10. ASSUME NEW s \in Slas, ProvisionStart(s) PROVE LockInv' /\ TaskInv'
  BY <1>10 DEF ProvisionStart, Acquire, Goto
<1>11. ASSUME NEW s \in Slas, ProvisionRefuse(s) PROVE LockInv' /\ TaskInv'
  BY <1>11 DEF ProvisionRefuse, Goto
<1>12. ASSUME NEW s \in Slas, Deployed(s) PROVE LockInv' /\ TaskInv'
  BY <1>12 DEF Deployed, SaveProvisioned, Save, Release, Goto
<1>13. ASSUME NEW s \in Slas, DeployFailed(s) PROVE LockInv' /\ TaskInv'
  BY <1>13 DEF DeployFailed, Release, Goto
<1>14. ASSUME NEW s \in Slas, ProbeStart(s) PROVE LockInv' /\ TaskInv'
  BY <1>14 DEF ProbeStart, Goto
<1>15. ASSUME NEW s \in Slas, ProbeUp(s) PROVE LockInv' /\ TaskInv'
  BY <1>15 DEF ProbeUp, Goto
<1>16. ASSUME NEW s \in Slas, ProbeDown(s) PROVE LockInv' /\ TaskInv'
  BY <1>16 DEF ProbeDown, Goto
<1>17. ASSUME NEW s \in Slas, ProbeSave(s) PROVE LockInv' /\ TaskInv'
  BY <1>17 DEF ProbeSave, SaveLive, Save, Goto
<1>18. ASSUME NEW s \in Slas, ProbeAgain(s) PROVE LockInv' /\ TaskInv'
  BY <1>18 DEF ProbeAgain, Goto
<1>19. ASSUME NEW s \in Slas, ProbeGiveUp(s) PROVE LockInv' /\ TaskInv'
  BY <1>19 DEF ProbeGiveUp, Goto
<1>20. ASSUME NEW s \in Slas, ProvisionDropped(s) PROVE LockInv' /\ TaskInv'
  BY <1>20 DEF ProvisionDropped, Release, Goto, Dropped, Waiting
<1>21. ASSUME NEW s \in Slas, DoneUnasked(s) PROVE LockInv' /\ TaskInv'
  BY <1>21 DEF DoneUnasked
<1>22. ASSUME NEW s \in Slas, Expire(s) PROVE LockInv' /\ TaskInv'
  BY <1>22 DEF Expire, Goto
<1>23. ASSUME NEW k \in Finishers, NEW s \in Slas, FinishStart(k, s) PROVE LockInv' /\ TaskInv'
  BY <1>23 DEF FinishStart, Acquire, Goto, FinishFrom
<1>24. ASSUME NEW k \in Finishers, NEW s \in Slas, Removed(k, s) PROVE LockInv' /\ TaskInv'
  BY <1>24 DEF Removed, Goto
<1>25. ASSUME NEW k \in Finishers, NEW s \in Slas, RemoveFailed(k, s) PROVE LockInv' /\ TaskInv'
  BY <1>25 DEF RemoveFailed, Goto
<1>26. ASSUME NEW k \in Finishers, NEW s \in Slas, FinishSettle(k, s) PROVE LockInv' /\ TaskInv'
  BY <1>26 DEF FinishSettle, SaveFinished, Goto
<1>27. ASSUME NEW k \in Finishers, NEW s \in Slas, FinishNothing(k, s) PROVE LockInv' /\ TaskInv'
  BY <1>27 DEF FinishNothing, Release, Goto
<1>28. ASSUME NEW k \in Finishers, NEW s \in Slas, FinishRead(k, s) PROVE LockInv' /\ TaskInv'
  BY <1>28 DEF FinishRead, Goto
<1>29. ASSUME NEW k \in Finishers, NEW s \in Slas, FinishOverwritten(k, s) PROVE LockInv' /\ TaskInv'
  BY <1>29 DEF FinishOverwritten, Release, Goto
<1>30. ASSUME NEW k \in Finishers, NEW s \in Slas, FinishCredit(k, s) PROVE LockInv' /\ TaskInv'
  BY <1>30 DEF FinishCredit, Release, Goto
<1>31. CASE UNCHANGED vars
  BY <1>31 DEF vars
<1> HIDE DEF LockInv, TaskInv, IInv
<1> QED
  BY <1>1, <1>2, <1>3, <1>4, <1>5, <1>6, <1>7, <1>8, <1>9, <1>10, <1>11, <1>12,
     <1>13, <1>14, <1>15, <1>16, <1>17, <1>18, <1>19, <1>20, <1>21, <1>22, <1>23,
     <1>24, <1>25, <1>26, <1>27, <1>28, <1>29, <1>30, <1>31 DEF Next, Pay,
     Provision, Finish, Quiescent

(* States and tasks stay in agreement. *)
LEMMA StageStep == IInv /\ [Next]_vars => StageInv'
<1> SUFFICES ASSUME IInv, [Next]_vars PROVE StageInv'
  OBVIOUS
<1> USE DEF IInv, TypeOK, LockInv, TaskInv, StageInv, Kinds, Finishers, Stages,
        Finishable, Removable, Labels, Critical, Accounted, Credited
<1>1. ASSUME NEW s \in Slas, NEW n \in Nodes, Bid(s, n) PROVE StageInv'
  BY <1>1 DEF Bid
<1>2. ASSUME NEW s \in Slas, PayReserve(s) PROVE StageInv'
  BY <1>2 DEF PayReserve, Acquire, SavePaid, Save, Goto
<1>3. ASSUME NEW s \in Slas, PayRefuse(s) PROVE StageInv'
  BY <1>3 DEF PayRefuse, Goto
<1>4. ASSUME NEW s \in Slas, PayConfirm(s) PROVE StageInv'
  BY <1>4 DEF PayConfirm, Goto
<1>5. ASSUME NEW s \in Slas, PayOverwritten(s) PROVE StageInv'
  BY <1>5 DEF PayOverwritten, Release, Goto
<1>6. ASSUME NEW s \in Slas, PayAccount(s) PROVE StageInv'
  BY <1>6 DEF PayAccount, Goto
<1>7. ASSUME NEW s \in Slas, PayArm(s) PROVE StageInv'
  BY <1>7, ArmEffect
<1>8. ASSUME NEW s \in Slas, PayReturn(s) PROVE StageInv'
  BY <1>8 DEF PayReturn, Release, Goto
<1>9. ASSUME NEW s \in Slas, PayDropped(s) PROVE StageInv'
  BY <1>9 DEF PayDropped, Release, Goto
<1>10. ASSUME NEW s \in Slas, ProvisionStart(s) PROVE StageInv'
  BY <1>10 DEF ProvisionStart, Acquire, Goto
<1>11. ASSUME NEW s \in Slas, ProvisionRefuse(s) PROVE StageInv'
  BY <1>11 DEF ProvisionRefuse, Goto
<1>12. ASSUME NEW s \in Slas, Deployed(s) PROVE StageInv'
  BY <1>12 DEF Deployed, SaveProvisioned, Save, Release, Goto
<1>13. ASSUME NEW s \in Slas, DeployFailed(s) PROVE StageInv'
  BY <1>13 DEF DeployFailed, Release, Goto
<1>14. ASSUME NEW s \in Slas, ProbeStart(s) PROVE StageInv'
  BY <1>14 DEF ProbeStart, Goto
<1>15. ASSUME NEW s \in Slas, ProbeUp(s) PROVE StageInv'
  BY <1>15 DEF ProbeUp, Goto
<1>16. ASSUME NEW s \in Slas, ProbeDown(s) PROVE StageInv'
  BY <1>16 DEF ProbeDown, Goto
<1>17. ASSUME NEW s \in Slas, ProbeSave(s) PROVE StageInv'
  BY <1>17 DEF ProbeSave, SaveLive, Save, Goto
<1>18. ASSUME NEW s \in Slas, ProbeAgain(s) PROVE StageInv'
  BY <1>18 DEF ProbeAgain, Goto
<1>19. ASSUME NEW s \in Slas, ProbeGiveUp(s) PROVE StageInv'
  BY <1>19 DEF ProbeGiveUp, Goto
<1>20. ASSUME NEW s \in Slas, ProvisionDropped(s) PROVE StageInv'
  BY <1>20 DEF ProvisionDropped, Release, Goto, Dropped, Waiting
<1>21. ASSUME NEW s \in Slas, DoneUnasked(s) PROVE StageInv'
  BY <1>21 DEF DoneUnasked
<1>22. ASSUME NEW s \in Slas, Expire(s) PROVE StageInv'
  BY <1>22 DEF Expire, Goto
<1>23. ASSUME NEW k \in Finishers, NEW s \in Slas, FinishStart(k, s) PROVE StageInv'
  BY <1>23 DEF FinishStart, Acquire, Goto, FinishFrom
<1>24. ASSUME NEW k \in Finishers, NEW s \in Slas, Removed(k, s) PROVE StageInv'
  BY <1>24 DEF Removed, Goto
<1>25. ASSUME NEW k \in Finishers, NEW s \in Slas, RemoveFailed(k, s) PROVE StageInv'
  BY <1>25 DEF RemoveFailed, Goto
<1>26. ASSUME NEW k \in Finishers, NEW s \in Slas, FinishSettle(k, s) PROVE StageInv'
  <2>1. \A j \in Kinds : j # k => pc[j][s] \notin Critical
    BY <1>26, Exclusive DEF FinishSettle
  <2> QED
    BY <1>26, <2>1 DEF FinishSettle, SaveFinished, Goto
<1>27. ASSUME NEW k \in Finishers, NEW s \in Slas, FinishNothing(k, s) PROVE StageInv'
  BY <1>27 DEF FinishNothing, Release, Goto
<1>28. ASSUME NEW k \in Finishers, NEW s \in Slas, FinishRead(k, s) PROVE StageInv'
  BY <1>28 DEF FinishRead, Goto
<1>29. ASSUME NEW k \in Finishers, NEW s \in Slas, FinishOverwritten(k, s) PROVE StageInv'
  BY <1>29 DEF FinishOverwritten, Release, Goto
<1>30. ASSUME NEW k \in Finishers, NEW s \in Slas, FinishCredit(k, s) PROVE StageInv'
  <2>1. \A j \in Finishers : j # k => pc[j][s] \notin {"closing", "crediting"}
    BY <1>30, Exclusive DEF FinishCredit
  <2> QED
    BY <1>30, <2>1 DEF FinishCredit, Goto
<1>31. CASE UNCHANGED vars
  BY <1>31 DEF vars
<1> HIDE DEF StageInv, IInv
<1> QED
  BY <1>1, <1>2, <1>3, <1>4, <1>5, <1>6, <1>7, <1>8, <1>9, <1>10, <1>11, <1>12,
     <1>13, <1>14, <1>15, <1>16, <1>17, <1>18, <1>19, <1>20, <1>21, <1>22, <1>23,
     <1>24, <1>25, <1>26, <1>27, <1>28, <1>29, <1>30, <1>31 DEF Next, Pay,
     Provision, Finish, Quiescent

(* Nobody else writes the counters a task has read. *)
LEMMA SnapshotStep == IInv /\ [Next]_vars => SnapshotInv'
<1> SUFFICES ASSUME IInv, [Next]_vars PROVE SnapshotInv'
  OBVIOUS
<1> USE DEF IInv, TypeOK, Placed, LockInv, TaskInv, StageInv, SnapshotInv, Kinds,
        Finishers, Resources, Stages, Labels, Critical, Accounted, Satisfiable
<1>1. ASSUME NEW s \in Slas, NEW n \in Nodes, Bid(s, n) PROVE SnapshotInv'
  BY <1>1 DEF Bid
<1>2. ASSUME NEW s \in Slas, PayReserve(s) PROVE SnapshotInv'
  BY <1>2 DEF PayReserve, Acquire, SavePaid, Save, Goto
<1>3. ASSUME NEW s \in Slas, PayRefuse(s) PROVE SnapshotInv'
  BY <1>3 DEF PayRefuse, Goto
<1>4. ASSUME NEW s \in Slas, PayConfirm(s) PROVE SnapshotInv'
  BY <1>4 DEF PayConfirm, Goto
<1>5. ASSUME NEW s \in Slas, PayOverwritten(s) PROVE SnapshotInv'
  BY <1>5 DEF PayOverwritten, Release, Goto
<1>6. ASSUME NEW s \in Slas, PayAccount(s) PROVE SnapshotInv'
  <2>1. /\ \A t \in Slas : pc'["pay"][t] \notin {"saved", "reserved"}
        /\ \A j \in Finishers, t \in Slas : pc'[j][t] # "crediting"
    BY <1>6, Exclusive DEF PayAccount, Goto
  <2> QED
    BY <2>1
<1>7. ASSUME NEW s \in Slas, PayArm(s) PROVE SnapshotInv'
  <2>1. UNCHANGED <<used, at, read>>
    BY <1>7, ArmEffect
  <2>2. /\ \A t \in Slas : pc'["pay"][t] \in {"saved", "reserved"} => pc'["pay"][t] = pc["pay"][t]
        /\ \A k \in Finishers, t \in Slas : pc'[k][t] = "crediting" => pc'[k][t] = pc[k][t]
    BY <1>7, ArmQuiet
  <2> QED
    BY <2>1, <2>2
<1>8. ASSUME NEW s \in Slas, PayReturn(s) PROVE SnapshotInv'
  BY <1>8 DEF PayReturn, Release, Goto
<1>9. ASSUME NEW s \in Slas, PayDropped(s) PROVE SnapshotInv'
  BY <1>9 DEF PayDropped, Release, Goto
<1>10. ASSUME NEW s \in Slas, ProvisionStart(s) PROVE SnapshotInv'
  BY <1>10 DEF ProvisionStart, Acquire, Goto
<1>11. ASSUME NEW s \in Slas, ProvisionRefuse(s) PROVE SnapshotInv'
  BY <1>11 DEF ProvisionRefuse, Goto
<1>12. ASSUME NEW s \in Slas, Deployed(s) PROVE SnapshotInv'
  BY <1>12 DEF Deployed, SaveProvisioned, Save, Release, Goto
<1>13. ASSUME NEW s \in Slas, DeployFailed(s) PROVE SnapshotInv'
  BY <1>13 DEF DeployFailed, Release, Goto
<1>14. ASSUME NEW s \in Slas, ProbeStart(s) PROVE SnapshotInv'
  BY <1>14 DEF ProbeStart, Goto
<1>15. ASSUME NEW s \in Slas, ProbeUp(s) PROVE SnapshotInv'
  BY <1>15 DEF ProbeUp, Goto
<1>16. ASSUME NEW s \in Slas, ProbeDown(s) PROVE SnapshotInv'
  BY <1>16 DEF ProbeDown, Goto
<1>17. ASSUME NEW s \in Slas, ProbeSave(s) PROVE SnapshotInv'
  BY <1>17 DEF ProbeSave, SaveLive, Save, Goto
<1>18. ASSUME NEW s \in Slas, ProbeAgain(s) PROVE SnapshotInv'
  BY <1>18 DEF ProbeAgain, Goto
<1>19. ASSUME NEW s \in Slas, ProbeGiveUp(s) PROVE SnapshotInv'
  BY <1>19 DEF ProbeGiveUp, Goto
<1>20. ASSUME NEW s \in Slas, ProvisionDropped(s) PROVE SnapshotInv'
  BY <1>20 DEF ProvisionDropped, Release, Goto, Dropped, Waiting
<1>21. ASSUME NEW s \in Slas, DoneUnasked(s) PROVE SnapshotInv'
  BY <1>21 DEF DoneUnasked
<1>22. ASSUME NEW s \in Slas, Expire(s) PROVE SnapshotInv'
  BY <1>22 DEF Expire, Goto
<1>23. ASSUME NEW k \in Finishers, NEW s \in Slas, FinishStart(k, s) PROVE SnapshotInv'
  BY <1>23 DEF FinishStart, Acquire, Goto, FinishFrom
<1>24. ASSUME NEW k \in Finishers, NEW s \in Slas, Removed(k, s) PROVE SnapshotInv'
  BY <1>24 DEF Removed, Goto
<1>25. ASSUME NEW k \in Finishers, NEW s \in Slas, RemoveFailed(k, s) PROVE SnapshotInv'
  BY <1>25 DEF RemoveFailed, Goto
<1>26. ASSUME NEW k \in Finishers, NEW s \in Slas, FinishSettle(k, s) PROVE SnapshotInv'
  BY <1>26 DEF FinishSettle, SaveFinished, Goto
<1>27. ASSUME NEW k \in Finishers, NEW s \in Slas, FinishNothing(k, s) PROVE SnapshotInv'
  BY <1>27 DEF FinishNothing, Release, Goto
<1>28. ASSUME NEW k \in Finishers, NEW s \in Slas, FinishRead(k, s) PROVE SnapshotInv'
  BY <1>28 DEF FinishRead, Goto
<1>29. ASSUME NEW k \in Finishers, NEW s \in Slas, FinishOverwritten(k, s) PROVE SnapshotInv'
  BY <1>29 DEF FinishOverwritten, Release, Goto
<1>30. ASSUME NEW k \in Finishers, NEW s \in Slas, FinishCredit(k, s) PROVE SnapshotInv'
  <2>1. /\ \A t \in Slas : pc'["pay"][t] \notin {"saved", "reserved"}
        /\ \A j \in Finishers, t \in Slas : pc'[j][t] # "crediting"
    BY <1>30, Exclusive DEF FinishCredit, Goto
  <2> QED
    BY <2>1
<1>31. CASE UNCHANGED vars
  BY <1>31 DEF vars
<1> HIDE DEF SnapshotInv, IInv
<1> QED
  BY <1>1, <1>2, <1>3, <1>4, <1>5, <1>6, <1>7, <1>8, <1>9, <1>10, <1>11, <1>12,
     <1>13, <1>14, <1>15, <1>16, <1>17, <1>18, <1>19, <1>20, <1>21, <1>22, <1>23,
     <1>24, <1>25, <1>26, <1>27, <1>28, <1>29, <1>30, <1>31 DEF Next, Pay,
     Provision, Finish, Quiescent

(* The records stay in agreement with the backend. *)
LEMMA BackendStep == IInv /\ [Next]_vars => BackendInv' /\ RunningIsDeployed'
<1> SUFFICES ASSUME IInv, [Next]_vars PROVE BackendInv' /\ RunningIsDeployed'
  OBVIOUS
<1> USE DEF IInv, TypeOK, LockInv, TaskInv, StageInv, BackendInv, RunningIsDeployed,
        Kinds, Finishers, Stages, Finishable, Removable, Labels, Critical, Accounted
<1>1. ASSUME NEW s \in Slas, NEW n \in Nodes, Bid(s, n) PROVE BackendInv' /\ RunningIsDeployed'
  BY <1>1 DEF Bid
<1>2. ASSUME NEW s \in Slas, PayReserve(s) PROVE BackendInv' /\ RunningIsDeployed'
  BY <1>2 DEF PayReserve, Acquire, SavePaid, Save, Goto
<1>3. ASSUME NEW s \in Slas, PayRefuse(s) PROVE BackendInv' /\ RunningIsDeployed'
  BY <1>3 DEF PayRefuse, Goto
<1>4. ASSUME NEW s \in Slas, PayConfirm(s) PROVE BackendInv' /\ RunningIsDeployed'
  BY <1>4 DEF PayConfirm, Goto
<1>5. ASSUME NEW s \in Slas, PayOverwritten(s) PROVE BackendInv' /\ RunningIsDeployed'
  BY <1>5 DEF PayOverwritten, Release, Goto
<1>6. ASSUME NEW s \in Slas, PayAccount(s) PROVE BackendInv' /\ RunningIsDeployed'
  BY <1>6 DEF PayAccount, Goto
<1>7. ASSUME NEW s \in Slas, PayArm(s) PROVE BackendInv' /\ RunningIsDeployed'
  <2>1. /\ pc'["provision"] = pc["provision"]
        /\ UNCHANGED <<tracking, deployed, faulted, late>>
    BY <1>7, ArmEffect
  <2>2. \A t \in Slas : pc'["expiry"][t] = "settling" <=> pc["expiry"][t] = "settling"
    BY <1>7, ArmQuiet
  <2> QED
    BY <2>1, <2>2
<1>8. ASSUME NEW s \in Slas, PayReturn(s) PROVE BackendInv' /\ RunningIsDeployed'
  BY <1>8 DEF PayReturn, Release, Goto
<1>9. ASSUME NEW s \in Slas, PayDropped(s) PROVE BackendInv' /\ RunningIsDeployed'
  BY <1>9 DEF PayDropped, Release, Goto
<1>10. ASSUME NEW s \in Slas, ProvisionStart(s) PROVE BackendInv' /\ RunningIsDeployed'
  BY <1>10 DEF ProvisionStart, Acquire, Goto
<1>11. ASSUME NEW s \in Slas, ProvisionRefuse(s) PROVE BackendInv' /\ RunningIsDeployed'
  BY <1>11 DEF ProvisionRefuse, Goto
<1>12. ASSUME NEW s \in Slas, Deployed(s) PROVE BackendInv' /\ RunningIsDeployed'
  <2>1. \A k \in Finishers : pc[k][s] # "settling"
    BY <1>12, Exclusive DEF Deployed
  <2>2. /\ tracking' = IF tracking[s] = "paid" THEN [tracking EXCEPT ![s] = "provisioned"]
                       ELSE tracking
        /\ tracking[s] = "paid" \/ s \in late
        /\ deployed' = deployed \cup {s} /\ faulted' = faulted /\ late' = late
        /\ pc' = [pc EXCEPT !["provision"][s] = "probing"]
    BY <1>12 DEF Deployed, SaveProvisioned, Save, Goto
  <2> QED
    BY <2>1, <2>2
<1>13. ASSUME NEW s \in Slas, DeployFailed(s) PROVE BackendInv' /\ RunningIsDeployed'
  BY <1>13 DEF DeployFailed, Release, Goto
<1>14. ASSUME NEW s \in Slas, ProbeStart(s) PROVE BackendInv' /\ RunningIsDeployed'
  BY <1>14 DEF ProbeStart, Goto
<1>15. ASSUME NEW s \in Slas, ProbeUp(s) PROVE BackendInv' /\ RunningIsDeployed'
  BY <1>15 DEF ProbeUp, Goto
<1>16. ASSUME NEW s \in Slas, ProbeDown(s) PROVE BackendInv' /\ RunningIsDeployed'
  BY <1>16 DEF ProbeDown, Goto
<1>17. ASSUME NEW s \in Slas, ProbeSave(s) PROVE BackendInv' /\ RunningIsDeployed'
  BY <1>17 DEF ProbeSave, SaveLive, Save, Goto
<1>18. ASSUME NEW s \in Slas, ProbeAgain(s) PROVE BackendInv' /\ RunningIsDeployed'
  BY <1>18 DEF ProbeAgain, Goto
<1>19. ASSUME NEW s \in Slas, ProbeGiveUp(s) PROVE BackendInv' /\ RunningIsDeployed'
  BY <1>19 DEF ProbeGiveUp, Goto
<1>20. ASSUME NEW s \in Slas, ProvisionDropped(s) PROVE BackendInv' /\ RunningIsDeployed'
  BY <1>20 DEF ProvisionDropped, Release, Goto, Dropped, Waiting
<1>21. ASSUME NEW s \in Slas, DoneUnasked(s) PROVE BackendInv' /\ RunningIsDeployed'
  BY <1>21 DEF DoneUnasked
<1>22. ASSUME NEW s \in Slas, Expire(s) PROVE BackendInv' /\ RunningIsDeployed'
  BY <1>22 DEF Expire, Goto
<1>23. ASSUME NEW k \in Finishers, NEW s \in Slas, FinishStart(k, s) PROVE BackendInv' /\ RunningIsDeployed'
  BY <1>23 DEF FinishStart, Acquire, Goto, FinishFrom
<1>24. ASSUME NEW k \in Finishers, NEW s \in Slas, Removed(k, s) PROVE BackendInv' /\ RunningIsDeployed'
  BY <1>24 DEF Removed, Goto
<1>25. ASSUME NEW k \in Finishers, NEW s \in Slas, RemoveFailed(k, s) PROVE BackendInv' /\ RunningIsDeployed'
  BY <1>25 DEF RemoveFailed, Goto
<1>26. ASSUME NEW k \in Finishers, NEW s \in Slas, FinishSettle(k, s) PROVE BackendInv' /\ RunningIsDeployed'
  BY <1>26 DEF FinishSettle, SaveFinished, Goto
<1>27. ASSUME NEW k \in Finishers, NEW s \in Slas, FinishNothing(k, s) PROVE BackendInv' /\ RunningIsDeployed'
  BY <1>27 DEF FinishNothing, Release, Goto
<1>28. ASSUME NEW k \in Finishers, NEW s \in Slas, FinishRead(k, s) PROVE BackendInv' /\ RunningIsDeployed'
  BY <1>28 DEF FinishRead, Goto
<1>29. ASSUME NEW k \in Finishers, NEW s \in Slas, FinishOverwritten(k, s) PROVE BackendInv' /\ RunningIsDeployed'
  BY <1>29 DEF FinishOverwritten, Release, Goto
<1>30. ASSUME NEW k \in Finishers, NEW s \in Slas, FinishCredit(k, s) PROVE BackendInv' /\ RunningIsDeployed'
  BY <1>30 DEF FinishCredit, Release, Goto
<1>31. CASE UNCHANGED vars
  BY <1>31 DEF vars
<1> HIDE DEF BackendInv, RunningIsDeployed, IInv
<1> QED
  BY <1>1, <1>2, <1>3, <1>4, <1>5, <1>6, <1>7, <1>8, <1>9, <1>10, <1>11, <1>12,
     <1>13, <1>14, <1>15, <1>16, <1>17, <1>18, <1>19, <1>20, <1>21, <1>22, <1>23,
     <1>24, <1>25, <1>26, <1>27, <1>28, <1>29, <1>30, <1>31 DEF Next, Pay,
     Provision, Finish, Quiescent

(* The inductive invariant holds in every reachable state of a fog node. *)
THEOREM Invariance == Spec => []IInv
<1>1. Init => IInv
  BY ConstantsAssumption
  DEF Init, IInv, TypeOK, Placed, LockInv, TaskInv, StageInv, SnapshotInv, BackendInv,
      RunningIsDeployed, Kinds, Finishers, Stages, Removable, Resources, Labels, Critical, Accounted,
      Credited, Nothing
<1>2. IInv /\ [Next]_vars => IInv'
  BY TypeStep, LockStep, StageStep, SnapshotStep, BackendStep DEF IInv
<1>3. QED
  BY <1>1, <1>2, PTL DEF Spec

(* Types are right in every reachable state; in particular no counter is   *)
(* ever negative, because set_used would rather panic.                     *)
THEOREM TypeCorrect == Spec => []TypeOK
<1>1. IInv => TypeOK
  BY DEF IInv
<1>2. QED
  BY <1>1, Invariance, PTL

(* At most one task at a time is between FunctionLife::lock and the drop   *)
(* of its permit, and the permit is only ever held by such a task.         *)
THEOREM MutualExclusion == Spec => []LockInv
<1>1. IInv => LockInv
  BY DEF IInv
<1>2. QED
  BY <1>1, Invariance, PTL

(* A function in OpenFaaS that no record calls provisioned or live had a    *)
(* failed backend call, lost its market's connection while it was deployed, *)
(* or was bid on again: however else provisioning, probe, give-up and       *)
(* expiry interleave, and wherever else a handler is dropped, none is left. *)
THEOREM NoOrphanByRace == Spec => []OrphanOnlyAfterFault
<1>1. IInv => OrphanOnlyAfterFault
  BY DEF IInv, BackendInv, OrphanOnlyAfterFault
<1>2. QED
  BY <1>1, Invariance, PTL

(* What the tracking table calls provisioned or live exists in OpenFaaS,   *)
(* or is being finished by the holder of the permit.                       *)
THEOREM RecordsAreTrue == Spec => []RunningIsDeployed
<1>1. IInv => RunningIsDeployed
  BY DEF IInv
<1>2. QED
  BY <1>1, Invariance, PTL

(* What LifecycleOrder asks of a step. *)
Advances(t) ==
  /\ Follows(tracking[t], tracking'[t]) \/ (tracking'[t] = "proposed" /\ t \in late')
  /\ t \in late => tracking'[t] = "proposed"

(* Each write to the tracking table is one of the allowed. *)
LEMMA LifecycleStep == IInv /\ [Next]_vars => \A t \in Slas : Advances(t)
<1> SUFFICES ASSUME IInv, [Next]_vars PROVE \A t \in Slas : Advances(t)
  OBVIOUS
<1> USE DEF IInv, TypeOK, StageInv, Kinds, Finishers, Stages, Finishable, Follows, Advances
<1>1. ASSUME NEW s \in Slas, NEW n \in Nodes, Bid(s, n) PROVE \A t \in Slas : Advances(t)
  BY <1>1 DEF Bid
<1>2. ASSUME NEW s \in Slas, PayReserve(s) PROVE \A t \in Slas : Advances(t)
  BY <1>2 DEF PayReserve, Acquire, SavePaid, Save, Goto
<1>3. ASSUME NEW s \in Slas, PayRefuse(s) PROVE \A t \in Slas : Advances(t)
  BY <1>3 DEF PayRefuse, Goto
<1>4. ASSUME NEW s \in Slas, PayConfirm(s) PROVE \A t \in Slas : Advances(t)
  BY <1>4 DEF PayConfirm, Goto
<1>5. ASSUME NEW s \in Slas, PayOverwritten(s) PROVE \A t \in Slas : Advances(t)
  BY <1>5 DEF PayOverwritten, Release, Goto
<1>6. ASSUME NEW s \in Slas, PayAccount(s) PROVE \A t \in Slas : Advances(t)
  BY <1>6 DEF PayAccount, Goto
<1>7. ASSUME NEW s \in Slas, PayArm(s) PROVE \A t \in Slas : Advances(t)
  BY <1>7, ArmEffect
<1>8. ASSUME NEW s \in Slas, PayReturn(s) PROVE \A t \in Slas : Advances(t)
  BY <1>8 DEF PayReturn, Release, Goto
<1>9. ASSUME NEW s \in Slas, PayDropped(s) PROVE \A t \in Slas : Advances(t)
  BY <1>9 DEF PayDropped, Release, Goto
<1>10. ASSUME NEW s \in Slas, ProvisionStart(s) PROVE \A t \in Slas : Advances(t)
  BY <1>10 DEF ProvisionStart, Acquire, Goto
<1>11. ASSUME NEW s \in Slas, ProvisionRefuse(s) PROVE \A t \in Slas : Advances(t)
  BY <1>11 DEF ProvisionRefuse, Goto
<1>12. ASSUME NEW s \in Slas, Deployed(s) PROVE \A t \in Slas : Advances(t)
  BY <1>12 DEF Deployed, SaveProvisioned, Save, Release, Goto
<1>13. ASSUME NEW s \in Slas, DeployFailed(s) PROVE \A t \in Slas : Advances(t)
  BY <1>13 DEF DeployFailed, Release, Goto
<1>14. ASSUME NEW s \in Slas, ProbeStart(s) PROVE \A t \in Slas : Advances(t)
  BY <1>14 DEF ProbeStart, Goto
<1>15. ASSUME NEW s \in Slas, ProbeUp(s) PROVE \A t \in Slas : Advances(t)
  BY <1>15 DEF ProbeUp, Goto
<1>16. ASSUME NEW s \in Slas, ProbeDown(s) PROVE \A t \in Slas : Advances(t)
  BY <1>16 DEF ProbeDown, Goto
<1>17. ASSUME NEW s \in Slas, ProbeSave(s) PROVE \A t \in Slas : Advances(t)
  BY <1>17 DEF ProbeSave, SaveLive, Save, Goto
<1>18. ASSUME NEW s \in Slas, ProbeAgain(s) PROVE \A t \in Slas : Advances(t)
  BY <1>18 DEF ProbeAgain, Goto
<1>19. ASSUME NEW s \in Slas, ProbeGiveUp(s) PROVE \A t \in Slas : Advances(t)
  BY <1>19 DEF ProbeGiveUp, Goto
<1>20. ASSUME NEW s \in Slas, ProvisionDropped(s) PROVE \A t \in Slas : Advances(t)
  BY <1>20 DEF ProvisionDropped, Release, Goto, Dropped, Waiting
<1>21. ASSUME NEW s \in Slas, DoneUnasked(s) PROVE \A t \in Slas : Advances(t)
  BY <1>21 DEF DoneUnasked
<1>22. ASSUME NEW s \in Slas, Expire(s) PROVE \A t \in Slas : Advances(t)
  BY <1>22 DEF Expire, Goto
<1>23. ASSUME NEW k \in Finishers, NEW s \in Slas, FinishStart(k, s) PROVE \A t \in Slas : Advances(t)
  BY <1>23 DEF FinishStart, Acquire, Goto, FinishFrom
<1>24. ASSUME NEW k \in Finishers, NEW s \in Slas, Removed(k, s) PROVE \A t \in Slas : Advances(t)
  BY <1>24 DEF Removed, Goto
<1>25. ASSUME NEW k \in Finishers, NEW s \in Slas, RemoveFailed(k, s) PROVE \A t \in Slas : Advances(t)
  BY <1>25 DEF RemoveFailed, Goto
<1>26. ASSUME NEW k \in Finishers, NEW s \in Slas, FinishSettle(k, s) PROVE \A t \in Slas : Advances(t)
  BY <1>26 DEF FinishSettle, SaveFinished, Goto
<1>27. ASSUME NEW k \in Finishers, NEW s \in Slas, FinishNothing(k, s) PROVE \A t \in Slas : Advances(t)
  BY <1>27 DEF FinishNothing, Release, Goto
<1>28. ASSUME NEW k \in Finishers, NEW s \in Slas, FinishRead(k, s) PROVE \A t \in Slas : Advances(t)
  BY <1>28 DEF FinishRead, Goto
<1>29. ASSUME NEW k \in Finishers, NEW s \in Slas, FinishOverwritten(k, s) PROVE \A t \in Slas : Advances(t)
  BY <1>29 DEF FinishOverwritten, Release, Goto
<1>30. ASSUME NEW k \in Finishers, NEW s \in Slas, FinishCredit(k, s) PROVE \A t \in Slas : Advances(t)
  BY <1>30 DEF FinishCredit, Release, Goto
<1>31. CASE UNCHANGED vars
  BY <1>31 DEF vars
<1> HIDE DEF Advances, IInv
<1> QED
  BY <1>1, <1>2, <1>3, <1>4, <1>5, <1>6, <1>7, <1>8, <1>9, <1>10, <1>11, <1>12,
     <1>13, <1>14, <1>15, <1>16, <1>17, <1>18, <1>19, <1>20, <1>21, <1>22, <1>23,
     <1>24, <1>25, <1>26, <1>27, <1>28, <1>29, <1>30, <1>31 DEF Next, Pay,
     Provision, Finish, Quiescent

(* A function only moves forward, one state at a time, and a finished one  *)
(* stays finished whatever answers of the backend are still on their way;  *)
(* only a bid takes a record back, and if it had been paid for, no task    *)
(* still working on it moves it from there.                                *)
THEOREM ForwardOnly == Spec => LifecycleOrder
<1>1. IInv /\ [Next]_vars => [\A s \in Slas :
         /\ Follows(tracking[s], tracking'[s]) \/ (tracking'[s] = "proposed" /\ s \in late')
         /\ s \in late => tracking'[s] = "proposed"]_<<tracking, late>>
  BY LifecycleStep DEF Advances
<1>2. QED
  BY <1>1, Invariance, PTL DEF Spec, LifecycleOrder

(* Replicas only add to what one replica asks for. *)
LEMMA OneReplica == \A m, d \in Nat : m > 0 => d <= m * d
OBVIOUS

(* The check made under the lock still bounds the counters when they are written. *)
LEMMA CapacityStep == IInv /\ [Next]_vars => (Capacity => Capacity')
<1> SUFFICES ASSUME IInv, [Next]_vars PROVE (Capacity => Capacity')
  OBVIOUS
<1> USE ConstantsAssumption DEF IInv, TypeOK, Placed, StageInv, TaskInv, Capacity, Resources,
        Kinds, Finishers, Accounted
<1>1. ASSUME NEW s \in Slas, NEW n \in Nodes, Bid(s, n) PROVE (Capacity => Capacity')
  BY <1>1 DEF Bid
<1>2. ASSUME NEW s \in Slas, PayReserve(s) PROVE (Capacity => Capacity')
  BY <1>2 DEF PayReserve, Acquire, SavePaid, Save, Goto
<1>3. ASSUME NEW s \in Slas, PayRefuse(s) PROVE (Capacity => Capacity')
  BY <1>3 DEF PayRefuse, Goto
<1>4. ASSUME NEW s \in Slas, PayConfirm(s) PROVE (Capacity => Capacity')
  BY <1>4 DEF PayConfirm, Goto
<1>5. ASSUME NEW s \in Slas, PayOverwritten(s) PROVE (Capacity => Capacity')
  BY <1>5 DEF PayOverwritten, Release, Goto
<1>6. ASSUME NEW s \in Slas, PayAccount(s) PROVE (Capacity => Capacity')
  <2> SUFFICES ASSUME Capacity, \A t \in Slas : MaxReplica[t] > 0,
                      NEW m \in Nodes, NEW r \in Resources
               PROVE  used'[m][r] = 0 \/ used'[m][r] < Available[r]
    OBVIOUS
  <2>1. at[s] \in Nodes /\ read[s] = used[at[s]]
    BY <1>6 DEF PayAccount, SnapshotInv
  <2>2. used[at[s]][r] + MaxReplica[s] * Demand[s][r] < Available[r]
    BY <1>6 DEF PayAccount, SnapshotInv, Satisfiable
  <2>3. MaxReplica[s] \in Nat /\ Demand[s][r] \in Nat /\ MaxReplica[s] > 0
    OBVIOUS
  <2>4. Demand[s][r] <= MaxReplica[s] * Demand[s][r]
    BY <2>3, OneReplica, Zenon
  <2>5. used[at[s]][r] + Demand[s][r] < Available[r]
    BY <2>1, <2>2, <2>3, <2>4
  <2> QED
    BY <1>6, <2>1, <2>5 DEF PayAccount
<1>7. ASSUME NEW s \in Slas, PayArm(s) PROVE (Capacity => Capacity')
  BY <1>7, ArmEffect
<1>8. ASSUME NEW s \in Slas, PayReturn(s) PROVE (Capacity => Capacity')
  BY <1>8 DEF PayReturn, Release, Goto
<1>9. ASSUME NEW s \in Slas, PayDropped(s) PROVE (Capacity => Capacity')
  BY <1>9 DEF PayDropped, Release, Goto
<1>10. ASSUME NEW s \in Slas, ProvisionStart(s) PROVE (Capacity => Capacity')
  BY <1>10 DEF ProvisionStart, Acquire, Goto
<1>11. ASSUME NEW s \in Slas, ProvisionRefuse(s) PROVE (Capacity => Capacity')
  BY <1>11 DEF ProvisionRefuse, Goto
<1>12. ASSUME NEW s \in Slas, Deployed(s) PROVE (Capacity => Capacity')
  BY <1>12 DEF Deployed, SaveProvisioned, Save, Release, Goto
<1>13. ASSUME NEW s \in Slas, DeployFailed(s) PROVE (Capacity => Capacity')
  BY <1>13 DEF DeployFailed, Release, Goto
<1>14. ASSUME NEW s \in Slas, ProbeStart(s) PROVE (Capacity => Capacity')
  BY <1>14 DEF ProbeStart, Goto
<1>15. ASSUME NEW s \in Slas, ProbeUp(s) PROVE (Capacity => Capacity')
  BY <1>15 DEF ProbeUp, Goto
<1>16. ASSUME NEW s \in Slas, ProbeDown(s) PROVE (Capacity => Capacity')
  BY <1>16 DEF ProbeDown, Goto
<1>17. ASSUME NEW s \in Slas, ProbeSave(s) PROVE (Capacity => Capacity')
  BY <1>17 DEF ProbeSave, SaveLive, Save, Goto
<1>18. ASSUME NEW s \in Slas, ProbeAgain(s) PROVE (Capacity => Capacity')
  BY <1>18 DEF ProbeAgain, Goto
<1>19. ASSUME NEW s \in Slas, ProbeGiveUp(s) PROVE (Capacity => Capacity')
  BY <1>19 DEF ProbeGiveUp, Goto
<1>20. ASSUME NEW s \in Slas, ProvisionDropped(s) PROVE (Capacity => Capacity')
  BY <1>20 DEF ProvisionDropped, Release, Goto, Dropped, Waiting
<1>21. ASSUME NEW s \in Slas, DoneUnasked(s) PROVE (Capacity => Capacity')
  BY <1>21 DEF DoneUnasked
<1>22. ASSUME NEW s \in Slas, Expire(s) PROVE (Capacity => Capacity')
  BY <1>22 DEF Expire, Goto
<1>23. ASSUME NEW k \in Finishers, NEW s \in Slas, FinishStart(k, s) PROVE (Capacity => Capacity')
  BY <1>23 DEF FinishStart, Acquire, Goto, FinishFrom
<1>24. ASSUME NEW k \in Finishers, NEW s \in Slas, Removed(k, s) PROVE (Capacity => Capacity')
  BY <1>24 DEF Removed, Goto
<1>25. ASSUME NEW k \in Finishers, NEW s \in Slas, RemoveFailed(k, s) PROVE (Capacity => Capacity')
  BY <1>25 DEF RemoveFailed, Goto
<1>26. ASSUME NEW k \in Finishers, NEW s \in Slas, FinishSettle(k, s) PROVE (Capacity => Capacity')
  BY <1>26 DEF FinishSettle, SaveFinished, Goto
<1>27. ASSUME NEW k \in Finishers, NEW s \in Slas, FinishNothing(k, s) PROVE (Capacity => Capacity')
  BY <1>27 DEF FinishNothing, Release, Goto
<1>28. ASSUME NEW k \in Finishers, NEW s \in Slas, FinishRead(k, s) PROVE (Capacity => Capacity')
  BY <1>28 DEF FinishRead, Goto
<1>29. ASSUME NEW k \in Finishers, NEW s \in Slas, FinishOverwritten(k, s) PROVE (Capacity => Capacity')
  BY <1>29 DEF FinishOverwritten, Release, Goto
<1>30. ASSUME NEW k \in Finishers, NEW s \in Slas, FinishCredit(k, s) PROVE (Capacity => Capacity')
  <2>1. at[s] \in Nodes /\ read[s] = used[at[s]]
    BY <1>30 DEF FinishCredit, SnapshotInv
  <2> QED
    BY <1>30, <2>1 DEF FinishCredit
<1>31. CASE UNCHANGED vars
  BY <1>31 DEF vars
<1> HIDE DEF Capacity, IInv
<1> QED
  BY <1>1, <1>2, <1>3, <1>4, <1>5, <1>6, <1>7, <1>8, <1>9, <1>10, <1>11, <1>12,
     <1>13, <1>14, <1>15, <1>16, <1>17, <1>18, <1>19, <1>20, <1>21, <1>22, <1>23,
     <1>24, <1>25, <1>26, <1>27, <1>28, <1>29, <1>30, <1>31 DEF Next, Pay,
     Provision, Finish, Quiescent

(* One replica of every function that is paid for fits on its node. *)
THEOREM CapacityKept == Spec => []Capacity
<1>1. Init => Capacity
  BY DEF Init, Capacity, Nothing
<1>2. IInv /\ Capacity /\ [Next]_vars => Capacity'
  BY CapacityStep
<1>3. QED
  BY <1>1, <1>2, Invariance, PTL DEF Spec

-----------------------------------------------------------------------------
(* Refinement: FunctionLife implements ReservationLedger. *)

(* A step the ledger does not see. *)
SameLedger == used' = used /\ \A t \in Slas : Entry(t)' = Entry(t)

(* A step that changes the entry of s alone, to the value e. *)
Rewrites(s, e) == \A t \in Slas : Entry(t)' = IF t = s THEN e ELSE Entry(t)

(* The two kinds of step the ledger sees. *)
LEMMA SeenAsReserve ==
  ASSUME NEW s \in Slas, NEW n \in Nodes,
         Entry(s) = Free, Rewrites(s, n), Satisfiable(used[n], s),
         used' = [used EXCEPT ![n] = [r \in Resources |-> used[n][r] + Demand[s][r]]]
  PROVE  Ledger!Next
BY DEF Ledger!Next, Ledger!Reserve, Rewrites, Satisfiable

LEMMA SeenAsRelease ==
  ASSUME NEW s \in Slas, NEW n \in Nodes,
         Entry(s) = n, Rewrites(s, Released),
         \A r \in Resources : used[n][r] >= Demand[s][r],
         used' = [used EXCEPT ![n] = [r \in Resources |-> used[n][r] - Demand[s][r]]]
  PROVE  Ledger!Next
BY DEF Ledger!Next, Ledger!Release, Rewrites

(* Charging a payment reserves, giving it back releases; nothing else shows. *)
LEMMA LedgerStep == IInv /\ [Next]_vars => SameLedger \/ Ledger!Next
<1> SUFFICES ASSUME IInv, [Next]_vars PROVE SameLedger \/ Ledger!Next
  OBVIOUS
<1> USE DEF IInv, TypeOK, Placed, TaskInv, StageInv, Kinds, Finishers, Stages, Finishable,
        Removable, Accounted, Credited, SameLedger, Entry, Charged
<1>1. ASSUME NEW s \in Slas, NEW n \in Nodes, Bid(s, n) PROVE SameLedger \/ Ledger!Next
  <2>1. /\ UNCHANGED <<used, at, pc, panicked>>
        /\ \A t \in Slas : t # s => tracking'[t] = tracking[t] /\ (t \in late' <=> t \in late)
        /\ tracking'[s] = "proposed"
        /\ s \in late' <=> s \in late \/ tracking[s] \notin {"none", "proposed"}
    BY <1>1 DEF Bid
  <2>2. Charged(s)' <=> Charged(s)
    <3>1. Credited(s)' <=> Credited(s)
      BY <2>1
    <3>2. tracking[s] \in Finishable => ~Credited(s)
      OBVIOUS
    <3> HIDE DEF Credited
    <3>3. CASE tracking[s] \in Finishable
      BY <2>1, <3>1, <3>2, <3>3
    <3>4. CASE tracking[s] \notin Finishable
      <4>1. s \in late' /\ s \notin late => tracking[s] = "finished"
        BY <2>1, <3>4
      <4>2. CASE s \in late' <=> s \in late
        BY <2>1, <3>1, <3>4, <4>2
      <4>3. CASE tracking[s] = "finished" /\ s \in late' /\ s \notin late
        <5>1. \/ s \in panicked \/ Credited(s)
              \/ \E k \in Finishers : pc[k][s] \in {"closing", "crediting"}
          BY <4>3
        <5>2. Credited(s) => /\ s \notin panicked
                             /\ \A k \in Finishers : pc[k][s] \notin {"closing", "crediting"}
          BY DEF Credited
        <5>4. Charged(s) <=> pc["pay"][s] \in Accounted /\ ~Credited(s)
          <6> HIDE DEF Credited, IInv, StageInv, Accounted
          <6> QED
            BY <4>3, <5>1, <5>2
        <5>5. Charged(s)' <=> pc["pay"][s] \in Accounted /\ ~Credited(s)
          <6> HIDE DEF Credited, IInv, StageInv, Accounted
          <6> QED
            BY <2>1, <3>1, <4>3, <5>1, <5>2
        <5> HIDE DEF Charged
        <5> QED
          BY <5>4, <5>5
      <4>4. s \in late => s \in late'
        BY <2>1
      <4> HIDE DEF Charged, IInv
      <4> QED
        BY <4>1, <4>2, <4>3, <4>4
    <3> QED
      BY <3>3, <3>4
  <2>3. \A t \in Slas : Charged(t)' <=> Charged(t)
    BY <2>1, <2>2
  <2> HIDE DEF Charged, IInv
  <2> QED
    BY <2>1, <2>3
<1>2. ASSUME NEW s \in Slas, PayReserve(s) PROVE SameLedger \/ Ledger!Next
  BY <1>2 DEF PayReserve, Acquire, SavePaid, Save, Goto
<1>3. ASSUME NEW s \in Slas, PayRefuse(s) PROVE SameLedger \/ Ledger!Next
  BY <1>3 DEF PayRefuse, Goto
<1>4. ASSUME NEW s \in Slas, PayConfirm(s) PROVE SameLedger \/ Ledger!Next
  BY <1>4 DEF PayConfirm, Goto
<1>5. ASSUME NEW s \in Slas, PayOverwritten(s) PROVE SameLedger \/ Ledger!Next
  BY <1>5 DEF PayOverwritten, Release, Goto
<1>6. ASSUME NEW s \in Slas, PayAccount(s) PROVE SameLedger \/ Ledger!Next
  <2>1. at[s] \in Nodes /\ read[s] = used[at[s]] /\ Satisfiable(used[at[s]], s)
    BY <1>6 DEF PayAccount, SnapshotInv
  <2>2. Entry(s) = Free /\ Rewrites(s, at[s])
    BY <1>6 DEF PayAccount, Goto, Rewrites
  <2>3. used' = [used EXCEPT ![at[s]] = [r \in Resources |-> used[at[s]][r] + Demand[s][r]]]
    BY <1>6, <2>1 DEF PayAccount
  <2> HIDE DEF Entry
  <2> QED
    BY <2>1, <2>2, <2>3, SeenAsReserve
<1>7. ASSUME NEW s \in Slas, PayArm(s) PROVE SameLedger \/ Ledger!Next
  <2>1. UNCHANGED <<tracking, used, at, late, panicked>>
    BY <1>7, ArmEffect
  <2>2. \A t \in Slas : pc'["pay"][t] \in Accounted <=> pc["pay"][t] \in Accounted
    BY <1>7, ArmQuiet
  <2>5. \A t \in Slas, k \in Finishers :
          /\ pc'[k][t] \in {"closing", "crediting"} <=> pc[k][t] \in {"closing", "crediting"}
          /\ pc'[k][t] = "credited" <=> pc[k][t] = "credited"
    BY <1>7, ArmQuiet
  <2>6. \A t \in Slas : Credited(t)' <=> Credited(t)
    BY <2>5
  <2>7. \A t \in Slas : Charged(t)' <=> Charged(t)
    <3> HIDE DEF Credited, IInv, Accounted, Finishable
    <3> QED
      BY <2>1, <2>2, <2>5, <2>6
  <2> HIDE DEF Charged, Credited, IInv
  <2> QED
    BY <2>1, <2>6, <2>7
<1>8. ASSUME NEW s \in Slas, PayReturn(s) PROVE SameLedger \/ Ledger!Next
  BY <1>8 DEF PayReturn, Release, Goto
<1>9. ASSUME NEW s \in Slas, PayDropped(s) PROVE SameLedger \/ Ledger!Next
  BY <1>9 DEF PayDropped, Release, Goto
<1>10. ASSUME NEW s \in Slas, ProvisionStart(s) PROVE SameLedger \/ Ledger!Next
  BY <1>10 DEF ProvisionStart, Acquire, Goto
<1>11. ASSUME NEW s \in Slas, ProvisionRefuse(s) PROVE SameLedger \/ Ledger!Next
  BY <1>11 DEF ProvisionRefuse, Goto
<1>12. ASSUME NEW s \in Slas, Deployed(s) PROVE SameLedger \/ Ledger!Next
  BY <1>12 DEF Deployed, SaveProvisioned, Save, Release, Goto
<1>13. ASSUME NEW s \in Slas, DeployFailed(s) PROVE SameLedger \/ Ledger!Next
  BY <1>13 DEF DeployFailed, Release, Goto
<1>14. ASSUME NEW s \in Slas, ProbeStart(s) PROVE SameLedger \/ Ledger!Next
  BY <1>14 DEF ProbeStart, Goto
<1>15. ASSUME NEW s \in Slas, ProbeUp(s) PROVE SameLedger \/ Ledger!Next
  BY <1>15 DEF ProbeUp, Goto
<1>16. ASSUME NEW s \in Slas, ProbeDown(s) PROVE SameLedger \/ Ledger!Next
  BY <1>16 DEF ProbeDown, Goto
<1>17. ASSUME NEW s \in Slas, ProbeSave(s) PROVE SameLedger \/ Ledger!Next
  BY <1>17 DEF ProbeSave, SaveLive, Save, Goto
<1>18. ASSUME NEW s \in Slas, ProbeAgain(s) PROVE SameLedger \/ Ledger!Next
  BY <1>18 DEF ProbeAgain, Goto
<1>19. ASSUME NEW s \in Slas, ProbeGiveUp(s) PROVE SameLedger \/ Ledger!Next
  BY <1>19 DEF ProbeGiveUp, Goto
<1>20. ASSUME NEW s \in Slas, ProvisionDropped(s) PROVE SameLedger \/ Ledger!Next
  BY <1>20 DEF ProvisionDropped, Release, Goto, Dropped, Waiting
<1>21. ASSUME NEW s \in Slas, DoneUnasked(s) PROVE SameLedger \/ Ledger!Next
  BY <1>21 DEF DoneUnasked
<1>22. ASSUME NEW s \in Slas, Expire(s) PROVE SameLedger \/ Ledger!Next
  BY <1>22 DEF Expire, Goto
<1>23. ASSUME NEW k \in Finishers, NEW s \in Slas, FinishStart(k, s) PROVE SameLedger \/ Ledger!Next
  BY <1>23 DEF FinishStart, Acquire, Goto, FinishFrom
<1>24. ASSUME NEW k \in Finishers, NEW s \in Slas, Removed(k, s) PROVE SameLedger \/ Ledger!Next
  BY <1>24 DEF Removed, Goto
<1>25. ASSUME NEW k \in Finishers, NEW s \in Slas, RemoveFailed(k, s) PROVE SameLedger \/ Ledger!Next
  BY <1>25 DEF RemoveFailed, Goto
<1>26. ASSUME NEW k \in Finishers, NEW s \in Slas, FinishSettle(k, s) PROVE SameLedger \/ Ledger!Next
  BY <1>26 DEF FinishSettle, SaveFinished, Goto
<1>27. ASSUME NEW k \in Finishers, NEW s \in Slas, FinishNothing(k, s) PROVE SameLedger \/ Ledger!Next
  BY <1>27 DEF FinishNothing, Release, Goto
<1>28. ASSUME NEW k \in Finishers, NEW s \in Slas, FinishRead(k, s) PROVE SameLedger \/ Ledger!Next
  BY <1>28 DEF FinishRead, Goto
<1>29. ASSUME NEW k \in Finishers, NEW s \in Slas, FinishOverwritten(k, s) PROVE SameLedger \/ Ledger!Next
  BY <1>29 DEF FinishOverwritten, Release, Goto
<1>30. ASSUME NEW k \in Finishers, NEW s \in Slas, FinishCredit(k, s) PROVE SameLedger \/ Ledger!Next
  <2>1. /\ at[s] \in Nodes /\ read[s] = used[at[s]]
        /\ pc["pay"][s] \in Accounted /\ ~Credited(s) /\ s \notin panicked
    BY <1>30 DEF FinishCredit, SnapshotInv
  <2>2. \A j \in Finishers : j # k => pc[j][s] \notin {"closing", "crediting"}
    BY <1>30, Exclusive DEF FinishCredit, Critical
  <2>3. tracking[s] \notin Finishable /\ UNCHANGED <<tracking, at, late>>
    BY <1>30 DEF FinishCredit
  <2>4. CASE \A r \in Resources : read[s][r] >= Demand[s][r]
    <3>1. Entry(s) = at[s] /\ Rewrites(s, Released)
      BY <1>30, <2>1, <2>2, <2>3, <2>4 DEF FinishCredit, Goto, Rewrites
    <3>2. used' = [used EXCEPT ![at[s]] = [r \in Resources |-> used[at[s]][r] - Demand[s][r]]]
      BY <1>30, <2>1, <2>4 DEF FinishCredit
    <3>3. at[s] \in Nodes /\ \A r \in Resources : used[at[s]][r] >= Demand[s][r]
      BY <2>1, <2>4
    <3> HIDE DEF Entry, IInv, SameLedger
    <3> QED
      BY <3>1, <3>2, <3>3, SeenAsRelease
  <2>5. CASE ~ \A r \in Resources : read[s][r] >= Demand[s][r]
    BY <1>30, <2>1, <2>2, <2>3, <2>5 DEF FinishCredit, Goto
  <2> QED
    BY <2>4, <2>5
<1>31. CASE UNCHANGED vars
  BY <1>31 DEF vars
<1> HIDE DEF SameLedger, IInv
<1> QED
  BY <1>1, <1>2, <1>3, <1>4, <1>5, <1>6, <1>7, <1>8, <1>9, <1>10, <1>11, <1>12,
     <1>13, <1>14, <1>15, <1>16, <1>17, <1>18, <1>19, <1>20, <1>21, <1>22, <1>23,
     <1>24, <1>25, <1>26, <1>27, <1>28, <1>29, <1>30, <1>31 DEF Next, Pay,
     Provision, Finish, Quiescent

(* The node keeps the promise of the ledger: whatever the interleaving of  *)
(* calls, probes and expiries, each payment is charged once, on a node     *)
(* where it was found to fit, and given back once.                         *)
THEOREM NodeImplementsLedger == Spec => ImplementsLedger
<1>1. Init => Ledger!Init
  BY DEF Init, Ledger!Init, Entry, Charged, Credited, Accounted, Finishers, Kinds, Nothing
<1>2. IInv /\ [Next]_vars => [Ledger!Next]_(Ledger!vars)
  BY LedgerStep DEF SameLedger, Ledger!vars
<1>3. QED
  BY <1>1, <1>2, Invariance, PTL DEF Spec, ImplementsLedger, Ledger!Spec
-----------------------------------------------------------------------------
(* Sums of demands.  Total is a fold, hence a function defined by recursion *)
(* on the subsets of a set; what follows shows that for a finite set this   *)
(* recursion has one solution, and derives the equations of a sum from it.  *)

(* Among sets of subsets of a finite set there is always one that contains  *)
(* no other: the induction that the lemmas on sums need.                    *)
LEMMA SmallestSet ==
  ASSUME NEW S, IsFiniteSet(S), NEW W \in SUBSET (SUBSET S), W # {}
  PROVE  \E T \in W : \A U \in W : U \subseteq T => U = T
<1>1. IsWellFoundedOn(StrictSubsetOrdering(S), SUBSET S)
  BY FS_StrictSubsetOrderingWellFounded, FS_FiniteSubsetsOfFinite
<1>2. \E T \in W : \A U \in W : ~ (<<U, T>> \in StrictSubsetOrdering(S))
  BY <1>1, WFMin
<1> QED BY <1>2 DEF StrictSubsetOrdering

(* The sum of d[s][r] over the s in T, and the functions that obey the      *)
(* recursion behind it on the subsets of S.                                 *)
Load(d, r, T) == MapThenSumSet(LAMBDA s : d[s][r], T)
Some(U) == CHOOSE x \in U : TRUE
Unfold(d, r, h, U) == IF U = {} THEN 0 ELSE d[Some(U)][r] + h[U \ {Some(U)}]
Loads(d, r, S) == {h \in [SUBSET S -> Nat] : \A U \in SUBSET S : h[U] = Unfold(d, r, h, U)}

LEMMA SomeIn ==
  ASSUME NEW U, U # {}
  PROVE  Some(U) \in U
BY DEF Some

(* Solutions on two sets agree where both are defined ... *)
LEMMA LoadsAgree ==
  ASSUME NEW d, NEW r, NEW S, NEW T \in SUBSET S, IsFiniteSet(S),
         NEW f \in Loads(d, r, S), NEW g \in Loads(d, r, T)
  PROVE  \A U \in SUBSET T : f[U] = g[U]
<1> DEFINE W == {U \in SUBSET T : f[U] # g[U]}
<1> SUFFICES ASSUME W # {} PROVE FALSE
  OBVIOUS
<1>1. IsFiniteSet(T)
  BY FS_Subset
<1> W \in SUBSET (SUBSET T)
  OBVIOUS
<1> HIDE DEF W
<1>2. PICK U \in W : \A V \in W : V \subseteq U => V = U
  BY <1>1, SmallestSet
<1>3. U \in SUBSET T /\ U \in SUBSET S /\ f[U] # g[U]
  BY <1>2 DEF W
<1>4. f[U] = Unfold(d, r, f, U) /\ g[U] = Unfold(d, r, g, U)
  BY <1>3 DEF Loads
<1>5. U # {}
  BY <1>3, <1>4 DEF Unfold
<1>6. f[U \ {Some(U)}] = g[U \ {Some(U)}]
  BY <1>2, <1>3, <1>5, SomeIn DEF W
<1> QED
  BY <1>3, <1>4, <1>5, <1>6 DEF Unfold

(* ... so they can be extended one set after the other ... *)
LEMMA LoadsExist ==
  ASSUME NEW d, NEW r, NEW S, IsFiniteSet(S), \A s \in S : d[s][r] \in Nat
  PROVE  Loads(d, r, S) # {}
<1> DEFINE W == {T \in SUBSET S : Loads(d, r, T) = {}}
<1> SUFFICES ASSUME W # {} PROVE FALSE
  OBVIOUS
<1> W \in SUBSET (SUBSET S)
  OBVIOUS
<1> HIDE DEF W
<1>1. PICK T \in W : \A V \in W : V \subseteq T => V = T
  BY SmallestSet
<1>2. T \in SUBSET S /\ Loads(d, r, T) = {}
  BY <1>1 DEF W
<1>3. IsFiniteSet(T)
  BY <1>2, FS_Subset
<1> DEFINE H(U) == CHOOSE h : h \in Loads(d, r, U)
<1>4. \A U \in SUBSET T : U # T => H(U) \in Loads(d, r, U)
  <2> SUFFICES ASSUME NEW U \in SUBSET T, U # T PROVE \E h : h \in Loads(d, r, U)
    OBVIOUS
  <2> QED
    BY <1>1, <1>2 DEF W
<1> HIDE DEF H
<1>5. T # {}
  <2> SUFFICES ASSUME T = {} PROVE FALSE
    OBVIOUS
  <2> DEFINE h == [U \in SUBSET T |-> 0]
  <2>1. h \in Loads(d, r, T)
    BY DEF Loads, Unfold
  <2> QED
    BY <2>1, <1>2
<1> DEFINE c == Some(T)
           f == [U \in SUBSET T |-> IF U = T THEN d[c][r] + H(T \ {c})[T \ {c}] ELSE H(U)[U]]
<1>6. c \in T /\ d[c][r] \in Nat /\ T \ {c} \in SUBSET T /\ T \ {c} # T
  BY <1>2, <1>5, SomeIn
<1> HIDE DEF c
<1>7. \A U \in SUBSET T : U # T => H(U)[U] \in Nat
  BY <1>4 DEF Loads
<1>8. f \in [SUBSET T -> Nat]
  <2> SUFFICES ASSUME NEW U \in SUBSET T PROVE f[U] \in Nat
    OBVIOUS
  <2>1. CASE U = T
    BY <1>6, <1>7, <2>1
  <2>2. CASE U # T
    BY <1>7, <2>2
  <2> QED
    BY <2>1, <2>2
<1>9. ASSUME NEW U \in SUBSET T PROVE f[U] = Unfold(d, r, f, U)
  <2>1. CASE U = {}
    <3>1. f[U] = H(U)[U] /\ H(U) \in Loads(d, r, U)
      BY <2>1, <1>5, <1>4
    <3> QED
      BY <2>1, <3>1 DEF Loads, Unfold
  <2>2. CASE U = T
    <3>1. f[T \ {c}] = H(T \ {c})[T \ {c}]
      BY <1>6
    <3> QED
      BY <2>2, <3>1, <1>5 DEF Unfold, c
  <2>3. CASE U # T /\ U # {}
    <3> DEFINE V == U \ {Some(U)}
    <3>1. Some(U) \in U
      BY <2>3, SomeIn
    <3>2. V \in SUBSET U /\ V \in SUBSET T /\ V # T
      BY <2>3, <3>1
    <3> HIDE DEF V
    <3>3. H(U) \in Loads(d, r, U) /\ H(V) \in Loads(d, r, V)
      BY <2>3, <3>2, <1>4
    <3>4. IsFiniteSet(U)
      BY <1>3, FS_Subset
    <3>5. H(U)[V] = H(V)[V]
      BY <3>2, <3>3, <3>4, LoadsAgree
    <3>6. f[U] = H(U)[U] /\ f[V] = H(V)[V]
      BY <2>3, <3>2
    <3>7. H(U)[U] = d[Some(U)][r] + H(U)[V]
      BY <3>3, <2>3 DEF Loads, Unfold, V
    <3> HIDE DEF f
    <3> QED
      BY <3>5, <3>6, <3>7, <2>3 DEF Unfold, V
  <2> QED
    BY <2>1, <2>2, <2>3
<1>10. f \in Loads(d, r, T)
  BY <1>8, <1>9 DEF Loads
<1> QED
  BY <1>10, <1>2

(* ... and the sum is the value of any of them. *)
LEMMA LoadUnique ==
  ASSUME NEW d, NEW r, NEW S, IsFiniteSet(S), \A s \in S : d[s][r] \in Nat,
         NEW h \in Loads(d, r, S)
  PROVE  Load(d, r, S) = h[S]
<1> DEFINE Rec(g) == g = [U \in SUBSET S |-> Unfold(d, r, g, U)]
           it == CHOOSE g : Rec(g)
<1>1. Load(d, r, S) = it[S]
  BY DEF Load, MapThenSumSet, MapThenFoldSet, Unfold, Some
<1>2. Rec(h)
  BY DEF Loads
<1>3. Rec(it)
  BY <1>2
<1>4. ASSUME NEW U \in SUBSET S PROVE it[U] = h[U]
  <2> DEFINE W == {V \in SUBSET S : it[V] # h[V]}
  <2> SUFFICES ASSUME W # {} PROVE FALSE
    OBVIOUS
  <2> W \in SUBSET (SUBSET S)
    OBVIOUS
  <2> HIDE DEF W
  <2>2. PICK V \in W : \A X \in W : X \subseteq V => X = V
    BY SmallestSet
  <2>3. V \in SUBSET S /\ it[V] # h[V]
    BY <2>2 DEF W
  <2> HIDE DEF it
  <2>4. it[V] = Unfold(d, r, it, V) /\ h[V] = Unfold(d, r, h, V)
    BY <2>3, <1>2, <1>3
  <2>5. V # {}
    BY <2>3, <2>4 DEF Unfold
  <2>6. it[V \ {Some(V)}] = h[V \ {Some(V)}]
    BY <2>2, <2>3, <2>5, SomeIn DEF W
  <2> QED
    BY <2>3, <2>4, <2>5, <2>6 DEF Unfold
<1> QED
  BY <1>1, <1>4

(* The sum obeys the recursion itself ... *)
LEMMA LoadUnfolds ==
  ASSUME NEW d, NEW r, NEW S, IsFiniteSet(S), \A s \in S : d[s][r] \in Nat
  PROVE  /\ Load(d, r, S) \in Nat
         /\ Load(d, r, S) = IF S = {} THEN 0 ELSE d[Some(S)][r] + Load(d, r, S \ {Some(S)})
<1>1. PICK h : h \in Loads(d, r, S)
  BY LoadsExist
<1>2. Load(d, r, S) = h[S]
  BY <1>1, LoadUnique
<1>3. h[S] \in Nat /\ h[S] = Unfold(d, r, h, S)
  BY <1>1 DEF Loads
<1>4. ASSUME S # {} PROVE Load(d, r, S \ {Some(S)}) = h[S \ {Some(S)}]
  <2> DEFINE T == S \ {Some(S)}
  <2>1. T \in SUBSET S /\ IsFiniteSet(T) /\ \A s \in T : d[s][r] \in Nat
    BY FS_Subset
  <2> HIDE DEF T
  <2>2. PICK g : g \in Loads(d, r, T)
    BY <2>1, LoadsExist
  <2>3. Load(d, r, T) = g[T]
    BY <2>1, <2>2, LoadUnique
  <2>4. h[T] = g[T]
    BY <1>1, <2>1, <2>2, LoadsAgree
  <2> QED
    BY <2>3, <2>4 DEF T
<1> QED
  BY <1>2, <1>3, <1>4 DEF Unfold

(* ... whichever element is taken out first. *)
LEMMA LoadWithout ==
  ASSUME NEW d, NEW r, NEW S, IsFiniteSet(S), \A s \in S : d[s][r] \in Nat, NEW x \in S
  PROVE  Load(d, r, S) = d[x][r] + Load(d, r, S \ {x})
<1> DEFINE W == {T \in SUBSET S : \E y \in T : Load(d, r, T) # d[y][r] + Load(d, r, T \ {y})}
<1> SUFFICES ASSUME W # {} PROVE FALSE
  OBVIOUS
<1> W \in SUBSET (SUBSET S)
  OBVIOUS
<1> HIDE DEF W
<1>1. PICK T \in W : \A V \in W : V \subseteq T => V = T
  BY SmallestSet
<1>2. T \in SUBSET S
  BY <1>1 DEF W
<1>3. PICK y \in T : Load(d, r, T) # d[y][r] + Load(d, r, T \ {y})
  BY <1>1 DEF W
<1> DEFINE c == Some(T)
<1>4. c \in T
  BY <1>3, SomeIn
<1> HIDE DEF c
<1> DEFINE U == T \ {c}
           V == T \ {y}
           X == T \ {c, y}
<1>5. /\ IsFiniteSet(T) /\ IsFiniteSet(U) /\ IsFiniteSet(V) /\ IsFiniteSet(X)
      /\ U \in SUBSET S /\ V \in SUBSET S /\ X \in SUBSET S
      /\ \A s \in T : d[s][r] \in Nat
  BY <1>2, FS_Subset
<1>6. Load(d, r, T) = d[c][r] + Load(d, r, U)
  BY <1>3, <1>5, LoadUnfolds DEF c
<1>7. c # y
  BY <1>3, <1>6
<1>8. Load(d, r, U) = d[y][r] + Load(d, r, U \ {y})
  <2>1. U \notin W
    BY <1>1, <1>4
  <2> QED
    BY <2>1, <1>3, <1>5, <1>7 DEF W
<1>9. Load(d, r, V) = d[c][r] + Load(d, r, V \ {c})
  <2>1. V \notin W
    BY <1>1, <1>3
  <2> QED
    BY <2>1, <1>4, <1>5, <1>7 DEF W
<1>10. U \ {y} = X /\ V \ {c} = X
  OBVIOUS
<1>11. Load(d, r, X) \in Nat
  BY <1>5, LoadUnfolds
<1>13. d[c][r] \in Nat /\ d[y][r] \in Nat
  BY <1>3, <1>4, <1>5
<1> HIDE DEF U, V, X, W
<1>12. Load(d, r, T) # d[y][r] + Load(d, r, V)
  BY <1>3 DEF V
<1>14. Load(d, r, U) = d[y][r] + Load(d, r, X) /\ Load(d, r, V) = d[c][r] + Load(d, r, X)
  BY <1>8, <1>9, <1>10
<1> QED
  BY <1>6, <1>11, <1>12, <1>13, <1>14

(* One more element adds its weight. *)
LEMMA LoadWith ==
  ASSUME NEW d, NEW r, NEW S, IsFiniteSet(S), \A s \in S : d[s][r] \in Nat,
         NEW x, x \notin S, d[x][r] \in Nat
  PROVE  Load(d, r, S \cup {x}) = Load(d, r, S) + d[x][r]
<1> DEFINE T == S \cup {x}
<1>1. IsFiniteSet(T) /\ T \ {x} = S /\ x \in T /\ \A s \in T : d[s][r] \in Nat
  BY FS_AddElement
<1>2. Load(d, r, S) \in Nat
  BY LoadUnfolds
<1> HIDE DEF T
<1>3. Load(d, r, T) = d[x][r] + Load(d, r, T \ {x})
  BY <1>1, LoadWithout
<1> QED
  <2>1. Load(d, r, T) = d[x][r] + Load(d, r, S)
    BY <1>1, <1>3
  <2>2. d[x][r] \in Nat
    OBVIOUS
  <2>3. T = S \cup {x}
    BY DEF T
  <2> QED
    BY <2>1, <2>2, <2>3, <1>2, Z3

-----------------------------------------------------------------------------
(* The counters add up.                                                    *)
Carried(n) == {s \in Slas : Entry(s) = n}

(* The functions charged to a node are finitely many, and what its counters *)
(* say is the sum of their demands.                                         *)
BalanceInv ==
  /\ \A n \in Nodes : IsFiniteSet(Carried(n))
  /\ \A n \in Nodes, r \in Resources : used[n][r] = Load(Demand, r, Carried(n))

LEMMA BalanceIsAccounting == BalanceInv => Accounting
<1> SUFFICES ASSUME BalanceInv, NEW n \in Nodes, NEW r \in Resources
             PROVE  used[n][r] = Ledger!Total(LAMBDA s : Demand[s][r],
                                   {s \in Slas : [t \in Slas |-> Entry(t)][s] = n})
  BY DEF Accounting, Ledger!Balanced
<1>1. {s \in Slas : [t \in Slas |-> Entry(t)][s] = n} = Carried(n)
  BY DEF Carried
<1>2. used[n][r] = Load(Demand, r, Carried(n))
  BY DEF BalanceInv
<1> QED
  BY <1>1, <1>2 DEF Ledger!Total, Ledger!MapThenSumSet, Ledger!MapThenFoldSet,
                    Load, MapThenSumSet, MapThenFoldSet

(* A reservation adds its function to the sum of one node ... *)
LEMMA ReserveBalanced ==
  ASSUME BalanceInv, TypeOK, NEW s \in Slas, NEW m \in Nodes, Entry(s) = Free,
         Rewrites(s, m),
         used' = [used EXCEPT ![m] = [r \in Resources |-> used[m][r] + Demand[s][r]]]
  PROVE  BalanceInv'
<1> USE ConstantsAssumption
<1>1. Carried(m)' = Carried(m) \cup {s} /\ s \notin Carried(m)
  BY DEF Carried, Rewrites
<1>2. \A n \in Nodes : n # m => Carried(n)' = Carried(n)
  BY DEF Carried, Rewrites
<1>3. ASSUME NEW n \in Nodes PROVE IsFiniteSet(Carried(n)')
  BY <1>1, <1>2, FS_AddElement DEF BalanceInv
<1>4. ASSUME NEW n \in Nodes, NEW r \in Resources
      PROVE  used'[n][r] = Load(Demand, r, Carried(n)')
  <2>1. CASE n = m
    <3>1. \A t \in Carried(m) : Demand[t][r] \in Nat
      BY DEF Carried
    <3>2. Load(Demand, r, Carried(m) \cup {s}) = Load(Demand, r, Carried(m)) + Demand[s][r]
      BY <1>1, <3>1, LoadWith DEF BalanceInv
    <3> QED
      BY <1>1, <2>1, <3>2 DEF BalanceInv, TypeOK
  <2>2. CASE n # m
    BY <1>2, <2>2 DEF BalanceInv, TypeOK
  <2> QED
    BY <2>1, <2>2
<1> QED
  BY <1>3, <1>4 DEF BalanceInv

(* ... and a release takes it out. *)
LEMMA ReleaseBalanced ==
  ASSUME BalanceInv, TypeOK, NEW s \in Slas, NEW m \in Nodes, Entry(s) = m,
         Rewrites(s, Released),
         used' = [used EXCEPT ![m] = [r \in Resources |-> used[m][r] - Demand[s][r]]]
  PROVE  BalanceInv'
<1> USE ConstantsAssumption
<1>1. Carried(m)' = Carried(m) \ {s} /\ s \in Carried(m)
  BY DEF Carried, Rewrites
<1>2. \A n \in Nodes : n # m => Carried(n)' = Carried(n)
  BY DEF Carried, Rewrites
<1>3. ASSUME NEW n \in Nodes PROVE IsFiniteSet(Carried(n)')
  BY <1>1, <1>2, FS_RemoveElement DEF BalanceInv
<1>4. ASSUME NEW n \in Nodes, NEW r \in Resources
      PROVE  used'[n][r] = Load(Demand, r, Carried(n)')
  <2>1. CASE n = m
    <3>1. \A t \in Carried(m) : Demand[t][r] \in Nat
      BY DEF Carried
    <3>2. Load(Demand, r, Carried(m)) = Demand[s][r] + Load(Demand, r, Carried(m) \ {s})
      BY <1>1, <3>1, LoadWithout DEF BalanceInv
    <3>3. Load(Demand, r, Carried(m) \ {s}) \in Nat
      <4>1. IsFiniteSet(Carried(m) \ {s})
        BY FS_RemoveElement DEF BalanceInv
      <4> QED
        BY <3>1, <4>1, LoadUnfolds
    <3>4. used'[m][r] = used[m][r] - Demand[s][r] /\ Demand[s][r] \in Nat
      BY DEF TypeOK
    <3>5. used[m][r] = Load(Demand, r, Carried(m))
      BY DEF BalanceInv
    <3> HIDE DEF Load, Carried
    <3>6. used'[m][r] = Load(Demand, r, Carried(m) \ {s})
      BY <3>2, <3>3, <3>4, <3>5
    <3> QED
      BY <1>1, <2>1, <3>6
  <2>2. CASE n # m
    BY <1>2, <2>2 DEF BalanceInv, TypeOK
  <2> QED
    BY <2>1, <2>2
<1> QED
  BY <1>3, <1>4 DEF BalanceInv

(* What a function was charged is in the counters of its node until it is   *)
(* given back, so a release never takes a counter below zero.               *)
LEMMA ChargeCovered ==
  ASSUME BalanceInv, TypeOK, NEW s \in Slas, NEW m \in Nodes, Entry(s) = m,
         NEW r \in Resources
  PROVE  used[m][r] >= Demand[s][r]
<1> USE ConstantsAssumption
<1>1. s \in Carried(m) /\ \A t \in Carried(m) : Demand[t][r] \in Nat
  BY DEF Carried
<1>2. Load(Demand, r, Carried(m)) = Demand[s][r] + Load(Demand, r, Carried(m) \ {s})
  BY <1>1, LoadWithout DEF BalanceInv
<1>3. Load(Demand, r, Carried(m) \ {s}) \in Nat
  <2>1. IsFiniteSet(Carried(m) \ {s})
    BY FS_RemoveElement DEF BalanceInv
  <2> QED
    BY <1>1, <2>1, LoadUnfolds
<1>4. Demand[s][r] \in Nat
  OBVIOUS
<1> QED
  BY <1>2, <1>3, <1>4 DEF BalanceInv

LEMMA BalanceStep == IInv /\ BalanceInv /\ [Next]_vars => BalanceInv'
<1> SUFFICES ASSUME IInv, BalanceInv, [Next]_vars PROVE BalanceInv'
  OBVIOUS
<1>1. CASE SameLedger
  BY <1>1 DEF SameLedger, BalanceInv, Carried
<1>2. ASSUME NEW s \in Slas, NEW n \in Nodes, Ledger!Reserve(s, n) PROVE BalanceInv'
  <2>1. Entry(s) = Free /\ Rewrites(s, n)
    BY <1>2 DEF Ledger!Reserve, Rewrites
  <2> QED
    BY <1>2, <2>1, ReserveBalanced DEF Ledger!Reserve, IInv
<1>3. ASSUME NEW s \in Slas, NEW n \in Nodes, Ledger!Release(s, n) PROVE BalanceInv'
  <2>1. Entry(s) = n /\ Rewrites(s, Released)
    BY <1>3 DEF Ledger!Release, Rewrites
  <2> QED
    BY <1>3, <2>1, ReleaseBalanced DEF Ledger!Release, IInv
<1> QED
  BY <1>1, <1>2, <1>3, LedgerStep DEF Ledger!Next

(* The invariant holds at the start and is kept. *)
LEMMA BalanceKept == Spec => []BalanceInv
<1>1. Init => BalanceInv
  <2> SUFFICES ASSUME Init PROVE BalanceInv
    OBVIOUS
  <2>1. \A n \in Nodes : Carried(n) = {}
    BY ConstantsAssumption DEF Init, Carried, Entry, Charged, Credited, Accounted, Finishers, Kinds
  <2>2. \A r \in Resources : Load(Demand, r, {}) = 0
    BY FS_EmptySet, LoadUnfolds
  <2> QED
    BY <2>1, <2>2, FS_EmptySet DEF BalanceInv, Init, Nothing
<1>2. QED
  BY <1>1, BalanceStep, Invariance, PTL DEF Spec

(* The counters of a Kubernetes node are the sum of what the functions paid *)
(* for and not given back were charged: no interleaving loses an update.    *)
THEOREM CountersAddUp == Spec => []Accounting
BY BalanceKept, BalanceIsAccounting, PTL

(* Only the release of a charge can panic, and it finds its charge. *)
LEMMA PanicStep == IInv /\ BalanceInv /\ NoPanic /\ [Next]_vars => NoPanic'
<1> SUFFICES ASSUME IInv, BalanceInv, NoPanic, [Next]_vars PROVE NoPanic'
  OBVIOUS
<1>1. CASE panicked' = panicked
  BY <1>1 DEF NoPanic
<1>2. ASSUME NEW k \in Finishers, NEW s \in Slas, FinishCredit(k, s) PROVE NoPanic'
  <2>1. pc[k][s] = "crediting" /\ read[s] = used[at[s]] /\ pc["pay"][s] \in Accounted
    BY <1>2 DEF FinishCredit, IInv, SnapshotInv, TaskInv, Finishers, Accounted
  <2>2. at[s] \in Nodes /\ Entry(s) = at[s]
    BY <2>1 DEF Entry, Charged, IInv, Placed
  <2>3. \A r \in Resources : read[s][r] >= Demand[s][r]
    BY <2>1, <2>2, ChargeCovered DEF IInv
  <2> QED
    BY <1>1, <1>2, <2>3 DEF FinishCredit
<1> QED
  BY <1>1, <1>2 DEF Next, vars, Bid, PayReserve, PayRefuse, PayConfirm,
     PayOverwritten, PayAccount, PayArm, PayReturn, PayDropped, ProvisionStart,
     ProvisionRefuse, Deployed, DeployFailed, ProbeStart, ProbeUp, ProbeDown,
     ProbeSave, ProbeAgain, ProbeGiveUp, ProvisionDropped, DoneUnasked, Expire,
     FinishStart, Removed, RemoveFailed, FinishSettle, FinishNothing, FinishRead,
     FinishOverwritten, Pay, Provision, Finish, Quiescent

(* The assertions of set_used never fail, so no function is left charged by *)
(* the task that should release it.                                         *)
THEOREM ReleaseNeverPanics == Spec => []NoPanic
<1>1. Init => NoPanic
  BY DEF Init, NoPanic
<1>2. QED
  BY <1>1, PanicStep, Invariance, BalanceKept, PTL DEF Spec
=============================================================================
