------------------------ MODULE SessionStoreProofs ------------------------
(***************************************************************************)
(* Theorems about SessionStore, and about InviteLogin, which composes its  *)
(* actions with the invite store, for every value of their constants.      *)
(***************************************************************************)
EXTENDS InviteLogin, FiniteSetTheorems, TLAPS

---------------------------------------------------------------------------
(* Lemmas about the helpers *)

(* The record of an id that is not in the Map is a record like the others. *)
LEMMA AbsentType == Absent \in Session
  BY DEF Absent, Session, Status

(* sweep leaves a well-typed Map. *)
LEMMA SweptType ==
  ASSUME TypeOK
  PROVE  Swept \in [Ids -> Session]
  BY AbsentType DEF TypeOK, Swept

(* What serialize returns is well typed. *)
LEMMA PersistedType ==
  ASSUME NEW store \in [Ids -> Session]
  PROVE  Persisted(store) \in [Ids -> Session]
  BY AbsentType DEF Persisted, Session

(* Updating one field of one record keeps the Map well typed. *)
LEMMA UpdateType ==
  ASSUME NEW store \in [Ids -> Session], NEW id \in Ids,
         NEW n \in Nat, NEW m \in Nat, NEW st \in Status
  PROVE  /\ [store EXCEPT ![id].lastSeenAt = m] \in [Ids -> Session]
         /\ [store EXCEPT ![id].secret = n, ![id].lastSeenAt = m] \in [Ids -> Session]
         /\ [store EXCEPT ![id].status = st, ![id].lastSeenAt = m] \in [Ids -> Session]
<1> DEFINE r1 == [store[id] EXCEPT !.lastSeenAt = m]
           r2 == [store[id] EXCEPT !.secret = n, !.lastSeenAt = m]
           r3 == [store[id] EXCEPT !.status = st, !.lastSeenAt = m]
<1>1. r1 \in Session /\ r2 \in Session /\ r3 \in Session BY DEF Session
<1>2. [store EXCEPT ![id] = r1] \in [Ids -> Session] BY <1>1
<1>3. [store EXCEPT ![id] = r2] \in [Ids -> Session] BY <1>1
<1>4. [store EXCEPT ![id] = r3] \in [Ids -> Session] BY <1>1
<1> QED BY <1>2, <1>3, <1>4 DEF Session

---------------------------------------------------------------------------
(* TypeOK is an invariant: the variables of the store keep their types     *)
(* through every operation of sessions.ts, login to hydrate.               *)
LEMMA TypeInit == ASSUME Init PROVE TypeOK
<1>1. approvalRequired \in BOOLEAN /\ now \in Nat
  BY StoreAssumption DEF Init, StoreAssumption
<1>2. Loaded \subseteq Session BY <1>1 DEF Loaded, Session, Status
<1>3. sessions \in [Ids -> Session] BY <1>2, AbsentType DEF Init
<1>4. saved \in [Ids -> Session] BY <1>3, PersistedType DEF Init
<1> QED BY <1>1, <1>3, <1>4 DEF Init, TypeOK

(* Every step keeps the types.                                             *)
LEMMA TypeStep ==
  ASSUME TypeOK, [Next]_vars
  PROVE  TypeOK'
<1>a. Swept \in [Ids -> Session] BY SweptType
<1>b. Persisted(Swept) \in [Ids -> Session] BY <1>a, PersistedType
<1>1. CASE Tick BY <1>1 DEF Tick, TypeOK
<1>2. CASE LoginRefused BY <1>2, <1>a DEF LoginRefused, TypeOK
<1>3. CASE List BY <1>3, <1>a DEF List, TypeOK
<1>4. CASE Clear BY <1>4, AbsentType DEF Clear, TypeOK, Changed
<1>5. CASE Serialize BY <1>5, <1>a, <1>b DEF Serialize, TypeOK
<1>6. CASE Hydrate
  <2>1. PICK K \in SUBSET Held(saved) :
          sessions' = [id \in Ids |->
            IF id \in K THEN [saved[id] EXCEPT !.object = hydration + 1] ELSE Absent]
    BY <1>6 DEF Hydrate
  <2>2. \A id \in Ids : [saved[id] EXCEPT !.object = hydration + 1] \in Session
    BY DEF TypeOK, Session
  <2>3. sessions' \in [Ids -> Session] BY <2>1, <2>2, AbsentType
  <2>4. hydration' \in Nat BY <1>6 DEF Hydrate, TypeOK
  <2>5. dirty' \in BOOLEAN BY <1>6 DEF Hydrate
  <2>6. UNCHANGED <<approvalRequired, now, secrets, leases, saved>> BY <1>6 DEF Hydrate
  <2> QED BY <2>3, <2>4, <2>5, <2>6 DEF TypeOK
<1>7. ASSUME NEW id \in Ids, Login(id) PROVE TypeOK'
  <2>1. PICK E \in Evictions(Swept) :
          sessions' = [i \in Ids |->
            IF i = id THEN [status |-> LoginStatus, secret |-> 1, createdAt |-> now,
                            lastSeenAt |-> now, object |-> hydration]
            ELSE IF i \in E THEN Absent ELSE Swept[i]]
    BY <1>7 DEF Login
  <2>2. [status |-> LoginStatus, secret |-> 1, createdAt |-> now,
         lastSeenAt |-> now, object |-> hydration] \in Session
    BY DEF LoginStatus, Session, Status, TypeOK
  <2>3. sessions' \in [Ids -> Session] BY <2>1, <2>2, <1>a, AbsentType
  <2> QED BY <1>7, <2>3 DEF Login, TypeOK, Changed
<1>8. ASSUME NEW id \in Ids, Reissue(id) PROVE TypeOK'
  <2>1. CASE id \in Live(Swept)
    <3>1. sessions' = [Swept EXCEPT ![id].secret = secrets[id] + 1, ![id].lastSeenAt = now]
          /\ secrets' = [secrets EXCEPT ![id] = @ + 1]
          /\ dirty' = TRUE
          /\ UNCHANGED <<approvalRequired, now, leases, hydration, saved>>
      BY <1>8, <2>1 DEF Reissue, Changed
    <3>2. sessions' \in [Ids -> Session]
      <4>1. secrets[id] + 1 \in Nat /\ now \in Nat /\ "active" \in Status
        BY DEF TypeOK, Status
      <4> QED BY <3>1, <4>1, <1>a, UpdateType
    <3>3. secrets' \in [Ids -> Nat] BY <3>1 DEF TypeOK
    <3> QED BY <3>1, <3>2, <3>3 DEF TypeOK
  <2>2. CASE id \notin Live(Swept) BY <1>8, <2>2, <1>a DEF Reissue, TypeOK
  <2> QED BY <2>1, <2>2
<1>9. ASSUME NEW id \in Ids, Revoke(id) PROVE TypeOK'
  <2>1. sessions' = [Swept EXCEPT ![id] =
          IF @.status = "pending"
            THEN [@ EXCEPT !.status = "rejected", !.lastSeenAt = now]
            ELSE Absent]
    BY <1>9 DEF Revoke
  <2>2. [Swept[id] EXCEPT !.status = "rejected", !.lastSeenAt = now] \in Session
    BY <1>a DEF TypeOK, Session, Status
  <2>3. sessions' \in [Ids -> Session] BY <2>1, <2>2, <1>a, AbsentType
  <2> QED BY <1>9, <2>3 DEF Revoke, TypeOK, Changed
<1>10. ASSUME NEW id \in Ids, Approve(id) PROVE TypeOK'
  BY <1>10, <1>a DEF Approve, TypeOK, Changed, Session, Status
<1>11. ASSUME NEW id \in Ids, Rename(id) \/ SelfRename(id) PROVE TypeOK'
  BY <1>11, <1>a DEF Rename, SelfRename, TypeOK, Changed
<1>12. ASSUME NEW id \in Ids, NEW g \in 1..secrets[id],
              Validate(id, g) \/ TrackActivity(id, g) \/ PendingLookup(id, g) \/ SignOut(id, g)
       PROVE  TypeOK'
  <2>1. CASE Validate(id, g)
    <3>1. [sessions EXCEPT ![id].lastSeenAt = now] \in [Ids -> Session]
      <4>1. sessions \in [Ids -> Session] /\ now \in Nat /\ "active" \in Status
        BY DEF TypeOK, Status
      <4> QED BY <4>1, UpdateType
    <3>2. sessions' \in [Ids -> Session]
      BY <2>1, <3>1, AbsentType DEF Validate, TypeOK
    <3>3. dirty' \in BOOLEAN BY <2>1 DEF Validate, Changed
    <3>4. UNCHANGED <<approvalRequired, now, secrets, leases, hydration, saved>>
      BY <2>1 DEF Validate
    <3> QED BY <3>2, <3>3, <3>4 DEF TypeOK
  <2>2. CASE TrackActivity(id, g)
    <3>1. [id |-> id, secret |-> g, notifyFrom |-> 0, object |-> sessions[id].object] \in Lease
      BY DEF Lease, TypeOK, Session
    <3>2. leases' \subseteq Lease BY <2>2, <3>1 DEF TrackActivity, TypeOK
    <3>3. UNCHANGED <<approvalRequired, now, sessions, secrets, hydration, saved, dirty>>
      BY <2>2 DEF TrackActivity
    <3> QED BY <3>2, <3>3 DEF TypeOK
  <2>3. CASE PendingLookup(id, g)
    BY <2>3, AbsentType DEF PendingLookup, TypeOK, Changed
  <2>4. CASE SignOut(id, g)
    BY <2>4, AbsentType DEF SignOut, TypeOK, Changed
  <2> QED BY <1>12, <2>1, <2>2, <2>3, <2>4
<1>13. ASSUME NEW l \in leases, LeaseActivity(l) \/ LeaseEnd(l) PROVE TypeOK'
  <2>1. CASE LeaseEnd(l) BY <2>1 DEF LeaseEnd, TypeOK
  <2>2. CASE LeaseActivity(l)
    <3>1. l.id \in Ids BY DEF TypeOK, Lease
    <3>2. [l EXCEPT !.notifyFrom = now + NotifyEvery] \in Lease
      BY StoreAssumption DEF StoreAssumption, TypeOK, Lease
    <3>3. sessions' \in [Ids -> Session]
      <4>1. sessions \in [Ids -> Session] /\ now \in Nat /\ "active" \in Status
        BY DEF TypeOK, Status
      <4>2. [sessions EXCEPT ![l.id].lastSeenAt = now] \in [Ids -> Session]
        BY <4>1, <3>1, UpdateType
      <4> QED BY <2>2, <3>1, <4>1, <4>2, AbsentType DEF LeaseActivity
    <3>4. leases' \subseteq Lease
      BY <2>2, <3>2 DEF LeaseActivity, TypeOK
    <3>5. dirty' \in BOOLEAN BY <2>2 DEF LeaseActivity, TypeOK, Changed
    <3>6. UNCHANGED <<approvalRequired, now, secrets, hydration, saved>> BY <2>2 DEF LeaseActivity
    <3> QED BY <3>3, <3>4, <3>5, <3>6 DEF TypeOK
  <2> QED BY <1>13, <2>1, <2>2
<1>14. CASE UNCHANGED vars BY <1>14 DEF vars, TypeOK
<1> QED
  BY <1>1, <1>2, <1>3, <1>4, <1>5, <1>6, <1>7, <1>8, <1>9, <1>10, <1>11, <1>12,
     <1>13, <1>14 DEF Next

(* Every reachable state of the store is well typed. *)
THEOREM TypeCorrect == Spec => []TypeOK
<1>1. Init => TypeOK BY TypeInit
<1>2. TypeOK /\ [Next]_vars => TypeOK' BY TypeStep
<1> QED BY <1>1, <1>2, PTL DEF Spec

---------------------------------------------------------------------------
(* Capacity: the devices that count against maxSessions never exceed it.   *)
(* Only login and hydrate can raise their number; every other operation    *)
(* leaves a store that counts no device the earlier one did not.           *)

CountedIn(store) == IF approvalRequired THEN Live(store) ELSE Held(store)

(* The devices a cap counts can be counted.                                *)
LEMMA CountedFinite ==
  ASSUME NEW store
  PROVE  /\ IsFiniteSet(Held(store)) /\ IsFiniteSet(Live(store))
         /\ IsFiniteSet(CountedIn(store))
         /\ Cardinality(Held(store)) \in Nat /\ Cardinality(Live(store)) \in Nat
<1>1. Held(store) \subseteq Ids /\ Live(store) \subseteq Ids BY DEF Held, Live
<1>2. IsFiniteSet(Held(store)) /\ IsFiniteSet(Live(store))
  BY <1>1, FS_Subset, StoreAssumption DEF StoreAssumption
<1> QED BY <1>2, FS_CardinalityType DEF CountedIn

(* One more element makes a finite set larger by one at most. *)
LEMMA AddOne ==
  ASSUME NEW S, NEW x, IsFiniteSet(S)
  PROVE  /\ IsFiniteSet(S \cup {x})
         /\ Cardinality(S \cup {x}) <= Cardinality(S) + 1
         /\ Cardinality(S \cup {x}) \in Nat
<1>1. IsFiniteSet(S \cup {x}) BY FS_AddElement
<1>2. Cardinality(S \cup {x}) \in Nat /\ Cardinality(S) \in Nat
  BY <1>1, FS_CardinalityType
<1>3. CASE x \in S
  <2>1. Cardinality(S \cup {x}) = Cardinality(S) BY <1>3, FS_AddElement
  <2> QED BY <1>1, <1>2, <2>1
<1>4. CASE x \notin S
  <2>1. Cardinality(S \cup {x}) = Cardinality(S) + 1 BY <1>4, FS_AddElement
  <2> QED BY <1>1, <1>2, <2>1
<1> QED BY <1>3, <1>4

(* The mode is an option of the store: no operation changes it. *)
LEMMA ModeStep == ASSUME [Next]_vars PROVE approvalRequired' = approvalRequired
  BY DEF Next, vars, Tick, LoginRefused, List, Clear, Serialize, Hydrate, Login, Reissue, Revoke,
         Approve, Rename, SelfRename, Validate, TrackActivity, PendingLookup, SignOut,
         LeaseActivity, LeaseEnd

(* A store whose counted devices all counted before is within the cap. *)
LEMMA CapacityShrinks ==
  ASSUME Capacity, approvalRequired' = approvalRequired,
         CountedIn(sessions') \subseteq CountedIn(sessions)
  PROVE  Capacity'
<1>1. /\ Cardinality(CountedIn(sessions')) <= Cardinality(CountedIn(sessions))
      /\ Cardinality(CountedIn(sessions')) \in Nat
      /\ Cardinality(CountedIn(sessions)) \in Nat
  BY CountedFinite, FS_Subset, FS_CardinalityType
<1>2. Cardinality(CountedIn(sessions)) <= MaxSessions BY DEF Capacity, CountedIn
<1>3. Cardinality(CountedIn(sessions')) <= MaxSessions
  BY <1>1, <1>2, StoreAssumption DEF StoreAssumption
<1> QED BY <1>3 DEF Capacity, CountedIn, Live, Held

(* Sweeping, forgetting and touching records counts no further device. *)
LEMMA CountedSwept == ASSUME TypeOK PROVE
  /\ Held(Swept) \subseteq Held(sessions)
  /\ Live(Swept) \subseteq Live(sessions)
  BY DEF Held, Live, Swept, Absent, TypeOK

(* login in normal mode: what the eviction leaves, and the new device. *)
LEMMA LoginFits ==
  ASSUME TypeOK, Capacity, NEW id \in Ids, Login(id), ~approvalRequired
  PROVE  Capacity'
<1> DEFINE H == Held(Swept)
<1>1. PICK E \in Evictions(Swept) :
        sessions' = [i \in Ids |->
          IF i = id THEN [status |-> LoginStatus, secret |-> 1, createdAt |-> now,
                          lastSeenAt |-> now, object |-> hydration]
          ELSE IF i \in E THEN Absent ELSE Swept[i]]
  BY DEF Login
<1>2. E \subseteq H /\ Cardinality(E) = Surplus(Swept) BY DEF Evictions
<1>3. Held(sessions') \subseteq (H \ E) \cup {id}
  BY <1>1 DEF Held, Absent, Swept
<1>4. IsFiniteSet(H) /\ Cardinality(H) \in Nat BY CountedFinite
<1>5. /\ IsFiniteSet(H \ E)
      /\ Cardinality(H \ E) = Cardinality(H) - Cardinality(E)
      /\ Cardinality(H \ E) \in Nat
  <2>1. IsFiniteSet(E) BY <1>2, <1>4, FS_Subset
  <2>2. H \cap E = E BY <1>2
  <2> QED BY <1>4, <2>1, <2>2, FS_Difference, FS_CardinalityType
<1>6. /\ IsFiniteSet((H \ E) \cup {id})
      /\ Cardinality((H \ E) \cup {id}) <= Cardinality(H \ E) + 1
  BY <1>5, AddOne
<1>7. /\ Cardinality(Held(sessions')) <= Cardinality((H \ E) \cup {id})
      /\ Cardinality(Held(sessions')) \in Nat
      /\ Cardinality((H \ E) \cup {id}) \in Nat
  BY <1>3, <1>6, FS_Subset, FS_CardinalityType, CountedFinite
<1>8. Cardinality(H) - Cardinality(E) + 1 <= MaxSessions
  BY <1>2, <1>4, StoreAssumption DEF Surplus, StoreAssumption
<1>9. Cardinality(Held(sessions')) <= MaxSessions
  BY <1>4, <1>5, <1>6, <1>7, <1>8, StoreAssumption DEF StoreAssumption
<1>10. ~approvalRequired' BY DEF Login
<1> QED BY <1>9, <1>10 DEF Capacity, Held

(* login in approval mode: admission was open before the new device. *)
LEMMA LoginAdmitted ==
  ASSUME TypeOK, Capacity, NEW id \in Ids, Login(id), approvalRequired
  PROVE  Capacity'
<1> DEFINE L == Live(Swept)
<1>1. Live(sessions') \subseteq L \cup {id}
  BY DEF Login, Live, Absent, Swept
<1>2. IsFiniteSet(L) /\ Cardinality(L) \in Nat BY CountedFinite
<1>3. Cardinality(L) < MaxSessions BY DEF Login, AdmissionOpen
<1>4. /\ IsFiniteSet(L \cup {id})
      /\ Cardinality(L \cup {id}) <= Cardinality(L) + 1
      /\ Cardinality(L \cup {id}) \in Nat
  BY <1>2, AddOne
<1>5. /\ Cardinality(Live(sessions')) <= Cardinality(L \cup {id})
      /\ Cardinality(Live(sessions')) \in Nat
  BY <1>1, <1>4, FS_Subset, FS_CardinalityType, CountedFinite
<1>6. Cardinality(Live(sessions')) <= MaxSessions
  BY <1>2, <1>3, <1>4, <1>5, StoreAssumption DEF StoreAssumption
<1>7. approvalRequired' BY DEF Login
<1> QED BY <1>6, <1>7 DEF Capacity, Live

(* hydrate takes at most maxSessions records. *)
LEMMA HydrateFits ==
  ASSUME TypeOK, Hydrate
  PROVE  Capacity'
<1>1. PICK K \in SUBSET Held(saved) :
        /\ (K = Held(saved) /\ Cardinality(K) <= MaxSessions) \/ Cardinality(K) = MaxSessions
        /\ sessions' = [id \in Ids |->
             IF id \in K THEN [saved[id] EXCEPT !.object = hydration + 1] ELSE Absent]
  BY DEF Hydrate
<1>2. CountedIn(sessions') \subseteq K
  BY <1>1 DEF CountedIn, Held, Live, Absent
<1>3. IsFiniteSet(K) /\ Cardinality(K) \in Nat
  BY CountedFinite, FS_Subset, FS_CardinalityType
<1>4. Cardinality(K) <= MaxSessions BY <1>1, <1>3, StoreAssumption DEF StoreAssumption
<1>5. /\ Cardinality(CountedIn(sessions')) <= Cardinality(K)
      /\ Cardinality(CountedIn(sessions')) \in Nat
  BY <1>2, <1>3, FS_Subset, FS_CardinalityType, CountedFinite
<1>6. Cardinality(CountedIn(sessions')) <= MaxSessions
  BY <1>3, <1>4, <1>5, StoreAssumption DEF StoreAssumption
<1>7. approvalRequired' = approvalRequired BY DEF Hydrate
<1> QED BY <1>6, <1>7 DEF Capacity, CountedIn, Live, Held

(* What load hydrates is within the caps.                                  *)
LEMMA CapacityInit == ASSUME Init PROVE Capacity
<1>1. Cardinality(Held(sessions)) <= MaxSessions BY DEF Init
<1>2. CountedIn(sessions) \subseteq Held(sessions) BY DEF CountedIn, Held, Live
<1>3. IsFiniteSet(Held(sessions)) /\ Cardinality(Held(sessions)) \in Nat
  BY FS_Subset, FS_CardinalityType, StoreAssumption DEF StoreAssumption, Held
<1>4. /\ Cardinality(CountedIn(sessions)) <= Cardinality(Held(sessions))
      /\ Cardinality(CountedIn(sessions)) \in Nat
  BY <1>2, <1>3, FS_Subset, FS_CardinalityType, CountedFinite
<1> QED BY <1>1, <1>3, <1>4, StoreAssumption DEF StoreAssumption, Capacity, CountedIn

(* Every step keeps the caps.                                              *)
LEMMA CapacityStep ==
  ASSUME TypeOK, Capacity, [Next]_vars
  PROVE  Capacity'
<1>a. CountedIn(Swept) \subseteq CountedIn(sessions) BY CountedSwept DEF CountedIn
<1>b. approvalRequired' = approvalRequired BY ModeStep
<1>1. CASE sessions' = Swept BY <1>1, <1>a, <1>b, CapacityShrinks
<1>2. CASE UNCHANGED sessions BY <1>2, <1>b, CapacityShrinks
<1>3. CASE Clear
  BY <1>3, <1>b, CapacityShrinks DEF Clear, CountedIn, Held, Live, Absent
<1>4. CASE Hydrate BY <1>4, HydrateFits
<1>5. ASSUME NEW id \in Ids, Login(id) PROVE Capacity'
  BY <1>5, LoginFits, LoginAdmitted
<1>6. ASSUME NEW id \in Ids, Reissue(id) \/ Revoke(id) \/ Approve(id) PROVE Capacity'
  <2>1. CountedIn(sessions') \subseteq CountedIn(Swept)
    <3>1. Swept \in [Ids -> Session] BY SweptType
    <3>2. CASE Reissue(id)
      BY <3>1, <3>2 DEF Reissue, CountedIn, Held, Live, Session
    <3>3. CASE Revoke(id)
      BY <3>1, <3>3 DEF Revoke, CountedIn, Held, Live, Session, Absent
    <3>4. CASE Approve(id)
      BY <3>1, <3>4 DEF Approve, Approvable, CountedIn, Held, Live, Session
    <3> QED BY <1>6, <3>2, <3>3, <3>4
  <2> QED BY <2>1, <1>a, <1>b, CapacityShrinks
<1>7. ASSUME NEW id \in Ids, sessions' = [sessions EXCEPT ![id] = Absent] PROVE Capacity'
  <2>1. CountedIn(sessions') \subseteq CountedIn(sessions)
    BY <1>7 DEF TypeOK, CountedIn, Held, Live, Absent
  <2> QED BY <2>1, <1>b, CapacityShrinks
<1>8. ASSUME NEW id \in Ids, sessions' = [sessions EXCEPT ![id].lastSeenAt = now]
      PROVE  Capacity'
  <2>1. CountedIn(sessions') \subseteq CountedIn(sessions)
    BY <1>8 DEF TypeOK, CountedIn, Held, Live, Session
  <2> QED BY <2>1, <1>b, CapacityShrinks
<1>9. ASSUME NEW id \in Ids, NEW g \in 1..secrets[id],
             Validate(id, g) \/ TrackActivity(id, g) \/ PendingLookup(id, g) \/ SignOut(id, g)
      PROVE  Capacity'
  BY <1>9, <1>2, <1>7, <1>8 DEF Validate, TrackActivity, PendingLookup, SignOut
<1>10. ASSUME NEW l \in leases, LeaseActivity(l) \/ LeaseEnd(l) PROVE Capacity'
  <2>1. l.id \in Ids BY DEF TypeOK, Lease
  <2> QED BY <1>10, <2>1, <1>2, <1>7, <1>8 DEF LeaseActivity, LeaseEnd
<1>11. CASE Tick \/ UNCHANGED vars BY <1>11, <1>2 DEF Tick, vars
<1>12. CASE LoginRefused \/ List \/ Serialize
  BY <1>12, <1>1 DEF LoginRefused, List, Serialize
<1>13. ASSUME NEW id \in Ids, Rename(id) \/ SelfRename(id) PROVE Capacity'
  BY <1>13, <1>1, <1>2 DEF Rename, SelfRename
<1> QED
  BY <1>3, <1>4, <1>5, <1>6, <1>9, <1>10, <1>11, <1>12, <1>13 DEF Next

(* The cap on devices holds in every reachable state, whatever maxSessions,*)
(* the ages and the mode: no interleaving of logins, reissues, approvals   *)
(* and hydrations gets past it.                                            *)
THEOREM CapacityHolds == Spec => []Capacity
<1>1. Init => TypeOK /\ Capacity BY TypeInit, CapacityInit
<1>2. TypeOK /\ Capacity /\ [Next]_vars => TypeOK' /\ Capacity'
  BY TypeStep, CapacityStep
<1> QED BY <1>1, <1>2, PTL DEF Spec

---------------------------------------------------------------------------
(* The inductive invariant behind the other properties                     *)

(* A record carries one of the secrets minted for its id, was seen in the  *)
(* past and belongs to the present or an earlier hydration.                *)
RecordInv ==
  /\ hydration # 0
  /\ \A id \in Ids : secrets[id] <= MaxSecrets
  /\ \A id \in Ids :
       IF sessions[id].status = "absent" THEN sessions[id] = Absent
       ELSE /\ sessions[id].secret \in 1..secrets[id]
            /\ sessions[id].lastSeenAt <= now
            /\ sessions[id].object \in 1..hydration

(* So does a saved record; a device that is in memory and in the copy is   *)
(* the same one, and the copy is not ahead of the memory.                  *)
SavedInv ==
  \A id \in Ids :
    IF saved[id].status = "absent" THEN saved[id] = Absent
    ELSE /\ saved[id].status \in {"active", "pending"}
         /\ saved[id].secret \in 1..secrets[id]
         /\ saved[id].lastSeenAt <= now
         /\ sessions[id].status # "absent" =>
              /\ saved[id].createdAt = sessions[id].createdAt
              /\ saved[id].lastSeenAt <= sessions[id].lastSeenAt

(* The copy never holds more devices than hydrate would take back. *)
RoomInv == Cardinality(Held(saved)) <= MaxSessions

(* A lease on the record and secret it was made for finds the device       *)
(* active, and was notified no later than the device was seen.             *)
LeaseInv ==
  \A l \in leases :
    /\ l.secret \in 1..secrets[l.id] /\ l.object \in 1..hydration
    /\ sessions[l.id].object = l.object /\ sessions[l.id].secret = l.secret =>
         /\ sessions[l.id].status = "active"
         /\ l.notifyFrom <= sessions[l.id].lastSeenAt + NotifyEvery
         /\ ~dirty => l.notifyFrom <= saved[l.id].lastSeenAt + NotifyEvery

(* As long as nothing was notified since the save, the copy has every      *)
(* device that can sign in, as it is but for the throttled activity, and   *)
(* no other that is still good.                                            *)
CleanInv ==
  ~dirty =>
    /\ \A id \in Live(sessions) :
         /\ saved[id].status = sessions[id].status /\ saved[id].secret = sessions[id].secret
         /\ \/ sessions[id].lastSeenAt = saved[id].lastSeenAt
            \/ sessions[id].lastSeenAt < saved[id].lastSeenAt + NotifyEvery
    /\ \A id \in Held(saved) : ~Expired(saved[id]) => id \in Live(sessions)

DataInv == RecordInv /\ SavedInv /\ LeaseInv /\ CleanInv

StoreInv == RoomInv /\ DataInv

(* What sweep does to each record *)
LEMMA SweptFields ==
  ASSUME TypeOK
  PROVE  /\ Swept \in [Ids -> Session]
         /\ \A i \in Ids : Swept[i] = IF Expired(sessions[i]) THEN Absent ELSE sessions[i]
  BY SweptType DEF Swept

(* What a touch does to each record *)
LEMMA TouchFields ==
  ASSUME NEW store \in [Ids -> Session], NEW id \in Ids, NEW m
  PROVE  LET new == [store EXCEPT ![id].lastSeenAt = m] IN
         \A i \in Ids :
           /\ new[i].status = store[i].status /\ new[i].secret = store[i].secret
           /\ new[i].createdAt = store[i].createdAt /\ new[i].object = store[i].object
           /\ new[i].lastSeenAt = IF i = id THEN m ELSE store[i].lastSeenAt
           /\ i # id => new[i] = store[i]
  BY DEF Session

(* What a reissue does to each record *)
LEMMA ReissueFields ==
  ASSUME NEW store \in [Ids -> Session], NEW id \in Ids, NEW g, NEW m
  PROVE  LET new == [store EXCEPT ![id].secret = g, ![id].lastSeenAt = m] IN
         \A i \in Ids :
           /\ new[i].status = store[i].status
           /\ new[i].createdAt = store[i].createdAt /\ new[i].object = store[i].object
           /\ new[i].secret = IF i = id THEN g ELSE store[i].secret
           /\ new[i].lastSeenAt = IF i = id THEN m ELSE store[i].lastSeenAt
           /\ i # id => new[i] = store[i]
  BY DEF Session

(* Records only leave: by a sweep, which takes expired ones, or by an      *)
(* operation that notifies.                                                *)
LEMMA DropKeeps ==
  ASSUME TypeOK, DataInv,
         \A i \in Ids : \/ sessions'[i] = sessions[i]
                        \/ sessions'[i] = Absent /\ (dirty' \/ Expired(sessions[i])),
         dirty' \/ dirty' = dirty,
         leases' \subseteq leases,
         UNCHANGED <<now, secrets, hydration, saved>>
  PROVE  DataInv'
<1> USE StoreAssumption DEF StoreAssumption, TypeOK, DataInv, Session, Lease, Absent
<1>1. RecordInv' BY DEF RecordInv
<1>2. SavedInv' BY DEF SavedInv
<1>3. LeaseInv' BY DEF LeaseInv
<1>4. CleanInv' BY DEF CleanInv, SavedInv, Live, Held, Expired, Window
<1> QED BY <1>1, <1>2, <1>3, <1>4

(* An activity of an unexpired active device, from a request, which is     *)
(* notified, or from a stream, which is notified when it is due.           *)
LEMMA TouchKeeps ==
  ASSUME TypeOK, DataInv, NEW id \in Ids, sessions[id].status = "active",
         sessions' = [sessions EXCEPT ![id].lastSeenAt = now],
         UNCHANGED <<now, secrets, hydration, saved>>,
         \/ dirty' /\ leases' = leases
         \/ \E l \in leases : dirty' /\ l.id = id /\ leases' = (leases \ {l}) \cup
                                 {[l EXCEPT !.notifyFrom = now + NotifyEvery]}
         \/ /\ UNCHANGED <<leases, dirty>>
            /\ \E l \in leases : l.id = id /\ LeaseHolds(l) /\ now < l.notifyFrom
  PROVE  DataInv'
<1> USE StoreAssumption DEF StoreAssumption, TypeOK, DataInv, Session, Lease, Absent
<1>1. \A i \in Ids :
        /\ sessions'[i].status = sessions[i].status /\ sessions'[i].secret = sessions[i].secret
        /\ sessions'[i].createdAt = sessions[i].createdAt
        /\ sessions'[i].object = sessions[i].object
        /\ sessions'[i].lastSeenAt = IF i = id THEN now ELSE sessions[i].lastSeenAt
        /\ i # id => sessions'[i] = sessions[i]
  BY TouchFields
<1>2. RecordInv' BY <1>1 DEF RecordInv
<1>3. SavedInv' BY <1>1 DEF SavedInv, RecordInv
<1>4. LeaseInv'
  <2>1. CASE leases' = leases BY <1>1, <2>1 DEF LeaseInv, RecordInv
  <2>2. ASSUME NEW l \in leases, dirty', l.id = id,
               leases' = (leases \ {l}) \cup {[l EXCEPT !.notifyFrom = now + NotifyEvery]}
        PROVE  LeaseInv'
    <3> DEFINE m == [l EXCEPT !.notifyFrom = now + NotifyEvery]
    <3>1. /\ m.id = id /\ m.secret = l.secret /\ m.object = l.object
          /\ m.notifyFrom = now + NotifyEvery
      BY <2>2
    <3>2. leases' \subseteq leases \cup {m} BY <2>2
    <3> HIDE DEF m
    <3> QED BY <1>1, <2>2, <3>1, <3>2 DEF LeaseInv, RecordInv
  <2> QED BY <2>1, <2>2
<1>5. CleanInv' BY <1>1 DEF CleanInv, Live, Held, Expired, LeaseInv, LeaseHolds
<1> QED BY <1>2, <1>3, <1>4, <1>5

(* A device gets its next secret. *)
LEMMA RenewFields ==
  ASSUME TypeOK, NEW id \in Ids, id \in Live(Swept), Reissue(id)
  PROVE  /\ secrets[id] < MaxSecrets /\ dirty'
         /\ \A i \in Ids : secrets'[i] = IF i = id THEN secrets[id] + 1 ELSE secrets[i]
         /\ UNCHANGED <<now, leases, hydration, saved>>
         /\ sessions[id].status \in {"active", "pending"} /\ ~Expired(sessions[id])
         /\ \A i \in Ids :
              IF i = id
              THEN /\ sessions'[i].status = sessions[i].status
                   /\ sessions'[i].secret = secrets[i] + 1 /\ sessions'[i].lastSeenAt = now
                   /\ sessions'[i].createdAt = sessions[i].createdAt
                   /\ sessions'[i].object = sessions[i].object
              ELSE sessions'[i] \in {Absent, sessions[i]}
<1>1. /\ secrets' = [secrets EXCEPT ![id] = @ + 1] /\ dirty' /\ secrets[id] < MaxSecrets
      /\ sessions' = [Swept EXCEPT ![id].secret = secrets[id] + 1, ![id].lastSeenAt = now]
      /\ UNCHANGED <<now, leases, hydration, saved>>
  BY DEF Reissue, Changed
<1>2. \A i \in Ids : Swept[i] = IF Expired(sessions[i]) THEN Absent ELSE sessions[i]
  BY SweptFields
<1>3. \A i \in Ids :
        /\ sessions'[i].status = Swept[i].status
        /\ sessions'[i].createdAt = Swept[i].createdAt /\ sessions'[i].object = Swept[i].object
        /\ sessions'[i].secret = IF i = id THEN secrets[id] + 1 ELSE Swept[i].secret
        /\ sessions'[i].lastSeenAt = IF i = id THEN now ELSE Swept[i].lastSeenAt
        /\ i # id => sessions'[i] = Swept[i]
  BY <1>1, SweptFields, ReissueFields
<1>4. /\ Swept[id] = sessions[id] /\ sessions[id].status \in {"active", "pending"}
      /\ ~Expired(sessions[id])
  BY <1>2 DEF Live, Absent
<1>5. \A i \in Ids : secrets'[i] = IF i = id THEN secrets[id] + 1 ELSE secrets[i]
  BY <1>1 DEF TypeOK
<1> QED BY <1>1, <1>2, <1>3, <1>4, <1>5

(* A reissue keeps the invariant of the data.                              *)
LEMMA ReissueKeeps ==
  ASSUME TypeOK, DataInv, NEW id \in Ids, id \in Live(Swept), Reissue(id)
  PROVE  DataInv'
<1> USE StoreAssumption DEF StoreAssumption, TypeOK, DataInv, Session, Lease, Absent
<1>1. /\ dirty' /\ UNCHANGED <<now, leases, hydration, saved>> /\ secrets[id] < MaxSecrets
      /\ \A i \in Ids : secrets'[i] = IF i = id THEN secrets[id] + 1 ELSE secrets[i]
  BY RenewFields
<1>2. /\ sessions[id].status \in {"active", "pending"}
      /\ \A i \in Ids :
           IF i = id
           THEN /\ sessions'[i].status = sessions[i].status
                /\ sessions'[i].secret = secrets[i] + 1 /\ sessions'[i].lastSeenAt = now
                /\ sessions'[i].createdAt = sessions[i].createdAt
                /\ sessions'[i].object = sessions[i].object
           ELSE sessions'[i] \in {Absent, sessions[i]}
  BY RenewFields
<1>6. RecordInv'
  <2>1. hydration' # 0 /\ \A i \in Ids : secrets'[i] <= MaxSecrets BY <1>1 DEF RecordInv
  <2>2. ASSUME NEW i \in Ids
        PROVE  IF sessions'[i].status = "absent" THEN sessions'[i] = Absent
               ELSE /\ sessions'[i].secret \in 1..secrets'[i]
                    /\ sessions'[i].lastSeenAt <= now'
                    /\ sessions'[i].object \in 1..hydration'
    BY <1>1, <1>2 DEF RecordInv
  <2> QED BY <2>1, <2>2 DEF RecordInv
<1>7. SavedInv' BY <1>1, <1>2 DEF SavedInv, RecordInv
<1>8. LeaseInv' BY <1>1, <1>2 DEF LeaseInv, RecordInv
<1>9. CleanInv' BY <1>1 DEF CleanInv
<1> QED BY <1>6, <1>7, <1>8, <1>9

(* A new device: its id was never drawn before. *)
LEMMA LoginFields ==
  ASSUME TypeOK, NEW id \in Ids, Login(id)
  PROVE  /\ secrets[id] = 0 /\ \A i \in Ids : secrets'[i] = IF i = id THEN 1 ELSE secrets[i]
         /\ dirty' /\ UNCHANGED <<now, leases, hydration, saved>>
         /\ \A i \in Ids :
              IF i = id
              THEN /\ sessions'[i].status \in {"active", "pending"} /\ sessions'[i].secret = 1
                   /\ sessions'[i].createdAt = now /\ sessions'[i].lastSeenAt = now
                   /\ sessions'[i].object = hydration
              ELSE sessions'[i] \in {Absent, sessions[i]}
<1>1. secrets[id] = 0 /\ secrets' = [secrets EXCEPT ![id] = 1]
  BY DEF Login
<1>2. dirty' /\ UNCHANGED <<now, leases, hydration, saved>> BY DEF Login, Changed
<1>3. \A i \in Ids :
        IF i = id
        THEN /\ sessions'[i].status \in {"active", "pending"} /\ sessions'[i].secret = 1
             /\ sessions'[i].createdAt = now /\ sessions'[i].lastSeenAt = now
             /\ sessions'[i].object = hydration
        ELSE sessions'[i] \in {Absent, sessions[i]}
  BY SweptFields DEF Login, LoginStatus
<1> QED BY <1>1, <1>2, <1>3 DEF TypeOK

(* A login, with its evictions, keeps it.                                  *)
LEMMA LoginKeeps ==
  ASSUME TypeOK, DataInv, NEW id \in Ids, Login(id)
  PROVE  DataInv'
<1> USE StoreAssumption DEF StoreAssumption, TypeOK, DataInv, Session, Lease, Absent
<1>1. /\ secrets[id] = 0 /\ \A i \in Ids : secrets'[i] = IF i = id THEN 1 ELSE secrets[i]
      /\ dirty' /\ UNCHANGED <<now, leases, hydration, saved>>
  BY LoginFields
<1>2. \A i \in Ids :
        IF i = id
        THEN /\ sessions'[i].status \in {"active", "pending"} /\ sessions'[i].secret = 1
             /\ sessions'[i].createdAt = now /\ sessions'[i].lastSeenAt = now
             /\ sessions'[i].object = hydration
        ELSE sessions'[i] \in {Absent, sessions[i]}
  BY LoginFields
<1>3. sessions[id] = Absent /\ saved[id] = Absent BY <1>1 DEF RecordInv, SavedInv
<1>4. RecordInv'
  <2>1. hydration' # 0 /\ \A i \in Ids : secrets'[i] <= MaxSecrets BY <1>1 DEF RecordInv
  <2>2. ASSUME NEW i \in Ids, i # id
        PROVE  IF sessions'[i].status = "absent" THEN sessions'[i] = Absent
               ELSE /\ sessions'[i].secret \in 1..secrets'[i]
                    /\ sessions'[i].lastSeenAt <= now'
                    /\ sessions'[i].object \in 1..hydration'
    BY <1>1, <1>2, <2>2 DEF RecordInv
  <2>3. /\ sessions'[id].status # "absent"
        /\ sessions'[id].secret \in 1..secrets'[id]
        /\ sessions'[id].lastSeenAt <= now' /\ sessions'[id].object \in 1..hydration'
    BY <1>1, <1>2 DEF RecordInv
  <2> QED BY <2>1, <2>2, <2>3 DEF RecordInv
<1>5. SavedInv' BY <1>1, <1>2, <1>3 DEF SavedInv
<1>6. LeaseInv' BY <1>1, <1>2, <1>3 DEF LeaseInv, RecordInv
<1>7. CleanInv' BY <1>1 DEF CleanInv
<1> QED BY <1>4, <1>5, <1>6, <1>7

(* A saved copy within the cap is taken back as a whole, as new objects. *)
LEMMA HydrateFields ==
  ASSUME TypeOK, RoomInv, Hydrate
  PROVE  /\ hydration' = hydration + 1 /\ ~dirty'
         /\ UNCHANGED <<now, secrets, leases, saved>>
         /\ \A i \in Ids :
              IF saved[i].status = "absent" THEN sessions'[i] = Absent
              ELSE /\ sessions'[i].status = saved[i].status
                   /\ sessions'[i].secret = saved[i].secret
                   /\ sessions'[i].createdAt = saved[i].createdAt
                   /\ sessions'[i].lastSeenAt = saved[i].lastSeenAt
                   /\ sessions'[i].object = hydration + 1
<1>1. PICK K \in SUBSET Held(saved) :
        /\ (K = Held(saved) /\ Cardinality(K) <= MaxSessions) \/ Cardinality(K) = MaxSessions
        /\ sessions' = [id \in Ids |->
             IF id \in K THEN [saved[id] EXCEPT !.object = hydration + 1] ELSE Absent]
  BY DEF Hydrate
<1>2. hydration' = hydration + 1 /\ ~dirty' /\ UNCHANGED <<now, secrets, leases, saved>>
  BY DEF Hydrate
<1>3. K = Held(saved)
  <2>1. IsFiniteSet(Held(saved)) /\ Cardinality(Held(saved)) \in Nat BY CountedFinite
  <2>2. Cardinality(K) = MaxSessions => Cardinality(K) = Cardinality(Held(saved))
    BY <2>1, FS_Subset, FS_CardinalityType, StoreAssumption DEF RoomInv, StoreAssumption
  <2> QED BY <1>1, <2>1, <2>2, FS_Subset
<1>4. \A i \in Ids :
        IF saved[i].status = "absent" THEN sessions'[i] = Absent
        ELSE /\ sessions'[i].status = saved[i].status /\ sessions'[i].secret = saved[i].secret
             /\ sessions'[i].createdAt = saved[i].createdAt
             /\ sessions'[i].lastSeenAt = saved[i].lastSeenAt
             /\ sessions'[i].object = hydration + 1
  BY <1>1, <1>3 DEF Held, TypeOK, Session
<1> QED BY <1>2, <1>4

(* Loading a saved copy keeps it.                                          *)
LEMMA HydrateKeeps ==
  ASSUME TypeOK, RoomInv, DataInv, Hydrate
  PROVE  DataInv'
<1> USE StoreAssumption DEF StoreAssumption, TypeOK, DataInv, Session, Lease, Absent
<1>2. hydration' = hydration + 1 /\ ~dirty' /\ UNCHANGED <<now, secrets, leases, saved>>
  BY HydrateFields
<1>4. \A i \in Ids :
        IF saved[i].status = "absent" THEN sessions'[i] = Absent
        ELSE /\ sessions'[i].status = saved[i].status /\ sessions'[i].secret = saved[i].secret
             /\ sessions'[i].createdAt = saved[i].createdAt
             /\ sessions'[i].lastSeenAt = saved[i].lastSeenAt
             /\ sessions'[i].object = hydration + 1
  BY HydrateFields
<1>5. RecordInv' BY <1>2, <1>4 DEF RecordInv, SavedInv
<1>6. SavedInv' BY <1>2, <1>4 DEF SavedInv
<1>7. LeaseInv' BY <1>2, <1>4 DEF LeaseInv
<1>8. CleanInv' BY <1>2, <1>4 DEF CleanInv, SavedInv, Live, Held
<1> QED BY <1>5, <1>6, <1>7, <1>8

(* What is written is what was swept. *)
LEMMA SerializeFields ==
  ASSUME TypeOK, Serialize
  PROVE  /\ ~dirty' /\ sessions' = Swept /\ UNCHANGED <<now, secrets, leases, hydration>>
         /\ \A i \in Ids :
              IF Swept[i].status \in {"active", "pending"}
              THEN /\ saved'[i].status = Swept[i].status /\ saved'[i].secret = Swept[i].secret
                   /\ saved'[i].createdAt = Swept[i].createdAt
                   /\ saved'[i].lastSeenAt = Swept[i].lastSeenAt
              ELSE saved'[i] = Absent
<1>1. ~dirty' /\ sessions' = Swept /\ UNCHANGED <<now, secrets, leases, hydration>>
  BY DEF Serialize
<1>2. \A i \in Ids :
        IF Swept[i].status \in {"active", "pending"}
        THEN /\ saved'[i].status = Swept[i].status /\ saved'[i].secret = Swept[i].secret
             /\ saved'[i].createdAt = Swept[i].createdAt
             /\ saved'[i].lastSeenAt = Swept[i].lastSeenAt
        ELSE saved'[i] = Absent
  BY SweptFields DEF Serialize, Persisted, Live, Session
<1> QED BY <1>1, <1>2

(* Saving keeps it.                                                        *)
LEMMA SerializeKeeps ==
  ASSUME TypeOK, DataInv, Serialize
  PROVE  DataInv'
<1> USE StoreAssumption DEF StoreAssumption, TypeOK, DataInv, Session, Lease, Absent
<1>1. ~dirty' /\ sessions' = Swept /\ UNCHANGED <<now, secrets, leases, hydration>>
  BY DEF Serialize
<1>2. \A i \in Ids : Swept[i] = IF Expired(sessions[i]) THEN Absent ELSE sessions[i]
  BY SweptFields
<1>3. \A i \in Ids :
        IF Swept[i].status \in {"active", "pending"}
        THEN /\ saved'[i].status = Swept[i].status /\ saved'[i].secret = Swept[i].secret
             /\ saved'[i].createdAt = Swept[i].createdAt
             /\ saved'[i].lastSeenAt = Swept[i].lastSeenAt
        ELSE saved'[i] = Absent
  BY SerializeFields
<1>4. RecordInv' BY <1>1, <1>2 DEF RecordInv
<1>5. SavedInv' BY <1>1, <1>2, <1>3 DEF SavedInv, RecordInv
<1>6. LeaseInv' BY <1>1, <1>2, <1>3 DEF LeaseInv, RecordInv
<1>7. CleanInv' BY <1>1, <1>3 DEF CleanInv, Live, Held
<1> QED BY <1>4, <1>5, <1>6, <1>7

(* A waiting device is kept as a tombstone, any other one is forgotten. *)
LEMMA RevokeKeeps ==
  ASSUME TypeOK, DataInv, NEW id \in Ids, Revoke(id)
  PROVE  DataInv'
<1> USE StoreAssumption DEF StoreAssumption, TypeOK, DataInv, Session, Lease, Absent
<1>1. dirty' /\ UNCHANGED <<now, secrets, leases, hydration, saved>>
  BY DEF Revoke, Changed
<1>2. \A i \in Ids : Swept[i] = IF Expired(sessions[i]) THEN Absent ELSE sessions[i]
  BY SweptFields
<1>3. \/ sessions' = [Swept EXCEPT ![id] = Absent]
      \/ /\ Swept[id].status = "pending"
         /\ sessions' = [Swept EXCEPT ![id] = [@ EXCEPT !.status = "rejected",
                                                       !.lastSeenAt = now]]
  BY SweptFields DEF Revoke
<1>4. CASE sessions' = [Swept EXCEPT ![id] = Absent]
  BY <1>1, <1>2, <1>4, SweptFields, DropKeeps
<1>5. CASE /\ Swept[id].status = "pending"
           /\ sessions' = [Swept EXCEPT ![id] = [@ EXCEPT !.status = "rejected",
                                                         !.lastSeenAt = now]]
  <2>1. \A i \in Ids : i # id => sessions'[i] = Swept[i]
    BY <1>5, SweptFields
  <2>2. Swept[id] = sessions[id] BY <1>2, <1>5
  <2>3. /\ sessions'[id].status = "rejected" /\ sessions'[id].secret = sessions[id].secret
        /\ sessions'[id].createdAt = sessions[id].createdAt
        /\ sessions'[id].lastSeenAt = now /\ sessions'[id].object = sessions[id].object
        /\ sessions[id].status = "pending"
    BY <1>5, <2>2, SweptFields
  <2>4. RecordInv' BY <1>1, <1>2, <2>1, <2>3 DEF RecordInv
  <2>5. SavedInv' BY <1>1, <1>2, <2>1, <2>3 DEF SavedInv, RecordInv
  <2>6. LeaseInv' BY <1>1, <1>2, <2>1, <2>3 DEF LeaseInv
  <2>7. CleanInv' BY <1>1 DEF CleanInv
  <2> QED BY <2>4, <2>5, <2>6, <2>7
<1> QED BY <1>3, <1>4, <1>5

(* A waiting device is let in. *)
LEMMA ApproveFields ==
  ASSUME TypeOK, NEW id \in Ids, Approve(id)
  PROVE  /\ dirty' /\ UNCHANGED <<now, secrets, leases, hydration, saved>>
         /\ sessions[id].status = "pending" /\ ~Expired(sessions[id])
         /\ \A i \in Ids : i # id => sessions'[i] \in {Absent, sessions[i]}
         /\ sessions'[id].status = "active" /\ sessions'[id].secret = sessions[id].secret
         /\ sessions'[id].createdAt = sessions[id].createdAt
         /\ sessions'[id].lastSeenAt = now /\ sessions'[id].object = sessions[id].object
<1>1. dirty' /\ UNCHANGED <<now, secrets, leases, hydration, saved>>
  BY DEF Approve, Changed
<1>2. \A i \in Ids : Swept[i] = IF Expired(sessions[i]) THEN Absent ELSE sessions[i]
  BY SweptFields
<1>3. Swept[id] = sessions[id] /\ sessions[id].status = "pending" /\ ~Expired(sessions[id])
  BY <1>2 DEF Approve, Approvable, Absent
<1>4. /\ \A i \in Ids : i # id => sessions'[i] = Swept[i]
      /\ sessions'[id].status = "active" /\ sessions'[id].secret = sessions[id].secret
      /\ sessions'[id].createdAt = sessions[id].createdAt
      /\ sessions'[id].lastSeenAt = now /\ sessions'[id].object = sessions[id].object
  BY <1>3, SweptFields DEF Approve, Session
<1> QED BY <1>1, <1>2, <1>3, <1>4

(* No lease was made for a device that still waits. *)
LEMMA ApproveKeeps ==
  ASSUME TypeOK, DataInv, NEW id \in Ids, Approve(id)
  PROVE  DataInv'
<1> USE StoreAssumption DEF StoreAssumption, TypeOK, DataInv, Session, Lease, Absent
<1>1. /\ dirty' /\ UNCHANGED <<now, secrets, leases, hydration, saved>>
      /\ sessions[id].status = "pending" /\ ~Expired(sessions[id])
      /\ \A i \in Ids : i # id => sessions'[i] \in {Absent, sessions[i]}
      /\ sessions'[id].status = "active" /\ sessions'[id].secret = sessions[id].secret
      /\ sessions'[id].createdAt = sessions[id].createdAt
      /\ sessions'[id].lastSeenAt = now /\ sessions'[id].object = sessions[id].object
  BY ApproveFields
<1>5. RecordInv' BY <1>1 DEF RecordInv
<1>6. SavedInv' BY <1>1 DEF SavedInv, RecordInv
<1>7. LeaseInv' BY <1>1 DEF LeaseInv
<1>8. CleanInv' BY <1>1 DEF CleanInv
<1> QED BY <1>5, <1>6, <1>7, <1>8

(* The invariant of the records is kept by every operation. *)
LEMMA DataStep ==
  ASSUME TypeOK, StoreInv, [Next]_vars
  PROVE  DataInv'
<1>a. /\ Swept \in [Ids -> Session]
      /\ \A i \in Ids : Swept[i] = IF Expired(sessions[i]) THEN Absent ELSE sessions[i]
  BY SweptFields
<1>b. RoomInv /\ DataInv BY DEF StoreInv
<1> USE StoreAssumption DEF StoreAssumption, TypeOK
<1>1. CASE Tick
  BY <1>1, <1>a, <1>b
  DEF Tick, DataInv, RecordInv, SavedInv, LeaseInv, CleanInv, Live, Held, Expired, Window,
    Absent, Session, Lease, Status
<1>2. CASE LoginRefused \/ List \/ Clear
  BY <1>2, <1>a, <1>b, DropKeeps DEF LoginRefused, List, Clear, Changed
<1>3. CASE Serialize
  BY <1>3, <1>b, SerializeKeeps
<1>4. CASE Hydrate
  BY <1>4, <1>b, HydrateKeeps
<1>5. ASSUME NEW id \in Ids, Login(id) PROVE DataInv'
  BY <1>5, <1>b, LoginKeeps
<1>6. ASSUME NEW id \in Ids, Reissue(id) PROVE DataInv'
  <2>1. CASE id \in Live(Swept) BY <1>6, <1>b, <2>1, ReissueKeeps
  <2>2. CASE id \notin Live(Swept) BY <1>6, <1>a, <1>b, <2>2, DropKeeps DEF Reissue
  <2> QED BY <2>1, <2>2
<1>7. ASSUME NEW id \in Ids, Revoke(id) PROVE DataInv'
  BY <1>7, <1>b, RevokeKeeps
<1>8. ASSUME NEW id \in Ids, Approve(id) PROVE DataInv'
  BY <1>8, <1>b, ApproveKeeps
<1>9. ASSUME NEW id \in Ids, Rename(id) \/ SelfRename(id) PROVE DataInv'
  BY <1>9, <1>a, <1>b, DropKeeps DEF Rename, SelfRename, Changed
<1>10. ASSUME NEW id \in Ids, NEW g \in 1..secrets[id], Validate(id, g) PROVE DataInv'
  <2>1. CASE sessions' = [sessions EXCEPT ![id] = Absent]
    BY <1>10, <1>b, <2>1, DropKeeps DEF Validate, Changed
  <2>2. CASE CookieActive(id, g) /\ sessions' = [sessions EXCEPT ![id].lastSeenAt = now]
    BY <1>10, <1>b, <2>2, TouchKeeps DEF Validate, Changed, CookieActive
  <2> QED BY <1>10, <2>1, <2>2 DEF Validate
<1>11. ASSUME NEW id \in Ids, NEW g \in 1..secrets[id], TrackActivity(id, g) PROVE DataInv'
  BY <1>11, <1>a, <1>b
  DEF TrackActivity, Matches, CookieActive, DataInv, RecordInv, SavedInv, LeaseInv, CleanInv,
      Live, Held, Expired, Window,
    Absent, Session, Lease, Status
<1>12. ASSUME NEW id \in Ids, NEW g \in 1..secrets[id], PendingLookup(id, g) \/ SignOut(id, g)
      PROVE DataInv'
  BY <1>12, <1>a, <1>b, DropKeeps DEF PendingLookup, SignOut, Changed
<1>13. ASSUME NEW l \in leases, LeaseActivity(l) PROVE DataInv'
  <2>1. l.id \in Ids /\ sessions[l.id].status = "active"
    BY <1>13 DEF Lease, LeaseActivity, LeaseHolds
  <2>2. CASE sessions' = [sessions EXCEPT ![l.id] = Absent] /\ dirty' /\ leases' = leases
    BY <1>13, <1>b, <2>1, <2>2, DropKeeps DEF LeaseActivity
  <2>3. CASE sessions' = [sessions EXCEPT ![l.id].lastSeenAt = now]
    <3>1. CASE NotifyDue(l)
      BY <1>13, <1>b, <2>1, <2>3, <3>1, TouchKeeps DEF LeaseActivity, Changed
    <3>2. CASE ~NotifyDue(l)
      <4>1. now < l.notifyFrom BY <3>2 DEF NotifyDue, Lease
      <4>2. \/ dirty' /\ leases' = leases
            \/ LeaseHolds(l) /\ UNCHANGED <<leases, dirty>>
        BY <1>13, <3>2 DEF LeaseActivity, Changed
      <4>3. UNCHANGED <<now, secrets, hydration, saved>> BY <1>13 DEF LeaseActivity
      <4> QED BY <1>b, <2>1, <2>3, <4>1, <4>2, <4>3, TouchKeeps
    <3> QED BY <3>1, <3>2
  <2> QED BY <1>13, <2>2, <2>3 DEF LeaseActivity, Changed
<1>14. ASSUME NEW l \in leases, LeaseEnd(l) PROVE DataInv'
  BY <1>14, <1>a, <1>b, DropKeeps DEF LeaseEnd
<1>15. CASE UNCHANGED vars
  BY <1>15, <1>a, <1>b
  DEF vars, DataInv, RecordInv, SavedInv, LeaseInv, CleanInv, Live, Held, Expired, Window,
    Absent, Session, Lease, Status
<1> QED BY <1>1, <1>2, <1>3, <1>4, <1>5, <1>6, <1>7, <1>8, <1>9, <1>10, <1>11, <1>12, <1>13,
           <1>14, <1>15
  DEF Next

(* What is saved was counted against the cap when it was saved. *)
LEMMA RoomStep ==
  ASSUME TypeOK, Capacity, StoreInv, [Next]_vars
  PROVE  RoomInv'
<1>1. CASE Serialize
  <2>1. Held(saved') \subseteq CountedIn(sessions)
    <3>1. \A i \in Ids : Swept[i] = IF Expired(sessions[i]) THEN Absent ELSE sessions[i]
      BY SweptFields
    <3>2. \A i \in Ids :
            Swept[i].status \notin {"active", "pending"} => saved'[i] = Absent
      BY <1>1 DEF Serialize, Persisted, Live
    <3> QED BY <3>1, <3>2 DEF Held, Live, CountedIn, Absent
  <2>2. /\ Cardinality(Held(saved')) <= Cardinality(CountedIn(sessions))
        /\ Cardinality(Held(saved')) \in Nat /\ Cardinality(CountedIn(sessions)) \in Nat
    BY <2>1, CountedFinite, FS_Subset, FS_CardinalityType
  <2>3. Cardinality(CountedIn(sessions)) <= MaxSessions BY DEF Capacity, CountedIn
  <2>4. Cardinality(Held(saved')) <= MaxSessions
    BY <2>2, <2>3, StoreAssumption DEF StoreAssumption
  <2> QED BY <2>4 DEF RoomInv, Held
<1>2. CASE saved' = saved BY <1>2 DEF StoreInv, RoomInv, Held
<1> QED
  BY <1>1, <1>2
  DEF Next, vars, Tick, LoginRefused, List, Clear, Hydrate, Login, Reissue, Revoke, Approve,
      Rename, SelfRename, Validate, TrackActivity, PendingLookup, SignOut, LeaseActivity, LeaseEnd

(* Of each id load() left a record and its copy, or neither.               *)
LEMMA InitFields ==
  ASSUME Init, NEW i \in Ids
  PROVE  \/ /\ sessions[i].status \in {"active", "pending"} /\ secrets[i] = 1
            /\ sessions[i].secret = 1 /\ sessions[i].object = 1
            /\ sessions[i].lastSeenAt <= now /\ ~Expired(sessions[i])
            /\ saved[i].status = sessions[i].status /\ saved[i].secret = 1
            /\ saved[i].createdAt = sessions[i].createdAt
            /\ saved[i].lastSeenAt = sessions[i].lastSeenAt
         \/ sessions[i] = Absent /\ saved[i] = Absent /\ secrets[i] = 0
<1>1. /\ secrets[i] = IF i \in Held(sessions) THEN 1 ELSE 0
      /\ saved[i] = IF i \in Live(sessions) THEN [sessions[i] EXCEPT !.object = 0] ELSE Absent
      /\ sessions[i] = Absent \/ sessions[i] \in Loaded
  BY DEF Init, Persisted
<1>2. CASE sessions[i] = Absent BY <1>1, <1>2 DEF Held, Live, Absent
<1>3. CASE sessions[i] \in Loaded
  <2>1. /\ sessions[i] \in Session /\ sessions[i].status \in {"active", "pending"}
        /\ sessions[i].secret = 1 /\ sessions[i].object = 1
        /\ sessions[i].lastSeenAt \in 0..now /\ ~Expired(sessions[i])
    BY <1>3, TypeInit DEF Loaded, TypeOK
  <2>2. now \in Nat BY TypeInit DEF TypeOK
  <2>3. i \in Held(sessions) /\ i \in Live(sessions) BY <2>1 DEF Held, Live
  <2>4. saved[i] = [sessions[i] EXCEPT !.object = 0] BY <1>1, <2>3
  <2>5. /\ saved[i].status = sessions[i].status /\ saved[i].secret = sessions[i].secret
        /\ saved[i].createdAt = sessions[i].createdAt
        /\ saved[i].lastSeenAt = sessions[i].lastSeenAt
    BY <2>1, <2>4 DEF Session
  <2> QED BY <1>1, <2>1, <2>2, <2>3, <2>5
<1> QED BY <1>1, <1>2, <1>3

(* The store that load() left is the one that it saved. *)
LEMMA StoreInit == ASSUME Init PROVE StoreInv
<1>1. hydration = 1 /\ leases = {} /\ TypeOK BY TypeInit DEF Init
<1>2. RecordInv BY <1>1, InitFields, StoreAssumption DEF StoreAssumption, RecordInv, Absent
<1>3. SavedInv
  <2>1. \A i \in Ids : saved[i].lastSeenAt \in Nat BY <1>1 DEF TypeOK, Session
  <2> QED BY <2>1, InitFields DEF SavedInv, Absent
<1>4. LeaseInv BY <1>1 DEF LeaseInv
<1>5. CleanInv
  <2>1. ASSUME NEW i \in Live(sessions)
        PROVE  /\ saved[i].status = sessions[i].status /\ saved[i].secret = sessions[i].secret
               /\ sessions[i].lastSeenAt = saved[i].lastSeenAt
    BY InitFields DEF Live, Absent
  <2>2. Held(saved) \subseteq Live(sessions) BY InitFields DEF Held, Live, Absent
  <2> QED BY <2>1, <2>2 DEF CleanInv
<1>6. RoomInv
  <2>1. Held(saved) \subseteq Held(sessions) BY InitFields DEF Held, Absent
  <2>2. IsFiniteSet(Held(sessions)) /\ Cardinality(Held(sessions)) \in Nat
    BY FS_Subset, FS_CardinalityType, StoreAssumption DEF StoreAssumption, Held
  <2>3. /\ Cardinality(Held(saved)) <= Cardinality(Held(sessions))
        /\ Cardinality(Held(saved)) \in Nat
    BY <2>1, <2>2, FS_Subset, FS_CardinalityType
  <2>4. Cardinality(Held(sessions)) <= MaxSessions BY DEF Init
  <2> QED BY <2>2, <2>3, <2>4, StoreAssumption DEF StoreAssumption, RoomInv
<1> QED BY <1>2, <1>3, <1>4, <1>5, <1>6 DEF StoreInv, DataInv

(* The invariant of the store is kept by every operation. *)
LEMMA StoreStep ==
  ASSUME TypeOK, Capacity, StoreInv, [Next]_vars
  PROVE  TypeOK' /\ Capacity' /\ StoreInv'
<1>1. TypeOK' BY TypeStep
<1>2. Capacity' BY CapacityStep
<1>3. RoomInv' BY RoomStep
<1>4. DataInv' BY DataStep
<1> QED BY <1>1, <1>2, <1>3, <1>4 DEF StoreInv

(* Every reachable state of the store satisfies the invariant. *)
THEOREM StoreInvariant == Spec => [](TypeOK /\ Capacity /\ StoreInv)
<1>1. Init => TypeOK /\ Capacity /\ StoreInv BY TypeInit, CapacityInit, StoreInit
<1>2. TypeOK /\ Capacity /\ StoreInv /\ [Next]_vars => TypeOK' /\ Capacity' /\ StoreInv'
  BY StoreStep
<1> QED BY <1>1, <1>2, PTL DEF Spec

---------------------------------------------------------------------------
(* The properties                                                          *)

(* Whatever an operation of sessions.ts changes about who can sign in, it  *)
(* notifies: without a notification since the last serialize the saved     *)
(* copy has the same devices with the same secrets.                        *)
THEOREM CleanMeansSavedHolds == Spec => []CleanMeansSaved
<1>1. StoreInv => CleanMeansSaved
  BY DEF StoreInv, DataInv, CleanInv, CleanMeansSaved
<1> QED BY <1>1, StoreInvariant, PTL

(* The throttle of trackActivity (sessions.ts:283-303) loses less than its *)
(* period of a stream's activity, for every period.                        *)
THEOREM ActivityLagBoundedHolds == Spec => []ActivityLagBounded
<1>1. StoreInv => ActivityLagBounded
  BY DEF StoreInv, DataInv, CleanInv, ActivityLagBounded
<1> QED BY <1>1, StoreInvariant, PTL

(* Every step but five kinds leaves each record alone, forgets it, or      *)
(* touches a good one, which a refusal turns into a tombstone.             *)
Quiet(i) ==
  \/ sessions'[i] = sessions[i]
  \/ sessions'[i] = Absent
  \/ /\ sessions[i].status \in {"active", "pending"} /\ ~Expired(sessions[i])
     /\ sessions'[i].status \in {sessions[i].status, "rejected"}
     /\ sessions'[i].secret = sessions[i].secret
     /\ sessions'[i].createdAt = sessions[i].createdAt
     /\ sessions'[i].object = sessions[i].object
     /\ sessions'[i].lastSeenAt = now /\ now' = now

Loud ==
  \/ Serialize \/ Hydrate
  \/ \E id \in Ids : Login(id) \/ (id \in Live(Swept) /\ Reissue(id)) \/ Approve(id)

(* Apart from login, reissue, approval, saving and loading, a step only    *)
(* ends devices or touches their activity.                                 *)
LEMMA StepCases ==
  ASSUME TypeOK, [Next]_vars
  PROVE  Loud \/ (UNCHANGED <<secrets, saved>> /\ \A i \in Ids : Quiet(i))
<1> DEFINE Calm == UNCHANGED <<secrets, saved>> /\ \A i \in Ids : Quiet(i)
<1>a. \A i \in Ids : Swept[i] \in {Absent, sessions[i]} BY SweptFields
<1>1. CASE Tick \/ UNCHANGED vars BY <1>1 DEF Tick, vars, Quiet
<1>2. CASE LoginRefused \/ List BY <1>2, <1>a DEF LoginRefused, List, Quiet
<1>3. CASE Clear BY <1>3 DEF Clear, Quiet
<1>4. CASE Serialize \/ Hydrate BY <1>4 DEF Loud
<1>5. ASSUME NEW id \in Ids, Login(id) \/ Approve(id) PROVE Loud BY <1>5 DEF Loud
<1>6. ASSUME NEW id \in Ids, Reissue(id) PROVE Loud \/ Calm
  BY <1>6, <1>a DEF Loud, Reissue, Quiet
<1>7. ASSUME NEW id \in Ids, Revoke(id) PROVE Calm
  <2>1. CASE sessions' = [Swept EXCEPT ![id] = Absent]
    BY <1>7, <1>a, <2>1, SweptFields DEF Revoke, Quiet
  <2>2. CASE /\ Swept[id].status = "pending"
             /\ sessions' = [Swept EXCEPT ![id] = [@ EXCEPT !.status = "rejected",
                                                           !.lastSeenAt = now]]
    <3>1. Swept[id] = sessions[id] /\ ~Expired(sessions[id]) /\ sessions[id].status = "pending"
      BY <2>2, SweptFields DEF Absent
    <3>2. \A i \in Ids : i # id => sessions'[i] \in {Absent, sessions[i]}
      BY <1>a, <2>2, SweptFields
    <3>3. Quiet(id) BY <1>7, <2>2, <3>1, SweptFields DEF Revoke, Quiet, Session
    <3> QED BY <1>7, <3>2, <3>3 DEF Revoke, Quiet
  <2> QED BY <1>7, <2>1, <2>2, SweptFields DEF Revoke
<1>8. ASSUME NEW id \in Ids, Rename(id) \/ SelfRename(id) PROVE Calm
  BY <1>8, <1>a DEF Rename, SelfRename, Quiet
<1>9. ASSUME NEW id \in Ids, UNCHANGED <<now, secrets, saved>>,
             \/ sessions' = [sessions EXCEPT ![id] = Absent]
             \/ /\ sessions[id].status = "active" /\ ~Expired(sessions[id])
                /\ sessions' = [sessions EXCEPT ![id].lastSeenAt = now]
      PROVE  Calm
  <2>1. CASE sessions' = [sessions EXCEPT ![id] = Absent] BY <1>9, <2>1 DEF Quiet, TypeOK
  <2>2. CASE sessions' = [sessions EXCEPT ![id].lastSeenAt = now]
    <3>1. \A i \in Ids :
            /\ sessions'[i].status = sessions[i].status
            /\ sessions'[i].secret = sessions[i].secret
            /\ sessions'[i].createdAt = sessions[i].createdAt
            /\ sessions'[i].object = sessions[i].object
            /\ sessions'[i].lastSeenAt = IF i = id THEN now ELSE sessions[i].lastSeenAt
            /\ i # id => sessions'[i] = sessions[i]
      BY <2>2, TouchFields DEF TypeOK
    <3>2. CASE sessions[id].status = "active" /\ ~Expired(sessions[id])
      BY <1>9, <3>1, <3>2 DEF Quiet
    <3>3. CASE sessions' = [sessions EXCEPT ![id] = Absent] BY <2>1, <3>3
    <3> QED BY <1>9, <3>2, <3>3
  <2> QED BY <1>9, <2>1, <2>2
<1>10. ASSUME NEW id \in Ids, NEW g \in 1..secrets[id],
              Validate(id, g) \/ TrackActivity(id, g) \/ PendingLookup(id, g) \/ SignOut(id, g)
       PROVE  Calm
  <2>1. CASE TrackActivity(id, g) BY <2>1 DEF TrackActivity, Quiet
  <2>2. CASE Validate(id, g) \/ PendingLookup(id, g) \/ SignOut(id, g)
    <3> HIDE DEF Calm
    <3> QED BY <2>2, <1>9 DEF Validate, PendingLookup, SignOut, CookieActive
  <2> QED BY <1>10, <2>1, <2>2
<1>11. ASSUME NEW l \in leases, LeaseActivity(l) \/ LeaseEnd(l) PROVE Calm
  <2>1. l.id \in Ids BY DEF TypeOK, Lease
  <2>2. CASE LeaseEnd(l) BY <2>2 DEF LeaseEnd, Quiet
  <2>3. CASE LeaseActivity(l)
    <3> HIDE DEF Calm
    <3> QED BY <2>1, <2>3, <1>9 DEF LeaseActivity, LeaseHolds
  <2> QED BY <1>11, <2>2, <2>3
<1> HIDE DEF Calm
<1>12. Loud \/ Calm
  BY <1>1, <1>2, <1>3, <1>4, <1>5, <1>6, <1>7, <1>8, <1>10, <1>11 DEF Next, Calm
<1> QED BY <1>12 DEF Calm

(* The clock does not run backwards. *)
LEMMA ClockStep ==
  ASSUME TypeOK, [Next]_vars
  PROVE  now' \in Nat /\ now <= now'
<1>1. CASE Tick BY <1>1 DEF Tick, TypeOK
<1>2. now' = now \/ Tick
  BY DEF Next, vars, LoginRefused, List, Clear, Serialize, Hydrate, Login, Reissue,
         Revoke, Approve, Rename, SelfRename, Validate, TrackActivity, PendingLookup, SignOut,
         LeaseActivity, LeaseEnd
<1> QED BY <1>1, <1>2 DEF TypeOK

(* A record whose times are not renewed stays expired. *)
LEMMA ExpiredStays ==
  ASSUME TypeOK, [Next]_vars, NEW r \in Session, NEW q \in Session,
         Expired(r), q.createdAt = r.createdAt, q.lastSeenAt <= r.lastSeenAt
  PROVE  Expired(q)'
<1>1. now' \in Nat /\ now <= now' BY ClockStep
<1> QED
  BY <1>1, StoreAssumption DEF TypeOK, StoreAssumption, Expired, Window, Session

(* An expired device is not touched, approved or reissued, and its id is   *)
(* not drawn again.                                                        *)
LEMMA ExpiryStep ==
  ASSUME TypeOK, StoreInv, [Next]_vars, NEW id \in Held(sessions), Expired(sessions[id])
  PROVE  sessions'[id].status = "absent" \/ Expired(sessions[id])'
<1>a. id \in Ids /\ sessions[id].status # "absent" BY DEF Held
<1>b. RecordInv /\ SavedInv /\ RoomInv BY DEF StoreInv, DataInv
<1>c. sessions[id] \in Session /\ sessions' \in [Ids -> Session] /\ sessions'[id] \in Session
  BY <1>a, TypeStep DEF TypeOK
<1>d. ASSUME sessions'[id] \in {Absent, sessions[id]}
      PROVE  sessions'[id].status = "absent" \/ Expired(sessions[id])'
  <2>1. CASE sessions'[id] = Absent BY <2>1 DEF Absent
  <2>2. CASE sessions'[id] = sessions[id]
    <3>1. sessions'[id].lastSeenAt <= sessions[id].lastSeenAt BY <1>c, <2>2 DEF Session
    <3> QED BY <1>c, <2>2, <3>1, ExpiredStays
  <2> QED BY <1>d, <2>1, <2>2
<1>1. CASE \A i \in Ids : Quiet(i)
  BY <1>1, <1>a, <1>d DEF Quiet
<1>2. CASE Serialize
  BY <1>2, <1>a, <1>d, SerializeFields, SweptFields
<1>3. CASE Hydrate
  <2>1. \/ sessions'[id] = Absent
        \/ /\ saved[id].status # "absent" /\ sessions'[id].createdAt = saved[id].createdAt
           /\ sessions'[id].lastSeenAt = saved[id].lastSeenAt
    BY <1>3, <1>a, <1>b, HydrateFields
  <2>2. \/ sessions'[id] = Absent
        \/ /\ sessions'[id].createdAt = sessions[id].createdAt
           /\ sessions'[id].lastSeenAt <= sessions[id].lastSeenAt
    BY <2>1, <1>a, <1>b DEF SavedInv
  <2>3. CASE sessions'[id] = Absent BY <1>d, <2>3
  <2>4. CASE /\ sessions'[id].createdAt = sessions[id].createdAt
             /\ sessions'[id].lastSeenAt <= sessions[id].lastSeenAt
    BY <1>c, <2>4, ExpiredStays
  <2> QED BY <2>2, <2>3, <2>4
<1>4. ASSUME NEW i \in Ids, Login(i) \/ (i \in Live(Swept) /\ Reissue(i)) \/ Approve(i)
      PROVE  sessions'[id] \in {Absent, sessions[id]}
  <2>1. CASE Login(i)
    <3>1. secrets[i] = 0 BY <2>1, LoginFields
    <3>2. i # id BY <1>a, <1>b, <3>1 DEF RecordInv
    <3> QED BY <1>a, <2>1, <3>2, LoginFields
  <2>2. CASE i \in Live(Swept) /\ Reissue(i) BY <1>a, <2>2, RenewFields
  <2>3. CASE Approve(i) BY <1>a, <2>3, ApproveFields
  <2> QED BY <1>4, <2>1, <2>2, <2>3
<1> QED BY <1>1, <1>2, <1>3, <1>4, <1>d, StepCases DEF Loud

(* An expired device leaves the store or stays expired: no approval, touch *)
(* of a stream, reissue or hydration makes it good again.                  *)
THEOREM ExpiryIsFinalHolds == Spec => ExpiryIsFinal
<1>1. TypeOK /\ StoreInv /\ [Next]_vars =>
        \A id \in Held(sessions) :
          Expired(sessions[id]) =>
            sessions'[id].status = "absent" \/ Expired(sessions[id])'
  BY ExpiryStep
<1>2. TypeOK /\ StoreInv /\ [Next]_vars =>
        [\A id \in Held(sessions) :
           Expired(sessions[id]) =>
             sessions'[id].status = "absent" \/ Expired(sessions[id])']_vars
  BY <1>1
<1> QED BY <1>2, StoreInvariant, PTL DEF Spec, ExpiryIsFinal

(* A lease's own record keeps its object and secret, or the lease no       *)
(* longer finds them: a reissue takes a secret past those of all leases, a *)
(* hydration an object past theirs.                                        *)
LEMMA LeaseStep ==
  ASSUME TypeOK, StoreInv, [Next]_vars, NEW l \in leases, LeaseHolds(l)'
  PROVE  LeaseHolds(l) /\ secrets'[l.id] = secrets[l.id]
<1>a. /\ l.id \in Ids /\ l.secret \in 1..secrets[l.id] /\ l.object \in 1..hydration
      /\ hydration \in Nat /\ secrets[l.id] \in Nat
  BY DEF StoreInv, DataInv, LeaseInv, TypeOK, Lease
<1>b. /\ sessions'[l.id].object = l.object /\ sessions'[l.id].secret = l.secret
      /\ sessions'[l.id].status = "active"
  BY DEF LeaseHolds
<1>c. ASSUME sessions'[l.id] \in {Absent, sessions[l.id]} PROVE LeaseHolds(l)
  BY <1>b, <1>c DEF LeaseHolds, Absent
<1>1. CASE UNCHANGED secrets /\ \A i \in Ids : Quiet(i)
  BY <1>1, <1>a, <1>b, <1>c DEF Quiet, LeaseHolds
<1>2. CASE Serialize
  BY <1>2, <1>a, <1>c, SerializeFields, SweptFields
<1>3. CASE Hydrate
  <2>1. sessions'[l.id] = Absent \/ sessions'[l.id].object = hydration + 1
    BY <1>3, <1>a, HydrateFields DEF StoreInv
  <2> QED BY <1>a, <1>b, <2>1 DEF Absent
<1>4. ASSUME NEW i \in Ids, Login(i) PROVE LeaseHolds(l) /\ secrets'[l.id] = secrets[l.id]
  <2>1. l.id # i BY <1>4, <1>a, LoginFields
  <2> QED BY <1>4, <1>a, <1>c, <2>1, LoginFields
<1>5. ASSUME NEW i \in Ids, i \in Live(Swept), Reissue(i)
      PROVE  LeaseHolds(l) /\ secrets'[l.id] = secrets[l.id]
  <2>1. l.id # i
    <3>1. sessions'[i].secret = secrets[i] + 1 BY <1>5, RenewFields
    <3> QED BY <1>a, <1>b, <3>1
  <2> QED BY <1>5, <1>a, <1>c, <2>1, RenewFields
<1>6. ASSUME NEW i \in Ids, Approve(i) PROVE LeaseHolds(l) /\ secrets'[l.id] = secrets[l.id]
  <2>1. UNCHANGED secrets /\ (i # l.id => LeaseHolds(l)) BY <1>6, <1>a, <1>c, ApproveFields
  <2>2. CASE i = l.id
    <3>1. /\ sessions[l.id].status = "pending"
          /\ sessions[l.id].object = l.object /\ sessions[l.id].secret = l.secret
      BY <1>6, <1>b, <2>2, ApproveFields
    <3> QED BY <3>1 DEF StoreInv, DataInv, LeaseInv
  <2> QED BY <2>1, <2>2
<1> QED BY <1>1, <1>2, <1>3, <1>4, <1>5, <1>6, StepCases DEF Loud

(* "Neither rotation nor hydration can reuse an old callback"              *)
(* (sessions.ts:281): a callback that would answer false, or whose device  *)
(* gets a new secret, never answers true again.                            *)
THEOREM LeaseFinalityHolds == Spec => LeaseFinality
<1>1. ASSUME TypeOK, StoreInv, [Next]_vars, NEW l \in leases,
             ~LeaseAnswers(l) \/ secrets'[l.id] > secrets[l.id]
      PROVE  ~LeaseAnswers(l)'
  <2> SUFFICES ASSUME LeaseAnswers(l)' PROVE FALSE OBVIOUS
  <2>1. LeaseHolds(l)' /\ ~Expired(sessions[l.id])' BY DEF LeaseAnswers
  <2>2. LeaseHolds(l) /\ secrets'[l.id] = secrets[l.id] BY <1>1, <2>1, LeaseStep
  <2>3. l.id \in Ids /\ secrets[l.id] \in Nat BY <1>1 DEF TypeOK, Lease
  <2>4. Expired(sessions[l.id]) BY <1>1, <2>2, <2>3 DEF LeaseAnswers
  <2>5. l.id \in Held(sessions) BY <2>2, <2>3 DEF LeaseHolds, Held
  <2>6. sessions'[l.id].status = "active" BY <2>1 DEF LeaseHolds
  <2> QED BY <1>1, <2>1, <2>4, <2>5, <2>6, ExpiryStep
<1>2. TypeOK /\ StoreInv /\ [Next]_vars =>
        [\A l \in leases :
           ~LeaseAnswers(l) \/ secrets'[l.id] > secrets[l.id] => ~LeaseAnswers(l)']_vars
  BY <1>1
<1> QED BY <1>2, StoreInvariant, PTL DEF Spec, LeaseFinality

---------------------------------------------------------------------------
(* The refinement of DeviceRegistry                                        *)

Secrets == 1..MaxSecrets

(* The steps of the registry, in terms of the store's credentials *)
Good == {"waiting", "working"}

CredStays(d, g) == CredentialState(d, g)' = CredentialState(d, g)

CredMayEnd(d, g) ==
  \/ CredStays(d, g)
  \/ (CredentialState(d, g) \in Good /\ CredentialState(d, g)' = "ended")

(* What a credential is shown as, spelt out for a device in the store *)
LEMMA CredNow ==
  ASSUME TypeOK, NEW i \in Ids, NEW g \in Secrets
  PROVE  CredentialState(i, g) =
           IF g > secrets[i] THEN "none"
           ELSE IF sessions[i].secret = g /\ ~Expired(sessions[i]) THEN
             IF sessions[i].status = "pending" THEN "waiting"
             ELSE IF sessions[i].status = "active" THEN "working" ELSE "ended"
           ELSE "ended"
  BY DEF TypeOK, Session, Status, CredentialState, Shown, Matches

(* The state of a credential after a step, from the records after it.      *)
LEMMA CredNext ==
  ASSUME TypeOK', NEW i \in Ids, NEW g \in Secrets
  PROVE  CredentialState(i, g)' =
           IF g > secrets'[i] THEN "none"
           ELSE IF sessions'[i].secret = g /\ ~Expired(sessions[i])' THEN
             IF sessions'[i].status = "pending" THEN "waiting"
             ELSE IF sessions'[i].status = "active" THEN "working" ELSE "ended"
           ELSE "ended"
  BY DEF TypeOK, Session, Status, CredentialState, Shown, Matches

(* A record that was left alone, forgotten, touched or refused ends        *)
(* credentials of its device at most.                                      *)
LEMMA QuietEnds ==
  ASSUME TypeOK, TypeOK', StoreInv, [Next]_vars, NEW i \in Ids, Quiet(i),
         secrets'[i] = secrets[i], NEW g \in Secrets
  PROVE  CredMayEnd(i, g)
<1>1. now \in Nat /\ now' \in Nat /\ now <= now' BY ClockStep DEF TypeOK
<1>2. sessions[i] \in Session /\ sessions'[i] \in Session /\ secrets[i] \in Nat
  BY DEF TypeOK
<1>3. CASE sessions'[i] = sessions[i]
  <2>1. Expired(sessions[i]) => Expired(sessions[i])'
    BY <1>1, <1>2, <1>3, StoreAssumption DEF StoreAssumption, Expired, Window, Session
  <2> QED BY <1>3, <2>1, CredNow, CredNext DEF CredMayEnd, CredStays, Good
<1>4. CASE sessions'[i] = Absent
  BY <1>4, CredNow, CredNext DEF CredMayEnd, CredStays, Good, Absent
<1>5. CASE /\ sessions[i].status \in {"active", "pending"} /\ ~Expired(sessions[i])
           /\ sessions'[i].status \in {sessions[i].status, "rejected"}
           /\ sessions'[i].secret = sessions[i].secret
           /\ sessions'[i].createdAt = sessions[i].createdAt
           /\ sessions'[i].lastSeenAt = now /\ now' = now
  <2>1. ~Expired(sessions[i])'
    BY <1>1, <1>2, <1>5, StoreAssumption DEF StoreAssumption, Expired, Window, Session
  <2> QED BY <1>5, <2>1, CredNow, CredNext DEF CredMayEnd, CredStays, Good
<1> QED BY <1>3, <1>4, <1>5 DEF Quiet

(* The saved copy ages: what it holds may expire, and no more. *)
LEMMA CopyAges ==
  ASSUME TypeOK, [Next]_vars, UNCHANGED saved
  PROVE  \A i \in Ids, g \in Secrets : KeptState(i, g)' \in {KeptState(i, g), "ended"}
<1>1. now \in Nat /\ now' \in Nat /\ now <= now' BY ClockStep DEF TypeOK
<1>2. ASSUME NEW i \in Ids PROVE Expired(saved[i]) => Expired(saved[i])'
  BY <1>1, StoreAssumption DEF TypeOK, StoreAssumption, Expired, Window, Session
<1> QED BY <1>2 DEF KeptState, Shown

(* The registry's words, in terms of the store *)
LEMMA Words ==
  ASSUME NEW d \in Ids, NEW g \in Secrets
  PROVE  /\ Registry!Stays(d, g) <=> CredStays(d, g)
         /\ Registry!MayEnd(d, g) <=> CredMayEnd(d, g)
  BY DEF Secrets, Good, CredStays, CredMayEnd, Registry!Stays, Registry!MayEnd, Registry!Good

(* A step that writes no copy leaves the copy as it is, but for its age.   *)
LEMMA CopyMayEndStep ==
  ASSUME TypeOK, [Next]_vars, UNCHANGED saved
  PROVE  Registry!CopyMayEnd
  BY CopyAges DEF Secrets, Registry!CopyMayEnd

(* A step that only ends or touches devices is End of the registry.        *)
LEMMA EndStep ==
  ASSUME TypeOK, TypeOK', StoreInv, [Next]_vars, UNCHANGED <<secrets, saved>>,
         \A i \in Ids : Quiet(i)
  PROVE  Registry!End
<1>1. \A d \in Ids, g \in Secrets : Registry!MayEnd(d, g) BY QuietEnds, Words
<1> QED BY <1>1, CopyMayEndStep DEF Registry!End, Secrets

(* What a login or an approval of one device does to the others is only to *)
(* end them.                                                               *)
LEMMA OthersStep ==
  ASSUME TypeOK, TypeOK', StoreInv, [Next]_vars, NEW d \in Ids,
         \A i \in Ids \ {d} : secrets'[i] = secrets[i] /\ sessions'[i] \in {Absent, sessions[i]}
  PROVE  Registry!OthersMayEnd(d)
<1>1. \A i \in Ids \ {d} : Quiet(i) BY DEF Quiet
<1>2. \A e \in Ids \ {d}, g \in Secrets : Registry!MayEnd(e, g) BY <1>1, QuietEnds, Words
<1> QED BY <1>2 DEF Registry!OthersMayEnd, Secrets

(* A login is Admit of the registry.                                       *)
LEMMA AdmitStep ==
  ASSUME TypeOK, TypeOK', StoreInv, [Next]_vars, NEW d \in Ids, Login(d)
  PROVE  Registry!Admit(d)
<1>1. /\ MaxSecrets \in Nat \ {0}
      /\ secrets[d] = 0 /\ \A i \in Ids : secrets'[i] = IF i = d THEN 1 ELSE secrets[i]
      /\ \A i \in Ids \ {d} : sessions'[i] \in {Absent, sessions[i]}
      /\ sessions'[d].status \in {"active", "pending"} /\ sessions'[d].secret = 1
      /\ sessions'[d].createdAt = now /\ sessions'[d].lastSeenAt = now
      /\ now' = now /\ UNCHANGED saved
  BY LoginFields, StoreAssumption DEF StoreAssumption
<1>2. ~Expired(sessions[d])'
  BY <1>1, StoreAssumption DEF TypeOK, StoreAssumption, Expired, Window, Session
<1>3. \A g \in Secrets : CredentialState(d, g) = "none"
  BY <1>1, CredNow DEF Secrets
<1>4. 1 \in Secrets /\ CredentialState(d, 1)' \in Good
  <2>1. 1 \in Secrets BY <1>1 DEF Secrets
  <2> QED BY <1>1, <1>2, <2>1, CredNext DEF Good
<1>5. \A g \in Secrets \ {1} : CredStays(d, g)
  <2>1. ASSUME NEW g \in Secrets \ {1} PROVE CredentialState(d, g)' = "none"
    <3>1. g > secrets'[d] BY <1>1, <2>1 DEF Secrets
    <3> QED BY <3>1, CredNext
  <2> QED BY <1>3, <2>1 DEF CredStays
<1>6. Registry!OthersMayEnd(d) BY <1>1, OthersStep
<1>7. Registry!CopyMayEnd BY <1>1, CopyMayEndStep
<1> QED BY <1>3, <1>4, <1>5, <1>6, <1>7, Words DEF Registry!Admit, Registry!Good, Good, Secrets

(* A reissue is Renew of the registry.                                     *)
LEMMA RenewStep ==
  ASSUME TypeOK, TypeOK', StoreInv, [Next]_vars, NEW d \in Ids,
         d \in Live(Swept), Reissue(d)
  PROVE  Registry!Renew(d)
<1>1. /\ MaxSecrets \in Nat /\ secrets[d] \in Nat /\ secrets[d] < MaxSecrets
      /\ \A i \in Ids : secrets'[i] = IF i = d THEN secrets[d] + 1 ELSE secrets[i]
      /\ \A i \in Ids \ {d} : sessions'[i] \in {Absent, sessions[i]}
      /\ sessions[d].status \in {"active", "pending"} /\ ~Expired(sessions[d])
      /\ sessions'[d].status = sessions[d].status /\ sessions'[d].secret = secrets[d] + 1
      /\ sessions'[d].createdAt = sessions[d].createdAt /\ sessions'[d].lastSeenAt = now
      /\ now' = now /\ UNCHANGED saved
  BY RenewFields, StoreAssumption DEF StoreAssumption, TypeOK
<1>2. ~Expired(sessions[d])'
  BY <1>1, StoreAssumption DEF TypeOK, StoreAssumption, Expired, Window, Session
<1>3. sessions[d].secret \in 1..secrets[d] BY <1>1 DEF StoreInv, DataInv, RecordInv
<1>4. PICK g \in Secrets : g = sessions[d].secret BY <1>1, <1>3 DEF Secrets
<1>5. PICK n \in Secrets : n = secrets[d] + 1 BY <1>1 DEF Secrets
<1>6. ~(g > secrets[d]) /\ ~(g > secrets'[d]) /\ g # n /\ n > secrets[d] /\ ~(n > secrets'[d])
  BY <1>1, <1>3, <1>4, <1>5
<1>7. CredentialState(d, g) \in Good /\ CredentialState(d, g)' = "ended"
  BY <1>1, <1>4, <1>5, <1>6, CredNow, CredNext DEF Good
<1>8. CredentialState(d, n) = "none" /\ CredentialState(d, n)' = CredentialState(d, g)
  BY <1>1, <1>2, <1>4, <1>5, <1>6, CredNow, CredNext
<1>9. \A h \in Secrets : h < n => CredentialState(d, h) # "none"
  <2>1. \A h \in Secrets : h < n => ~(h > secrets[d]) BY <1>1, <1>5 DEF Secrets
  <2> QED BY <2>1, CredNow
<1>10. \A h \in Secrets \ {g, n} : CredStays(d, h)
  <2>1. \A h \in Secrets \ {g, n} : h > secrets'[d] <=> h > secrets[d]
    BY <1>1, <1>5 DEF Secrets
  <2> QED BY <1>1, <1>4, <1>5, <2>1, CredNow, CredNext DEF CredStays
<1>11. Registry!OthersMayEnd(d) BY <1>1, OthersStep
<1>12. Registry!CopyMayEnd BY <1>1, CopyMayEndStep
<1> QED
  BY <1>7, <1>8, <1>9, <1>10, <1>11, <1>12, Words
  DEF Registry!Renew, Registry!Good, Good, Secrets

(* An approval is Approve of the registry.                                 *)
LEMMA ApproveStep ==
  ASSUME TypeOK, TypeOK', StoreInv, [Next]_vars, NEW d \in Ids, Approve(d)
  PROVE  Registry!Approve(d)
<1>1. /\ MaxSecrets \in Nat
      /\ \A i \in Ids \ {d} : sessions'[i] \in {Absent, sessions[i]}
      /\ sessions[d].status = "pending" /\ ~Expired(sessions[d])
      /\ sessions'[d].status = "active" /\ sessions'[d].secret = sessions[d].secret
      /\ sessions'[d].createdAt = sessions[d].createdAt /\ sessions'[d].lastSeenAt = now
      /\ now' = now /\ UNCHANGED <<secrets, saved>>
  BY ApproveFields, StoreAssumption DEF StoreAssumption
<1>2. ~Expired(sessions[d])'
  BY <1>1, StoreAssumption DEF TypeOK, StoreAssumption, Expired, Window, Session
<1>3. PICK g \in Secrets : g = sessions[d].secret /\ g \in 1..secrets[d]
  <2>1. /\ sessions[d].secret \in 1..secrets[d]
        /\ secrets[d] <= MaxSecrets /\ secrets[d] \in Nat
    BY <1>1 DEF StoreInv, DataInv, RecordInv, TypeOK
  <2> QED BY <1>1, <2>1 DEF Secrets
<1>4. ~(g > secrets[d]) /\ secrets'[d] = secrets[d] BY <1>1, <1>3 DEF TypeOK
<1>5. CredentialState(d, g) = "waiting" /\ CredentialState(d, g)' = "working"
  BY <1>1, <1>2, <1>3, <1>4, CredNow, CredNext
<1>6. \A h \in Secrets \ {g} : CredStays(d, h)
  BY <1>1, <1>3, <1>4, CredNow, CredNext DEF CredStays
<1>7. Registry!OthersMayEnd(d) BY <1>1, OthersStep
<1>8. Registry!CopyMayEnd BY <1>1, CopyMayEndStep
<1> QED BY <1>5, <1>6, <1>7, <1>8, Words DEF Registry!Approve, Secrets

(* Saving is Save of the registry.                                         *)
LEMMA SaveStep ==
  ASSUME TypeOK, TypeOK', StoreInv, [Next]_vars, Serialize
  PROVE  Registry!Save
<1>1. /\ sessions' = Swept /\ UNCHANGED <<now, secrets>>
      /\ \A i \in Ids : Swept[i] = IF Expired(sessions[i]) THEN Absent ELSE sessions[i]
      /\ \A i \in Ids :
           IF Swept[i].status \in {"active", "pending"}
           THEN /\ saved'[i].status = Swept[i].status /\ saved'[i].secret = Swept[i].secret
                /\ saved'[i].createdAt = Swept[i].createdAt
                /\ saved'[i].lastSeenAt = Swept[i].lastSeenAt
           ELSE saved'[i] = Absent
  BY SerializeFields, SweptFields
<1>2. \A i \in Ids : Quiet(i) BY <1>1 DEF Quiet
<1>3. \A d \in Ids, g \in Secrets : Registry!MayEnd(d, g) BY <1>1, <1>2, QuietEnds, Words
<1>4. ASSUME NEW d \in Ids, NEW g \in Secrets
      PROVE  KeptState(d, g)' = IF CredentialState(d, g)' \in Good THEN CredentialState(d, g)'
                                ELSE "ended"
  <2>1. secrets'[d] \in Nat /\ g \in Nat \ {0}
    BY StoreAssumption DEF TypeOK, StoreAssumption, Secrets
  <2>2. CASE Swept[d].status \in {"active", "pending"}
    <3>1. /\ Swept[d] = sessions[d] /\ sessions'[d] = sessions[d]
          /\ saved'[d].status = sessions'[d].status /\ saved'[d].secret = sessions'[d].secret
          /\ saved'[d].createdAt = sessions'[d].createdAt
          /\ saved'[d].lastSeenAt = sessions'[d].lastSeenAt
      BY <1>1, <2>2 DEF Absent
    <3>2. Expired(saved[d])' <=> Expired(sessions[d])' BY <3>1 DEF Expired
    <3>3. sessions'[d].secret \in 1..secrets'[d]
      BY <1>1, <2>2, <3>1 DEF StoreInv, DataInv, RecordInv
    <3>4. sessions'[d].secret = g => ~(g > secrets'[d]) BY <2>1, <3>3
    <3> QED BY <2>2, <3>1, <3>2, <3>4, CredNext DEF KeptState, Shown, Good
  <2>3. CASE Swept[d].status \notin {"active", "pending"}
    <3>1. saved'[d].secret = 0 /\ sessions'[d].status \notin {"active", "pending"}
      BY <1>1, <2>3 DEF Absent
    <3> QED BY <2>1, <3>1, CredNext DEF KeptState, Good
  <2> QED BY <2>2, <2>3
<1> QED BY <1>3, <1>4 DEF Registry!Save, Registry!Good, Good, Secrets

(* Loading is Restore of the registry.                                     *)
LEMMA RestoreStep ==
  ASSUME TypeOK, TypeOK', StoreInv, [Next]_vars, Hydrate
  PROVE  Registry!Restore
<1>1. /\ UNCHANGED <<now, secrets, saved>>
      /\ \A i \in Ids :
           IF saved[i].status = "absent" THEN sessions'[i] = Absent
           ELSE /\ sessions'[i].status = saved[i].status
                /\ sessions'[i].secret = saved[i].secret
                /\ sessions'[i].createdAt = saved[i].createdAt
                /\ sessions'[i].lastSeenAt = saved[i].lastSeenAt
  BY HydrateFields DEF StoreInv
<1>2. ASSUME NEW d \in Ids, NEW g \in Secrets
      PROVE  IF CredentialState(d, g) = "none" THEN CredStays(d, g)
             ELSE CredentialState(d, g)' \in {KeptState(d, g), "ended"}
  <2>1. CASE g > secrets[d] BY <1>1, <2>1, CredNow, CredNext DEF CredStays
  <2>2. CASE ~(g > secrets[d]) /\ saved[d].status = "absent"
    BY <1>1, <2>2, CredNow, CredNext DEF Absent
  <2>3. CASE ~(g > secrets[d]) /\ saved[d].status # "absent"
    <3>1. Expired(sessions[d])' <=> Expired(saved[d]) BY <1>1, <2>3 DEF Expired
    <3>2. CredentialState(d, g) # "none" BY <2>3, CredNow
    <3>3. CredentialState(d, g)' \in {KeptState(d, g), "ended"}
      BY <1>1, <2>3, <3>1, CredNext DEF KeptState, Shown
    <3> QED BY <3>2, <3>3
  <2> QED BY <2>1, <2>2, <2>3
<1>3. \A d \in Ids, g \in Secrets : KeptState(d, g)' = KeptState(d, g)
  BY <1>1 DEF KeptState, Expired
<1> QED BY <1>2, <1>3, Words DEF Registry!Restore, Secrets

(* The store starts as the registry does.                                  *)
LEMMA RegistryInit == ASSUME Init, StoreInv, TypeOK PROVE Registry!Init
<1>1. ASSUME NEW d \in Ids, NEW g \in Secrets
      PROVE  /\ CredentialState(d, g) = "none"
                  \/ (g = 1 /\ CredentialState(d, g) \in Good)
             /\ KeptState(d, g) = IF CredentialState(d, g) \in Good THEN CredentialState(d, g)
                                  ELSE "ended"
  <2>1. g \in Nat \ {0} BY StoreAssumption DEF StoreAssumption, Secrets
  <2>2. CASE sessions[d].status \in {"active", "pending"}
    <3>1. /\ secrets[d] = 1 /\ sessions[d].secret = 1 /\ ~Expired(sessions[d])
          /\ saved[d].status = sessions[d].status /\ saved[d].secret = 1
          /\ saved[d].createdAt = sessions[d].createdAt
          /\ saved[d].lastSeenAt = sessions[d].lastSeenAt
      BY <2>2, InitFields DEF Absent
    <3>2. ~Expired(saved[d]) BY <3>1 DEF Expired
    <3> QED BY <2>1, <2>2, <3>1, <3>2, CredNow DEF KeptState, Shown, Good
  <2>3. CASE sessions[d].status \notin {"active", "pending"}
    <3>1. sessions[d] = Absent /\ saved[d] = Absent /\ secrets[d] = 0
      BY <2>3, InitFields
    <3> QED BY <2>1, <3>1, CredNow DEF KeptState, Good, Absent
  <2> QED BY <2>2, <2>3
<1> QED BY <1>1 DEF Registry!Init, Registry!Good, Good, Secrets

(* Every step of the store is a step of the registry or none.              *)
LEMMA RegistryStep ==
  ASSUME TypeOK, TypeOK', StoreInv, [Next]_vars
  PROVE  Registry!Next
<1>1. CASE Serialize BY <1>1, SaveStep DEF Registry!Next
<1>2. CASE Hydrate BY <1>2, RestoreStep DEF Registry!Next
<1>3. ASSUME NEW id \in Ids, Login(id) PROVE Registry!Next
  BY <1>3, AdmitStep DEF Registry!Next
<1>4. ASSUME NEW id \in Ids, id \in Live(Swept), Reissue(id) PROVE Registry!Next
  BY <1>4, RenewStep DEF Registry!Next
<1>5. ASSUME NEW id \in Ids, Approve(id) PROVE Registry!Next
  BY <1>5, ApproveStep DEF Registry!Next
<1>6. CASE UNCHANGED <<secrets, saved>> /\ \A i \in Ids : Quiet(i)
  BY <1>6, EndStep DEF Registry!Next
<1> QED BY <1>1, <1>2, <1>3, <1>4, <1>5, <1>6, StepCases DEF Loud

(* To the host the store is the registry of DeviceRegistry: of a device's  *)
(* credentials one at most is good, none works before it was approved, and *)
(* one that ended comes back only with a saved copy from when it was good, *)
(* whatever the order of the store's operations.                           *)
THEOREM StoreImplementsRegistry == Spec => ImplementsRegistry
<1>1. Init => Registry!Init BY RegistryInit, TypeInit, StoreInit
<1>2. TypeOK /\ StoreInv /\ TypeOK' /\ [Next]_vars => [Registry!Next]_(Registry!vars)
  BY RegistryStep
<1> QED BY <1>1, <1>2, StoreInvariant, PTL DEF Spec, ImplementsRegistry, Registry!Spec

---------------------------------------------------------------------------
(* Signing in with an invite: the inductive invariant of InviteLogin       *)

(* A request that waits came from a client and carries an issued code. *)
RequestInv ==
  \A h \in Handlers : requests[h].busy => requests[h].ip \in Clients /\ requests[h].code \in Codes

(* A code that was not issued yet, or from before a rotation, is not in    *)
(* the store; an entry knows the device its code signed in, and a code     *)
(* without one can still be the first to sign one in.                      *)
CodeInv ==
  \A c \in Codes :
    /\ c > issued => minted[c] = {}
    /\ c > issued \/ c <= cleared => ~codes[c].held
    /\ codes[c].held =>
         minted[c] = IF codes[c].session = NoId THEN {} ELSE {codes[c].session}
    /\ codes[c].held /\ ~codes[c].used => codes[c].session = NoId
    /\ \A x, y \in minted[c] : x = y

(* No device was signed in by two codes. *)
MintInv ==
  /\ \A c \in Codes : \A id \in minted[c] : secrets[id] > 0
  /\ \A c, d \in Codes : c # d => minted[c] \cap minted[d] = {}

(* A cookie is for the device of the code it came with, which only this    *)
(* client may use again.                                                   *)
CookieInv ==
  \A ip \in Clients :
    cookies[ip] # NoCookie =>
      /\ cookies[ip].code \in Codes
      /\ cookies[ip].id \in minted[cookies[ip].code]
      /\ codes[cookies[ip].code].held => codes[cookies[ip].code].usedIp = ip
      /\ ip \notin missed => \/ Matches(cookies[ip].id, cookies[ip].secret)
                            \/ sessions[cookies[ip].id].status = "absent"

InviteInv == RequestInv /\ CodeInv /\ MintInv /\ CookieInv

(* A rotation clears the devices like clear does, also when there is none. *)
LEMMA RotateKeeps ==
  ASSUME TypeOK, Capacity, StoreInv, Rotate
  PROVE  TypeOK' /\ Capacity' /\ StoreInv'
<1>1. /\ dirty' /\ dirty' \in BOOLEAN /\ sessions' = [id \in Ids |-> Absent]
      /\ UNCHANGED <<approvalRequired, now, secrets, leases, hydration, saved>>
  BY DEF Rotate
<1>2. TypeOK' BY <1>1, AbsentType DEF TypeOK
<1>3. Capacity'
  <2>1. CountedIn(sessions') \subseteq CountedIn(sessions)
    BY <1>1 DEF CountedIn, Live, Held, Absent
  <2> QED BY <1>1, <2>1, CapacityShrinks
<1>4. RoomInv' BY <1>1 DEF StoreInv, RoomInv, Held
<1>5. DataInv' BY <1>1, DropKeeps DEF StoreInv
<1> QED BY <1>2, <1>3, <1>4, <1>5 DEF StoreInv

---------------------------------------------------------------------------
(* The steps of InviteLogin *)

Cookie == [id : Ids \cup {NoId}, secret : Nat, code : 0..MaxCodes]

(* The constant records have the types of codes, cookies and requests.     *)
LEMMA NoneTypes ==
  /\ NoEntry \in Entry
  /\ NoCookie \in Cookie
  /\ NoRequest \in [busy : BOOLEAN, ip : Clients \cup {Nobody}, code : 0..MaxCodes, nr : Nat]
  BY InviteAssumption DEF InviteAssumption, NoEntry, Entry, NoCookie, Cookie, NoRequest

(* An answer with a cookie changes what its client holds, or leaves the    *)
(* client with one that it missed.                                         *)
LEMMA AnswerFields ==
  ASSUME InviteTypeOK, RequestInv, NEW h \in Handlers, NEW k \in Cookie, Answer(h, k)
  PROVE  /\ requests[h].busy /\ requests[h].ip \in Clients /\ requests[h].code \in Codes
         /\ UNCHANGED <<issued, cleared, newest>>
         /\ requests' \in [Handlers -> [busy : BOOLEAN, ip : Clients \cup {Nobody},
                                        code : 0..MaxCodes, nr : Nat]]
         /\ RequestInv'
         /\ cookies' \in [Clients -> Cookie] /\ missed' \subseteq Clients
         /\ \A v \in Clients :
              v # requests[h].ip => cookies'[v] = cookies[v] /\ (v \in missed' <=> v \in missed)
         /\ \/ cookies'[requests[h].ip] = k /\ k # NoCookie
            \/ /\ cookies'[requests[h].ip] = cookies[requests[h].ip]
               /\ requests[h].ip \in missed' \/ (k = NoCookie /\ requests[h].ip \notin missed)
<1>1. requests[h].busy /\ requests[h].ip \in Clients /\ requests[h].code \in Codes
  BY DEF Answer, RequestInv
<1>2. requests' = [requests EXCEPT ![h] = NoRequest] /\ UNCHANGED <<issued, cleared, newest>>
  BY DEF Answer
<1>3. /\ requests' \in [Handlers -> [busy : BOOLEAN, ip : Clients \cup {Nobody},
                                     code : 0..MaxCodes, nr : Nat]]
      /\ RequestInv'
  BY <1>2, NoneTypes DEF InviteTypeOK, RequestInv, NoRequest
<1>4. \/ /\ k # NoCookie
         /\ cookies' = [cookies EXCEPT ![requests[h].ip] = k]
         /\ missed' \in {missed \cup {requests[h].ip}, missed \ {requests[h].ip}}
      \/ /\ UNCHANGED cookies
         /\ missed' = missed \cup {requests[h].ip} \/ (missed' = missed /\ k = NoCookie)
  BY DEF Answer
<1>5. cookies \in [Clients -> Cookie] /\ missed \subseteq Clients
  BY DEF InviteTypeOK, Cookie
<1> QED BY <1>1, <1>2, <1>3, <1>4, <1>5

(* The store keeps its invariant when it is used through invites. *)
LEMMA InviteStoreStep ==
  ASSUME TypeOK, Capacity, StoreInv, InviteTypeOK, RequestInv, [InviteNext]_allVars
  PROVE  TypeOK' /\ Capacity' /\ StoreInv'
<1>1. CASE \/ UNCHANGED vars \/ Tick \/ \E id \in Ids : Revoke(id) \/ Login(id)
  BY <1>1, StoreStep DEF Next
<1>2. ASSUME NEW h \in Handlers, RedeemAgain(h) PROVE [Next]_vars
  <2>1. codes[requests[h].code].session \in Ids \cup {NoId}
    BY <1>2 DEF RedeemAgain, RequestInv, InviteTypeOK, Entry
  <2>2. \/ UNCHANGED vars
        \/ /\ codes[requests[h].code].session # NoId
           /\ Reissue(codes[requests[h].code].session)
    BY <1>2 DEF RedeemAgain
  <2> QED BY <2>1, <2>2 DEF Next
<1>3. CASE LoginRefused BY <1>3, StoreStep DEF Next
<1> QED
  BY <1>1, <1>2, <1>3, RotateKeeps, StoreStep
  DEF InviteNext, allVars, Issue, Submit, RedeemRejected, RedeemFull, RedeemFirst


(* What an operation may do to a record without unsettling its credential *)
Steady(i) ==
  /\ secrets'[i] = secrets[i]
  /\ \/ sessions'[i] \in {Absent, sessions[i]}
     \/ /\ sessions[i].status # "absent" /\ sessions'[i].status # "absent"
        /\ sessions'[i].secret = sessions[i].secret

(* Codes that go, or that have signed in nobody, unsettle nothing either.  *)
LEMMA SteadyKeeps ==
  ASSUME TypeOK, InviteTypeOK, InviteInv, \A i \in Ids : Steady(i),
         \A c \in Codes :
           /\ \/ codes'[c] \in {codes[c], NoEntry}
              \/ minted[c] = {} /\ codes'[c].session = NoId /\ ~(c > issued') /\ ~(c <= cleared)
           /\ c > issued' => c > issued
           /\ c <= cleared' => c <= cleared \/ codes'[c] = NoEntry,
         UNCHANGED <<minted, cookies>>, RequestInv',
         missed \subseteq missed'
  PROVE  InviteInv'
<1> USE InviteAssumption DEF InviteAssumption
<1>1. CodeInv' BY DEF InviteInv, CodeInv, NoEntry, InviteTypeOK, Entry
<1>2. MintInv' BY DEF InviteInv, MintInv, Steady, InviteTypeOK
<1>3. CookieInv'
  <2> SUFFICES ASSUME NEW ip \in Clients, cookies[ip] # NoCookie
               PROVE  /\ cookies[ip].code \in Codes
                      /\ cookies[ip].id \in minted[cookies[ip].code]
                      /\ codes'[cookies[ip].code].held =>
                           codes'[cookies[ip].code].usedIp = ip
                      /\ ip \notin missed' =>
                           \/ /\ sessions'[cookies[ip].id].status # "absent"
                              /\ sessions'[cookies[ip].id].secret = cookies[ip].secret
                           \/ sessions'[cookies[ip].id].status = "absent"
    BY DEF CookieInv, Matches
  <2>2. /\ cookies[ip].code \in Codes
        /\ cookies[ip].id \in minted[cookies[ip].code]
        /\ codes[cookies[ip].code].held => codes[cookies[ip].code].usedIp = ip
        /\ ip \notin missed =>
             \/ /\ sessions[cookies[ip].id].status # "absent"
                /\ sessions[cookies[ip].id].secret = cookies[ip].secret
             \/ sessions[cookies[ip].id].status = "absent"
    BY DEF InviteInv, CookieInv, Matches
  <2>3. cookies[ip].id \in Ids BY <2>2 DEF InviteTypeOK
  <2>4. Steady(cookies[ip].id) BY <2>3
  <2> QED BY <2>2, <2>4 DEF Steady, NoEntry, Absent
<1> QED BY <1>1, <1>2, <1>3 DEF InviteInv

(* A revocation issues no credential and keeps those of the others.        *)
LEMMA RevokeSteady ==
  ASSUME TypeOK, NEW id \in Ids, Revoke(id)
  PROVE  \A i \in Ids : Steady(i)
<1>1. UNCHANGED secrets BY DEF Revoke
<1>2. \A i \in Ids : Swept[i] = IF Expired(sessions[i]) THEN Absent ELSE sessions[i]
  BY SweptFields
<1>3. \A i \in Ids : i # id => sessions'[i] = Swept[i]
  BY SweptFields DEF Revoke
<1>4. \/ sessions'[id] = Absent
      \/ /\ Swept[id].status = "pending" /\ sessions'[id].status = "rejected"
         /\ sessions'[id].secret = Swept[id].secret
  BY SweptFields DEF Revoke, Session
<1> QED BY <1>1, <1>2, <1>3, <1>4 DEF Steady, Absent

(* What a step of the invite store or of the login form preserves          *)
InviteKept == InviteTypeOK' /\ InviteInv'

(* Issuing a code keeps the invariant.                                     *)
LEMMA IssueKeeps ==
  ASSUME TypeOK, InviteTypeOK, InviteInv, Issue
  PROVE  InviteKept
<1> USE InviteAssumption DEF InviteAssumption
<1>1. /\ issued < MaxCodes /\ issued' = issued + 1
      /\ UNCHANGED <<vars, cleared, requests, cookies, newest, missed, minted>>
  BY DEF Issue
<1>2. PrunedCodes \in [Codes -> Entry] /\ \A c \in Codes : PrunedCodes[c] \in {codes[c], NoEntry}
  BY NoneTypes DEF PrunedCodes, InviteTypeOK
<1> DEFINE new == [NoEntry EXCEPT !.held = TRUE, !.expiresAt = now + TTL]
<1>3. new \in Entry /\ new.session = NoId
  <2>1. now + TTL \in Nat BY DEF TypeOK
  <2>2. NoEntry \in Entry BY NoneTypes
  <2> QED BY <2>1, <2>2 DEF Entry, NoEntry
<1>4. issued + 1 \in Codes /\ issued \in Nat /\ cleared \in Nat /\ cleared <= issued
  BY <1>1 DEF Codes, InviteTypeOK
<1>5. codes' = [PrunedCodes EXCEPT ![issued + 1] = new] BY DEF Issue
<1> HIDE DEF new
<1>6. /\ codes' \in [Codes -> Entry]
      /\ \A c \in Codes : codes'[c] = IF c = issued + 1 THEN new ELSE PrunedCodes[c]
  BY <1>2, <1>3, <1>4, <1>5
<1>7. InviteTypeOK' BY <1>1, <1>4, <1>6 DEF InviteTypeOK
<1>8. RequestInv' BY <1>1 DEF InviteInv, RequestInv
<1>9. \A i \in Ids : Steady(i) BY <1>1 DEF Steady, vars
<1>10. \A c \in Codes : c = issued + 1 => minted[c] = {}
  <2>1. \A c \in Codes : c > issued => minted[c] = {} BY DEF InviteInv, CodeInv
  <2>2. \A c \in Codes : c = issued + 1 => c > issued BY <1>4
  <2> QED BY <2>1, <2>2
<1>11. \A c \in Codes :
         /\ \/ codes'[c] \in {codes[c], NoEntry}
            \/ minted[c] = {} /\ codes'[c].session = NoId /\ ~(c > issued') /\ ~(c <= cleared)
         /\ c > issued' => c > issued
         /\ c <= cleared' => c <= cleared \/ codes'[c] = NoEntry
  BY <1>1, <1>2, <1>3, <1>4, <1>6, <1>10 DEF Codes
<1>12. InviteInv' BY <1>1, <1>8, <1>9, <1>11, SteadyKeeps
<1> QED BY <1>7, <1>12 DEF InviteKept

(* Rotating the token keeps it.                                            *)
LEMMA RotateInvites ==
  ASSUME TypeOK, InviteTypeOK, InviteInv, Rotate
  PROVE  InviteKept
<1>1. /\ sessions' = [id \in Ids |-> Absent] /\ codes' = [c \in Codes |-> NoEntry]
      /\ cleared' = issued
      /\ UNCHANGED <<secrets, issued, requests, cookies, newest, missed, minted>>
  BY DEF Rotate, CodesAfterRotation
<1>2. InviteTypeOK' BY <1>1, NoneTypes DEF InviteTypeOK
<1>3. RequestInv' BY <1>1 DEF InviteInv, RequestInv
<1>4. \A i \in Ids : Steady(i) BY <1>1 DEF Steady
<1>5. InviteInv' BY <1>1, <1>3, <1>4, SteadyKeeps
<1> QED BY <1>2, <1>5 DEF InviteKept

(* Submitting a code keeps it.                                             *)
LEMMA SubmitKeeps ==
  ASSUME TypeOK, InviteTypeOK, InviteInv,
         NEW h \in Handlers, NEW ip \in Clients, NEW c \in 1..issued, Submit(h, ip, c)
  PROVE  InviteKept
<1>1. /\ newest' = [newest EXCEPT ![ip] = @ + 1]
      /\ requests' = [requests EXCEPT ![h] =
           [busy |-> TRUE, ip |-> ip, code |-> c, nr |-> newest[ip] + 1]]
      /\ UNCHANGED <<vars, codes, issued, cleared, cookies, missed, minted>>
  BY DEF Submit
<1>2. c \in Codes /\ c \in 0..MaxCodes
  BY InviteAssumption DEF InviteAssumption, InviteTypeOK, Codes
<1>3. [busy |-> TRUE, ip |-> ip, code |-> c, nr |-> newest[ip] + 1]
        \in [busy : BOOLEAN, ip : Clients \cup {Nobody}, code : 0..MaxCodes, nr : Nat]
  BY <1>2 DEF InviteTypeOK
<1>4. newest' \in [Clients -> Nat] BY <1>1 DEF InviteTypeOK
<1>5. requests' \in [Handlers -> [busy : BOOLEAN, ip : Clients \cup {Nobody},
                                 code : 0..MaxCodes, nr : Nat]]
  BY <1>1, <1>3 DEF InviteTypeOK
<1>6. InviteTypeOK' BY <1>1, <1>4, <1>5 DEF InviteTypeOK
<1>7. RequestInv' BY <1>1, <1>2 DEF InviteInv, RequestInv, InviteTypeOK
<1>8. \A i \in Ids : Steady(i) BY <1>1 DEF Steady, vars
<1>9. InviteInv' BY <1>1, <1>7, <1>8, SteadyKeeps
<1> QED BY <1>6, <1>9 DEF InviteKept

(* Answers without a cookie: a rejected code, a store without room and a   *)
(* retry for a device that is gone.                                        *)
LEMMA NothingAnswered ==
  ASSUME InviteTypeOK, RequestInv, NEW h \in Handlers, Answer(h, NoCookie)
  PROVE  cookies' = cookies /\ missed \subseteq missed'
<1>1. cookies' \in [Clients -> Cookie] /\ cookies \in [Clients -> Cookie]
  BY AnswerFields, NoneTypes DEF InviteTypeOK, Cookie
<1>2. \A v \in Clients : cookies'[v] = cookies[v] /\ (v \in missed => v \in missed')
  BY AnswerFields, NoneTypes
<1> QED BY <1>1, <1>2 DEF InviteTypeOK

(* A code that is refused keeps it.                                        *)
LEMMA RejectedKeeps ==
  ASSUME TypeOK, InviteTypeOK, InviteInv, NEW h \in Handlers, RedeemRejected(h)
  PROVE  InviteKept
<1>1. /\ Answer(h, NoCookie) /\ UNCHANGED <<vars, minted>>
      /\ codes' = [codes EXCEPT ![requests[h].code] = NoEntry]
  BY DEF RedeemRejected
<1>2. RequestInv BY DEF InviteInv
<1>3. InviteTypeOK' BY <1>1, <1>2, AnswerFields, NoneTypes DEF InviteTypeOK, Cookie
<1>4. RequestInv' /\ UNCHANGED <<issued, cleared>> BY <1>1, <1>2, AnswerFields, NoneTypes
<1>5. \A c \in Codes : codes'[c] \in {codes[c], NoEntry} BY <1>1 DEF InviteTypeOK
<1>6. \A i \in Ids : Steady(i) BY <1>1 DEF Steady, vars
<1>7. InviteInv' BY <1>1, <1>2, <1>4, <1>5, <1>6, NothingAnswered, SteadyKeeps
<1> QED BY <1>3, <1>7 DEF InviteKept

(* The code is used up although no device was admitted. *)
LEMMA FullKeeps ==
  ASSUME TypeOK, InviteTypeOK, InviteInv, NEW h \in Handlers, RedeemFull(h)
  PROVE  InviteKept
<1> DEFINE c == requests[h].code
           ip == requests[h].ip
<1>1. /\ Answer(h, NoCookie) /\ UNCHANGED minted /\ Fresh(c)
      /\ sessions' = Swept /\ UNCHANGED <<secrets, now>>
      /\ codes' = [codes EXCEPT ![c] = Marked(codes[c], ip)]
  BY DEF RedeemFull, LoginRefused
<1>2. RequestInv BY DEF InviteInv
<1>3. c \in Codes /\ ip \in Clients BY <1>1, <1>2, AnswerFields, NoneTypes
<1>4. codes[c] \in Entry BY <1>3 DEF InviteTypeOK
<1>5. Marked(codes[c], ip) \in Entry /\ Marked(codes[c], ip).session = codes[c].session
  BY <1>3, <1>4 DEF Marked, Entry, TypeOK
<1>6. codes' \in [Codes -> Entry] BY <1>1, <1>3, <1>5 DEF InviteTypeOK
<1>7. InviteTypeOK' BY <1>1, <1>2, <1>6, AnswerFields, NoneTypes DEF InviteTypeOK, Cookie
<1>8. RequestInv' /\ UNCHANGED <<issued, cleared>> BY <1>1, <1>2, AnswerFields, NoneTypes
<1>9. /\ minted[c] = {} /\ codes[c].session = NoId /\ ~(c > issued) /\ ~(c <= cleared)
  <2>1. codes[c].held /\ ~codes[c].used BY <1>1 DEF Fresh, Valid
  <2> QED BY <1>3, <2>1 DEF InviteInv, CodeInv
<1>10. \A i \in Ids : Steady(i) BY <1>1, SweptFields DEF Steady
<1>11. \A d \in Codes : d # c => codes'[d] = codes[d] BY <1>1 DEF InviteTypeOK
<1>12. codes'[c].session = NoId BY <1>1, <1>3, <1>5, <1>9 DEF InviteTypeOK
<1>13. \A d \in Codes :
         \/ codes'[d] \in {codes[d], NoEntry}
         \/ minted[d] = {} /\ codes'[d].session = NoId /\ ~(d > issued') /\ ~(d <= cleared)
  BY <1>8, <1>9, <1>11, <1>12
<1>14. InviteInv' BY <1>1, <1>2, <1>8, <1>10, <1>13, NothingAnswered, SteadyKeeps
<1> QED BY <1>7, <1>14 DEF InviteKept

(* A device signs in: its id was never drawn before, so no code has it. *)
LEMMA FirstKeeps ==
  ASSUME TypeOK, InviteTypeOK, InviteInv, NEW h \in Handlers, NEW id \in Ids, RedeemFirst(h, id)
  PROVE  InviteKept
<1> USE InviteAssumption DEF InviteAssumption
<1>1. RequestInv /\ CodeInv /\ MintInv /\ CookieInv BY DEF InviteInv
<1>2. requests[h].busy /\ requests[h].code \in Codes /\ requests[h].ip \in Clients
  BY <1>1 DEF RedeemFirst, RequestInv
<1>3. PICK c \in Codes, ip \in Clients : c = requests[h].code /\ ip = requests[h].ip BY <1>2
<1> DEFINE k == [id |-> id, secret |-> 1, code |-> c]
<1>4. /\ Answer(h, k) /\ Fresh(c) /\ Login(id)
      /\ codes' = [codes EXCEPT ![c] = [Marked(codes[c], ip) EXCEPT !.session = id]]
      /\ minted' = [minted EXCEPT ![c] = @ \cup {id}]
  BY <1>3 DEF RedeemFirst
<1>5. k \in Cookie /\ k.id = id /\ k.secret = 1 /\ k.code = c /\ id # NoId
  BY DEF Cookie, Codes
<1>6. codes[c].held /\ ~codes[c].used BY <1>4 DEF Fresh, Valid
<1>7. /\ codes[c].session = NoId /\ minted[c] = {} /\ ~(c > issued) /\ ~(c <= cleared)
  BY <1>1, <1>6 DEF CodeInv
<1> DEFINE e == [Marked(codes[c], ip) EXCEPT !.session = id]
<1>8. e \in Entry /\ e.held /\ e.used /\ e.session = id /\ e.usedIp = ip
  <2>1. codes[c] \in Entry /\ now \in Nat BY DEF InviteTypeOK, TypeOK
  <2> QED BY <1>6, <2>1 DEF Marked, Entry
<1>9. /\ codes' \in [Codes -> Entry]
      /\ \A d \in Codes : codes'[d] = IF d = c THEN e ELSE codes[d]
  BY <1>4, <1>8 DEF InviteTypeOK
<1>10. /\ minted' \in [Codes -> SUBSET Ids]
       /\ \A d \in Codes : minted'[d] = IF d = c THEN {id} ELSE minted[d]
  BY <1>4, <1>7 DEF InviteTypeOK
<1> HIDE DEF k, e
<1>11. /\ UNCHANGED <<issued, cleared, newest>> /\ RequestInv'
       /\ requests' \in [Handlers -> [busy : BOOLEAN, ip : Clients \cup {Nobody},
                                      code : 0..MaxCodes, nr : Nat]]
       /\ cookies' \in [Clients -> Cookie] /\ missed' \subseteq Clients
       /\ \A v \in Clients : v # ip => cookies'[v] = cookies[v] /\ (v \in missed' <=> v \in missed)
       /\ cookies'[ip] = k \/ (cookies'[ip] = cookies[ip] /\ (ip \in missed => ip \in missed'))
  BY <1>1, <1>3, <1>4, <1>5, AnswerFields
<1>12. InviteTypeOK' BY <1>9, <1>10, <1>11 DEF InviteTypeOK, Cookie
<1>13. /\ secrets[id] = 0 /\ \A i \in Ids : secrets'[i] = IF i = id THEN 1 ELSE secrets[i]
       /\ \A i \in Ids : i # id => sessions'[i] \in {Absent, sessions[i]}
       /\ sessions'[id].status # "absent" /\ sessions'[id].secret = 1
  BY <1>4, LoginFields
<1>14. CodeInv'
  <2> SUFFICES ASSUME NEW d \in Codes
               PROVE  /\ d > issued => minted'[d] = {}
                      /\ d > issued \/ d <= cleared => ~codes'[d].held
                      /\ codes'[d].held =>
                           minted'[d] = IF codes'[d].session = NoId THEN {}
                                        ELSE {codes'[d].session}
                      /\ codes'[d].held /\ ~codes'[d].used => codes'[d].session = NoId
                      /\ \A x, y \in minted'[d] : x = y
    BY <1>11 DEF CodeInv
  <2>1. CASE d = c
    <3>1. codes'[d] = e /\ minted'[d] = {id} BY <1>9, <1>10, <2>1
    <3> QED BY <1>5, <1>7, <1>8, <2>1, <3>1
  <2>2. CASE d # c
    <3>1. codes'[d] = codes[d] /\ minted'[d] = minted[d] BY <1>9, <1>10, <2>2
    <3> QED BY <1>1, <3>1 DEF CodeInv
  <2> QED BY <2>1, <2>2
<1>15. \A d \in Codes : id \notin minted[d] BY <1>1, <1>13 DEF MintInv
<1>16. MintInv'
  <2>1. ASSUME NEW d \in Codes, NEW i \in minted'[d] PROVE secrets'[i] > 0
    <3>1. minted[d] \subseteq Ids BY DEF InviteTypeOK
    <3>2. CASE i = id BY <1>13, <3>2
    <3>3. CASE i # id BY <1>1, <1>10, <1>13, <2>1, <3>1, <3>3 DEF MintInv
    <3> QED BY <3>2, <3>3
  <2>2. ASSUME NEW d \in Codes, NEW f \in Codes, d # f PROVE minted'[d] \cap minted'[f] = {}
    <3>1. minted[d] \cap minted[f] = {} BY <1>1, <2>2 DEF MintInv
    <3>2. id \notin minted[d] /\ id \notin minted[f] BY <1>15
    <3> QED BY <1>10, <2>2, <3>1, <3>2
  <2> QED BY <2>1, <2>2 DEF MintInv
<1>17. CookieInv'
  <2>1. ASSUME NEW v \in Clients, cookies'[v] = cookies[v], v \in missed => v \in missed',
               cookies[v] # NoCookie
        PROVE  /\ cookies'[v].code \in Codes
               /\ cookies'[v].id \in minted'[cookies'[v].code]
               /\ codes'[cookies'[v].code].held => codes'[cookies'[v].code].usedIp = v
               /\ v \notin missed' => \/ Matches(cookies[v].id, cookies[v].secret)'
                                     \/ sessions'[cookies'[v].id].status = "absent"
    <3>1. /\ cookies[v].id \in Ids /\ cookies[v].code \in Codes
          /\ cookies[v].id \in minted[cookies[v].code]
          /\ codes[cookies[v].code].held => codes[cookies[v].code].usedIp = v
          /\ v \notin missed =>
               \/ /\ sessions[cookies[v].id].status # "absent"
                  /\ sessions[cookies[v].id].secret = cookies[v].secret
               \/ sessions[cookies[v].id].status = "absent"
      BY <1>1, <2>1 DEF CookieInv, InviteTypeOK, Matches
    <3>2. cookies[v].id # id /\ cookies[v].code # c BY <1>7, <1>15, <3>1
    <3>3. sessions'[cookies[v].id] \in {Absent, sessions[cookies[v].id]} BY <1>13, <3>1, <3>2
    <3> QED BY <1>9, <1>10, <2>1, <3>1, <3>2, <3>3 DEF Matches, Absent
  <2>2. CASE cookies'[ip] = k
    <3>1. /\ cookies'[ip].code \in Codes /\ cookies'[ip].id \in minted'[cookies'[ip].code]
          /\ codes'[cookies'[ip].code].usedIp = ip
          /\ Matches(cookies[ip].id, cookies[ip].secret)'
      BY <1>5, <1>8, <1>9, <1>10, <1>13, <2>2 DEF Matches
    <3> QED BY <1>11, <2>1, <3>1 DEF CookieInv
  <2>3. CASE cookies'[ip] = cookies[ip] /\ (ip \in missed => ip \in missed')
    BY <1>11, <2>1, <2>3 DEF CookieInv
  <2> QED BY <1>11, <2>2, <2>3
<1>18. InviteInv' BY <1>11, <1>14, <1>16, <1>17 DEF InviteInv
<1> QED BY <1>12, <1>18 DEF InviteKept

(* A retry of the client that used the code: nobody else holds a cookie    *)
(* for the device, and the client gets the new one or misses it.           *)
LEMMA AgainKeeps ==
  ASSUME TypeOK, InviteTypeOK, InviteInv, NEW h \in Handlers, RedeemAgain(h)
  PROVE  InviteKept
<1> USE InviteAssumption DEF InviteAssumption
<1>1. RequestInv /\ CodeInv /\ MintInv /\ CookieInv BY DEF InviteInv
<1>2. requests[h].busy /\ requests[h].code \in Codes /\ requests[h].ip \in Clients
  BY <1>1 DEF RedeemAgain, RequestInv
<1>3. PICK c \in Codes, ip \in Clients : c = requests[h].code /\ ip = requests[h].ip BY <1>2
<1>4. /\ codes[c].held /\ codes[c].used /\ codes[c].usedIp = ip
      /\ UNCHANGED <<codes, minted>>
  BY <1>3 DEF RedeemAgain, Retry, Valid
<1>5. CASE Answer(h, NoCookie) /\ \A i \in Ids : Steady(i)
  <2>1. InviteTypeOK' BY <1>1, <1>4, <1>5, AnswerFields, NoneTypes DEF InviteTypeOK, Cookie
  <2>2. RequestInv' /\ UNCHANGED <<issued, cleared>> BY <1>1, <1>5, AnswerFields, NoneTypes
  <2>3. InviteInv' BY <1>1, <1>4, <1>5, <2>2, NothingAnswered, SteadyKeeps
  <2> QED BY <2>1, <2>3 DEF InviteKept
<1>6. ASSUME NEW id \in Ids, id = codes[c].session, id \in Live(Swept), Reissue(id),
             Answer(h, [id |-> id, secret |-> secrets[id] + 1, code |-> c])
      PROVE  InviteKept
  <2> DEFINE k == [id |-> id, secret |-> secrets[id] + 1, code |-> c]
  <2>1. k \in Cookie /\ k.id = id /\ k.secret = secrets[id] + 1 /\ k.code = c /\ k # NoCookie
    <3>1. c \in 0..MaxCodes /\ secrets[id] + 1 \in Nat BY DEF Codes, TypeOK
    <3> QED BY <3>1 DEF Cookie, NoCookie
  <2>2. Answer(h, k) BY <1>6
  <2>3. minted[c] = {id} /\ \A d \in Codes : d # c => id \notin minted[d]
    <3>1. minted[c] = {id} BY <1>1, <1>4, <1>6 DEF CodeInv
    <3>2. \A d \in Codes : d # c => minted[c] \cap minted[d] = {} BY <1>1 DEF MintInv
    <3> QED BY <3>1, <3>2
  <2>4. /\ \A i \in Ids : secrets'[i] = IF i = id THEN secrets[id] + 1 ELSE secrets[i]
        /\ \A i \in Ids : i # id => sessions'[i] \in {Absent, sessions[i]}
        /\ sessions'[id].status # "absent" /\ sessions'[id].secret = k.secret
    BY <1>6, <2>1, RenewFields
  <2> HIDE DEF k
  <2>5. /\ UNCHANGED <<issued, cleared, newest>> /\ RequestInv'
        /\ requests' \in [Handlers -> [busy : BOOLEAN, ip : Clients \cup {Nobody},
                                       code : 0..MaxCodes, nr : Nat]]
        /\ cookies' \in [Clients -> Cookie] /\ missed' \subseteq Clients
        /\ \A v \in Clients :
             v # ip => cookies'[v] = cookies[v] /\ (v \in missed' <=> v \in missed)
        /\ cookies'[ip] = k \/ (cookies'[ip] = cookies[ip] /\ ip \in missed')
    BY <1>1, <1>3, <2>1, <2>2, AnswerFields
  <2>6. InviteTypeOK' BY <1>4, <2>5 DEF InviteTypeOK, Cookie
  <2>7. CodeInv' BY <1>1, <1>4, <2>5 DEF CodeInv
  <2>8. MintInv'
    <3>1. ASSUME NEW d \in Codes, NEW i \in minted[d] PROVE secrets'[i] > 0
      <4>1. i \in Ids /\ secrets[i] \in Nat BY DEF InviteTypeOK, TypeOK
      <4> QED BY <1>1, <2>4, <3>1, <4>1 DEF MintInv
    <3> QED BY <1>1, <1>4, <3>1 DEF MintInv
  <2>9. CookieInv'
    <3> SUFFICES ASSUME NEW v \in Clients, cookies'[v] # NoCookie
                 PROVE  /\ cookies'[v].code \in Codes
                        /\ cookies'[v].id \in minted[cookies'[v].code]
                        /\ codes[cookies'[v].code].held => codes[cookies'[v].code].usedIp = v
                        /\ v \notin missed' =>
                             \/ /\ sessions'[cookies'[v].id].status # "absent"
                                /\ sessions'[cookies'[v].id].secret = cookies'[v].secret
                             \/ sessions'[cookies'[v].id].status = "absent"
      BY <1>4 DEF CookieInv, Matches
    <3>1. CASE v = ip /\ cookies'[ip] = k BY <1>4, <2>1, <2>3, <2>4, <3>1
    <3>2. CASE cookies'[v] = cookies[v] /\ (v = ip => v \in missed')
      <4>1. /\ cookies[v].id \in Ids /\ cookies[v].code \in Codes
            /\ cookies[v].id \in minted[cookies[v].code]
            /\ codes[cookies[v].code].held => codes[cookies[v].code].usedIp = v
            /\ v \notin missed =>
                 \/ /\ sessions[cookies[v].id].status # "absent"
                    /\ sessions[cookies[v].id].secret = cookies[v].secret
                 \/ sessions[cookies[v].id].status = "absent"
        BY <1>1, <3>2 DEF CookieInv, InviteTypeOK, Matches
      <4>2. CASE v = ip BY <3>2, <4>1, <4>2
      <4>3. CASE v # ip
        <5>1. cookies[v].code # c BY <1>4, <4>1, <4>3
        <5>2. cookies[v].id # id BY <2>3, <4>1, <5>1
        <5>3. sessions'[cookies[v].id] \in {Absent, sessions[cookies[v].id]}
          BY <2>4, <4>1, <5>2
        <5> QED BY <2>5, <3>2, <4>1, <4>3, <5>3 DEF Absent
      <4> QED BY <4>2, <4>3
    <3> QED BY <2>5, <3>1, <3>2
  <2>10. InviteInv' BY <2>5, <2>7, <2>8, <2>9 DEF InviteInv
  <2> QED BY <2>6, <2>10 DEF InviteKept
<1>7. CASE codes[c].session = NoId
  <2>1. UNCHANGED vars /\ Answer(h, NoCookie) BY <1>3, <1>7 DEF RedeemAgain
  <2>2. \A i \in Ids : Steady(i) BY <2>1 DEF Steady, vars
  <2> QED BY <1>5, <2>1, <2>2
<1>8. ASSUME NEW id \in Ids, id = codes[c].session PROVE InviteKept
  <2>1. id # NoId BY <1>8
  <2>2. /\ Reissue(id)
        /\ Answer(h, IF id \in Live(Swept)
                       THEN [id |-> id, secret |-> secrets[id] + 1, code |-> c] ELSE NoCookie)
    BY <1>3, <1>8, <2>1 DEF RedeemAgain
  <2>3. CASE id \in Live(Swept) BY <1>6, <1>8, <2>2, <2>3
  <2>4. CASE id \notin Live(Swept)
    <3>1. sessions' = Swept /\ UNCHANGED secrets BY <2>2, <2>4 DEF Reissue
    <3>2. \A i \in Ids : Steady(i) BY <3>1, SweptFields DEF Steady
    <3> QED BY <1>5, <2>2, <2>4, <3>2
  <2> QED BY <2>3, <2>4
<1>9. codes[c].session \in Ids \cup {NoId} BY DEF InviteTypeOK, Entry
<1> QED BY <1>7, <1>8, <1>9

(* No invite was issued and no cookie was given when the program starts. *)
LEMMA InviteStart ==
  ASSUME InviteInit
  PROVE  InviteTypeOK /\ InviteInv
<1> USE InviteAssumption DEF InviteAssumption
<1>1. InviteTypeOK BY NoneTypes DEF InviteInit, InviteTypeOK, Cookie, Codes
<1>2. RequestInv BY DEF InviteInit, RequestInv, NoRequest
<1>3. CodeInv BY DEF InviteInit, CodeInv, NoEntry
<1>4. MintInv BY DEF InviteInit, MintInv
<1>5. CookieInv BY DEF InviteInit, CookieInv, NoCookie
<1> QED BY <1>1, <1>2, <1>3, <1>4, <1>5 DEF InviteInv

(* Every step of the invite logins keeps the invariant.                    *)
LEMMA InviteStep ==
  ASSUME TypeOK, InviteTypeOK, InviteInv, [InviteNext]_allVars
  PROVE  InviteKept
<1>1. ASSUME \/ UNCHANGED allVars
             \/ Tick /\ UNCHANGED inviteVars
             \/ \E id \in Ids : Revoke(id) /\ UNCHANGED inviteVars
      PROVE  InviteKept
  <2>1. UNCHANGED inviteVars BY <1>1 DEF allVars
  <2>2. \A i \in Ids : Steady(i)
    BY <1>1, RevokeSteady DEF allVars, vars, Tick, Steady
  <2>3. InviteTypeOK' BY <2>1 DEF inviteVars, InviteTypeOK
  <2>4. RequestInv' BY <2>1 DEF inviteVars, InviteInv, RequestInv
  <2>5. UNCHANGED <<codes, issued, cleared, minted, cookies, missed>> BY <2>1 DEF inviteVars
  <2>6. InviteInv' BY <2>2, <2>4, <2>5, SteadyKeeps
  <2> QED BY <2>3, <2>6 DEF InviteKept
<1>2. CASE Issue BY <1>2, IssueKeeps
<1>6. CASE Rotate BY <1>6, RotateInvites
<1>3. ASSUME NEW h \in Handlers, NEW ip \in Clients, NEW c \in 1..issued, Submit(h, ip, c)
      PROVE  InviteKept
  BY <1>3, SubmitKeeps
<1>4. ASSUME NEW h \in Handlers, RedeemRejected(h) \/ RedeemFull(h) \/ RedeemAgain(h)
      PROVE  InviteKept
  BY <1>4, RejectedKeeps, FullKeeps, AgainKeeps
<1>5. ASSUME NEW h \in Handlers, NEW id \in Ids, RedeemFirst(h, id) PROVE InviteKept
  BY <1>5, FirstKeeps
<1> HIDE DEF InviteKept
<1>7. CASE InviteNext BY <1>1, <1>2, <1>3, <1>4, <1>5, <1>6, <1>7 DEF InviteNext
<1> QED BY <1>1, <1>7

InviteState == TypeOK /\ Capacity /\ StoreInv /\ InviteTypeOK /\ InviteInv

(* Every reachable state of the invites and of the store under them        *)
(* satisfies the invariant.                                                *)
THEOREM InviteInvariant == InviteSpec => []InviteState
<1>1. InviteInit => InviteState
  BY InviteStart, TypeInit, CapacityInit, StoreInit DEF InviteInit, InviteState
<1>2. InviteState /\ [InviteNext]_allVars => InviteState'
  BY InviteStoreStep, InviteStep DEF InviteState, InviteKept, InviteInv
<1> QED BY <1>1, <1>2, PTL DEF InviteSpec

(* "Each code is single-use" (invites.ts:4): no overlap of first uses,     *)
(* retries and full stores makes one code sign in two devices.             *)
THEOREM OneDevicePerCodeHolds == InviteSpec => []OneDevicePerCode
<1>1. ASSUME InviteState, NEW c \in Codes PROVE Cardinality(minted[c]) <= 1
  <2>1. \A x, y \in minted[c] : x = y
    BY <1>1 DEF InviteState, InviteInv, CodeInv
  <2>2. CASE minted[c] = {} BY <2>2, FS_EmptySet
  <2>3. ASSUME NEW x \in minted[c] PROVE Cardinality(minted[c]) <= 1
    <3>1. minted[c] = {x} BY <2>1, <2>3
    <3>2. Cardinality({x}) = 1 BY FS_Singleton
    <3> QED BY <3>1, <3>2
  <2> QED BY <2>2, <2>3
<1>2. InviteState => OneDevicePerCode BY <1>1 DEF OneDevicePerCode
<1> QED BY <1>2, InviteInvariant, PTL

(* The cookie a client holds works for as long as the store has its        *)
(* device, but for a client that was sent a newer one and did not keep it: *)
(* its own requests alone renew the secret. (invites.ts:80, proxy.ts:723)  *)
THEOREM LatestCookieWorksHolds == InviteSpec => []LatestCookieWorks
<1>1. InviteState => LatestCookieWorks
  BY DEF InviteState, InviteInv, CookieInv, LatestCookieWorks
<1> QED BY <1>1, InviteInvariant, PTL

(* The devices of cleared codes are left alone by every step. *)
LEMMA ClearedStep ==
  ASSUME InviteState, [InviteNext]_allVars, NEW c \in 1..cleared
  PROVE  minted'[c] = minted[c] /\ \A id \in minted[c] : secrets'[id] = secrets[id]
<1> USE InviteAssumption DEF InviteAssumption
<1>1. TypeOK /\ InviteTypeOK /\ RequestInv /\ CodeInv /\ MintInv
  BY DEF InviteState, InviteInv
<1>2. c \in Codes /\ c <= cleared BY <1>1 DEF InviteTypeOK, Codes
<1>3. ~codes[c].held /\ minted[c] \subseteq Ids /\ \A id \in minted[c] : secrets[id] > 0
  BY <1>1, <1>2 DEF CodeInv, MintInv, InviteTypeOK
<1>4. CASE UNCHANGED <<minted, secrets>> BY <1>4
<1>5. ASSUME NEW h \in Handlers, NEW i \in Ids, RedeemFirst(h, i)
      PROVE  minted'[c] = minted[c] /\ \A id \in minted[c] : secrets'[id] = secrets[id]
  <2>1. requests[h].code # c BY <1>3, <1>5 DEF RedeemFirst, Fresh, Valid
  <2>2. minted'[c] = minted[c] BY <1>1, <1>2, <1>5, <2>1 DEF RedeemFirst, InviteTypeOK
  <2>3. secrets[i] = 0 /\ \A j \in Ids : j # i => secrets'[j] = secrets[j]
    BY <1>1, <1>5, LoginFields DEF RedeemFirst
  <2>4. i \notin minted[c] BY <1>3, <2>3
  <2> QED BY <1>3, <2>2, <2>3, <2>4
<1>6. ASSUME NEW h \in Handlers, RedeemAgain(h)
      PROVE  minted'[c] = minted[c] /\ \A id \in minted[c] : secrets'[id] = secrets[id]
  <2>1. PICK d \in Codes : d = requests[h].code BY <1>1, <1>6 DEF RedeemAgain, RequestInv
  <2>2. codes[d].held /\ d # c /\ UNCHANGED minted
    BY <1>3, <1>6, <2>1 DEF RedeemAgain, Retry, Valid
  <2>3. CASE codes[d].session = NoId
    BY <1>4, <1>6, <2>1, <2>2, <2>3 DEF RedeemAgain, vars
  <2>4. CASE codes[d].session # NoId
    <3>1. codes[d].session \in Ids BY <1>1, <2>4 DEF InviteTypeOK, Entry
    <3>2. PICK i \in Ids : i = codes[d].session BY <3>1
    <3>3. Reissue(i) BY <1>6, <2>1, <2>4, <3>2 DEF RedeemAgain
    <3>4. i \notin minted[c]
      <4>1. minted[d] = {i} BY <1>1, <2>2, <2>4, <3>2 DEF CodeInv
      <4>2. minted[d] \cap minted[c] = {} BY <1>1, <1>2, <2>2 DEF MintInv
      <4> QED BY <4>1, <4>2
    <3>5. \A j \in Ids : j # i => secrets'[j] = secrets[j] BY <1>1, <3>3 DEF Reissue, TypeOK
    <3> QED BY <1>3, <2>2, <3>4, <3>5
  <2> QED BY <2>3, <2>4
<1> QED
  BY <1>4, <1>5, <1>6
  DEF InviteNext, allVars, vars, inviteVars, Tick, Issue, Rotate, Revoke, Submit, RedeemRejected,
      RedeemFull, LoginRefused

(* "rotating the token clears every outstanding invite" (invites.ts:5): no *)
(* code of before the rotation signs in a device or renews one after it.   *)
THEOREM RotationEndsInvitesHolds == InviteSpec => RotationEndsInvites
<1>1. InviteState /\ [InviteNext]_allVars =>
        [\A c \in 1..cleared : minted'[c] = minted[c]
           /\ \A id \in minted[c] : secrets'[id] = secrets[id]]_allVars
  BY ClearedStep
<1> QED BY <1>1, InviteInvariant, PTL DEF InviteSpec, RotationEndsInvites
===========================================================================
