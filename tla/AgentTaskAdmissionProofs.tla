------------------------ MODULE AgentTaskAdmissionProofs ------------------------
(***************************************************************************)
(* How far the limit on active tasks can be exceeded, for every set of     *)
(* names, every limit and every lag of the webhook's list.                 *)
(***************************************************************************)
EXTENDS AgentTaskAdmission, WatchCacheProofs, FiniteSetTheorems

\* Sets of names are finite, and a smaller one has no more elements.
LEMMA NameSets ==
    ASSUME NEW S, S \subseteq Names, NEW T, T \subseteq S
    PROVE  /\ IsFiniteSet(S) /\ Cardinality(S) \in Nat
           /\ Cardinality(T) \in Nat /\ Cardinality(T) <= Cardinality(S)
<1>1. IsFiniteSet(S) /\ IsFiniteSet(T)
  BY NamesAssumption, FS_Subset
<1> QED  BY <1>1, FS_Subset, FS_CardinalityType

\* What one admission can add to a set: what it counted, what it did not see, and
\* itself.
LEMMA AdmissionCount ==
    ASSUME NEW S, NEW U, S \subseteq Names, U \subseteq Names, NEW n \in Names
    PROVE  Cardinality((S \cup U) \cup {n}) <= Cardinality(S) + Cardinality(U) + 1
<1>1. /\ IsFiniteSet(S) /\ IsFiniteSet(U) /\ Cardinality(S) \in Nat
      /\ Cardinality(U) \in Nat
  BY NameSets
<1>2. /\ IsFiniteSet(S \cup U) /\ Cardinality(S \cup U) \in Nat
      /\ Cardinality(S \cap U) \in Nat
  BY NameSets
<1>3. Cardinality(S \cup U) <= Cardinality(S) + Cardinality(U)
  <2>1. Cardinality(S \cup U)
          = Cardinality(S) + Cardinality(U) - Cardinality(S \cap U)
    BY <1>1, FS_Union, Zenon
  <2> QED  BY <1>1, <1>2, <2>1
<1>4. Cardinality((S \cup U) \cup {n}) <= Cardinality(S \cup U) + 1
  <2>1. Cardinality((S \cup U) \cup {n})
          = IF n \in S \cup U THEN Cardinality(S \cup U) ELSE Cardinality(S \cup U) + 1
    BY <1>2, FS_AddElement, Zenon
  <2> QED  BY <1>2, <2>1
<1>5. Cardinality((S \cup U) \cup {n}) \in Nat
  BY NameSets
<1> QED  BY <1>1, <1>2, <1>3, <1>4, <1>5

\* No step but an admission makes a task hold a place that it did not hold.
LEMMA OccupiedStep ==
    ASSUME TypeOK, [Next]_vars
    PROVE  /\ TypeOK'
           /\ \/ Occupied' \subseteq Occupied /\ blind' = blind
              \/ \E n \in Names : Admit(n)
<1>1. /\ listLog \in Seq(Namespace) /\ listLog # <<>>
      /\ request \in [Names -> {"none", "sent", "admitted"}] /\ blind \in Nat
      /\ Stored(listLog) \in Namespace
  BY LogReads DEF TypeOK
<1> DEFINE next(n, p) == [Stored(listLog) EXCEPT ![n] = p]
<1>2. ASSUME NEW n \in Names, NEW p \in Phases \cup {"absent"},
             listLog' = Write(listLog, next(n, p)), blind' = blind,
             request' \in [Names -> {"none", "sent", "admitted"}]
      PROVE  TypeOK' /\ Stored(listLog)' = next(n, p)
  <2>1. next(n, p) \in Namespace
    BY <1>1 DEF Namespace
  <2> QED  BY <1>1, <1>2, <2>1, LogWrite DEF TypeOK
<1>3. ASSUME NEW n \in Names, SubmitTask(n) \/ Refuse(n)
      PROVE  TypeOK' /\ Occupied' \subseteq Occupied /\ blind' = blind
  BY <1>1, <1>3 DEF SubmitTask, Refuse, TypeOK, Occupied
<1>4. ASSUME NEW n \in Names, Admit(n)
      PROVE  TypeOK'
  <2>1. Cardinality(Unseen) \in Nat
    BY NameSets DEF Unseen, Occupied
  <2> QED  BY <1>1, <1>4, <2>1 DEF Admit, TypeOK
<1>5. ASSUME NEW n \in Names, StoreTask(n)
      PROVE  TypeOK' /\ Occupied' \subseteq Occupied /\ blind' = blind
  <2>1. /\ request[n] = "admitted" /\ blind' = blind
        /\ request' = [request EXCEPT ![n] = "none"]
        /\ request' \in [Names -> {"none", "sent", "admitted"}]
    BY <1>1, <1>5 DEF StoreTask
  <2>2. CASE Stored(listLog)[n] = "absent"
    <3>1. listLog' = Write(listLog, next(n, "")) /\ "" \in Phases
      BY <1>5, <2>2, PhasesAssumption DEF StoreTask
    <3>2. TypeOK' /\ Stored(listLog)' = next(n, "")
      BY <1>2, <2>1, <3>1
    <3> QED  BY <1>1, <2>1, <3>2 DEF Occupied, Namespace
  <2>3. CASE Stored(listLog)[n] # "absent"
    BY <1>1, <1>5, <2>1, <2>3 DEF StoreTask, TypeOK, Occupied
  <2> QED  BY <2>2, <2>3
<1>6. ASSUME NEW n \in Names, Advance(n)
      PROVE  TypeOK' /\ Occupied' \subseteq Occupied /\ blind' = blind
  <2>1. PICK p \in Phases :
            /\ Stored(listLog)[n] \in Terminal => p \in Terminal
            /\ listLog' = Write(listLog, next(n, p))
    BY <1>6 DEF Advance
  <2>2. Stored(listLog)[n] # "absent" /\ request' = request /\ blind' = blind
    BY <1>6 DEF Advance
  <2>3. TypeOK' /\ Stored(listLog)' = next(n, p)
    BY <1>1, <1>2, <2>1, <2>2
  <2> QED  BY <1>1, <2>1, <2>2, <2>3 DEF Occupied, Namespace
<1>7. ASSUME NEW n \in Names, Remove(n)
      PROVE  TypeOK' /\ Occupied' \subseteq Occupied /\ blind' = blind
  <2>1. /\ listLog' = Write(listLog, next(n, "absent"))
        /\ request' = request /\ blind' = blind
    BY <1>7 DEF Remove
  <2>2. TypeOK' /\ Stored(listLog)' = next(n, "absent")
    BY <1>1, <1>2, <2>1
  <2> QED  BY <1>1, <2>1, <2>2 DEF Occupied, Namespace
<1>8. CASE DeliverList
  <2>1. /\ listLog' \in Seq(Namespace) /\ listLog' # <<>>
        /\ Stored(listLog)' = Stored(listLog) /\ request' = request /\ blind' = blind
    BY <1>1, <1>8, LogDeliver DEF DeliverList
  <2> QED  BY <1>1, <2>1 DEF TypeOK, Occupied
<1>9. CASE UNCHANGED vars
  BY <1>1, <1>9 DEF vars, TypeOK, Occupied
<1> QED  BY <1>3, <1>4, <1>5, <1>6, <1>7, <1>8, <1>9 DEF Next

\* An admission saw room for one more among the tasks it counted.
LEMMA AdmitBounded ==
    ASSUME TypeOK, NEW n \in Names, Admit(n)
    PROVE  LimitUpToUnseen'
<1> DEFINE S == activeTasks(Cached(listLog))
<1>1. S \subseteq Names /\ Unseen \subseteq Names /\ Occupied \subseteq Names
  BY DEF activeTasks, Unseen, Occupied
<1>2. /\ Cardinality(S) \in Nat /\ Cardinality(Unseen) \in Nat
      /\ Cardinality(S) < MaxActiveTasks
  BY <1>1, NameSets DEF Admit, withinLimit, activeCount
<1>3. Cardinality(Unseen) <= blind' /\ blind' \in Nat
  BY <1>2 DEF Admit, TypeOK
<1>4. Occupied' \subseteq (S \cup Unseen) \cup {n}
  BY DEF Admit, Occupied, Unseen, TypeOK
<1>5. /\ Cardinality(Occupied') <= Cardinality((S \cup Unseen) \cup {n})
      /\ Cardinality(Occupied') \in Nat
      /\ Cardinality((S \cup Unseen) \cup {n}) \in Nat
  BY <1>1, <1>4, NameSets
<1>6. Cardinality((S \cup Unseen) \cup {n})
        <= Cardinality(S) + Cardinality(Unseen) + 1
  BY <1>1, AdmissionCount
<1> QED  BY <1>2, <1>3, <1>5, <1>6, LimitAssumption DEF LimitUpToUnseen

\* The limit of ValidateCreate, for any number of overlapping creations and any
\* lag: it is exceeded by no more tasks than some admission could not see.
THEOREM LimitCorrect == Spec => []LimitUpToUnseen
<1> DEFINE Inv == TypeOK /\ LimitUpToUnseen
<1>1. Init => Inv
  <2> SUFFICES ASSUME Init PROVE Inv
    OBVIOUS
  <2>1. TypeOK
    BY DEF Init, TypeOK, Namespace
  <2>2. Occupied = {} /\ blind = 0
    BY DEF Init, Occupied, Stored
  <2> QED  BY <2>1, <2>2, FS_EmptySet, LimitAssumption DEF LimitUpToUnseen
<1>2. Inv /\ [Next]_vars => Inv'
  <2> SUFFICES ASSUME Inv, [Next]_vars PROVE Inv'
    OBVIOUS
  <2>1. TypeOK'
    BY OccupiedStep
  <2>2. CASE Occupied' \subseteq Occupied /\ blind' = blind
    <3>1. /\ Cardinality(Occupied') <= Cardinality(Occupied)
          /\ Cardinality(Occupied') \in Nat /\ Cardinality(Occupied) \in Nat
      <4>1. Occupied \subseteq Names
        BY DEF Occupied
      <4> QED  BY <2>2, <4>1, NameSets
    <3> QED  BY <2>1, <2>2, <3>1, LimitAssumption DEF LimitUpToUnseen, TypeOK
  <2>3. ASSUME NEW n \in Names, Admit(n)
        PROVE  Inv'
    BY <2>1, <2>3, AdmitBounded
  <2> QED  BY <2>2, <2>3, OccupiedStep
<1>3. Inv => LimitUpToUnseen
  OBVIOUS
<1> QED  BY <1>1, <1>2, <1>3, PTL DEF Spec
=================================================================================
