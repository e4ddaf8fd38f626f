----------------------- MODULE SessionRegistryProofs -----------------------
(* Theorems of SessionRegistry for every set of objects, ids and callers. *)
EXTENDS SessionRegistry, FiniteSetTheorems, TLAPS

(***************************************************************************)
(* The inductive invariant.  Types: as TypeOK, with integers for the        *)
(* counts, which are natural because of ReferencesCounted.  Gone: what is   *)
(* left of an object that does not exist.  IdsDiffer: only sessions without *)
(* an id share one.                                                        *)
(***************************************************************************)
Types ==
  /\ serialized \in BOOLEAN
  /\ phase \in [Objects -> Phases]
  /\ id \in [Objects -> AllIds]
  /\ usable \in SUBSET Objects
  /\ owned \in SUBSET Objects
  /\ refs \in [Objects -> Int]
  /\ keys \in [AllIds -> Objects \cup {None}]
  /\ pc \in [Callers -> Stages]
  /\ found \in [Callers -> AllIds]
  /\ result \in [Callers -> Objects \cup {None}]

Results ==
  \A c \in Callers : result[c] \in Objects <=> pc[c] \in {"read", "holds"}

Gone ==
  \A o \in Objects : /\ ~Exists(o) => refs[o] = 0 /\ id[o] = NoId
                     /\ o \in owned => phase[o] = "live"

IdsDiffer ==
  \A o, p \in Objects : o # p /\ Exists(o) /\ Exists(p) /\ id[o] = id[p] => id[o] = NoId

Base == Types /\ Results /\ Gone

Registry == EntriesAreWhole /\ DistinctIdsAreListed /\ IdsDiffer

IInv == Base /\ Registry /\ ReferencesCounted

\* ReferencesCounted, of one object.
Counted(o) ==
  Exists(o) =>
    refs[o] = Cardinality(Referrers(o))
              + (IF o \in owned \/ phase[o] \in {"created", "built"} THEN 1 ELSE 0)

\* Steps of a caller that touch no object and no reference.
Quiet(c) ==
  GetSession(c) \/ ScanFinds(c) \/ ScanMisses(c) \/ TimeLeft(c) \/ TimeOut(c) \/ FinishNull(c)

-----------------------------------------------------------------------------
\* References are held by finitely many callers.
LEMMA ReferrersFinite ==
  ASSUME NEW o \in Objects
  PROVE  /\ IsFiniteSet(Referrers(o))
         /\ Cardinality(Referrers(o)) \in Nat
         /\ Referrers(o) # {} => Cardinality(Referrers(o)) >= 1
<1>1. Referrers(o) \in SUBSET Callers
  BY DEF Referrers
<1>2. IsFiniteSet(Referrers(o))
  BY <1>1, FS_Subset, RegistryAssumption
<1>3. Cardinality(Referrers(o)) \in Nat
  BY <1>2, FS_CardinalityType
<1>4. Cardinality(Referrers(o)) = 0 <=> Referrers(o) = {}
  BY <1>2, FS_EmptySet
<1>5. QED
  BY <1>2, <1>3, <1>4

\* Types, results and what is left of deleted objects.
LEMMA BaseStep ==
  ASSUME Base, ReferencesCounted, [Next]_vars
  PROVE  Base'
<1> USE RegistryAssumption DEF Types, Results, Gone, Base, Exists, Alive, Phases, Stages, AllIds, objectVars, callerVars
<1>1. ASSUME NEW o \in Objects, NEW i \in AllIds, Create(o, i)
      PROVE Base'
  BY <1>1 DEF Create
<1>2. ASSUME NEW o \in Objects, CreateFails(o)
      PROVE Base'
  BY <1>2 DEF CreateFails
<1>3. ASSUME NEW o \in Objects, AddSession(o)
      PROVE Base'
  BY <1>3 DEF AddSession
<1>4. ASSUME NEW o \in Objects, Construct(o)
      PROVE Base'
  BY <1>4 DEF Construct
<1>5. ASSUME NEW o \in Objects, ConstructFails(o)
      PROVE Base'
  BY <1>5 DEF ConstructFails, DropReference
<1>6. ASSUME NEW o \in Objects, KeyStatusChanges(o)
      PROVE Base'
  BY <1>6 DEF KeyStatusChanges
<1>7. ASSUME NEW o \in Objects, Destruct(o)
      PROVE Base'
  BY <1>7 DEF Destruct, DropReference
<1>8. ASSUME NEW o \in Objects, RemoveSession(o)
      PROVE Base'
  BY <1>8 DEF RemoveSession
<1>9. ASSUME NEW o \in Objects, Delete(o)
      PROVE Base'
  BY <1>9 DEF Delete
<1>10. ASSUME NEW c \in Callers, Quiet(c)
      PROVE Base'
  BY <1>10 DEF Quiet, GetSession, ScanFinds, ScanMisses, TimeLeft, TimeOut, FinishNull, Matches
<1>11. ASSUME NEW c \in Callers, Lookup(c)
      PROVE Base'
  BY <1>11 DEF Lookup
<1>12. ASSUME NEW c \in Callers, AddRef(c)
      PROVE Base'
  BY <1>12 DEF AddRef
<1>13. ASSUME NEW c \in Callers, Finish(c)
      PROVE Base'
  <2>1. PICK p \in Objects : p = result[c]
    BY <1>13 DEF Finish
  <2>2. c \in Referrers(p)
    BY <1>13, <2>1 DEF Finish, Referrers
  <2>3. Cardinality(Referrers(p)) \in Nat /\ Cardinality(Referrers(p)) >= 1
    BY <2>2, ReferrersFinite
  <2>4. refs[p] = 1 => p \notin owned
    BY <1>13, <2>1, <2>3 DEF Finish, ReferencesCounted
  <2>5. QED
    BY <1>13, <2>1, <2>4 DEF Finish, DropReference
<1>14. ASSUME NEW c \in Callers, FinishDead(c)
      PROVE Base'
  BY <1>14 DEF FinishDead
<1>15. CASE UNCHANGED vars
  BY <1>15 DEF vars
<1>16. QED
  BY <1>1, <1>2, <1>3, <1>4, <1>5, <1>6, <1>7, <1>8, <1>9, <1>10, <1>11, <1>12, <1>13, <1>14, <1>15
  DEF Next, ObjectStep, Destruction, CallerStep, Looking, Quiet

\* The entries: RemoveSession erases by id, and only sessions without one share it.
LEMMA RegistryStep ==
  ASSUME Base, Registry, [Next]_vars
  PROVE  Registry'
<1> USE RegistryAssumption DEF Types, Results, Gone, Base, Exists, Alive, Phases, Stages, AllIds, objectVars, callerVars, Registry, EntriesAreWhole, DistinctIdsAreListed, IdsDiffer
<1>1. ASSUME NEW o \in Objects, NEW i \in AllIds, Create(o, i)
      PROVE Registry'
  BY <1>1 DEF Create
<1>2. ASSUME NEW o \in Objects, CreateFails(o)
      PROVE Registry'
  BY <1>2 DEF CreateFails
<1>3. ASSUME NEW o \in Objects, AddSession(o)
      PROVE Registry'
  BY <1>3 DEF AddSession
<1>4. ASSUME NEW o \in Objects, Construct(o)
      PROVE Registry'
  BY <1>4 DEF Construct
<1>5. ASSUME NEW o \in Objects, ConstructFails(o)
      PROVE Registry'
  BY <1>5 DEF ConstructFails, DropReference
<1>6. ASSUME NEW o \in Objects, KeyStatusChanges(o)
      PROVE Registry'
  BY <1>6 DEF KeyStatusChanges
<1>7. ASSUME NEW o \in Objects, Destruct(o)
      PROVE Registry'
  BY <1>7 DEF Destruct, DropReference
<1>8. ASSUME NEW o \in Objects, RemoveSession(o)
      PROVE Registry'
  BY <1>8 DEF RemoveSession
<1>9. ASSUME NEW o \in Objects, Delete(o)
      PROVE Registry'
  BY <1>9 DEF Delete
<1>10. ASSUME NEW c \in Callers, Quiet(c)
      PROVE Registry'
  BY <1>10 DEF Quiet, GetSession, ScanFinds, ScanMisses, TimeLeft, TimeOut, FinishNull, Matches
<1>11. ASSUME NEW c \in Callers, Lookup(c)
      PROVE Registry'
  BY <1>11 DEF Lookup
<1>12. ASSUME NEW c \in Callers, AddRef(c)
      PROVE Registry'
  BY <1>12 DEF AddRef
<1>13. ASSUME NEW c \in Callers, Finish(c)
      PROVE Registry'
  BY <1>13 DEF Finish, DropReference
<1>14. ASSUME NEW c \in Callers, FinishDead(c)
      PROVE Registry'
  BY <1>14 DEF FinishDead
<1>15. CASE UNCHANGED vars
  BY <1>15 DEF vars
<1>16. QED
  BY <1>1, <1>2, <1>3, <1>4, <1>5, <1>6, <1>7, <1>8, <1>9, <1>10, <1>11, <1>12, <1>13, <1>14, <1>15
  DEF Next, ObjectStep, Destruction, CallerStep, Looking, Quiet

\* A count changes with the set of those who hold a reference.
LEMMA CountStep ==
  ASSUME Base, ReferencesCounted, [Next]_vars
  PROVE  ReferencesCounted'
<1> USE RegistryAssumption DEF Types, Results, Gone, Base, Exists, Alive, Phases, Stages, AllIds, objectVars, callerVars, ReferencesCounted
<1>1. ASSUME NEW o \in Objects, NEW i \in AllIds, Create(o, i)
      PROVE ReferencesCounted'
  <2>1. \A p \in Objects : Referrers(p)' = Referrers(p)
    BY <1>1 DEF Create, Referrers
  <2>2. Cardinality(Referrers(o)) = 0
    <3>1. Referrers(o) = {}
      BY <1>1 DEF Create, Referrers
    <3>2. QED
      BY <3>1, FS_EmptySet
  <2>3. QED
    BY <1>1, <2>1, <2>2 DEF Create
<1>2. ASSUME NEW o \in Objects, CreateFails(o)
      PROVE ReferencesCounted'
  <2>1. \A p \in Objects : Referrers(p)' = Referrers(p)
    BY <1>2 DEF CreateFails, Referrers
  <2>2. Cardinality(Referrers(o)) = 0
    <3>1. Referrers(o) = {}
      BY <1>2 DEF CreateFails, Referrers
    <3>2. QED
      BY <3>1, FS_EmptySet
  <2>3. QED
    BY <1>2, <2>1, <2>2 DEF CreateFails
<1>3. ASSUME NEW o \in Objects, AddSession(o)
      PROVE ReferencesCounted'
  <2>1. \A p \in Objects : Referrers(p)' = Referrers(p)
    BY <1>3 DEF AddSession, Referrers
  <2>2. QED
    BY <1>3, <2>1 DEF AddSession
<1>4. ASSUME NEW o \in Objects, Construct(o)
      PROVE ReferencesCounted'
  <2>1. \A p \in Objects : Referrers(p)' = Referrers(p)
    BY <1>4 DEF Construct, Referrers
  <2>2. QED
    BY <1>4, <2>1 DEF Construct
<1>5. ASSUME NEW o \in Objects, ConstructFails(o)
      PROVE ReferencesCounted'
  <2>1. \A p \in Objects : Referrers(p)' = Referrers(p)
    BY <1>5 DEF ConstructFails, DropReference, Referrers
  <2>2. \A p \in Objects : Cardinality(Referrers(p)) \in Nat
    BY ReferrersFinite
  <2>3. QED
    BY <1>5, <2>1, <2>2 DEF ConstructFails, DropReference
<1>6. ASSUME NEW o \in Objects, KeyStatusChanges(o)
      PROVE ReferencesCounted'
  <2>1. \A p \in Objects : Referrers(p)' = Referrers(p)
    BY <1>6 DEF KeyStatusChanges, Referrers
  <2>2. QED
    BY <1>6, <2>1 DEF KeyStatusChanges
<1>7. ASSUME NEW o \in Objects, Destruct(o)
      PROVE ReferencesCounted'
  <2>1. \A p \in Objects : Referrers(p)' = Referrers(p)
    BY <1>7 DEF Destruct, DropReference, Referrers
  <2>2. \A p \in Objects : Cardinality(Referrers(p)) \in Nat
    BY ReferrersFinite
  <2>3. QED
    BY <1>7, <2>1, <2>2 DEF Destruct, DropReference
<1>8. ASSUME NEW o \in Objects, RemoveSession(o)
      PROVE ReferencesCounted'
  <2>1. \A p \in Objects : Referrers(p)' = Referrers(p)
    BY <1>8 DEF RemoveSession, Referrers
  <2>2. QED
    BY <1>8, <2>1 DEF RemoveSession
<1>9. ASSUME NEW o \in Objects, Delete(o)
      PROVE ReferencesCounted'
  <2>1. \A p \in Objects : Referrers(p)' = Referrers(p)
    BY <1>9 DEF Delete, Referrers
  <2>2. QED
    BY <1>9, <2>1 DEF Delete
<1>10. ASSUME NEW c \in Callers, Quiet(c)
      PROVE ReferencesCounted'
  <2>1. \A p \in Objects : Referrers(p)' = Referrers(p)
    BY <1>10 DEF Quiet, GetSession, ScanFinds, ScanMisses, TimeLeft, TimeOut, FinishNull, Matches, Referrers
  <2>2. QED
    BY <1>10, <2>1 DEF Quiet, GetSession, ScanFinds, ScanMisses, TimeLeft, TimeOut, FinishNull, Matches
<1>11. ASSUME NEW c \in Callers, Lookup(c)
      PROVE ReferencesCounted'
  <2>1. \A p \in Objects : Referrers(p)' = Referrers(p)
    BY <1>11 DEF Lookup, Referrers
  <2>2. QED
    BY <1>11, <2>1 DEF Lookup
<1>12. ASSUME NEW c \in Callers, AddRef(c)
      PROVE ReferencesCounted'
  <2>0. PICK p \in Objects : p = result[c]
    BY <1>12 DEF AddRef
  <2>1. c \notin Referrers(p)
    BY <1>12, <2>0 DEF AddRef, Referrers
  <2>2. Referrers(p)' = Referrers(p) \cup {c}
    BY <1>12, <2>0 DEF AddRef, Referrers
  <2>3. \A q \in Objects : q # p => Referrers(q)' = Referrers(q)
    BY <1>12, <2>0 DEF AddRef, Referrers
  <2>4. Cardinality(Referrers(p) \cup {c}) = Cardinality(Referrers(p)) + 1
    BY <2>1, ReferrersFinite, FS_AddElement
  <2>5. Cardinality(Referrers(p)) \in Nat
    BY <2>1, ReferrersFinite
  <2>6. ASSUME NEW q \in Objects, q # p
        PROVE  Counted(q)'
    <3>1. /\ refs'[q] = refs[q]
          /\ phase'[q] = phase[q]
          /\ owned' = owned
          /\ Referrers(q)' = Referrers(q)
      BY <1>12, <2>0, <2>3, <2>6 DEF AddRef
    <3>2. QED
      BY <3>1 DEF Counted
  <2>7. Counted(p)'
    <3> DEFINE n == Cardinality(Referrers(p))
    <3>1. Cardinality(Referrers(p))' = n + 1
      BY <2>2, <2>4
    <3>2. Exists(p) => refs[p] = n + (IF p \in owned \/ phase[p] \in {"created", "built"} THEN 1 ELSE 0)
      OBVIOUS
    <3>3. n \in Nat
      BY <2>5
    <3> HIDE DEF n
    <3>4. QED
      BY <1>12, <2>0, <3>1, <3>2, <3>3 DEF AddRef, Counted
  <2>8. QED
    BY <2>6, <2>7 DEF Counted
<1>13. ASSUME NEW c \in Callers, Finish(c)
      PROVE ReferencesCounted'
  <2>0. PICK p \in Objects : p = result[c]
    BY <1>13 DEF Finish
  <2>1. c \in Referrers(p)
    BY <1>13, <2>0 DEF Finish, Referrers
  <2>2. Referrers(p)' = Referrers(p) \ {c}
    BY <1>13, <2>0 DEF Finish, DropReference, Referrers
  <2>3. \A q \in Objects : q # p => Referrers(q)' = Referrers(q)
    BY <1>13, <2>0 DEF Finish, DropReference, Referrers
  <2>4. Cardinality(Referrers(p) \ {c}) = Cardinality(Referrers(p)) - 1
    BY <2>1, ReferrersFinite, FS_RemoveElement
  <2>5. Cardinality(Referrers(p)) \in Nat /\ Cardinality(Referrers(p)) >= 1
    BY <2>1, ReferrersFinite
  <2>6. ASSUME NEW q \in Objects, q # p
        PROVE  Counted(q)'
    <3>1. /\ refs'[q] = refs[q]
          /\ phase'[q] = phase[q]
          /\ owned' = owned
          /\ Referrers(q)' = Referrers(q)
      BY <1>13, <2>0, <2>3, <2>6 DEF Finish, DropReference
    <3>2. QED
      BY <3>1 DEF Counted
  <2>7. Counted(p)'
    <3> DEFINE n == Cardinality(Referrers(p))
    <3>1. Cardinality(Referrers(p))' = n - 1
      BY <2>2, <2>4
    <3>2. Exists(p) => refs[p] = n + (IF p \in owned \/ phase[p] \in {"created", "built"} THEN 1 ELSE 0)
      OBVIOUS
    <3>3. n \in Nat /\ n >= 1
      BY <2>5
    <3> HIDE DEF n
    <3>4. QED
      BY <1>13, <2>0, <3>1, <3>2, <3>3 DEF Finish, DropReference, Counted
  <2>8. QED
    BY <2>6, <2>7 DEF Counted
<1>14. ASSUME NEW c \in Callers, FinishDead(c)
      PROVE ReferencesCounted'
  <2>0. PICK p \in Objects : p = result[c]
    BY <1>14 DEF FinishDead
  <2>1. c \in Referrers(p)
    BY <1>14, <2>0 DEF FinishDead, Referrers
  <2>2. Referrers(p)' = Referrers(p) \ {c}
    BY <1>14, <2>0 DEF FinishDead, Referrers
  <2>3. \A q \in Objects : q # p => Referrers(q)' = Referrers(q)
    BY <1>14, <2>0 DEF FinishDead, Referrers
  <2>4. Cardinality(Referrers(p) \ {c}) = Cardinality(Referrers(p)) - 1
    BY <2>1, ReferrersFinite, FS_RemoveElement
  <2>5. Cardinality(Referrers(p)) \in Nat /\ Cardinality(Referrers(p)) >= 1
    BY <2>1, ReferrersFinite
  <2>6. ASSUME NEW q \in Objects, q # p
        PROVE  Counted(q)'
    <3>1. /\ refs'[q] = refs[q]
          /\ phase'[q] = phase[q]
          /\ owned' = owned
          /\ Referrers(q)' = Referrers(q)
      BY <1>14, <2>0, <2>3, <2>6 DEF FinishDead
    <3>2. QED
      BY <3>1 DEF Counted
  <2>7. Counted(p)'
    <3> DEFINE n == Cardinality(Referrers(p))
    <3>1. Cardinality(Referrers(p))' = n - 1
      BY <2>2, <2>4
    <3>2. Exists(p) => refs[p] = n + (IF p \in owned \/ phase[p] \in {"created", "built"} THEN 1 ELSE 0)
      OBVIOUS
    <3>3. n \in Nat /\ n >= 1
      BY <2>5
    <3> HIDE DEF n
    <3>4. QED
      BY <1>14, <2>0, <3>1, <3>2, <3>3 DEF FinishDead, Counted
  <2>8. QED
    BY <2>6, <2>7 DEF Counted
<1>15. CASE UNCHANGED vars
  BY <1>15 DEF vars, Referrers
<1>16. QED
  BY <1>1, <1>2, <1>3, <1>4, <1>5, <1>6, <1>7, <1>8, <1>9, <1>10, <1>11, <1>12, <1>13, <1>14, <1>15
  DEF Next, ObjectStep, Destruction, CallerStep, Looking, Quiet

-----------------------------------------------------------------------------
\* The three parts together.
THEOREM IInvHolds == Spec => []IInv
<1>1. Init => IInv
  BY RegistryAssumption DEF Init, IInv, Base, Types, Results, Gone, Registry, EntriesAreWhole,
     DistinctIdsAreListed, IdsDiffer, ReferencesCounted, Exists, Phases, Stages, AllIds
<1>2. IInv /\ [Next]_vars => IInv'
  BY BaseStep, RegistryStep, CountStep DEF IInv
<1>3. QED
  BY <1>1, <1>2, PTL DEF Spec

\* Counts never become negative and everything else keeps its type.
THEOREM TypeCorrect == Spec => []TypeOK
<1>1. IInv => TypeOK
  <2> SUFFICES ASSUME IInv PROVE \A o \in Objects : refs[o] \in Nat
    BY DEF IInv, Base, Types, TypeOK
  <2>1. ASSUME NEW o \in Objects PROVE refs[o] \in Nat
    BY <2>1, ReferrersFinite DEF IInv, Base, Gone, ReferencesCounted
  <2>2. QED
    BY <2>1
<1>2. QED
  BY <1>1, IInvHolds, PTL

\* No entry of _sessionKeys outlives its object (EntriesAreWhole), although lookups
\* add references without the lock and sessions without an id share an entry.
THEOREM NoEntryDangles == Spec => []EntriesAreWhole
<1>1. IInv => EntriesAreWhole
  BY DEF IInv, Registry
<1>2. QED
  BY <1>1, IInvHolds, PTL

\* A session with an id of its own stays listed while it lives (DistinctIdsAreListed).
THEOREM SessionsStayListed == Spec => []DistinctIdsAreListed
<1>1. IInv => DistinctIdsAreListed
  BY DEF IInv, Registry
<1>2. QED
  BY <1>1, IInvHolds, PTL

\* The map and the sessions agree (AddSession, RemoveSession).
THEOREM RegistryHolds == Spec => []RegistryIsRight
<1>1. EntriesAreWhole /\ DistinctIdsAreListed => RegistryIsRight
  BY DEF RegistryIsRight
<1>2. QED
  BY <1>1, NoEntryDangles, SessionsStayListed, PTL

\* Reference counts are exact (ReferencesCounted).
THEOREM CountsAreExact == Spec => []ReferencesCounted
<1>1. IInv => ReferencesCounted
  BY DEF IInv
<1>2. QED
  BY <1>1, IInvHolds, PTL

-----------------------------------------------------------------------------
(* Clients that do not overlap lookups and destructions. *)

Apart == NoLookups \/ NoDestructors

\* A destructor begins only when no lookup is under way and nobody holds a reference.
LEMMA AliveStep ==
  ASSUME serialized, IInv, Apart, ReturnedIsAlive, [Next]_vars
  PROVE  Apart' /\ ReturnedIsAlive'
<1> USE RegistryAssumption DEF Types, Results, Gone, Base, Exists, Alive, Phases, Stages, AllIds, objectVars, callerVars, IInv, Apart, NoLookups, NoDestructors, ReturnedIsAlive
<1>1. ASSUME NEW o \in Objects, NEW i \in AllIds, Create(o, i)
      PROVE Apart' /\ ReturnedIsAlive'
  BY <1>1 DEF Create
<1>2. ASSUME NEW o \in Objects, CreateFails(o)
      PROVE Apart' /\ ReturnedIsAlive'
  BY <1>2 DEF CreateFails
<1>3. ASSUME NEW o \in Objects, AddSession(o)
      PROVE Apart' /\ ReturnedIsAlive'
  BY <1>3 DEF AddSession
<1>4. ASSUME NEW o \in Objects, Construct(o)
      PROVE Apart' /\ ReturnedIsAlive'
  BY <1>4 DEF Construct
<1>5. ASSUME NEW o \in Objects, ConstructFails(o)
      PROVE Apart' /\ ReturnedIsAlive'
  <2>1. refs[o] = 1 => Referrers(o) = {}
    BY <1>5, ReferrersFinite, FS_EmptySet DEF ConstructFails, ReferencesCounted
  <2>2. QED
    BY <1>5, <2>1 DEF ConstructFails, DropReference, Referrers
<1>6. ASSUME NEW o \in Objects, KeyStatusChanges(o)
      PROVE Apart' /\ ReturnedIsAlive'
  BY <1>6 DEF KeyStatusChanges
<1>7. ASSUME NEW o \in Objects, Destruct(o)
      PROVE Apart' /\ ReturnedIsAlive'
  <2>1. refs[o] = 1 => Referrers(o) = {}
    BY <1>7, ReferrersFinite, FS_EmptySet DEF Destruct, ReferencesCounted
  <2>2. QED
    BY <1>7, <2>1 DEF Destruct, DropReference, Referrers
<1>8. ASSUME NEW o \in Objects, RemoveSession(o)
      PROVE Apart' /\ ReturnedIsAlive'
  BY <1>8 DEF RemoveSession
<1>9. ASSUME NEW o \in Objects, Delete(o)
      PROVE Apart' /\ ReturnedIsAlive'
  BY <1>9 DEF Delete
<1>10. ASSUME NEW c \in Callers, Quiet(c)
      PROVE Apart' /\ ReturnedIsAlive'
  BY <1>10 DEF Quiet, GetSession, ScanFinds, ScanMisses, TimeLeft, TimeOut, FinishNull, Matches
<1>11. ASSUME NEW c \in Callers, Lookup(c)
      PROVE Apart' /\ ReturnedIsAlive'
  BY <1>11 DEF Lookup, Registry, EntriesAreWhole
<1>12. ASSUME NEW c \in Callers, AddRef(c)
      PROVE Apart' /\ ReturnedIsAlive'
  BY <1>12 DEF AddRef
<1>13. ASSUME NEW c \in Callers, Finish(c)
      PROVE Apart' /\ ReturnedIsAlive'
  <2>0. PICK p \in Objects : p = result[c]
    BY <1>13 DEF Finish
  <2>1. c \in Referrers(p) /\ IsFiniteSet(Referrers(p))
    BY <1>13, <2>0, ReferrersFinite DEF Finish, Referrers
  <2>2. Cardinality(Referrers(p) \ {c}) = Cardinality(Referrers(p)) - 1
    BY <2>1, FS_RemoveElement
  <2>3. Cardinality(Referrers(p)) \in Nat /\ IsFiniteSet(Referrers(p) \ {c})
    BY <2>1, ReferrersFinite, FS_RemoveElement
  <2>4. refs[p] = 1 => Cardinality(Referrers(p) \ {c}) = 0
    BY <1>13, <2>0, <2>1, <2>2, <2>3, ReferrersFinite DEF Finish, ReferencesCounted
  <2>5. refs[p] = 1 => Referrers(p) \ {c} = {}
    BY <2>3, <2>4, FS_EmptySet
  <2>6. refs[p] = 1 => \A d \in Callers \ {c} : pc[d] = "holds" => result[d] # p
    BY <2>5 DEF Referrers
  <2>7. QED
    BY <1>13, <2>0, <2>6 DEF Finish, DropReference
<1>14. ASSUME NEW c \in Callers, FinishDead(c)
      PROVE Apart' /\ ReturnedIsAlive'
  BY <1>14 DEF FinishDead
<1>15. CASE UNCHANGED vars
  BY <1>15 DEF vars
<1>16. QED
  BY <1>1, <1>2, <1>3, <1>4, <1>5, <1>6, <1>7, <1>8, <1>9, <1>10, <1>11, <1>12, <1>13, <1>14, <1>15
  DEF Next, ObjectStep, Destruction, CallerStep, Looking, Quiet

\* opencdm_get_session returns a session nobody has begun to destruct, if the client
\* keeps the two calls apart (SerializedReturnsAlive): the condition is needed,
\* Session(id) adds its reference without the lock.
THEOREM LookupsReturnLiveSessions == Spec => []SerializedReturnsAlive
<1> DEFINE J == serialized => Apart /\ ReturnedIsAlive
<1>1. Init => J
  BY DEF Init, Apart, NoLookups, ReturnedIsAlive
<1>2. IInv /\ J /\ [Next]_vars => J'
  <2> SUFFICES ASSUME IInv, J, [Next]_vars, serialized'
               PROVE  Apart' /\ ReturnedIsAlive'
    OBVIOUS
  <2>1. serialized
    <3>1. ASSUME NEW o \in Objects, ObjectStep(o) PROVE serialized' = serialized
      BY <3>1 DEF ObjectStep, Create, CreateFails, AddSession, Construct, ConstructFails,
                  KeyStatusChanges, Destruct, Destruction, RemoveSession, Delete, callerVars
    <3>2. ASSUME NEW c \in Callers, CallerStep(c) PROVE serialized' = serialized
      BY <3>2 DEF CallerStep, GetSession, Looking, ScanFinds, ScanMisses, Lookup, AddRef,
                  TimeLeft, TimeOut, Finish, FinishDead, FinishNull, objectVars
    <3>3. serialized' = serialized
      BY <3>1, <3>2 DEF Next, vars
    <3>4. QED
      BY <3>3
  <2>2. QED
    BY <2>1, AliveStep
<1>3. J => SerializedReturnsAlive
  BY DEF SerializedReturnsAlive
<1>4. QED
  BY <1>1, <1>2, <1>3, IInvHolds, PTL DEF Spec

=============================================================================
