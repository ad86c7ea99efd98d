------------------------ MODULE SearchRegistryProofs ------------------------
(* What the registry promises holds for any finite set of rows, any        *)
(* searches and any allowance.                                             *)
EXTENDS SearchRegistry, FiniteSetTheorems, TLAPS

(* The table stays a table of searches, and the count a count.             *)
THEOREM RegistryTypes == RegistrySpec => []RegistryTypeOK
<1>1. RegistryInit => RegistryTypeOK
  BY DEF RegistryInit, RegistryTypeOK
<1>2. RegistryTypeOK /\ [RegistryNext]_regVars => RegistryTypeOK'
  <2> SUFFICES ASSUME RegistryTypeOK, [RegistryNext]_regVars
               PROVE  RegistryTypeOK'
    OBVIOUS
  <2>1. ASSUME NEW i \in Items, NEW s \in Searches, Start(i, s)
        PROVE  RegistryTypeOK'
    BY <2>1 DEF RegistryTypeOK, Start
  <2>2. CASE Settle
    BY <2>2 DEF RegistryTypeOK, Settle, Active
  <2>3. ASSUME NEW gone \in SUBSET Items, Stop(gone)
        PROVE  RegistryTypeOK'
    BY <2>3 DEF RegistryTypeOK, Stop, Active
  <2>4. CASE Announce
    BY <2>4 DEF RegistryTypeOK, Announce, Active
  <2>5. CASE UNCHANGED regVars
    BY <2>5 DEF RegistryTypeOK, regVars
  <2> QED
    BY <2>1, <2>2, <2>3, <2>4, <2>5 DEF RegistryNext
<1> QED
  BY <1>1, <1>2, PTL DEF RegistrySpec

(* The engine-state announcement (engine.js emitState) is the table itself *)
(* whenever no startSearch is still on its way to its own announcement.    *)
THEOREM RegistryTellsTheTruth == RegistrySpec => []ToldTheTruth
<1>1. RegistryInit => ToldTheTruth
  BY DEF RegistryInit, ToldTheTruth, Active
<1>2. RegistryTypeOK /\ ToldTheTruth /\ [RegistryNext]_regVars => ToldTheTruth'
  <2> SUFFICES ASSUME RegistryTypeOK, ToldTheTruth, [RegistryNext]_regVars
               PROVE  ToldTheTruth'
    OBVIOUS
  <2>1. ASSUME NEW i \in Items, NEW s \in Searches, Start(i, s)
        PROVE  ToldTheTruth'
    BY <2>1 DEF RegistryTypeOK, Start, ToldTheTruth
  <2>2. CASE Settle
    BY <2>2 DEF Settle, ToldTheTruth, Active
  <2>3. ASSUME NEW gone \in SUBSET Items, Stop(gone)
        PROVE  ToldTheTruth'
    BY <2>3 DEF Stop, ToldTheTruth
  <2>4. CASE Announce
    BY <2>4 DEF Announce, ToldTheTruth, Active
  <2>5. CASE UNCHANGED regVars
    BY <2>5 DEF regVars, ToldTheTruth, Active
  <2> QED
    BY <2>1, <2>2, <2>3, <2>4, <2>5 DEF RegistryNext
<1> QED
  BY <1>1, <1>2, RegistryTypes, PTL DEF RegistrySpec

(* startSearch's test of sockets.size keeps the table within the account's *)
(* allowance, whatever is started and stopped in whatever order.           *)
THEOREM RegistryWithinCap == RegistrySpec => []WithinCap
<1>1. RegistryInit => WithinCap
  BY CapIsNatural, FS_EmptySet DEF RegistryInit, WithinCap, Active
<1>2. RegistryTypeOK /\ WithinCap /\ [RegistryNext]_regVars => WithinCap'
  <2> SUFFICES ASSUME RegistryTypeOK, WithinCap, [RegistryNext]_regVars
               PROVE  WithinCap'
    OBVIOUS
  <2> DEFINE A == Active(running)
  <2>0. IsFiniteSet(A) /\ Cardinality(A) \in Nat
    BY ItemsAreFinite, FS_Subset, FS_CardinalityType DEF Active
  <2>a. WithinCap' <=> Cardinality(Active(running')) <= MAX_SOCKETS
    BY DEF WithinCap, Active
  <2>1. ASSUME NEW i \in Items, NEW s \in Searches, Start(i, s)
        PROVE  WithinCap'
    <3>1. Active(running') = A \cup {i} /\ i \notin A
      BY <2>1, NoneIsNoSearch DEF Start, Active, RegistryTypeOK
    <3>2. Cardinality(A \cup {i}) = Cardinality(A) + 1
      BY <2>0, <3>1, FS_AddElement
    <3>3. Cardinality(A) < MAX_SOCKETS
      BY <2>1 DEF Start
    <3> HIDE DEF A
    <3> QED
      BY <2>0, <2>a, <3>1, <3>2, <3>3, CapIsNatural
  <2>2. ASSUME NEW gone \in SUBSET Items, Stop(gone)
        PROVE  WithinCap'
    <3>1. Active(running') \subseteq A
      BY <2>2 DEF Stop, Active
    <3>2. Cardinality(Active(running')) <= Cardinality(A)
                /\ Cardinality(Active(running')) \in Nat
      BY <2>0, <3>1, FS_Subset, FS_CardinalityType
    <3> QED
      BY <2>0, <2>a, <3>2, CapIsNatural DEF WithinCap
  <2>3. ASSUME UNCHANGED running
        PROVE  WithinCap'
    BY <2>3 DEF WithinCap, Active
  <2> QED
    BY <2>1, <2>2, <2>3 DEF RegistryNext, Settle, Announce, regVars
<1> QED
  BY <1>1, <1>2, RegistryTypes, PTL DEF RegistrySpec
=============================================================================
