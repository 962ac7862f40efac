--------------------------- MODULE LicencesEnrolment ---------------------------
(***************************************************************************)
(* For any numbers of workstations, payments and requests that overlap:    *)
(* the workstations enrolled never outnumber the highest limit there was.  *)
(***************************************************************************)
EXTENDS LicencesProofs, FiniteSetTheorems

LEMMA EnrolledFinite ==
  ASSUME TypeOK
  PROVE  IsFiniteSet(enrolled) /\ Cardinality(enrolled) \in Nat
  BY EnrolledType, ClientAssumption, FS_Subset, FS_CardinalityType

\* The highest limit only rises.
LEMMA PeakRises ==
  ASSUME TypeOK, TypeOK', NEW row, updateTenant(row)
  PROVE  peak' >= peak
  BY DEF TypeOK, updateTenant, Larger

-------------------------------------------------------------------------------
(* Every step but the insert of createDeviceToken enrols nobody.             *)

EnrolsNobody == tokens' \subseteq tokens /\ peak' >= peak

LEMMA BeginEnrolsNobody ==
  ASSUME TypeOK, TypeOK', NEW s \in Slot, Begin(s)
  PROVE  EnrolsNobody
  <1> USE DEF EnrolsNobody
  <1>0. peak \in Nat
    BY DEF TypeOK
  <1>1. ASSUME NEW max \in Limits, SetLimit(s, max) PROVE EnrolsNobody
    BY <1>1, PeakRises DEF SetLimit, stations
  <1>2. ASSUME NEW given \in GivenPlans, SetPlan(s, given[1], given[2]) PROVE EnrolsNobody
    BY <1>2, PeakRises DEF SetPlan, stations
  <1>3. CASE Trial(s) \/ Approve(s)
    BY <1>0, <1>3 DEF Trial, Approve, stations, organization
  <1>4. CASE \/ \E p \in Payment, period \in Periods, extra \in Extras : Checkout(s, p, period, extra)
             \/ \E p \in Payment : activate(s, p)
    BY <1>0, <1>4 DEF Checkout, activate, stations, organization
  <1>5. CASE \E c \in Client : Enrol(s, c) \/ Remove(s, c) \/ moveLicence(s, c)
    BY <1>0, <1>5 DEF Enrol, Remove, moveLicence, stations, organization
  <1>6. QED
    BY <1>1, <1>2, <1>3, <1>4, <1>5 DEF Begin

LEMMA StepEnrolsNobody ==
  ASSUME TypeOK, TypeOK', NEW s \in Slot, Step(s), ~ \E day \in 0 .. now : createDeviceToken(s, day)
  PROVE  EnrolsNobody
  <1> USE DEF EnrolsNobody
  <1>0. peak \in Nat
    BY DEF TypeOK
  <1>1. CASE TrialWrite(s)
    BY <1>1, PeakRises DEF TrialWrite, stations
  <1>2. CASE recordPayment(s)
    BY <1>2, PeakRises DEF recordPayment, stations
  <1>3. CASE Grant(s)
    BY <1>3, PeakRises DEF Grant, stations
  <1>4. CASE (\E given \in BOOLEAN : Link(s, given)) \/ claim(s) \/ ReadTenant(s) \/ decideApplication(s)
    BY <1>0, <1>4 DEF Link, claim, ReadTenant, decideApplication, stations, organization
  <1>5. CASE RevokeOthers(s) \/ revokeDeviceTokensForClient(s)
    BY <1>0, <1>5 DEF RevokeOthers, revokeDeviceTokensForClient, organization
  <1>6. CASE syncLicences(s) \/ rebalanceLicences(s) \/ Fit(s) \/ Batch(s) \/ moveLicenceTo(s)
    BY <1>0, <1>6 DEF syncLicences, rebalanceLicences, Fit, Batch, moveLicenceTo, stations, organization
  <1>7. QED
    BY <1>1, <1>2, <1>3, <1>4, <1>5, <1>6 DEF Step

\* The short requests, the hourly check, the errors and the steps of others.
LEMMA OthersEnrolNobody ==
  ASSUME TypeOK,
         \/ \E s \in Slot : Hourly(s) \/ Abort(s)
         \/ startApplication \/ (\E right \in BOOLEAN : confirmApplicationEmail(right)) \/ Reject
         \/ \E p \in Payment : Pay(p)
         \/ \E c \in Client : Seen(c)
         \/ Tick
         \/ UNCHANGED vars
  PROVE  EnrolsNobody
  <1>0. peak \in Nat
    BY DEF TypeOK
  <1>1. tokens' = tokens /\ peak' = peak
    BY DEF Hourly, Abort, startApplication, confirmApplicationEmail, Reject, Pay, Seen, Tick, vars,
           stations, organization
  <1>2. QED
    BY <1>0, <1>1 DEF EnrolsNobody

LEMMA NobodyFits ==
  ASSUME TypeOK, TypeOK', EnrolledFits, EnrolsNobody
  PROVE  EnrolledFits'
  <1>1. enrolled' \subseteq enrolled
    BY DEF EnrolsNobody, enrolled
  <1>2. Cardinality(enrolled') \in Nat /\ Cardinality(enrolled') <= Cardinality(enrolled)
    BY <1>1, EnrolledFinite, FS_Subset, FS_CardinalityType
  <1>3. QED
    BY <1>2, EnrolledFinite DEF EnrolledFits, EnrolsNobody, TypeOK

-------------------------------------------------------------------------------

\* The limit of a day since the request began is none that was not in force.
LEMMA LimitRead ==
  ASSUME IInv, NEW s \in Slot, NEW day \in Nat, At(s, "token"), req[s].at <= day
  PROVE  limit(req[s].read, day) \in Nat /\ limit(req[s].read, day) <= peak
  <1>1. req[s].read \in Tenant /\ req[s].at \in Nat /\ peak \in Nat
    BY DEF IInv, TypeOK, Requests
  <1>2. limit(req[s].read, req[s].at) \in Nat /\ limit(req[s].read, req[s].at) <= peak
    BY <1>1, LimitType DEF At, IInv, Covered
  <1>3. limit(req[s].read, day) \in Nat /\ limit(req[s].read, day) <= limit(req[s].read, req[s].at)
    BY <1>1, LimitType
  <1>4. QED
    BY <1>1, <1>2, <1>3

\* The insert enrols one more workstation only below such a limit.
LEMMA InsertFits ==
  ASSUME IInv, EnrolledFits, NEW s \in Slot, NEW day \in Nat, createDeviceToken(s, day)
  PROVE  EnrolledFits'
  <1> DEFINE c == req[s].arg
  <1>1. TypeOK /\ peak \in Nat /\ peak' = peak /\ At(s, "token") /\ req[s].at <= day
    BY DEF IInv, TypeOK, createDeviceToken, organization
  <1>2. CASE ~ Room(s, day)
    <2>1. tokens' = tokens
      BY <1>2 DEF createDeviceToken
    <2>2. QED
      BY <1>1, <2>1 DEF EnrolledFits, enrolled
  <1>3. CASE Room(s, day)
    <2>1. tokens' = tokens \cup {<<c, req[s].number>>}
      BY <1>3 DEF createDeviceToken
    <2>2. enrolled' = enrolled \cup {c}
      <3>1. <<c, req[s].number>>[1] = c
        OBVIOUS
      <3>2. \A x : x \in enrolled' <=> x \in enrolled \/ x = c
        BY <2>1, <3>1 DEF enrolled
      <3>3. QED
        BY <3>2
    <2>3. CASE c \in enrolled
      BY <1>1, <2>2, <2>3 DEF EnrolledFits
    <2>4. CASE c \notin enrolled
      <3>1. Cardinality(enrolled) < limit(req[s].read, day)
        BY <1>3, <2>4 DEF Room
      <3>2. Cardinality(enrolled') = Cardinality(enrolled) + 1
        BY <1>1, <2>2, <2>4, EnrolledFinite, FS_AddElement
      <3>3. limit(req[s].read, day) \in Nat /\ limit(req[s].read, day) <= peak
        BY <1>1, LimitRead
      <3>4. Cardinality(enrolled) \in Nat
        BY <1>1, EnrolledFinite
      <3>5. QED
        BY <1>1, <3>1, <3>2, <3>3, <3>4 DEF EnrolledFits
    <2>5. QED
      BY <2>3, <2>4
  <1>4. QED
    BY <1>2, <1>3

\* createDeviceToken's check and insert: whatever enrolments, changes of the
\* limit and ends of plans overlap, the workstations enrolled never outnumber
\* the highest limit in force so far.
THEOREM EnrolledWithinLimit == Spec => []EnrolledFits
  <1>1. ASSUME Init PROVE EnrolledFits
    <2>1. PICK S \in SUBSET Client : Cardinality(S) <= tenant.limit /\ tokens = {<<c, 0>> : c \in S}
      BY <1>1 DEF Init
    <2>2. enrolled = S
      <3>1. \A c : <<c, 0>>[1] = c
        OBVIOUS
      <3>2. \A x : x \in enrolled <=> x \in S
        BY <2>1, <3>1 DEF enrolled
      <3>3. QED
        BY <3>2
    <2>3. peak = tenant.limit
      BY <1>1 DEF Init
    <2>4. QED
      BY <2>1, <2>2, <2>3 DEF EnrolledFits
  <1>2. ASSUME IInv, IInv', EnrolledFits, [Next]_vars PROVE EnrolledFits'
    <2>1. TypeOK /\ TypeOK'
      BY <1>2 DEF IInv
    <2>2. ASSUME NEW s \in Slot, Begin(s) PROVE EnrolledFits'
      BY <1>2, <2>1, <2>2, BeginEnrolsNobody, NobodyFits
    <2>3. ASSUME NEW s \in Slot, Step(s) PROVE EnrolledFits'
      <3>1. CASE \E day \in 0 .. now : createDeviceToken(s, day)
        <4>1. PICK day \in 0 .. now : createDeviceToken(s, day)
          BY <3>1
        <4>2. day \in Nat
          BY <2>1 DEF TypeOK
        <4>3. QED
          BY <1>2, <4>1, <4>2, InsertFits
      <3>2. CASE ~ \E day \in 0 .. now : createDeviceToken(s, day)
        BY <1>2, <2>1, <2>3, <3>2, StepEnrolsNobody, NobodyFits
      <3>3. QED
        BY <3>1, <3>2
    <2>4. CASE ~ \E s \in Slot : Begin(s) \/ Step(s)
      <3>1. EnrolsNobody
        BY <1>2, <2>1, <2>4, OthersEnrolNobody DEF Next
      <3>2. QED
        BY <1>2, <2>1, <3>1, NobodyFits
    <2>5. QED
      BY <2>2, <2>3, <2>4
  <1>3. QED
    BY <1>1, <1>2, InductiveInvariant, PTL DEF Spec

===============================================================================
