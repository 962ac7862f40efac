---------------------------- MODULE LicencesProofs ----------------------------
(***************************************************************************)
(* For any numbers of workstations, payments and requests that overlap:    *)
(* the types, that a payment extends the subscription once, and that every *)
(* limit an enrolment goes by was in force.                                *)
(***************************************************************************)
EXTENDS Licences, TLAPS

\* A tenant row is worth at least one workstation, and never more as time passes.
LEMMA LimitType ==
  ASSUME NEW t \in Tenant, NEW day \in Nat
  PROVE  /\ limit(t, day) \in Nat \ {0}
         /\ \A later \in Nat : day <= later => limit(t, later) <= limit(t, day)
  BY PricingAssumption DEF limit, Lapsed, Smaller, Tenant, NoEnd

\* What a payment buys is a number of days and of workstations.
LEMMA PaymentType ==
  ASSUME NEW x \in Payments
  PROVE  x.period \in Nat /\ x.extra \in Nat
  <1>1. x.period \in Periods \cup {0} /\ x.extra \in Extras \cup {0}
    BY DEF Payments
  <1>2. Periods \cup {0} \subseteq Nat /\ Extras \cup {0} \subseteq Nat
    BY PricingAssumption
  <1>3. QED
    BY <1>1, <1>2

\* The row of an organization without a plan, and the constants of the types.
LEMMA Constants ==
  /\ FreeTenant \in Tenant
  /\ NoPayment \in Payments
  /\ NoChange \in Change
  /\ NoRequest \in Requests
  <1>1. FreeTenant \in Tenant /\ NoChange \in Change
    BY PricingAssumption DEF FreeTenant, Tenant, Plan, NoEnd, NoChange, Change
  <1>2. NoPayment \in Payments
    BY DEF NoPayment, Payments
  <1>3. NoRequest \in Requests
    BY <1>1 DEF NoRequest, Request, Requests
  <1>4. QED
    BY <1>1, <1>2, <1>3

-------------------------------------------------------------------------------
(* What the forms of a step write into the slot of its request.              *)

\* The slot takes the request r; the others keep theirs.
Takes(s, r) == req' = [req EXCEPT ![s] = r]

LEMMA StartTakes ==
  ASSUME TypeOK, NEW s \in Slot,
         NEW where \in {"idle", "write", "link", "claim", "extend", "decide", "token", "replace", "revoke", "move",
                        "sync", "clean"},
         NEW about \in Client \cup Payment \cup {0}, NEW day \in Nat, NEW row \in Tenant, NEW n \in Nat,
         Start(s, Request(where, about, day, row, n))
  PROVE  /\ begun' \in Nat
         /\ \E r \in Requests : Takes(s, r) /\ r.pc = where /\ r.arg = about /\ r.at = day /\ r.read = row
  <1> DEFINE r == Request(where, about, day, row, n)
  <1>1. r \in Requests /\ r.pc = where /\ r.arg = about /\ r.at = day /\ r.read = row
    BY Constants DEF Request, Requests
  <1> HIDE DEF r
  <1>2. begun' \in Nat /\ Takes(s, r)
    BY DEF Start, Takes, TypeOK, r
  <1>3. QED
    BY <1>1, <1>2

LEMMA BecomeTakes ==
  ASSUME TypeOK, NEW s \in Slot,
         NEW where \in {"idle", "write", "link", "claim", "extend", "decide", "token", "replace", "revoke", "move",
                        "sync", "clean"},
         NEW about \in Client \cup Payment \cup {0}, NEW day \in Nat, NEW row \in Tenant, NEW n \in Nat,
         Become(s, Request(where, about, day, row, n))
  PROVE  /\ begun' = begun
         /\ \E r \in Requests : Takes(s, r) /\ r.pc = where /\ r.arg = about /\ r.at = day /\ r.read = row
  <1> DEFINE r == Request(where, about, day, row, n)
  <1>1. r \in Requests /\ r.pc = where /\ r.arg = about /\ r.at = day /\ r.read = row
    BY Constants DEF Request, Requests
  <1> HIDE DEF r
  <1>2. begun' = begun /\ Takes(s, r)
    BY DEF Become, Takes, r
  <1>3. QED
    BY <1>1, <1>2

LEMMA GoTakes ==
  ASSUME TypeOK, NEW s \in Slot, NEW where \in {"tenant", "grant", "list"}, Go(s, where)
  PROVE  /\ begun' = begun
         /\ \E r \in Requests : Takes(s, r) /\ r.pc = where /\ r.arg = req[s].arg
  <1> DEFINE r == [req[s] EXCEPT !.pc = where]
  <1>1. r \in Requests /\ r.pc = where /\ r.arg = req[s].arg
    BY DEF TypeOK, Requests
  <1>2. Takes(s, r) /\ begun' = begun
    BY DEF Go, Takes
  <1> HIDE DEF r
  <1>3. QED
    BY <1>1, <1>2

LEMMA SyncTakes ==
  ASSUME TypeOK, NEW s \in Slot, NEW day \in Nat, Sync(s, day)
  PROVE  /\ begun' = begun
         /\ \E r \in Requests : Takes(s, r) /\ r.pc = "sync"
  BY BecomeTakes, Constants DEF Sync

LEMMA EndTakes ==
  ASSUME TypeOK, NEW s \in Slot, End(s)
  PROVE  /\ begun' = begun
         /\ \E r \in Requests : Takes(s, r) /\ r.pc = "idle"
  BY BecomeTakes, Constants DEF End, NoRequest

LEMMA DecidedTakes ==
  ASSUME TypeOK, NEW s \in Slot, NEW wanted \in Change, Decided(s, wanted)
  PROVE  /\ begun' = begun
         /\ \E r \in Requests : Takes(s, r) /\ r.pc = "batch"
  <1> DEFINE r == [pc |-> "batch", hourly |-> req[s].hourly, arg |-> 0, at |-> 0, read |-> FreeTenant,
                   change |-> wanted, number |-> 0]
  <1>1. r \in Requests /\ r.pc = "batch"
    BY Constants DEF TypeOK, Requests
  <1>2. Takes(s, r) /\ begun' = begun
    BY DEF Decided, Become, Takes
  <1> HIDE DEF r
  <1>3. QED
    BY <1>1, <1>2

\* The requests of the hourly check carry its mark.
LEMMA MarkedTakes ==
  ASSUME TypeOK, NEW s \in Slot, NEW where \in {"sync", "clean"}, NEW day \in Nat, NEW n \in Nat, NEW mark \in BOOLEAN,
         Become(s, [Request(where, 0, day, FreeTenant, n) EXCEPT !.hourly = mark])
  PROVE  /\ begun' = begun
         /\ \E r \in Requests : Takes(s, r) /\ r.pc = where
  <1> DEFINE r == [Request(where, 0, day, FreeTenant, n) EXCEPT !.hourly = mark]
  <1>1. r \in Requests /\ r.pc = where
    BY Constants DEF Request, Requests
  <1>2. Takes(s, r) /\ begun' = begun
    BY DEF Become, Takes
  <1> HIDE DEF r
  <1>3. QED
    BY <1>1, <1>2

\* updateTenant keeps the row's type and remembers the limit it puts in force.
LEMMA TenantType ==
  ASSUME TypeOK, NEW row \in Tenant, updateTenant(row)
  PROVE  /\ tenant' \in Tenant
         /\ peak' \in Nat /\ peak' >= peak /\ peak' >= limit(row, now)
  BY LimitType DEF TypeOK, updateTenant, Larger

-------------------------------------------------------------------------------
(* The inductive invariant.  A payment is extended by the one request whose  *)
(* claim made it paid, so no two requests may be past the claim of the same  *)
(* payment; and a limit an enrolment has read was in force, so it is covered *)
(* by the highest so far and still is when time passes.                      *)

AboutPayment == {"link", "claim", "tenant", "extend"}
AboutClient == {"token", "replace", "revoke", "move"}
Claimed(s) == req[s].pc \in {"tenant", "extend"}

ArgType ==
  \A s \in Slot : /\ req[s].pc \in AboutPayment => req[s].arg \in Payment
                  /\ req[s].pc \in AboutClient => req[s].arg \in Client

\* A request that waits for a link has its payment's row, alone with it.
LinkCreated == \A s \in Slot : req[s].pc = "link" => payments[req[s].arg].status = "created"
LinkAlone == \A s, u \in Slot : s # u /\ req[s].pc = "link" /\ req[u].pc = "link" => req[s].arg # req[u].arg

\* A request past the claim has made its payment paid, alone, and not extended yet.
ClaimPaid == \A s \in Slot : Claimed(s) => payments[req[s].arg].status = "paid" /\ extensions[req[s].arg] = 0
ClaimAlone == \A s, u \in Slot : s # u /\ Claimed(s) /\ Claimed(u) => req[s].arg # req[u].arg

UnpaidNone == \A p \in Payment : payments[p].status # "paid" => extensions[p] = 0

OneClaim == LinkCreated /\ LinkAlone /\ ClaimPaid /\ ClaimAlone /\ UnpaidNone /\ PaymentExtendsOnce

Covered ==
  /\ limit(tenant, now) <= peak
  /\ \A s \in Slot : req[s].pc = "token" => limit(req[s].read, req[s].at) <= peak

IInv == TypeOK /\ ArgType /\ OneClaim /\ Covered

\* A step that puts a request of the right kind into its slot keeps the slots' types.
LEMMA ArgStep ==
  ASSUME TypeOK, ArgType, NEW s \in Slot, NEW r \in Requests, Takes(s, r),
         r.pc \in AboutPayment => r.arg \in Payment, r.pc \in AboutClient => r.arg \in Client
  PROVE  req' \in [Slot -> Requests] /\ ArgType'
  BY DEF TypeOK, ArgType, Takes

\* A step that writes no payment and whose request is not past a claim keeps OneClaim.
LEMMA ClaimStep ==
  ASSUME TypeOK, OneClaim, NEW s \in Slot, NEW r \in Requests, Takes(s, r),
         r.pc \notin {"link", "tenant", "extend"}, UNCHANGED <<payments, extensions>>
  PROVE  OneClaim'
  BY DEF TypeOK, OneClaim, LinkCreated, LinkAlone, ClaimPaid, ClaimAlone, UnpaidNone,
         Takes, Claimed, PaymentExtendsOnce

\* Tokens are of workstations.
LEMMA EnrolledType ==
  ASSUME TypeOK
  PROVE  enrolled \subseteq Client
  BY DEF TypeOK, enrolled

\* A step that raises peak with the limit keeps Covered.
LEMMA CoverStep ==
  ASSUME TypeOK, Covered, NEW s \in Slot, NEW r \in Requests, Takes(s, r),
         now' = now, peak' \in Nat, peak' >= peak,
         limit(tenant', now) <= peak',
         r.pc = "token" => r.read = tenant /\ r.at = now
  PROVE  Covered'
  <1>1. peak \in Nat /\ now \in Nat /\ tenant \in Tenant /\ req \in [Slot -> Requests]
    BY DEF TypeOK
  <1>2. \A u \in Slot : req[u].read \in Tenant /\ req[u].at \in Nat
    BY <1>1 DEF Requests
  <1>3. \A u \in Slot : limit(req[u].read, req[u].at) \in Nat
    BY <1>1, <1>2, LimitType
  <1>4. limit(tenant, now) \in Nat /\ limit(tenant, now) <= peak
    BY <1>1, LimitType DEF Covered
  <1>5. ASSUME NEW u \in Slot, req'[u].pc = "token"
        PROVE  limit(req'[u].read, req'[u].at) <= peak'
    <2>1. CASE u = s
      <3>1. req'[u].read = tenant /\ req'[u].at = now
        BY <1>1, <1>5, <2>1 DEF Takes
      <3>2. QED
        BY <1>1, <1>4, <3>1
    <2>2. CASE u # s
      <3>1. req'[u] = req[u]
        BY <1>1, <2>2 DEF Takes
      <3>2. limit(req[u].read, req[u].at) <= peak
        BY <1>5, <3>1 DEF Covered
      <3>3. QED
        BY <1>1, <1>3, <3>1, <3>2
    <2>3. QED
      BY <2>1, <2>2
  <1>6. QED
    BY <1>5 DEF Covered

\* The same for a step that leaves the organization's row alone.
LEMMA CoverFrame ==
  ASSUME TypeOK, Covered, NEW s \in Slot, NEW r \in Requests, Takes(s, r),
         UNCHANGED <<now, organization>>,
         r.pc = "token" => r.read = tenant /\ r.at = now
  PROVE  Covered'
  <1>1. /\ now' = now /\ peak' = peak /\ tenant' = tenant /\ peak \in Nat
        /\ limit(tenant, now) <= peak
    BY DEF organization, TypeOK, Covered
  <1>2. peak' \in Nat /\ peak' >= peak /\ limit(tenant', now) <= peak'
    BY <1>1
  <1>3. QED
    BY <1>1, <1>2, CoverStep

-------------------------------------------------------------------------------
(* Every step keeps the invariant.                                           *)

\* A trial that begins writes nothing yet.
LEMMA TrialKeeps ==
  ASSUME IInv, NEW s \in Slot, Trial(s)
  PROVE  IInv'
  <1> USE DEF IInv
  <1>1. Start(s, Request("write", 0, now, tenant, 0)) /\ UNCHANGED <<now, organization, billing, education, stations, extensions, welcome>>
    BY DEF Trial
  <1>2. begun' \in Nat /\ \E r \in Requests : Takes(s, r) /\ r.pc = "write" /\ r.arg = 0
    <2>1. tenant \in Tenant /\ FreeTenant \in Tenant /\ now \in Nat /\ begun \in Nat
      BY Constants DEF TypeOK
    <2>2. QED
      BY <1>1, <2>1, StartTakes
  <1>3. PICK r \in Requests : Takes(s, r) /\ r.pc = "write" /\ r.arg = 0
    BY <1>2
  <1>4. req' \in [Slot -> Requests] /\ ArgType'
    BY <1>3, ArgStep DEF AboutPayment, AboutClient
  <1>5. TypeOK'
    BY <1>1, <1>2, <1>4 DEF TypeOK, organization, billing, education, stations
  <1>6. OneClaim'
    BY <1>1, <1>3, ClaimStep DEF billing
  <1>7. Covered'
    BY <1>1, <1>3, CoverFrame DEF stations
  <1>8. QED
    BY <1>4, <1>5, <1>6, <1>7

\* A webhook or return that begins writes nothing yet.
LEMMA ActivateKeeps ==
  ASSUME IInv, NEW s \in Slot, NEW p \in Payment, activate(s, p)
  PROVE  IInv'
  <1> USE DEF IInv
  <1>1. Start(s, Request("claim", p, now, FreeTenant, 0)) /\ UNCHANGED <<now, organization, billing, education, stations, extensions, welcome>>
    BY DEF activate
  <1>2. begun' \in Nat /\ \E r \in Requests : Takes(s, r) /\ r.pc = "claim" /\ r.arg = p
    <2>1. tenant \in Tenant /\ FreeTenant \in Tenant /\ now \in Nat /\ begun \in Nat
      BY Constants DEF TypeOK
    <2>2. QED
      BY <1>1, <2>1, StartTakes
  <1>3. PICK r \in Requests : Takes(s, r) /\ r.pc = "claim" /\ r.arg = p
    BY <1>2
  <1>4. req' \in [Slot -> Requests] /\ ArgType'
    BY <1>3, ArgStep DEF AboutPayment, AboutClient
  <1>5. TypeOK'
    BY <1>1, <1>2, <1>4 DEF TypeOK, organization, billing, education, stations
  <1>6. OneClaim'
    BY <1>1, <1>3, ClaimStep DEF billing
  <1>7. Covered'
    BY <1>1, <1>3, CoverFrame DEF stations
  <1>8. QED
    BY <1>4, <1>5, <1>6, <1>7

\* A decision that begins has only read the organization's row.
LEMMA ApproveKeeps ==
  ASSUME IInv, NEW s \in Slot, Approve(s)
  PROVE  IInv'
  <1> USE DEF IInv
  <1>1. Start(s, Request("decide", 0, now, tenant, 0)) /\ UNCHANGED <<now, organization, billing, education, stations, extensions, welcome>>
    BY DEF Approve
  <1>2. begun' \in Nat /\ \E r \in Requests : Takes(s, r) /\ r.pc = "decide" /\ r.arg = 0
    <2>1. tenant \in Tenant /\ FreeTenant \in Tenant /\ now \in Nat /\ begun \in Nat
      BY Constants DEF TypeOK
    <2>2. QED
      BY <1>1, <2>1, StartTakes
  <1>3. PICK r \in Requests : Takes(s, r) /\ r.pc = "decide" /\ r.arg = 0
    BY <1>2
  <1>4. req' \in [Slot -> Requests] /\ ArgType'
    BY <1>3, ArgStep DEF AboutPayment, AboutClient
  <1>5. TypeOK'
    BY <1>1, <1>2, <1>4 DEF TypeOK, organization, billing, education, stations
  <1>6. OneClaim'
    BY <1>1, <1>3, ClaimStep DEF billing
  <1>7. Covered'
    BY <1>1, <1>3, CoverFrame DEF stations
  <1>8. QED
    BY <1>4, <1>5, <1>6, <1>7

\* An enrolment that begins holds the limit in force.
LEMMA EnrolKeeps ==
  ASSUME IInv, NEW s \in Slot, NEW c \in Client, Enrol(s, c)
  PROVE  IInv'
  <1> USE DEF IInv
  <1>1. Start(s, Request("token", c, now, tenant, begun + 1)) /\ UNCHANGED <<now, organization, billing, education, stations, extensions, welcome>>
    BY DEF Enrol
  <1>2. begun' \in Nat /\ \E r \in Requests : Takes(s, r) /\ r.pc = "token" /\ r.arg = c /\ r.read = tenant /\ r.at = now
    <2>1. tenant \in Tenant /\ FreeTenant \in Tenant /\ now \in Nat /\ begun \in Nat
      BY Constants DEF TypeOK
    <2>2. QED
      BY <1>1, <2>1, StartTakes
  <1>3. PICK r \in Requests : Takes(s, r) /\ r.pc = "token" /\ r.arg = c /\ r.read = tenant /\ r.at = now
    BY <1>2
  <1>4. req' \in [Slot -> Requests] /\ ArgType'
    BY <1>3, ArgStep DEF AboutPayment, AboutClient
  <1>5. TypeOK'
    BY <1>1, <1>2, <1>4 DEF TypeOK, organization, billing, education, stations
  <1>6. OneClaim'
    BY <1>1, <1>3, ClaimStep DEF billing
  <1>7. Covered'
    BY <1>1, <1>3, CoverFrame DEF stations
  <1>8. QED
    BY <1>4, <1>5, <1>6, <1>7

\* A move that begins has only read the organization's row.
LEMMA MoveLicenceKeeps ==
  ASSUME IInv, NEW s \in Slot, NEW c \in Client, moveLicence(s, c)
  PROVE  IInv'
  <1> USE DEF IInv
  <1>1. Start(s, Request("move", c, 0, FreeTenant, limit(tenant, now))) /\ UNCHANGED <<now, organization, billing, education, stations, extensions, welcome>>
    BY DEF moveLicence
  <1>2. begun' \in Nat /\ \E r \in Requests : Takes(s, r) /\ r.pc = "move" /\ r.arg = c
    <2>1. tenant \in Tenant /\ FreeTenant \in Tenant /\ now \in Nat /\ begun \in Nat
      BY Constants DEF TypeOK
    <2>2. limit(tenant, now) \in Nat
      BY <2>1, LimitType
    <2>3. QED
      BY <1>1, <2>1, <2>2, StartTakes
  <1>3. PICK r \in Requests : Takes(s, r) /\ r.pc = "move" /\ r.arg = c
    BY <1>2
  <1>4. req' \in [Slot -> Requests] /\ ArgType'
    BY <1>3, ArgStep DEF AboutPayment, AboutClient
  <1>5. TypeOK'
    BY <1>1, <1>2, <1>4 DEF TypeOK, organization, billing, education, stations
  <1>6. OneClaim'
    BY <1>1, <1>3, ClaimStep DEF billing
  <1>7. Covered'
    BY <1>1, <1>3, CoverFrame DEF stations
  <1>8. QED
    BY <1>4, <1>5, <1>6, <1>7

\* The trial raises peak with the limit it gives.
LEMMA TrialWriteKeeps ==
  ASSUME IInv, NEW s \in Slot, TrialWrite(s)
  PROVE  IInv'
  <1> USE DEF IInv
  <1> DEFINE row == [plan |-> "evaluation", expires |-> req[s].at + TrialDays,
                    limit |-> Larger(Included, req[s].read.limit), trial |-> TRUE]
  <1>1. updateTenant(row) /\ UNCHANGED <<now, billing, education, stations, extensions, welcome>>
    BY DEF TrialWrite
  <1>2. row \in Tenant
    <2>1. req[s].at \in Nat /\ req[s].read.limit \in Nat \ {0}
      BY DEF TypeOK, Requests, Tenant
    <2>2. QED
      BY <2>1, PricingAssumption DEF Tenant, Plan, Larger
  <1> HIDE DEF row
  <1>3. /\ tenant' \in Tenant /\ tenant' = row
        /\ peak' \in Nat /\ peak' >= peak /\ peak' >= limit(row, now)
    BY <1>1, <1>2, TenantType DEF updateTenant
  <1>4. begun' \in Nat /\ \E r \in Requests : Takes(s, r) /\ r.pc = "sync"
    <2>1. req[s].at \in Nat /\ begun \in Nat
      BY DEF TypeOK, Requests
    <2>2. QED
      BY <2>1, SyncTakes DEF TrialWrite
  <1>5. PICK r \in Requests : Takes(s, r) /\ r.pc = "sync"
    BY <1>4
  <1>6. req' \in [Slot -> Requests] /\ ArgType'
    BY <1>5, ArgStep DEF AboutPayment, AboutClient
  <1>7. Covered'
    BY <1>1, <1>2, <1>3, <1>5, CoverStep, LimitType DEF TypeOK, stations
  <1>8. TypeOK'
    BY <1>1, <1>3, <1>4, <1>6 DEF TypeOK, billing, education, stations
  <1>9. OneClaim'
    BY <1>1, <1>5, ClaimStep DEF billing
  <1>10. QED
    BY <1>6, <1>7, <1>8, <1>9

\* The extension is this payment's first: only this request is past its claim.
LEMMA RecordPaymentKeeps ==
  ASSUME IInv, NEW s \in Slot, recordPayment(s)
  PROVE  IInv'
  <1> USE DEF IInv
  <1> DEFINE p == req[s].arg
  <1> DEFINE row == [plan |-> "subscriber", expires |-> From(req[s].read, req[s].at) + payments[req[s].arg].period,
                    limit |-> Included + payments[req[s].arg].extra, trial |-> tenant.trial]
  <1>1. updateTenant(row) /\ UNCHANGED <<now, billing, education, stations, welcome>>
    BY DEF recordPayment
  <1>2. row \in Tenant
    <2>1. req[s].at \in Nat /\ req[s].read.expires \in Nat
      BY DEF TypeOK, Requests, Tenant
    <2>2. req[s].arg \in Payment
      BY DEF recordPayment, At, ArgType, AboutPayment
    <2>3. payments[req[s].arg].period \in Nat /\ payments[req[s].arg].extra \in Nat
      <3>1. payments[req[s].arg] \in Payments
        BY <2>2 DEF TypeOK
      <3>2. QED
        BY <3>1, PaymentType
    <2>4. From(req[s].read, req[s].at) \in Nat
      BY <2>1 DEF From
    <2>5. tenant.trial \in BOOLEAN
      BY DEF TypeOK, Tenant
    <2>6. QED
      <3>1. From(req[s].read, req[s].at) + payments[req[s].arg].period \in Nat
        BY <2>3, <2>4
      <3>2. Included + payments[req[s].arg].extra \in Nat \ {0}
        BY <2>3, PricingAssumption
      <3>3. QED
        BY <2>5, <3>1, <3>2 DEF Tenant, Plan
  <1> HIDE DEF row
  <1>3. /\ tenant' \in Tenant /\ tenant' = row
        /\ peak' \in Nat /\ peak' >= peak /\ peak' >= limit(row, now)
    BY <1>1, <1>2, TenantType DEF updateTenant
  <1>4. begun' \in Nat /\ \E r \in Requests : Takes(s, r) /\ r.pc = "sync"
    <2>1. req[s].at \in Nat /\ begun \in Nat
      BY DEF TypeOK, Requests
    <2>2. QED
      BY <2>1, SyncTakes DEF recordPayment
  <1>5. PICK r \in Requests : Takes(s, r) /\ r.pc = "sync"
    BY <1>4
  <1>6. req' \in [Slot -> Requests] /\ ArgType'
    BY <1>5, ArgStep DEF AboutPayment, AboutClient
  <1>7. Covered'
    BY <1>1, <1>2, <1>3, <1>5, CoverStep, LimitType DEF TypeOK, stations
  <1>8. p \in Payment /\ payments[p].status = "paid" /\ extensions[p] = 0
    BY DEF recordPayment, At, ArgType, AboutPayment, OneClaim, ClaimPaid, Claimed
  <1>9. extensions' = [extensions EXCEPT ![p] = @ + 1] /\ extensions' \in [Payment -> Nat]
    BY <1>8 DEF recordPayment, TypeOK
  <1>10. TypeOK'
    BY <1>1, <1>3, <1>4, <1>6, <1>9 DEF TypeOK, billing, education, stations
  <1>11. OneClaim'
    <2>1. req' = [req EXCEPT ![s] = r] /\ payments' = payments /\ req \in [Slot -> Requests]
      BY <1>1, <1>5 DEF Takes, billing, TypeOK
    <2>2. \A u \in Slot : u # s /\ Claimed(u) => req[u].arg # p
      BY DEF recordPayment, At, OneClaim, ClaimAlone, Claimed
    <2>3. extensions'[p] = 1 /\ \A x \in Payment : x # p => extensions'[x] = extensions[x]
      BY <1>8, <1>9 DEF TypeOK
    <2>4. \A u \in Slot : Claimed(u)' => u # s /\ Claimed(u) /\ req'[u] = req[u]
      BY <1>5, <2>1 DEF Claimed
    <2>5. \A u \in Slot : req'[u].pc = "link" => u # s /\ req'[u] = req[u]
      BY <1>5, <2>1
    <2>6. \A u \in Slot : Claimed(u) => req[u].arg \in Payment
      BY DEF ArgType, AboutPayment, Claimed
    <2>7. PaymentExtendsOnce'
      BY <1>8, <2>1, <2>3 DEF OneClaim, PaymentExtendsOnce
    <2>8. UnpaidNone'
      BY <1>8, <2>1, <2>3 DEF OneClaim, UnpaidNone
    <2>9. ClaimPaid'
      BY <2>1, <2>2, <2>3, <2>4, <2>6 DEF OneClaim, ClaimPaid
    <2>10. LinkCreated'
      BY <2>1, <2>5 DEF OneClaim, LinkCreated
    <2>11. LinkAlone'
      BY <2>5 DEF OneClaim, LinkAlone
    <2>12. ClaimAlone'
      BY <2>4 DEF OneClaim, ClaimAlone
    <2>13. QED
      BY <2>7, <2>8, <2>9, <2>10, <2>11, <2>12 DEF OneClaim
  <1>12. QED
    BY <1>6, <1>7, <1>10, <1>11

\* A limit set by hand is covered by peak.
LEMMA SetLimitKeeps ==
  ASSUME IInv, NEW s \in Slot, NEW max \in Limits, SetLimit(s, max)
  PROVE  IInv'
  <1> USE DEF IInv
  <1> DEFINE row == [tenant EXCEPT !.limit = max]
  <1>1. updateTenant(row) /\ UNCHANGED <<now, billing, education, stations, extensions, welcome>>
    BY DEF SetLimit
  <1>2. row \in Tenant
    BY PricingAssumption DEF TypeOK, Tenant
  <1> HIDE DEF row
  <1>3. /\ tenant' \in Tenant /\ tenant' = row
        /\ peak' \in Nat /\ peak' >= peak /\ peak' >= limit(row, now)
    BY <1>1, <1>2, TenantType DEF updateTenant
  <1>4. begun' \in Nat /\ \E r \in Requests : Takes(s, r) /\ r.pc = "sync"
    <2>1. FreeTenant \in Tenant /\ now \in Nat
      BY Constants DEF TypeOK
    <2>2. Start(s, Request("sync", 0, now, FreeTenant, 0))
      BY DEF SetLimit
    <2>3. QED
      BY <2>1, <2>2, StartTakes
  <1>5. PICK r \in Requests : Takes(s, r) /\ r.pc = "sync"
    BY <1>4
  <1>6. req' \in [Slot -> Requests] /\ ArgType'
    BY <1>5, ArgStep DEF AboutPayment, AboutClient
  <1>7. Covered'
    BY <1>1, <1>2, <1>3, <1>5, CoverStep, LimitType DEF TypeOK, stations
  <1>8. TypeOK'
    BY <1>1, <1>3, <1>4, <1>6 DEF TypeOK, billing, education, stations
  <1>9. OneClaim'
    BY <1>1, <1>5, ClaimStep DEF billing
  <1>10. QED
    BY <1>6, <1>7, <1>8, <1>9

\* A plan set by hand is covered by peak.
LEMMA SetPlanKeeps ==
  ASSUME IInv, NEW s \in Slot, NEW plan \in Plan, NEW expires \in Nat, SetPlan(s, plan, expires)
  PROVE  IInv'
  <1> USE DEF IInv
  <1> DEFINE row == [plan |-> plan, expires |-> IF plan = "free" THEN NoEnd ELSE expires,
                    limit |-> tenant.limit, trial |-> tenant.trial]
  <1>1. updateTenant(row) /\ UNCHANGED <<now, billing, education, stations, extensions, welcome>>
    BY DEF SetPlan
  <1>2. row \in Tenant
    BY DEF TypeOK, Tenant, NoEnd
  <1> HIDE DEF row
  <1>3. /\ tenant' \in Tenant /\ tenant' = row
        /\ peak' \in Nat /\ peak' >= peak /\ peak' >= limit(row, now)
    BY <1>1, <1>2, TenantType DEF updateTenant
  <1>4. begun' \in Nat /\ \E r \in Requests : Takes(s, r) /\ r.pc = "sync"
    <2>1. FreeTenant \in Tenant /\ now \in Nat
      BY Constants DEF TypeOK
    <2>2. Start(s, Request("sync", 0, now, FreeTenant, 0))
      BY DEF SetPlan
    <2>3. QED
      BY <2>1, <2>2, StartTakes
  <1>5. PICK r \in Requests : Takes(s, r) /\ r.pc = "sync"
    BY <1>4
  <1>6. req' \in [Slot -> Requests] /\ ArgType'
    BY <1>5, ArgStep DEF AboutPayment, AboutClient
  <1>7. Covered'
    BY <1>1, <1>2, <1>3, <1>5, CoverStep, LimitType DEF TypeOK, stations
  <1>8. TypeOK'
    BY <1>1, <1>3, <1>4, <1>6 DEF TypeOK, billing, education, stations
  <1>9. OneClaim'
    BY <1>1, <1>5, ClaimStep DEF billing
  <1>10. QED
    BY <1>6, <1>7, <1>8, <1>9

\* The education plan is covered by peak.
LEMMA GrantKeeps ==
  ASSUME IInv, NEW s \in Slot, Grant(s)
  PROVE  IInv'
  <1> USE DEF IInv
  <1> DEFINE row == [plan |-> "education", expires |-> req[s].at + EducationDays,
                    limit |-> IF kind(req[s].read, req[s].at) = "free" THEN Included
                              ELSE Larger(Included, limit(req[s].read, req[s].at)),
                    trial |-> tenant.trial]
  <1>1. updateTenant(row) /\ UNCHANGED <<now, billing, education, stations, extensions, welcome>>
    BY DEF Grant
  <1>2. row \in Tenant
    <2>1. req[s].at \in Nat /\ req[s].read \in Tenant /\ tenant.trial \in BOOLEAN
      BY DEF TypeOK, Requests, Tenant
    <2>2. limit(req[s].read, req[s].at) \in Nat \ {0}
      BY <2>1, LimitType
    <2>3. QED
      BY <2>1, <2>2, PricingAssumption DEF Tenant, Plan, Larger
  <1> HIDE DEF row
  <1>3. /\ tenant' \in Tenant /\ tenant' = row
        /\ peak' \in Nat /\ peak' >= peak /\ peak' >= limit(row, now)
    BY <1>1, <1>2, TenantType DEF updateTenant
  <1>4. begun' \in Nat /\ \E r \in Requests : Takes(s, r) /\ r.pc = "sync"
    <2>1. req[s].at \in Nat /\ begun \in Nat
      BY DEF TypeOK, Requests
    <2>2. QED
      BY <2>1, SyncTakes DEF Grant
  <1>5. PICK r \in Requests : Takes(s, r) /\ r.pc = "sync"
    BY <1>4
  <1>6. req' \in [Slot -> Requests] /\ ArgType'
    BY <1>5, ArgStep DEF AboutPayment, AboutClient
  <1>7. Covered'
    BY <1>1, <1>2, <1>3, <1>5, CoverStep, LimitType DEF TypeOK, stations
  <1>8. TypeOK'
    BY <1>1, <1>3, <1>4, <1>6 DEF TypeOK, billing, education, stations
  <1>9. OneClaim'
    BY <1>1, <1>5, ClaimStep DEF billing
  <1>10. QED
    BY <1>6, <1>7, <1>8, <1>9

\* syncLicences reads the row.
LEMMA SyncLicencesKeeps ==
  ASSUME IInv, NEW s \in Slot, syncLicences(s)
  PROVE  IInv'
  <1> USE DEF IInv
  <1>1. begun' = begun /\ \E r \in Requests : Takes(s, r) /\ r.pc = "clean"
    <2>1. limit(tenant, req[s].at) \in Nat /\ req[s].hourly \in BOOLEAN
      BY LimitType DEF TypeOK, Requests
    <2>2. QED
      BY <2>1, MarkedTakes DEF syncLicences
  <1>2. PICK r \in Requests : Takes(s, r) /\ r.pc = "clean"
    BY <1>1
  <1>3. req' \in [Slot -> Requests] /\ ArgType'
    BY <1>2, ArgStep DEF AboutPayment, AboutClient
  <1>4. TypeOK'
    BY <1>1, <1>3 DEF TypeOK, syncLicences, organization, billing, education, stations
  <1>5. OneClaim'
    BY <1>2, ClaimStep DEF syncLicences, billing
  <1>6. Covered'
    BY <1>2, CoverFrame DEF syncLicences, stations
  <1>7. QED
    BY <1>3, <1>4, <1>5, <1>6

\* The batch writes licences only.
LEMMA BatchKeeps ==
  ASSUME IInv, NEW s \in Slot, Batch(s)
  PROVE  IInv'
  <1> USE DEF IInv
  <1>1. begun' = begun /\ \E r \in Requests : Takes(s, r) /\ r.pc = "idle"
    BY EndTakes DEF Batch
  <1>2. PICK r \in Requests : Takes(s, r) /\ r.pc = "idle"
    BY <1>1
  <1>3. req' \in [Slot -> Requests] /\ ArgType'
    BY <1>2, ArgStep DEF AboutPayment, AboutClient
  <1>4. TypeOK'
    BY <1>1, <1>3 DEF TypeOK, Batch, organization, billing, education, stations, Requests, Change
  <1>5. OneClaim'
    BY <1>2, ClaimStep DEF Batch, billing
  <1>6. Covered'
    BY <1>2, CoverFrame DEF Batch, stations
  <1>7. QED
    BY <1>3, <1>4, <1>5, <1>6

\* Revoking a workstation's other tokens enrols nobody.
LEMMA RevokeOthersKeeps ==
  ASSUME IInv, NEW s \in Slot, RevokeOthers(s)
  PROVE  IInv'
  <1> USE DEF IInv
  <1>1. begun' = begun /\ \E r \in Requests : Takes(s, r) /\ r.pc = "idle"
    BY EndTakes DEF RevokeOthers
  <1>2. PICK r \in Requests : Takes(s, r) /\ r.pc = "idle"
    BY <1>1
  <1>3. req' \in [Slot -> Requests] /\ ArgType'
    BY <1>2, ArgStep DEF AboutPayment, AboutClient
  <1>4. TypeOK'
    BY <1>1, <1>3 DEF TypeOK, RevokeOthers, organization, billing, education, stations
  <1>5. OneClaim'
    BY <1>2, ClaimStep DEF RevokeOthers, billing
  <1>6. Covered'
    BY <1>2, CoverFrame DEF RevokeOthers, stations
  <1>7. QED
    BY <1>3, <1>4, <1>5, <1>6

\* Revoking a workstation's tokens enrols nobody.
LEMMA RevokeDeviceTokensForClientKeeps ==
  ASSUME IInv, NEW s \in Slot, revokeDeviceTokensForClient(s)
  PROVE  IInv'
  <1> USE DEF IInv
  <1>1. begun' = begun /\ \E r \in Requests : Takes(s, r) /\ r.pc = "sync"
    <2>1. now \in Nat
      BY DEF TypeOK
    <2>2. QED
      BY <2>1, SyncTakes DEF revokeDeviceTokensForClient
  <1>2. PICK r \in Requests : Takes(s, r) /\ r.pc = "sync"
    BY <1>1
  <1>3. req' \in [Slot -> Requests] /\ ArgType'
    BY <1>2, ArgStep DEF AboutPayment, AboutClient
  <1>4. TypeOK'
    BY <1>1, <1>3 DEF TypeOK, revokeDeviceTokensForClient, organization, billing, education, stations
  <1>5. OneClaim'
    BY <1>2, ClaimStep DEF revokeDeviceTokensForClient, billing
  <1>6. Covered'
    BY <1>2, CoverFrame DEF revokeDeviceTokensForClient, stations
  <1>7. QED
    BY <1>3, <1>4, <1>5, <1>6

\* The hourly check begins.
LEMMA HourlyKeeps ==
  ASSUME IInv, NEW s \in Slot, Hourly(s)
  PROVE  IInv'
  <1> USE DEF IInv
  <1>1. begun' = begun /\ \E r \in Requests : Takes(s, r) /\ r.pc = "sync"
    <2>1. now \in Nat
      BY DEF TypeOK
    <2>2. QED
      BY <2>1, MarkedTakes DEF Hourly
  <1>2. PICK r \in Requests : Takes(s, r) /\ r.pc = "sync"
    BY <1>1
  <1>3. req' \in [Slot -> Requests] /\ ArgType'
    BY <1>2, ArgStep DEF AboutPayment, AboutClient
  <1>4. TypeOK'
    BY <1>1, <1>3 DEF TypeOK, Hourly, organization, billing, education, stations
  <1>5. OneClaim'
    BY <1>2, ClaimStep DEF Hourly, billing
  <1>6. Covered'
    BY <1>2, CoverFrame DEF Hourly, stations
  <1>7. QED
    BY <1>3, <1>4, <1>5, <1>6

\* A request that ends early frees its slot: a payment it claimed stays claimed.
LEMMA AbortKeeps ==
  ASSUME IInv, NEW s \in Slot, Abort(s)
  PROVE  IInv'
  <1> USE DEF IInv
  <1>1. begun' = begun /\ \E r \in Requests : Takes(s, r) /\ r.pc = "idle"
    BY EndTakes DEF Abort
  <1>2. PICK r \in Requests : Takes(s, r) /\ r.pc = "idle"
    BY <1>1
  <1>3. req' \in [Slot -> Requests] /\ ArgType'
    BY <1>2, ArgStep DEF AboutPayment, AboutClient
  <1>4. TypeOK'
    BY <1>1, <1>3 DEF TypeOK, Abort, organization, billing, education, stations
  <1>5. OneClaim'
    BY <1>2, ClaimStep DEF Abort, billing
  <1>6. Covered'
    BY <1>2, CoverFrame DEF Abort, stations
  <1>7. QED
    BY <1>3, <1>4, <1>5, <1>6

\* The rows that go are those of removed workstations.
LEMMA RebalanceLicencesKeeps ==
  ASSUME IInv, NEW s \in Slot, rebalanceLicences(s)
  PROVE  IInv'
  <1> USE DEF IInv
  <1>1. begun' = begun /\ \E r \in Requests : Takes(s, r) /\ r.pc = "list"
    BY GoTakes DEF rebalanceLicences
  <1>2. PICK r \in Requests : Takes(s, r) /\ r.pc = "list"
    BY <1>1
  <1>3. req' \in [Slot -> Requests] /\ ArgType'
    BY <1>2, ArgStep DEF AboutPayment, AboutClient
  <1>4. TypeOK'
    <2>1. waiting \subseteq Client
      BY EnrolledType DEF waiting
    <2>2. QED
      BY <1>1, <1>3, <2>1 DEF TypeOK, rebalanceLicences, organization, billing, education
  <1>5. OneClaim'
    BY <1>2, ClaimStep DEF rebalanceLicences, billing
  <1>6. Covered'
    BY <1>2, CoverFrame DEF rebalanceLicences
  <1>7. QED
    BY <1>3, <1>4, <1>5, <1>6

\* Working out the licences writes nothing yet.
LEMMA FitKeeps ==
  ASSUME IInv, NEW s \in Slot, Fit(s)
  PROVE  IInv'
  <1> USE DEF IInv
  <1> DEFINE wanted == rebalance(req[s].number)
  <1>0. wanted \in Change
    BY EnrolledType DEF rebalance, Change, Oldest, Newest, licensed, waiting
  <1> HIDE DEF rebalance
  <1>1. begun' = begun /\ \E r \in Requests : Takes(s, r) /\ r.pc \in {"idle", "batch"}
    BY <1>0, EndTakes, DecidedTakes DEF Fit
  <1>2. PICK r \in Requests : Takes(s, r) /\ r.pc \in {"idle", "batch"}
    BY <1>1
  <1>3. req' \in [Slot -> Requests] /\ ArgType'
    BY <1>2, ArgStep DEF AboutPayment, AboutClient
  <1>4. TypeOK'
    BY <1>0, <1>1, <1>3 DEF TypeOK, Fit, organization, billing, education, stations
  <1>5. OneClaim'
    BY <1>2, ClaimStep DEF Fit, billing
  <1>6. Covered'
    BY <1>2, CoverFrame DEF Fit, stations
  <1>7. QED
    BY <1>3, <1>4, <1>5, <1>6

\* Working out a move writes nothing yet.
LEMMA MoveLicenceToKeeps ==
  ASSUME IInv, NEW s \in Slot, moveLicenceTo(s)
  PROVE  IInv'
  <1> USE DEF IInv
  <1> DEFINE full == Cardinality(licensed) >= req[s].number
             wanted == [drop |-> IF full THEN Oldest(licensed, 1) ELSE {}, add |-> {req[s].arg}]
  <1>0. req[s].arg \in waiting => wanted \in Change
    BY EnrolledType DEF Change, Oldest, licensed, waiting
  <1>1. begun' = begun /\ \E r \in Requests : Takes(s, r) /\ r.pc \in {"idle", "batch"}
    BY <1>0, EndTakes, DecidedTakes DEF moveLicenceTo
  <1>2. PICK r \in Requests : Takes(s, r) /\ r.pc \in {"idle", "batch"}
    BY <1>1
  <1>3. req' \in [Slot -> Requests] /\ ArgType'
    BY <1>2, ArgStep DEF AboutPayment, AboutClient
  <1>4. TypeOK'
    BY <1>0, <1>1, <1>3 DEF TypeOK, moveLicenceTo, organization, billing, education, stations
  <1>5. OneClaim'
    BY <1>2, ClaimStep DEF moveLicenceTo, billing
  <1>6. Covered'
    BY <1>2, CoverFrame DEF moveLicenceTo, stations
  <1>7. QED
    BY <1>3, <1>4, <1>5, <1>6

\* The decision writes the application only.
LEMMA DecideApplicationKeeps ==
  ASSUME IInv, NEW s \in Slot, decideApplication(s)
  PROVE  IInv'
  <1> USE DEF IInv
  <1>1. begun' = begun /\ \E r \in Requests : Takes(s, r) /\ r.pc \in {"grant", "idle"}
    BY GoTakes, EndTakes DEF decideApplication
  <1>2. PICK r \in Requests : Takes(s, r) /\ r.pc \in {"grant", "idle"}
    BY <1>1
  <1>3. req' \in [Slot -> Requests] /\ ArgType'
    BY <1>2, ArgStep DEF AboutPayment, AboutClient
  <1>4. TypeOK'
    BY <1>1, <1>3 DEF TypeOK, decideApplication, organization, billing, stations
  <1>5. OneClaim'
    BY <1>2, ClaimStep DEF decideApplication, billing
  <1>6. Covered'
    BY <1>2, CoverFrame DEF decideApplication, stations
  <1>7. QED
    BY <1>3, <1>4, <1>5, <1>6

\* A removal that begins writes the registry only.
LEMMA RemoveKeeps ==
  ASSUME IInv, NEW s \in Slot, NEW c \in Client, Remove(s, c)
  PROVE  IInv'
  <1> USE DEF IInv
  <1>1. Start(s, Request("revoke", c, 0, FreeTenant, 0))
    BY DEF Remove
  <1>2. begun' \in Nat /\ \E r \in Requests : Takes(s, r) /\ r.pc = "revoke" /\ r.arg = c
    <2>1. FreeTenant \in Tenant
      BY Constants
    <2>2. QED
      BY <1>1, <2>1, StartTakes
  <1>3. PICK r \in Requests : Takes(s, r) /\ r.pc = "revoke" /\ r.arg = c
    BY <1>2
  <1>4. req' \in [Slot -> Requests] /\ ArgType'
    BY <1>3, ArgStep DEF AboutPayment, AboutClient
  <1>5. TypeOK'
    BY <1>2, <1>4 DEF TypeOK, Remove, organization, billing, education
  <1>6. OneClaim'
    BY <1>3, ClaimStep DEF Remove, billing
  <1>7. Covered'
    BY <1>3, CoverFrame DEF Remove
  <1>8. QED
    BY <1>4, <1>5, <1>6, <1>7

\* The insert leaves the row the limit is read from, and the requests of others, as they are.
LEMMA CreateDeviceTokenKeeps ==
  ASSUME IInv, NEW s \in Slot, NEW day \in Nat, createDeviceToken(s, day)
  PROVE  IInv'
  <1> USE DEF IInv
  <1> DEFINE c == req[s].arg
  <1>1. /\ UNCHANGED <<now, organization, billing, education, seen, unlicensed, extensions>>
        /\ At(s, "token") /\ req[s].at <= day
    BY DEF createDeviceToken
  <1>2. c \in Client /\ req[s].number \in Nat
    BY <1>1 DEF At, ArgType, AboutClient, TypeOK, Requests
  <1>3. begun' = begun /\ \E r \in Requests : Takes(s, r) /\ (r.pc = "idle" \/ (r.pc = "replace" /\ r.arg = c))
    <2>1. CASE Room(s, day)
      <3>1. Become(s, Request("replace", c, 0, FreeTenant, req[s].number))
        BY <2>1 DEF createDeviceToken
      <3>2. FreeTenant \in Tenant
        BY Constants
      <3>3. QED
        BY <1>2, <3>1, <3>2, BecomeTakes
    <2>2. CASE ~ Room(s, day)
      BY <2>2, EndTakes DEF createDeviceToken
    <2>3. QED
      BY <2>1, <2>2
  <1>4. PICK r \in Requests : Takes(s, r) /\ (r.pc = "idle" \/ (r.pc = "replace" /\ r.arg = c))
    BY <1>3
  <1>5. req' \in [Slot -> Requests] /\ ArgType'
    BY <1>2, <1>4, ArgStep DEF AboutPayment, AboutClient
  <1>6. TypeOK'
    BY <1>1, <1>2, <1>3, <1>5 DEF TypeOK, createDeviceToken, organization, billing, education
  <1>7. OneClaim'
    BY <1>1, <1>4, ClaimStep DEF billing
  <1>8. Covered'
    BY <1>1, <1>4, CoverFrame
  <1>9. QED
    BY <1>5, <1>6, <1>7, <1>8

\* A new payment's row belongs to this request alone and extends nothing.
LEMMA CheckoutKeeps ==
  ASSUME IInv, NEW s \in Slot, NEW p \in Payment, NEW period \in Periods, NEW extra \in Extras, Checkout(s, p, period, extra)
  PROVE  IInv'
  <1> USE DEF IInv
  <1>1. Start(s, Request("link", p, 0, FreeTenant, 0)) /\ payments[p].status = "none"
    BY DEF Checkout
  <1>2. begun' \in Nat /\ \E r \in Requests : Takes(s, r) /\ r.pc = "link" /\ r.arg = p
    <2>1. FreeTenant \in Tenant /\ p \in Client \cup Payment \cup {0} /\ 0 \in Nat
      BY Constants
    <2>2. \E r \in Requests : Takes(s, r) /\ r.pc = "link" /\ r.arg = p /\ r.at = 0 /\ r.read = FreeTenant
      BY <1>1, <2>1, StartTakes
    <2>3. begun' \in Nat
      BY <1>1 DEF Start, TypeOK
    <2>4. QED
      BY <2>2, <2>3
  <1>3. PICK r \in Requests : Takes(s, r) /\ r.pc = "link" /\ r.arg = p
    BY <1>2
  <1>4. req' \in [Slot -> Requests] /\ ArgType'
    BY <1>3, ArgStep DEF AboutPayment, AboutClient
  <1>5. /\ payments' \in [Payment -> Payments] /\ payments'[p].status = "created"
        /\ \A x \in Payment : x # p => payments'[x] = payments[x]
    BY DEF Checkout, TypeOK, Payments
  <1>6. TypeOK'
    BY <1>2, <1>4, <1>5 DEF TypeOK, Checkout, organization, education, stations
  <1>7. OneClaim'
    <2>1. req' = [req EXCEPT ![s] = r] /\ req \in [Slot -> Requests] /\ extensions' = extensions
      BY <1>3 DEF Takes, TypeOK, Checkout
    <2>2. \A u \in Slot : u # s => req'[u] = req[u]
      BY <2>1
    <2>3. req'[s].pc = "link" /\ req'[s].arg = p
      BY <1>3, <2>1
    <2>4. \A u \in Slot : req[u].pc = "link" => req[u].arg \in Payment /\ req[u].arg # p
      BY <1>1 DEF ArgType, AboutPayment, OneClaim, LinkCreated
    <2>5. \A u \in Slot : Claimed(u) => req[u].arg \in Payment /\ req[u].arg # p
      BY <1>1 DEF ArgType, AboutPayment, Claimed, OneClaim, ClaimPaid
    <2>6. \A u \in Slot : Claimed(u)' => u # s /\ Claimed(u) /\ req'[u] = req[u]
      BY <2>2, <2>3 DEF Claimed
    <2>7. PaymentExtendsOnce'
      BY <1>1, <1>5, <2>1 DEF OneClaim, PaymentExtendsOnce, UnpaidNone
    <2>8. UnpaidNone'
      BY <1>1, <1>5, <2>1 DEF OneClaim, UnpaidNone
    <2>9. LinkCreated'
      <3>1. \A u \in Slot : u # s /\ req'[u].pc = "link" => payments'[req'[u].arg].status = "created"
        BY <1>5, <2>2, <2>4 DEF OneClaim, LinkCreated
      <3>2. QED
        BY <1>5, <2>3, <3>1 DEF LinkCreated
    <2>10. LinkAlone'
      <3>1. \A u, v \in Slot : u # s /\ v # s /\ u # v /\ req'[u].pc = "link" /\ req'[v].pc = "link"
                                => req'[u].arg # req'[v].arg
        BY <2>2 DEF OneClaim, LinkAlone
      <3>2. \A u \in Slot : u # s /\ req'[u].pc = "link" => req'[u].arg # req'[s].arg
        BY <2>2, <2>3, <2>4
      <3>3. QED
        BY <3>1, <3>2 DEF LinkAlone
    <2>11. ClaimPaid'
      BY <1>5, <2>1, <2>5, <2>6 DEF OneClaim, ClaimPaid
    <2>12. ClaimAlone'
      BY <2>6 DEF OneClaim, ClaimAlone
    <2>13. QED
      BY <2>7, <2>8, <2>9, <2>10, <2>11, <2>12 DEF OneClaim
  <1>8. Covered'
    BY <1>3, CoverFrame DEF Checkout, stations
  <1>9. QED
    BY <1>4, <1>6, <1>7, <1>8

\* A link, or its failure, leaves the payment unpaid.
LEMMA LinkKeeps ==
  ASSUME IInv, NEW s \in Slot, NEW given \in BOOLEAN, Link(s, given)
  PROVE  IInv'
  <1> USE DEF IInv
  <1> DEFINE p == req[s].arg
  <1>1. At(s, "link") /\ p \in Payment /\ payments[p].status = "created"
    BY DEF Link, At, ArgType, AboutPayment, OneClaim, LinkCreated
  <1>2. begun' = begun /\ \E r \in Requests : Takes(s, r) /\ r.pc = "idle"
    BY EndTakes DEF Link
  <1>3. PICK r \in Requests : Takes(s, r) /\ r.pc = "idle"
    BY <1>2
  <1>4. req' \in [Slot -> Requests] /\ ArgType'
    BY <1>3, ArgStep DEF AboutPayment, AboutClient
  <1>5. /\ payments' \in [Payment -> Payments] /\ payments'[p].status # "paid"
        /\ \A x \in Payment : x # p => payments'[x] = payments[x]
    BY <1>1, Constants DEF Link, TypeOK, Payments, NoPayment
  <1>6. TypeOK'
    BY <1>2, <1>4, <1>5 DEF TypeOK, Link, organization, education, stations
  <1>7. OneClaim'
    <2>1. req' = [req EXCEPT ![s] = r] /\ req \in [Slot -> Requests] /\ extensions' = extensions
      BY <1>3 DEF Takes, TypeOK, Link
    <2>2. \A u \in Slot : req'[u].pc = "link" => u # s /\ req'[u] = req[u]
      BY <1>3, <2>1
    <2>3. \A u \in Slot : Claimed(u)' => u # s /\ Claimed(u) /\ req'[u] = req[u]
      BY <1>3, <2>1 DEF Claimed
    <2>4. \A u \in Slot : u # s /\ req[u].pc = "link" => req[u].arg \in Payment /\ req[u].arg # p
      BY <1>1 DEF At, ArgType, AboutPayment, OneClaim, LinkAlone
    <2>5. \A u \in Slot : Claimed(u) => req[u].arg \in Payment /\ req[u].arg # p
      BY <1>1 DEF ArgType, AboutPayment, Claimed, OneClaim, ClaimPaid
    <2>6. PaymentExtendsOnce'
      BY <1>1, <1>5, <2>1 DEF OneClaim, PaymentExtendsOnce, UnpaidNone
    <2>7. UnpaidNone'
      BY <1>1, <1>5, <2>1 DEF OneClaim, UnpaidNone
    <2>8. LinkCreated'
      <3>1. \A u \in Slot : req'[u].pc = "link" => req[u].pc = "link" /\ payments'[req'[u].arg] = payments[req[u].arg]
        BY <1>5, <2>2, <2>4
      <3>2. QED
        BY <3>1 DEF OneClaim, LinkCreated
    <2>9. LinkAlone'
      BY <2>2 DEF OneClaim, LinkAlone
    <2>10. ClaimPaid'
      BY <1>5, <2>1, <2>3, <2>5 DEF OneClaim, ClaimPaid
    <2>11. ClaimAlone'
      BY <2>3 DEF OneClaim, ClaimAlone
    <2>12. QED
      BY <2>6, <2>7, <2>8, <2>9, <2>10, <2>11 DEF OneClaim
  <1>8. Covered'
    BY <1>3, CoverFrame DEF Link, stations
  <1>9. QED
    BY <1>4, <1>6, <1>7, <1>8

\* The claim succeeds for one request: afterwards the payment is paid.
LEMMA ClaimKeeps ==
  ASSUME IInv, NEW s \in Slot, claim(s)
  PROVE  IInv'
  <1> USE DEF IInv
  <1> DEFINE p == req[s].arg
  <1>1. At(s, "claim") /\ p \in Payment /\ UNCHANGED <<now, organization, paid, education, stations, extensions, welcome>>
    BY DEF claim, At, ArgType, AboutPayment
  <1>2. CASE payments[p].status = "linked"
    <2>1. begun' = begun /\ \E r \in Requests : Takes(s, r) /\ r.pc = "tenant" /\ r.arg = p
      BY <1>2, GoTakes DEF claim
    <2>2. PICK r \in Requests : Takes(s, r) /\ r.pc = "tenant" /\ r.arg = p
      BY <2>1
    <2>3. req' \in [Slot -> Requests] /\ ArgType'
      BY <1>1, <2>2, ArgStep DEF AboutPayment, AboutClient
    <2>4. /\ payments' \in [Payment -> Payments] /\ payments'[p].status = "paid"
          /\ \A x \in Payment : x # p => payments'[x] = payments[x]
      <3>1. payments' = [payments EXCEPT ![p] = Paid(@)] /\ payments \in [Payment -> Payments]
        BY <1>2 DEF claim, TypeOK
      <3>2. Paid(payments[p]) \in Payments /\ Paid(payments[p]).status = "paid"
        BY <1>1, <3>1 DEF Paid, Payments
      <3>3. QED
        BY <1>1, <3>1, <3>2
    <2>5. TypeOK'
      BY <1>1, <2>1, <2>3, <2>4 DEF TypeOK, organization, education, stations
    <2>6. OneClaim'
      <3>1. /\ req' = [req EXCEPT ![s] = r] /\ req \in [Slot -> Requests]
            /\ extensions' = extensions /\ extensions[p] = 0
        BY <1>1, <1>2, <2>2 DEF Takes, TypeOK, OneClaim, UnpaidNone
      <3>2. \A u \in Slot : u # s => req'[u] = req[u]
        BY <3>1
      <3>3. req'[s].pc = "tenant" /\ req'[s].arg = p
        BY <2>2, <3>1
      <3>4. \A u \in Slot : req[u].pc = "link" => req[u].arg \in Payment /\ req[u].arg # p
        BY <1>2 DEF ArgType, AboutPayment, OneClaim, LinkCreated
      <3>5. \A u \in Slot : Claimed(u) => req[u].arg \in Payment /\ req[u].arg # p
        BY <1>2 DEF ArgType, AboutPayment, Claimed, OneClaim, ClaimPaid
      <3>6. \A u \in Slot : req'[u].pc = "link" => u # s /\ req'[u] = req[u]
        BY <3>2, <3>3
      <3>7. \A u \in Slot : u # s => Claimed(u)' = Claimed(u)
        BY <3>2 DEF Claimed
      <3>8. PaymentExtendsOnce'
        BY <1>1, <2>4, <3>1 DEF OneClaim, PaymentExtendsOnce
      <3>9. UnpaidNone'
        BY <2>4, <3>1 DEF OneClaim, UnpaidNone
      <3>10. LinkCreated'
        BY <2>4, <3>4, <3>6 DEF OneClaim, LinkCreated
      <3>11. LinkAlone'
        BY <3>6 DEF OneClaim, LinkAlone
      <3>12. ClaimPaid'
        BY <2>4, <3>1, <3>2, <3>3, <3>5, <3>7 DEF OneClaim, ClaimPaid
      <3>13. ClaimAlone'
        BY <3>2, <3>3, <3>5, <3>7 DEF OneClaim, ClaimAlone
      <3>14. QED
        BY <3>8, <3>9, <3>10, <3>11, <3>12, <3>13 DEF OneClaim
    <2>7. Covered'
      BY <1>1, <2>2, CoverFrame DEF stations
    <2>8. QED
      BY <2>3, <2>5, <2>6, <2>7
  <1>3. CASE payments[p].status # "linked"
    <2>1. payments' = payments /\ begun' = begun /\ \E r \in Requests : Takes(s, r) /\ r.pc = "idle"
      BY <1>3, EndTakes DEF claim
    <2>2. PICK r \in Requests : Takes(s, r) /\ r.pc = "idle"
      BY <2>1
    <2>3. req' \in [Slot -> Requests] /\ ArgType'
      BY <2>2, ArgStep DEF AboutPayment, AboutClient
    <2>4. TypeOK'
      BY <1>1, <2>1, <2>3 DEF TypeOK, organization, education, stations
    <2>5. OneClaim'
      BY <1>1, <2>1, <2>2, ClaimStep
    <2>6. Covered'
      BY <1>1, <2>2, CoverFrame DEF stations
    <2>7. QED
      BY <2>3, <2>4, <2>5, <2>6
  <1>4. QED
    BY <1>2, <1>3

\* The request past the claim stays the only one.
LEMMA ReadTenantKeeps ==
  ASSUME IInv, NEW s \in Slot, ReadTenant(s)
  PROVE  IInv'
  <1> USE DEF IInv
  <1>1. At(s, "tenant") /\ UNCHANGED <<now, organization, billing, education, stations, extensions, welcome>>
    BY DEF ReadTenant
  <1>2. begun' = begun /\ \E r \in Requests : Takes(s, r) /\ r.pc = "extend" /\ r.arg = req[s].arg
    <2>1. req[s].arg \in Payment /\ req[s].at \in Nat /\ tenant \in Tenant
      BY <1>1 DEF At, ArgType, AboutPayment, TypeOK, Requests
    <2>2. Become(s, Request("extend", req[s].arg, req[s].at, tenant, 0))
      BY DEF ReadTenant
    <2>3. QED
      BY <2>1, <2>2, BecomeTakes
  <1>3. PICK r \in Requests : Takes(s, r) /\ r.pc = "extend" /\ r.arg = req[s].arg
    BY <1>2
  <1>4. req' \in [Slot -> Requests] /\ ArgType'
    <2>1. req[s].arg \in Payment
      BY <1>1 DEF At, ArgType, AboutPayment
    <2>2. QED
      BY <1>3, <2>1, ArgStep DEF AboutPayment, AboutClient
  <1>5. TypeOK'
    BY <1>1, <1>2, <1>4 DEF TypeOK, organization, billing, education, stations
  <1>6. OneClaim'
    <2>1. /\ req' = [req EXCEPT ![s] = r] /\ req \in [Slot -> Requests]
          /\ extensions' = extensions /\ payments' = payments
      BY <1>1, <1>3 DEF Takes, TypeOK, billing
    <2>2. \A u \in Slot : /\ req'[u].arg = req[u].arg /\ Claimed(u)' = Claimed(u)
                          /\ req'[u].pc = "link" => req[u].pc = "link"
      BY <1>1, <1>3, <2>1 DEF At, Claimed
    <2>3. PaymentExtendsOnce' /\ UnpaidNone'
      BY <2>1 DEF OneClaim, PaymentExtendsOnce, UnpaidNone
    <2>4. LinkCreated'
      BY <2>1, <2>2 DEF OneClaim, LinkCreated
    <2>5. LinkAlone'
      BY <2>2 DEF OneClaim, LinkAlone
    <2>6. ClaimPaid'
      BY <2>1, <2>2 DEF OneClaim, ClaimPaid
    <2>7. ClaimAlone'
      BY <2>2 DEF OneClaim, ClaimAlone
    <2>8. QED
      BY <2>3, <2>4, <2>5, <2>6, <2>7 DEF OneClaim
  <1>7. Covered'
    BY <1>1, <1>3, CoverFrame DEF stations
  <1>8. QED
    BY <1>4, <1>5, <1>6, <1>7

\* An application changes nothing about payments and places.
LEMMA StartApplicationKeeps ==
  ASSUME IInv, startApplication
  PROVE  IInv'
  <1> USE DEF IInv
  <1>1. UNCHANGED <<now, organization, payments, tokens, req, extensions, welcome>> /\ begun' \in Nat
    BY DEF startApplication, Short, billing, stations, requests, TypeOK
  <1>2. TypeOK'
    BY <1>1 DEF TypeOK, startApplication, organization, billing, education, stations
  <1>3. ArgType' /\ OneClaim'
    BY <1>1 DEF ArgType, OneClaim, LinkCreated, LinkAlone, ClaimPaid, ClaimAlone, UnpaidNone,
                Claimed, PaymentExtendsOnce
  <1>4. Covered'
    BY <1>1 DEF Covered, organization
  <1>5. QED
    BY <1>2, <1>3, <1>4

\* A code entered changes nothing about payments and places.
LEMMA ConfirmApplicationEmailKeeps ==
  ASSUME IInv, NEW right \in BOOLEAN, confirmApplicationEmail(right)
  PROVE  IInv'
  <1> USE DEF IInv
  <1>1. UNCHANGED <<now, organization, payments, tokens, req, extensions, welcome>> /\ begun' \in Nat
    BY DEF confirmApplicationEmail, Short, billing, stations, requests, TypeOK
  <1>2. TypeOK'
    BY <1>1 DEF TypeOK, confirmApplicationEmail, organization, billing, education, stations
  <1>3. ArgType' /\ OneClaim'
    BY <1>1 DEF ArgType, OneClaim, LinkCreated, LinkAlone, ClaimPaid, ClaimAlone, UnpaidNone,
                Claimed, PaymentExtendsOnce
  <1>4. Covered'
    BY <1>1 DEF Covered, organization
  <1>5. QED
    BY <1>2, <1>3, <1>4

\* A rejection changes nothing about payments and places.
LEMMA RejectKeeps ==
  ASSUME IInv, Reject
  PROVE  IInv'
  <1> USE DEF IInv
  <1>1. UNCHANGED <<now, organization, payments, tokens, req, extensions, welcome>> /\ begun' \in Nat
    BY DEF Reject, Short, billing, stations, requests, TypeOK
  <1>2. TypeOK'
    BY <1>1 DEF TypeOK, Reject, organization, billing, education, stations
  <1>3. ArgType' /\ OneClaim'
    BY <1>1 DEF ArgType, OneClaim, LinkCreated, LinkAlone, ClaimPaid, ClaimAlone, UnpaidNone,
                Claimed, PaymentExtendsOnce
  <1>4. Covered'
    BY <1>1 DEF Covered, organization
  <1>5. QED
    BY <1>2, <1>3, <1>4

\* A payment at Razorpay is not yet recorded.
LEMMA PayKeeps ==
  ASSUME IInv, NEW p \in Payment, Pay(p)
  PROVE  IInv'
  <1> USE DEF IInv
  <1>1. UNCHANGED <<now, organization, payments, tokens, req, extensions, welcome>> /\ begun' \in Nat
    BY DEF Pay, Short, billing, stations, requests, TypeOK
  <1>2. TypeOK'
    BY <1>1 DEF TypeOK, Pay, organization, billing, education, stations
  <1>3. ArgType' /\ OneClaim'
    BY <1>1 DEF ArgType, OneClaim, LinkCreated, LinkAlone, ClaimPaid, ClaimAlone, UnpaidNone,
                Claimed, PaymentExtendsOnce
  <1>4. Covered'
    BY <1>1 DEF Covered, organization
  <1>5. QED
    BY <1>2, <1>3, <1>4

\* A contact writes the registry only.
LEMMA SeenKeeps ==
  ASSUME IInv, NEW c \in Client, Seen(c)
  PROVE  IInv'
  <1> USE DEF IInv
  <1>1. UNCHANGED <<now, organization, payments, tokens, req, extensions, welcome>> /\ begun' \in Nat
    BY DEF Seen, Short, billing, stations, requests, TypeOK
  <1>2. TypeOK'
    BY <1>1 DEF TypeOK, Seen, organization, billing, education, stations
  <1>3. ArgType' /\ OneClaim'
    BY <1>1 DEF ArgType, OneClaim, LinkCreated, LinkAlone, ClaimPaid, ClaimAlone, UnpaidNone,
                Claimed, PaymentExtendsOnce
  <1>4. Covered'
    BY <1>1 DEF Covered, organization
  <1>5. QED
    BY <1>2, <1>3, <1>4

\* A limit that was covered by peak still is a day later.
LEMMA TickKeeps ==
  ASSUME IInv, Tick
  PROVE  IInv'
  <1> USE DEF IInv
  <1>1. /\ UNCHANGED <<organization, billing, education, stations, requests, extensions, welcome>>
        /\ now' = now + 1 /\ now \in Nat /\ peak \in Nat
    BY DEF Tick, TypeOK
  <1>2. TypeOK'
    BY <1>1 DEF TypeOK, organization, billing, education, stations, requests
  <1>3. ArgType' /\ OneClaim'
    BY <1>1 DEF ArgType, OneClaim, LinkCreated, LinkAlone, ClaimPaid, ClaimAlone, UnpaidNone,
                Claimed, PaymentExtendsOnce, billing, requests
  <1>4. limit(tenant, now') <= peak
    <2>1. tenant \in Tenant /\ limit(tenant, now) <= peak
      BY DEF TypeOK, Covered
    <2>2. limit(tenant, now) \in Nat /\ limit(tenant, now + 1) \in Nat /\ limit(tenant, now + 1) <= limit(tenant, now)
      BY <1>1, <2>1, LimitType
    <2>3. QED
      BY <1>1, <2>1, <2>2
  <1>5. Covered'
    BY <1>1, <1>4 DEF Covered, organization, stations, requests
  <1>6. QED
    BY <1>2, <1>3, <1>5

\* A step that changes nothing.
LEMMA StutterKeeps ==
  ASSUME IInv, UNCHANGED vars
  PROVE  IInv'
  <1> USE DEF IInv
  <1>1. UNCHANGED <<now, organization, billing, education, stations, requests, extensions, welcome>>
    BY DEF vars
  <1>2. TypeOK'
    BY <1>1 DEF TypeOK, organization, billing, education, stations, requests
  <1>3. ArgType' /\ OneClaim' /\ Covered'
    BY <1>1 DEF ArgType, OneClaim, LinkCreated, LinkAlone, ClaimPaid, ClaimAlone, UnpaidNone,
                Claimed, PaymentExtendsOnce, Covered,
                organization, billing, stations, requests
  <1>4. QED
    BY <1>2, <1>3

-------------------------------------------------------------------------------
(* The theorems.                                                             *)

\* The invariant behind the others: for any workstations, payments, slots,
\* prices and plans, and whatever requests overlap or fail.
THEOREM InductiveInvariant == Spec => []IInv
  <1>1. ASSUME Init PROVE IInv
    <2>1. TypeOK
      <3>1. tenant \in Tenant /\ peak \in Nat
        <4>1. Subscribed \in Tenant
          BY PricingAssumption DEF Subscribed, Tenant, Plan
        <4>2. QED
          BY <1>1, <4>1, Constants DEF Init, Tenant
      <3>2. payments \in [Payment -> Payments] /\ paid \subseteq Payment
        <4>1. CASE payments = [p \in Payment |-> NoPayment] /\ paid = {}
          BY <4>1, Constants
        <4>2. CASE /\ \E period \in Periods, extra \in Extras :
                        payments = [p \in Payment |-> [status |-> "linked", period |-> period, extra |-> extra]]
                   /\ paid = Payment
          BY <4>2 DEF Payments
        <4>3. QED
          BY <1>1, <4>1, <4>2 DEF Init
      <3>3. tokens \subseteq Client \X Nat /\ welcome \subseteq Client
        <4>1. PICK S \in SUBSET Client : tokens = {<<c, 0>> : c \in S} /\ welcome = S
          BY <1>1 DEF Init
        <4>2. QED
          BY <4>1
      <3>4. req \in [Slot -> Requests]
        BY <1>1, Constants DEF Init
      <3>5. QED
        BY <1>1, <3>1, <3>2, <3>3, <3>4 DEF Init, TypeOK
    <2>2. ArgType /\ OneClaim
      <3>1. /\ \A s \in Slot : req[s].pc = "idle"
            /\ \A x \in Payment : payments[x].status # "paid" /\ extensions[x] = 0
        <4>1. \A s \in Slot : req[s].pc = "idle"
          BY <1>1 DEF Init, NoRequest, Request
        <4>2. \A x \in Payment : extensions[x] = 0
          BY <1>1 DEF Init
        <4>3. \A x \in Payment : payments[x].status \in {"none", "linked"}
          BY <1>1 DEF Init, NoPayment
        <4>4. QED
          BY <4>1, <4>2, <4>3
      <3>2. ArgType /\ LinkCreated /\ LinkAlone
        BY <3>1 DEF ArgType, AboutPayment, AboutClient, LinkCreated, LinkAlone
      <3>3. ClaimPaid /\ ClaimAlone
        BY <3>1 DEF Claimed, ClaimPaid, ClaimAlone
      <3>4. UnpaidNone /\ PaymentExtendsOnce
        BY <3>1 DEF UnpaidNone, PaymentExtendsOnce
      <3>5. QED
        BY <3>2, <3>3, <3>4 DEF OneClaim
    <2>3. limit(tenant, now) <= peak
      <3>1. tenant.limit \in Nat /\ peak = tenant.limit
        BY <1>1, <2>1 DEF Init, TypeOK, Tenant
      <3>2. QED
        BY <3>1, PricingAssumption DEF limit, Smaller
    <2>4. QED
      BY <1>1, <2>1, <2>2, <2>3 DEF Init, IInv, Covered, NoRequest, Request
  <1>2. ASSUME IInv, [Next]_vars PROVE IInv'
    <2>1. \A given \in GivenPlans : given[1] \in Plan /\ given[2] \in Nat
      BY PlansAssumption DEF Plan
    <2>2. ASSUME NEW s \in Slot, Begin(s) PROVE IInv'
      BY <1>2, <2>1, <2>2, TrialKeeps, CheckoutKeeps, ActivateKeeps, SetLimitKeeps, SetPlanKeeps,
         ApproveKeeps, EnrolKeeps, RemoveKeeps, MoveLicenceKeeps DEF Begin
    <2>3. now \in Nat
      BY <1>2 DEF IInv, TypeOK
    <2>4. ASSUME NEW s \in Slot, Step(s) PROVE IInv'
      BY <1>2, <2>3, <2>4, TrialWriteKeeps, LinkKeeps, ClaimKeeps, ReadTenantKeeps, RecordPaymentKeeps,
         DecideApplicationKeeps, GrantKeeps, CreateDeviceTokenKeeps, RevokeOthersKeeps,
         RevokeDeviceTokensForClientKeeps, SyncLicencesKeeps, FitKeeps, RebalanceLicencesKeeps, BatchKeeps,
         MoveLicenceToKeeps DEF Step
    <2>5. QED
      BY <1>2, <2>2, <2>4, HourlyKeeps, AbortKeeps, StartApplicationKeeps,
         ConfirmApplicationEmailKeeps, RejectKeeps, PayKeeps, SeenKeeps, TickKeeps, StutterKeeps DEF Next
  <1>3. QED
    BY <1>1, <1>2, PTL DEF Spec

\* The rows a request leaves in tenants, payments, device_tokens and
\* unlicensed_workstations keep their shape.
THEOREM TypeCorrect == Spec => []TypeOK
  <1>1. IInv => TypeOK
    BY DEF IInv
  <1>2. QED
    BY <1>1, InductiveInvariant, PTL

\* A payment extends the subscription at most once, and only once it is paid,
\* for any number of webhooks and returns that bring it at the same time.
THEOREM PaymentOnce == Spec => []PaymentExtendsOnce
  <1>1. IInv => PaymentExtendsOnce
    BY DEF IInv, OneClaim
  <1>2. QED
    BY <1>1, InductiveInvariant, PTL

===============================================================================
