------------------------------- MODULE Licences -------------------------------
(***************************************************************************)
(* What an organization may run: its plan and limit, how payments, a trial,*)
(* an education approval or the platform change them, enrolment against    *)
(* the limit, and which of the enrolled workstations the limit licenses.   *)
(*                                                                         *)
(* Requests run side by side in the Worker, each in a slot here.  Every    *)
(* statement to D1 is atomic and every await between two of them lets the  *)
(* other requests in; a request may also end at any await, by an error of  *)
(* D1 or the end of its Worker.  Time counts days.                         *)
(***************************************************************************)
EXTENDS Integers, FiniteSets

CONSTANTS
  Client,         \* workstations, numbered in the order of their names
  Payment,        \* ids of rows in payments
  Slot,           \* requests that run at the same time
  Free,           \* PRICING.freeWorkstations
  Included,       \* PRICING.includedWorkstations and educationWorkstations
  Extras,         \* extra workstations a payment may buy
  Limits,         \* limits the platform may set by hand
  Periods,        \* days a payment pays for
  TrialDays,      \* PRICING.trialDays
  EducationDays,  \* PRICING.educationDays
  CodeAttempts,   \* EDUCATION_LIMITS.codeAttempts
  GivenPlans,     \* plans the platform may set by hand, with their end: <<plan, end>>
  MaxRequests,    \* bound: requests apart from the hourly check
  MaxTime         \* bound: days

ASSUME SlotAssumption == Slot \subseteq Nat
ASSUME ClientAssumption == Client \subseteq Nat /\ IsFiniteSet(Client)
ASSUME PricingAssumption ==
  /\ Free \in Nat \ {0} /\ Included \in Nat \ {0}
  /\ Extras \subseteq Nat /\ Limits \subseteq Nat \ {0}
  /\ Periods \subseteq Nat \ {0} /\ TrialDays \in Nat \ {0} /\ EducationDays \in Nat \ {0}
ASSUME PlansAssumption == GivenPlans \subseteq {"free", "evaluation", "subscriber", "education", "commercial"} \X Nat
ASSUME BoundAssumption == CodeAttempts \in Nat /\ MaxRequests \in Nat /\ MaxTime \in Nat

VARIABLES
  now,          \* the date
  tenant,       \* the organization's plan, its end, its limit, its trial
  payments,     \* the table payments
  paid,         \* payment links the customer has paid at Razorpay
  application,  \* the latest education application
  attempts,     \* wrong codes entered for it
  tokens,       \* device_tokens that are not revoked: <<workstation, number>>
  seen,         \* client_devices.last_seen; 0 for a workstation with no row
  unlicensed,   \* the table unlicensed_workstations
  req,          \* the request in each slot
  begun,        \* requests begun so far
  peak,         \* history: the highest limit in force so far
  extensions,   \* history: how often each payment extended the subscription
  welcome       \* history: workstations enrolled and not removed since

organization == <<tenant, peak>>
billing == <<payments, paid>>
education == <<application, attempts>>
stations == <<tokens, seen, unlicensed>>
requests == <<req, begun>>
vars == <<now, organization, billing, education, stations, requests, extensions, welcome>>

Plan == {"free", "evaluation", "subscriber", "education", "commercial"}
NoEnd == 0
Tenant == [plan : Plan, expires : Nat, limit : Nat \ {0}, trial : BOOLEAN]
FreeTenant == [plan |-> "free", expires |-> NoEnd, limit |-> Free, trial |-> FALSE]
Payments == [status : {"none", "created", "linked", "paid"}, period : Periods \cup {0},
             extra : Extras \cup {0}]
NoPayment == [status |-> "none", period |-> 0, extra |-> 0]
Change == [drop : SUBSET Client, add : SUBSET Client]
NoChange == [drop |-> {}, add |-> {}]

\* A request: the statement it is at, whether it is the hourly check, the
\* workstation or payment it is about, the time it took, the tenant row it read,
\* the licences it is about to take and give, and its token's number or the
\* limit it works with.
Requests ==
  [pc : {"idle", "write", "link", "claim", "tenant", "extend", "decide", "grant", "token", "replace",
         "revoke", "move", "sync", "clean", "list", "batch"},
   hourly : BOOLEAN, arg : Client \cup Payment \cup {0}, at : Nat, read : Tenant, change : Change,
   number : Nat]
Request(where, about, day, row, n) ==
  [pc |-> where, hourly |-> FALSE, arg |-> about, at |-> day, read |-> row, change |-> NoChange, number |-> n]
NoRequest == Request("idle", 0, 0, FreeTenant, 0)

TypeOK ==
  /\ now \in Nat
  /\ tenant \in Tenant
  /\ payments \in [Payment -> Payments]
  /\ paid \subseteq Payment
  /\ application \in {"none", "verifying", "pending", "approved", "rejected"}
  /\ attempts \in Nat
  /\ tokens \subseteq Client \X Nat
  /\ seen \in [Client -> Nat]
  /\ unlicensed \subseteq Client
  /\ req \in [Slot -> Requests]
  /\ begun \in Nat
  /\ peak \in Nat
  /\ extensions \in [Payment -> Nat]
  /\ welcome \subseteq Client

Larger(a, b) == IF a >= b THEN a ELSE b
Smaller(a, b) == IF a <= b THEN a ELSE b

-----------------------------------------------------------------------------
(* plans.ts: what a tenant row is worth, and the licences that fit it.      *)

Lapsed(t, day) == t.plan # "free" /\ t.expires # NoEnd /\ t.expires <= day
kind(t, day) == IF Lapsed(t, day) THEN "free" ELSE t.plan

limit(t, day) == IF Lapsed(t, day) THEN Smaller(t.limit, Free) ELSE t.limit

trialRefusal(t, day) == t.trial \/ kind(t, day) # "free"

\* The n of S seen longest ago, or seen last, and by name among equals.
Oldest(S, n) ==
  {a \in S : Cardinality({b \in S : seen[b] < seen[a] \/ (seen[b] = seen[a] /\ b < a)}) < n}
Newest(S, n) ==
  {a \in S : Cardinality({b \in S : seen[b] > seen[a] \/ (seen[b] = seen[a] /\ b < a)}) < n}

enrolled == {t[1] : t \in tokens}
licensed == enrolled \ unlicensed
waiting == enrolled \cap unlicensed

\* Mutant: licences that became free stay free.
rebalance_takes_only(max) ==
  [drop |-> IF Cardinality(licensed) > max THEN Oldest(licensed, Cardinality(licensed) - max) ELSE {},
   add |-> {}]

rebalance(max) ==
  LET n == Cardinality(licensed)
  IN [drop |-> IF n > max THEN Oldest(licensed, n - max) ELSE {},
      add |-> IF n < max THEN Newest(waiting, max - n) ELSE {}]

-----------------------------------------------------------------------------
(* A request: its start, its statements and its end.                        *)

At(s, where) == req[s].pc = where

\* The slots are alike: a request takes the first one free.
FirstIdle(s) == At(s, "idle") /\ \A u \in Slot : At(u, "idle") => s <= u

Start(s, r) ==
  /\ FirstIdle(s) /\ begun < MaxRequests
  /\ begun' = begun + 1
  /\ req' = [req EXCEPT ![s] = r]

\* A request of one statement.
Short == begun < MaxRequests /\ begun' = begun + 1 /\ UNCHANGED req

Become(s, r) == req' = [req EXCEPT ![s] = r] /\ UNCHANGED begun
Go(s, where) == req' = [req EXCEPT ![s].pc = where] /\ UNCHANGED begun
End(s) == Become(s, NoRequest)

\* syncLicences is next, with the time it is given.
Sync(s, day) == Become(s, Request("sync", 0, day, FreeTenant, 0))

\* updateTenant; the limit it puts in force is remembered.
updateTenant(row) == tenant' = row /\ peak' = Larger(peak, limit(row, now))

\* An error of D1, or the Worker is gone: what was written stays written.
Abort(s) ==
  /\ ~ At(s, "idle") /\ ~ req[s].hourly
  /\ End(s)
  /\ UNCHANGED <<now, organization, billing, education, stations, extensions, welcome>>

-----------------------------------------------------------------------------
(* Init: an organization on Free or subscribed, what it has enrolled, and   *)
(* either nothing under way or links just paid and an application to decide.*)

\* A subscription that ends tomorrow.
Subscribed == [plan |-> "subscriber", expires |-> 1, limit |-> Included, trial |-> TRUE]

Init ==
  /\ now = 0
  /\ tenant \in {FreeTenant, Subscribed}
  /\ \/ /\ payments = [p \in Payment |-> NoPayment]
        /\ paid = {} /\ application = "none"
     \/ /\ \E period \in Periods, extra \in Extras :
             payments = [p \in Payment |-> [status |-> "linked", period |-> period, extra |-> extra]]
        /\ paid = Payment /\ application = "pending"
  /\ attempts = 0
  /\ \E S \in SUBSET Client : /\ Cardinality(S) <= tenant.limit
                              /\ tokens = {<<c, 0>> : c \in S}
                              /\ welcome = S
  /\ seen = [c \in Client |-> 0]
  /\ unlicensed = {}
  /\ req = [s \in Slot |-> NoRequest]
  /\ begun = 0
  /\ peak = tenant.limit
  /\ extensions = [p \in Payment |-> 0]

-----------------------------------------------------------------------------
(* plan_routes.ts and education.ts: the organization's own requests.        *)

\* POST /api/plan/trial: refused or not on the row the request began with ...
Trial(s) ==
  /\ ~ trialRefusal(tenant, now)
  /\ Start(s, Request("write", 0, now, tenant, 0))
  /\ UNCHANGED <<now, organization, billing, education, stations, extensions, welcome>>

\* ... and written from that row.
TrialWrite(s) ==
  /\ At(s, "write")
  /\ updateTenant([plan |-> "evaluation", expires |-> req[s].at + TrialDays,
                  limit |-> Larger(Included, req[s].read.limit), trial |-> TRUE])
  /\ Sync(s, req[s].at)
  /\ UNCHANGED <<now, billing, education, stations, extensions, welcome>>

\* createPaymentLink: the row first ...
Checkout(s, p, period, extra) ==
  /\ payments[p].status = "none"
  /\ Start(s, Request("link", p, 0, FreeTenant, 0))
  /\ payments' = [payments EXCEPT ![p] = [status |-> "created", period |-> period, extra |-> extra]]
  /\ UNCHANGED <<now, organization, paid, education, stations, extensions, welcome>>

\* ... then Razorpay's link in it, or no row when Razorpay gives none.
Link(s, given) ==
  /\ At(s, "link")
  /\ payments' = [payments EXCEPT ![req[s].arg] =
                    IF given THEN [status |-> "linked", period |-> @.period, extra |-> @.extra]
                             ELSE NoPayment]
  /\ End(s)
  /\ UNCHANGED <<now, organization, paid, education, stations, extensions, welcome>>

\* startApplication: replaces one that waits for its code, not one that waits for the platform.
startApplication ==
  /\ application # "pending"
  /\ application' = "verifying" /\ attempts' = 0
  /\ Short
  /\ UNCHANGED <<now, organization, billing, stations, extensions, welcome>>

confirmApplicationEmail(right) ==
  /\ application = "verifying" /\ attempts < CodeAttempts
  /\ application' = IF right THEN "pending" ELSE "verifying"
  /\ attempts' = IF right THEN attempts ELSE attempts + 1
  /\ Short
  /\ UNCHANGED <<now, organization, billing, stations, extensions, welcome>>

-----------------------------------------------------------------------------
(* billing.ts: Razorpay's webhook and the customer's return, each as often  *)
(* as Razorpay sends it.                                                    *)

\* External: the customer pays at the link.
Pay(p) ==
  /\ payments[p].status = "linked" /\ p \notin paid
  /\ paid' = paid \cup {p}
  /\ UNCHANGED <<now, organization, payments, education, stations, requests, extensions, welcome>>

activate(s, p) ==
  /\ p \in paid
  /\ Start(s, Request("claim", p, now, FreeTenant, 0))
  /\ UNCHANGED <<now, organization, billing, education, stations, extensions, welcome>>

Paid(row) == [status |-> "paid", period |-> row.period, extra |-> row.extra]

\* Mutant: the payment's status is not part of the claim.
claim_always(s) ==
  /\ At(s, "claim")
  /\ payments' = [payments EXCEPT ![req[s].arg] = Paid(@)]
  /\ Go(s, "tenant")
  /\ UNCHANGED <<now, organization, paid, education, stations, extensions, welcome>>

\* UPDATE payments SET status = 'paid' ... AND status = 'created'
claim(s) ==
  /\ At(s, "claim")
  /\ IF payments[req[s].arg].status = "linked"
       THEN payments' = [payments EXCEPT ![req[s].arg] = Paid(@)] /\ Go(s, "tenant")
       ELSE UNCHANGED payments /\ End(s)
  /\ UNCHANGED <<now, organization, paid, education, stations, extensions, welcome>>

\* recordPayment reads the organization after the claim ...
ReadTenant(s) ==
  /\ At(s, "tenant")
  /\ Become(s, Request("extend", req[s].arg, req[s].at, tenant, 0))
  /\ UNCHANGED <<now, organization, billing, education, stations, extensions, welcome>>

\* From the end of a subscription in force, or from now.
From(t, day) == IF kind(t, day) = "subscriber" /\ t.expires > day THEN t.expires ELSE day

\* Mutant: the limit is what was bought beyond the included workstations.
recordPayment_extra_only(s) ==
  LET p == req[s].arg
  IN /\ At(s, "extend")
     /\ updateTenant([plan |-> "subscriber",
                      expires |-> From(req[s].read, req[s].at) + payments[p].period,
                      limit |-> payments[p].extra, trial |-> tenant.trial])
     /\ extensions' = [extensions EXCEPT ![p] = @ + 1]
     /\ Sync(s, req[s].at)
     /\ UNCHANGED <<now, billing, education, stations, welcome>>

\* ... and writes what it works out from that row.
recordPayment(s) ==
  LET p == req[s].arg
  IN /\ At(s, "extend")
     /\ updateTenant([plan |-> "subscriber",
                     expires |-> From(req[s].read, req[s].at) + payments[p].period,
                     limit |-> Included + payments[p].extra, trial |-> tenant.trial])
     /\ extensions' = [extensions EXCEPT ![p] = @ + 1]
     /\ Sync(s, req[s].at)
     /\ UNCHANGED <<now, billing, education, stations, welcome>>

-----------------------------------------------------------------------------
(* index.ts and plan_routes.ts: the platform's requests.                    *)

\* POST /api/super/tenants/workstation-limit
SetLimit(s, max) ==
  /\ Start(s, Request("sync", 0, now, FreeTenant, 0))
  /\ updateTenant([tenant EXCEPT !.limit = max])
  /\ UNCHANGED <<now, billing, education, stations, extensions, welcome>>

\* POST /api/super/tenants/license
SetPlan(s, plan, expires) ==
  /\ Start(s, Request("sync", 0, now, FreeTenant, 0))
  /\ updateTenant([plan |-> plan, expires |-> IF plan = "free" THEN NoEnd ELSE expires,
                  limit |-> tenant.limit, trial |-> tenant.trial])
  /\ UNCHANGED <<now, billing, education, stations, extensions, welcome>>

\* POST /api/super/education/decide: the organization's row, then the decision ...
Approve(s) ==
  /\ application \in {"pending", "approved", "rejected"}
  /\ Start(s, Request("decide", 0, now, tenant, 0))
  /\ UNCHANGED <<now, organization, billing, education, stations, extensions, welcome>>

Reject ==
  /\ application = "pending"
  /\ application' = "rejected"
  /\ Short
  /\ UNCHANGED <<now, organization, billing, attempts, stations, extensions, welcome>>

decideApplication(s) ==
  /\ At(s, "decide")
  /\ IF application = "pending"
       THEN application' = "approved" /\ Go(s, "grant")
       ELSE UNCHANGED application /\ End(s)
  /\ UNCHANGED <<now, organization, billing, attempts, stations, extensions, welcome>>

\* ... and the plan, from the row read before it.
Grant(s) ==
  LET r == req[s]
  IN /\ At(s, "grant")
     /\ updateTenant([plan |-> "education", expires |-> r.at + EducationDays,
                     limit |-> IF kind(r.read, r.at) = "free" THEN Included
                               ELSE Larger(Included, limit(r.read, r.at)),
                     trial |-> tenant.trial])
     /\ Sync(s, req[s].at)
     /\ UNCHANGED <<now, billing, education, stations, extensions, welcome>>

-----------------------------------------------------------------------------
(* Enrolment, removal and the workstations' contacts.                       *)

\* /api/device/enroll: the organization's row ...
Enrol(s, c) ==
  /\ Start(s, Request("token", c, now, tenant, begun + 1))
  /\ UNCHANGED <<now, organization, billing, education, stations, extensions, welcome>>

\* Mutant: the count may reach one past the limit.
Room_off_by_one(s, day) ==
  req[s].arg \in enrolled \/ Cardinality(enrolled) <= limit(req[s].read, day)

\* A workstation that still holds a valid token, or a place that is free.
Room(s, day) == req[s].arg \in enrolled \/ Cardinality(enrolled) < limit(req[s].read, day)

\* ... the insert with its check, one statement, against the limit of a day since ...
createDeviceToken(s, day) ==
  /\ At(s, "token") /\ req[s].at <= day /\ day <= now
  /\ IF Room(s, day)
       THEN /\ tokens' = tokens \cup {<<req[s].arg, req[s].number>>}
            /\ welcome' = welcome \cup {req[s].arg}
            /\ Become(s, Request("replace", req[s].arg, 0, FreeTenant, req[s].number))
       ELSE UNCHANGED <<tokens, welcome>> /\ End(s)
  /\ UNCHANGED <<now, organization, billing, education, seen, unlicensed, extensions>>

\* ... and the workstation's other tokens are revoked.
RevokeOthers(s) ==
  /\ At(s, "replace")
  /\ tokens' = {t \in tokens : t[1] # req[s].arg \/ t[2] = req[s].number}
  /\ End(s)
  /\ UNCHANGED <<now, organization, billing, education, seen, unlicensed, extensions, welcome>>

\* /api/clients/remove: the registry's row, then the tokens, then the licences.
Remove(s, c) ==
  /\ Start(s, Request("revoke", c, 0, FreeTenant, 0))
  /\ seen' = [seen EXCEPT ![c] = 0]
  /\ UNCHANGED <<now, organization, billing, education, tokens, unlicensed, extensions, welcome>>

revokeDeviceTokensForClient(s) ==
  /\ At(s, "revoke")
  /\ tokens' = {t \in tokens : t[1] # req[s].arg}
  /\ welcome' = welcome \ {req[s].arg}
  /\ Sync(s, now)
  /\ UNCHANGED <<now, organization, billing, education, seen, unlicensed, extensions>>

\* OrgHub writes the registry row of a workstation it heard from.
Seen(c) ==
  /\ c \in enrolled /\ seen[c] < now
  /\ seen' = [seen EXCEPT ![c] = now]
  /\ UNCHANGED <<now, organization, billing, education, tokens, unlicensed, requests, extensions, welcome>>

-----------------------------------------------------------------------------
(* plan_sync.ts and plans.ts: the licences follow the plan.                 *)

\* The hourly check of every active organization; it also drops an application
\* that has waited a day for its code, whose age is not kept here.
Hourly(s) ==
  /\ FirstIdle(s) /\ \A u \in Slot : ~ req[u].hourly
  /\ Become(s, [Request("sync", 0, now, FreeTenant, 0) EXCEPT !.hourly = TRUE])
  /\ application' \in {application} \cup (IF application = "verifying" THEN {"none"} ELSE {})
  /\ UNCHANGED <<now, organization, billing, attempts, stations, extensions, welcome>>

\* syncLicences: the organization's row as it is now ...
syncLicences(s) ==
  /\ At(s, "sync")
  /\ Become(s, [Request("clean", 0, 0, FreeTenant, limit(tenant, req[s].at)) EXCEPT !.hourly = req[s].hourly])
  /\ UNCHANGED <<now, organization, billing, education, stations, extensions, welcome>>

\* The licences to take and give, on their way to the batch.
Decided(s, wanted) ==
  Become(s, [pc |-> "batch", hourly |-> req[s].hourly, arg |-> 0, at |-> 0, read |-> FreeTenant,
             change |-> wanted, number |-> 0])

\* rebalanceLicences: the rows of removed workstations go ...
rebalanceLicences(s) ==
  /\ At(s, "clean")
  /\ unlicensed' = waiting
  /\ Go(s, "list")
  /\ UNCHANGED <<now, organization, billing, education, tokens, seen, extensions, welcome>>

\* ... the change is worked out from the list of the enrolled ones ...
Fit(s) ==
  LET wanted == rebalance(req[s].number)
  IN /\ At(s, "list")
     /\ IF wanted = NoChange THEN End(s) ELSE Decided(s, wanted)
     /\ UNCHANGED <<now, organization, billing, education, stations, extensions, welcome>>

\* ... and written in one batch, whatever happened in between.
Batch(s) ==
  /\ At(s, "batch")
  /\ unlicensed' = (unlicensed \cup req[s].change.drop) \ req[s].change.add
  /\ End(s)
  /\ UNCHANGED <<now, organization, billing, education, tokens, seen, extensions, welcome>>

\* moveLicence: the row, then the list, then the same batch.
moveLicence(s, c) ==
  /\ Start(s, Request("move", c, 0, FreeTenant, limit(tenant, now)))
  /\ UNCHANGED <<now, organization, billing, education, stations, extensions, welcome>>

moveLicenceTo(s) ==
  LET full == Cardinality(licensed) >= req[s].number
  IN /\ At(s, "move")
     /\ IF req[s].arg \in waiting
          THEN Decided(s, [drop |-> IF full THEN Oldest(licensed, 1) ELSE {}, add |-> {req[s].arg}])
          ELSE End(s)
     /\ UNCHANGED <<now, organization, billing, education, stations, extensions, welcome>>

-----------------------------------------------------------------------------

Tick ==
  /\ now < MaxTime
  /\ now' = now + 1
  /\ UNCHANGED <<organization, billing, education, stations, requests, extensions, welcome>>

\* The next statement of a request that has begun.
Step(s) ==
  \/ TrialWrite(s)
  \/ \E given \in BOOLEAN : Link(s, given)
  \/ claim(s) \/ ReadTenant(s) \/ recordPayment(s)
  \/ decideApplication(s) \/ Grant(s)
  \/ (\E day \in 0 .. now : createDeviceToken(s, day)) \/ RevokeOthers(s)
  \/ revokeDeviceTokensForClient(s)
  \/ syncLicences(s) \/ rebalanceLicences(s) \/ Fit(s) \/ Batch(s)
  \/ moveLicenceTo(s)

Begin(s) ==
  \/ Trial(s)
  \/ \E p \in Payment, period \in Periods, extra \in Extras : Checkout(s, p, period, extra)
  \/ \E p \in Payment : activate(s, p)
  \/ \E max \in Limits : SetLimit(s, max)
  \/ \E given \in GivenPlans : SetPlan(s, given[1], given[2])
  \/ Approve(s)
  \/ \E c \in Client : Enrol(s, c) \/ Remove(s, c) \/ moveLicence(s, c)

Next ==
  \/ \E s \in Slot : Begin(s) \/ Step(s) \/ Hourly(s) \/ Abort(s)
  \/ startApplication \/ (\E right \in BOOLEAN : confirmApplicationEmail(right)) \/ Reject
  \/ \E p \in Payment : Pay(p)
  \/ \E c \in Client : Seen(c)
  \/ Tick

Spec == Init /\ [][Next]_vars

\* The Worker carries a request to its end, and the cron trigger fires every hour.
Fairness ==
  /\ \A s \in Slot : WF_vars(Step(s))
  /\ WF_vars(\E s \in Slot : Hourly(s))

FairSpec == Spec /\ Fairness

-----------------------------------------------------------------------------
(* Properties                                                               *)

\* recordPayment extends the subscription once for each payment, however often
\* the webhook and the return bring it and whichever requests overlap.
PaymentExtendsOnce ==
  \A p \in Payment : extensions[p] <= 1 /\ (extensions[p] = 1 => payments[p].status = "paid")

\* createDeviceToken: enrolments that overlap each other, a change of the limit
\* or the end of a plan never enrol more workstations than some limit in force
\* so far allowed.
EnrolledFits == Cardinality(enrolled) <= peak

\* syncLicences: once nothing changes any more, the licensed workstations fill
\* the limit and never pass it, although every request that changes the plan or
\* the enrolled workstations works from rows it read earlier.
LicencesSettle == <>[](Cardinality(licensed) = Smaller(Cardinality(enrolled), limit(tenant, now)))

\* recordPayment's comment: a subscription still in force is extended from its end.
ExtendsFromTheEnd ==
  [][\A p \in Payment :
       extensions'[p] > extensions[p] /\ tenant.plan = "subscriber" /\ tenant.expires > now
         => tenant'.expires >= tenant.expires + payments[p].period]_vars

\* createDeviceToken's comment: a workstation enrolled and not removed since is
\* always let back in, so it keeps a token that is not revoked.
EnrolledKeepsToken == welcome \subseteq enrolled

=============================================================================
