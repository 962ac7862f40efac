# Lab Kiosk in TLA+

Lab Kiosk turns classroom PCs into managed kiosks. This folder holds TLA+ models of its stateful
parts, the TLC runs that check them on small instances, and proofs that TLAPS checks for every
instance. `PROJECT.json` maps each definition to the source lines it models, and lists the runs,
the mutants that show each property can fail, the findings, the hazards and the theorems.

## The system

```
  browser (console, portal)            Razorpay, mail, R2
        |                                   |
        v                                   v
  Worker (index.ts and the route modules) ---- D1
        |             |                      ^
        v             v                      |
     OrgHub        RemoteRelay  (Durable Objects: one per organization, one per workstation)
        ^             ^
        | WebSocket   | WebSocket            R2: release images
        | or HTTP     |                        |
        v             v                        v
     agent.py  ------ x11vnc          labkiosk-update ---- boot partition ---- GRUB, labkiosk-boot-slots
```

* A **workstation** boots a read-only Debian image. GRUB picks one of the images on the boot
  partition, `labkiosk-boot-slots` confirms or abandons a new one, `labkiosk-update` downloads and
  stages the next. The Python agent runs the kiosk and talks to the control plane.
* The **control plane** is a Cloudflare Worker. Requests run side by side; each statement to D1 is
  atomic, each `await` lets the others in. One OrgHub per organization holds the device sockets, the
  command queue and the Remote Control seats; one RemoteRelay per workstation holds its Remote
  Control session. Inside a Durable Object an `await` on anything but its own storage also lets
  other events in.

## Inventory

| Part | Source | Module |
|---|---|---|
| Boot menu, boot check, updater | `grub.cfg`, `labkiosk-boot-slots`, `labkiosk-update` | `BootSlots`, `BootSlotsRetries` |
| Device connections and command queue | `org_hub.ts`, `agent.py` | `HubCommands` |
| Remote Control: relay, seats, requests | `remote_relay.ts`, `org_hub.ts`, `index.ts`, `agent.py` | `RemoteControl` |
| Plans, payments, education, enrolment, licences | `plans.ts`, `plan_sync.ts`, `plan_routes.ts`, `billing.ts`, `education.ts`, `license.ts`, `db.ts`, `index.ts` | `Licences` |
| Exams, broadcasts, configuration of a workstation | `exams.ts`, `org_hub.ts`, `index.ts`, `agent.py` | planned: `HubConfig` |
| Registry of workstations, removal, usage | `org_hub.ts`, `db.ts`, `usage.ts`, `agent.py` | planned: `HubRegistry` |
| Releases, channels, majors, LAN sharing | `releases.ts`, `lan_sharing.ts`, `org_hub.ts` | planned: `Releases`, `LanSharing` |
| Sign-in, second factor, sessions, single sign-on, registration | `auth.ts`, `two_factor.ts`, `webauthn.ts`, `session_handoff.ts`, `sso.ts`, `signup.ts`, `phone_link.ts` | planned: `Accounts` |
| Power schedules, printing, agent loop | `agent.py`, `power.ts`, `printing.ts` | planned: `Power`, `Agent` |
| Mail, conversations, bug reports, custom domains | `inbox.ts`, `conversations.ts`, `mail*.ts`, `bug_reports.ts`, `custom_hostnames.ts` | planned: `Mail`, `Reports`, `CustomHostname` |
| Installer, browser extension | `labkiosk-install`, `content.js`, `background.js` | planned: `Installer`, then the extension's polling |
| Rendering, docs, demo, SEO, legal pages | `ui*.ts`, `markdown.ts`, ... | no state of their own |
| Image build, release tools, one-shot helpers | `distro-builder/`, `labkiosk-logs`, ... | I/O and batch programs |

`PROJECT.json` lists all of them with their files.

## BootSlots

The three programs share `boot/grub/grubenv` and `images/`. State: `env` and `readable` are grubenv,
`images[v]` the parts of an image folder still on disk, `running` the image of this boot, `check`
and `status` the boot check, `cmd` and `update` the updater command that holds the lock and its state
file, `trying` the image that `labkiosk-boot-slots try` looked for before it took the lock.
`confirmed` and `tried` are history. A power cut, a panic of a kernel or a reboot may come
between any two steps; files are removed one by one, in any order, as `shutil.rmtree` does, and the
folder last. A write of grubenv may fail, or succeed with the remount failing after it. With
`Damage`, grubenv may become unreadable; with `Manual`, somebody also runs the commands by hand.
Releases in `Broken` never pass the health check; those in `Panicking` also panic. `systemctl reboot`
may be refused, after which nothing else restarts the machine.

`BootSlotsRetries` adds a memory which neither grubenv nor the updater has: the releases that a boot
check recorded as rolled back (`failed`), and those of them since which `free_old_images` has cleared
the disk (`cleared`).

| Run | Checks |
|---|---|
| `boot_slots` | With manual commands and damage: GRUB always finds a complete image (`NeverStranded`), `current` is complete and confirmed here (`CurrentConfirmed`), the running image keeps its files (`RunningIntact`), an unconfirmed image boots once per staging (`OneTry`). |
| `boot_slots_service` | With the services alone: a release that rolled back is not staged again without an administrator, until a download has cleared the disk (`NotRetriedYet`), and a machine that starts a broken image comes back, unless `systemctl` refuses the reboot at the deadline (`ComesBack`). |
| `rolled_back_was_tried` | Violated: `classify` says that `rolled-back` means the image had its try. A power cut while `free_old_images` removes a staged image leaves a try that GRUB spends on nothing. |
| `not_retried_alone` | Violated: `docs/OTA_UPDATES.md:591` says of a release that rolled back that it "is never staged again by itself" (`NotRetriedAlone`). `run` knows of the rollback only from `next` in grubenv, and the first step of any download forgets it: after that the next automatic offer stages the release again. |

Bounds: three releases, of which the last has a security floor above the first. In `boot_slots` the
middle one panics: enough for an old, a current and a next image, and for a rollback to an image
the floor forbids. In `boot_slots_service` the second is only unhealthy and the third panics. The
state space is finite without further bounds.

Fairness, for `ComesBack`: the machine is switched on again, a reboot that was accepted happens, a
kernel that panics restarts (`panic=10` in `grub.cfg`), and systemd runs the boot check to its
verdict. An image that is only unhealthy is given up by the boot check alone. Nothing is assumed of
the updater. A kernel that hangs without a panic is not modelled: only the hardware watchdog
(`labkiosk-watchdog.conf`), or somebody at the power switch, ends it.

## HubCommands

OrgHub's tables `commands` and `deliveries`, every connection (a socket or one HTTP heartbeat), what
was sent on it and not yet read, the connection each agent uses, and the enqueue calls that wait for
`loadConfig`. Each handler is split at its awaits on D1; a query may fail at any of them, and then the
handler ends where `fetch` catches it, with what it had done. In `acceptDevice` that may be after the
commands were marked as delivered. `sweepStale` closes sockets that went silent, also one its agent
still uses. An `alarm()` that fails is run again by the platform. A replaced socket stays listed in `getWebSockets` until its
close completes, which is modelled from how the code uses it.

| Run | Checks |
|---|---|
| `hub_commands` | A workstation executes a command at most once and only if addressed (`AtMostOnce`), in the order of the seconds the commands were queued in, over reconnections, changes of transport and failing queries (`InOrder`; two of one second may come in either order); queued rows have an alarm, set or coming, that will purge them (`AlarmCovers`). |
| `connected_gets_it` | Violated: `enqueue` hands a command to the socket that a reconnecting workstation just replaced; it is taken off the queue and lost. |

`AlarmCovers` has one exception, which the code has: `enqueue` inserts its rows, awaits `loadConfig`
and sets the alarm last. When `loadConfig` fails and no alarm was set or running, the rows stay
without one until the next event of the hub sets it (`stranded`).

Bounds: two connections and two commands, and the ticks of the clock around the time to live of a
command. There are two workstations, so that a command may be for one, both or everyone; only the
first is switched on (`On`), and the rows of the other wait. A replacement needs two connections, an
overtaking two commands.
`CHECK_DEADLOCK` is off because the bounds end the behaviour.

## RemoteControl

A request opens the relay of a workstation, asks the hub for a seat and, if it is full, closes the
relay again; viewer and agent then join with the session's token. A relay whose session ends sends
the hub a notice that names only the workstation. Each call between Worker, relay and hub is a
message, which may be late, overtake another, fail or be lost. Each request reads the organization's
row for itself, with the number of seats at that time. Remote Control may be turned on again while
turning it off still closes relays, and a relay may refuse to close.

`unseated` is history: the workstations with a session which the hub does not count. A late notice, or
a late `/remote-open` of a session that was replaced, took its seat or shortened it; or turning off
freed the seat and the relay was not closed.

| Run | Checks |
|---|---|
| `remote_control_seats` | The sessions in use are never more than the seats, but for the unseated ones and those turning off is closing (`SeatedBound`); once turning off has finished, none but the unseated is in use (`RevokedStaysClosed`); every session has an alarm in time (`AlarmCovers`). |
| `remote_control_ends` | Every session ends (`SessionEnds`), under the fairness that a due alarm fires and time passes. |
| `remote_control_seats_bound` | Violated, with Remote Control on all the time: without the exceptions, sessions do outnumber the seats (`SeatsBound`). The notice of an earlier session frees the seat of the next, and two sessions share one seat. |

The exceptions are the code's. `index.ts:4470` says of turning off that "Open sessions end at once":
an unseated session is not on the list of `/remote-revoke` and goes on; a relay that refuses is not
asked again (`index.ts:580`); and when the hub does not answer, Remote Control is off and every
session goes on (`RevokeFails`, stage `failed`). Each ends at its time limit (`SessionEnds`).

Bounds: two workstations, one seat, two requests (three for the violation), two or three ticks; joining
takes one tick and a session two, so a session can expire unjoined, run to its end, or be replaced.
Replacing a session while another workstation's is in use takes three requests, which is more states
than a run of a few minutes covers; the proofs below hold for any number of requests.

## Licences

Requests of the organization, the platform, Razorpay and the workstations run side by side in slots;
each step is one statement to D1. `tenant` is the organization's plan, its end and its limit,
`payments` the table of payments, `tokens` the device tokens not revoked, `unlicensed` the
workstations that show the licence notice. `req[s]` holds what the request in slot `s` has read: a
row read before an await is used after it, whatever happened in between. A request may end at any
await (`Abort`: D1 fails, the Worker stops). The hourly check runs beside them. `peak`,
`extensions` and `welcome` are history.

Time counts days. `startApplication`, `confirmApplicationEmail` and the registry writes of the hub
are one statement each. Left out as effects on other components: the notice broadcast that is taken
back, the config notice to the hub, audit log, mail and notifications. The hourly purge of an
application that waits for its code is a choice, since its age is not kept.

| Run | Checks |
|---|---|
| `licences` | A payment extends the subscription once, however often and however interleaved it is delivered (`PaymentExtendsOnce`); overlapping enrolments never pass the highest limit that was in force (`EnrolledFits`); once requests stop, the licences come to fit the plan (`LicencesSettle`). |
| `enrolled_keeps_token` | Violated: two enrolments of one workstation each revoke the other's token. |
| `extends_from_the_end` | Violated: two payments recorded at once both extend from the same end; one period is lost. |

Bounds: two workstations, one payment (two for the violation), two requests in flight and two in all
beside the hourly check, two days, Free covers one workstation and a paid plan two: every pair of
requests meets at every await, on both sides of a plan's end. Fairness, for `LicencesSettle`: a
request that began takes its next statement (the platform runs it to its end or it fails, by
`Abort`), and the cron trigger fires; the hourly check is assumed to succeed from some hour on.

A payment that was claimed and whose request then fails is never extended; the code has no repair,
so there is no property that it is. It is listed as a hazard.

The comment at `index.ts:2354` says of the limit "Lowering it below what is enrolled only stops new
enrolments.", and `wiki/Super-Admin-Guide.md:66` that lowering it "stops new enrolments only"; the
request they describe also takes licences away (`syncLicences`), and the model follows the code.

`EnrolledFits` measures against the highest limit so far (`peak` only grows), so it says nothing about
an enrolment that read its limit before the limit was lowered or the plan ended; the code lets it
through. `LicencesSettle` counts licences and does not say which workstations keep them.

## What is proved

TLAPS checks the following for every value of the constants that satisfies the named assumptions.

`BootSlotsProofs` (any set of releases, any of them broken, any floors and sources, with or without
manual commands and damage): `TypeCorrect`, `AlwaysBootable`, `CurrentAlwaysConfirmed`,
`RunningAlwaysIntact`, `OneTryEach`. The invariants are not inductive alone: that `current` stays
confirmed needs that only a healthy image is promoted (`Bookkeeping`), that `previous` is confirmed
and no broken image is (`SlotsConfirmed`); the one try needs that a try still in grubenv was not used
(`TryUnused`). `InductiveInvariant` proves their conjunction `IInv`, one step per action; the others
follow from it, `OneTryEach` as an action property from one step under `IInv`.

`LicencesProofs` (any finite set of workstations, any payments, slots, prices and plans):
`TypeCorrect` and `PaymentOnce`. A payment is extended by the one request whose claim made it paid,
so the invariant says that requests past the claim hold different, paid and not yet extended payments
(`ClaimPaid`, `ClaimAlone`), that a request waiting for a payment link is alone with its row
(`LinkCreated`, `LinkAlone`: otherwise a failing link could delete a paid row), and that each request
is about a payment or a workstation as its step requires (`ArgType`). `Covered` says that the limit
in force, and every limit an enrolment has read, is at most `peak`. There is one lemma per action and
a few about what a step writes into its slot.

`LicencesEnrolment`: `EnrolledWithinLimit`. Only the insert of `createDeviceToken` adds a workstation,
and only below a limit which `Covered` bounds; a limit read earlier never grows as days pass
(`LimitType`). Counting uses the library's facts on finite sets.

`RemoteControlProofs` (any finite set of workstations, any requests, seats and times):
`TypeCorrect`, `OpenFitsSeats`, `RevokedIsClosed`, `SessionsHaveAlarms`. That a session in use has a
seat rests on `IInv`: a request that was granted has a seat that lasts as long as its session, unless
it is unseated or being closed (`GrantedIsSeated`), a viewer is connected only for a request that was
granted (`ViewersKnown`), and nothing is left to close unless turning off is closing
(`LeftIsClosing`). The count follows
from it and from `SeatFree`, with the library's facts on finite sets (`SeatsHeld`). For turning off,
`ViewedIsListed` says that once the hub has listed the seats, a session in use is on the list or
unseated.

Only model-checked: the liveness properties (`ComesBack`, `SessionEnds`, `LicencesSettle`), as TLAPS
has no reasoning about fairness here; `NotRetriedYet`; everything about `HubCommands`, whose proofs
are planned.

## Plan

In this order; each new module gets one run that passes, its mutants and, where it has one, a proof.

1. `HubConfig`: exams, broadcasts and their epochs, the hub's cached configuration, what an agent
   follows. Properties: no two exams on one workstation, an exam ends for everyone, the newest
   broadcast wins on every screen, a configuration change reaches every workstation in the end.
2. `HubRegistry`: flush, sweep, removal and enrolment again, usage reports. Properties: a removed
   workstation does not come back, a change is written in the end, a report is counted once.
   It composes with `Licences` through removal and enrolment.
3. `Releases` and `LanSharing`: the catalogue, the offer to a workstation and the seeds of a site;
   composed with `BootSlots` through the release a workstation installs. `compareVersions` against a
   reference definition.
4. `Accounts`: registration, codes, challenges, sessions, hand-over, single sign-on.
5. `Power`, `Agent`, `Mail`, `Reports`, `CustomHostname`, `Installer`, the extension.
6. An abstract at-most-once queue which `HubCommands` implements (refinement), and its proof; type
   correctness and main invariants of the new modules.
