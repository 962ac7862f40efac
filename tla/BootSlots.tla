------------------------------ MODULE BootSlots ------------------------------
(***************************************************************************)
(* How an installed workstation chooses the system image it boots, tries a *)
(* new one once, confirms it or goes back, and replaces the images on its  *)
(* disk.  Three programs share the boot partition: GRUB's menu (grub.cfg), *)
(* the boot check (labkiosk-boot-slots) and the updater (labkiosk-update). *)
(* A power cut may come between any two steps.                             *)
(*                                                                         *)
(* Versions are positive numbers in version_key order.  An image folder is *)
(* the set of its parts still on disk: shutil.rmtree removes them one at a *)
(* time and the folder itself last.                                        *)
(***************************************************************************)
EXTENDS Integers, FiniteSets

CONSTANTS
  Version,    \* the releases that exist
  Broken,     \* releases that never pass the health check on this machine
  Panicking,  \* those of them whose kernel panics
  Installed,  \* the image labkiosk-install put on the disk
  Floor,      \* the security floor each image carries
  Sources,    \* sources `run` tries in turn: LAN peers, then the internet
  Manual,     \* TRUE when somebody also runs the commands by hand
  Damage      \* TRUE when grubenv may be damaged on disk

None == 0

ASSUME VersionAssumption == Version \subseteq Nat \ {None}
ASSUME InstalledAssumption == Broken \subseteq Version /\ Installed \in Version \ Broken
ASSUME PanickingAssumption == Panicking \subseteq Broken
ASSUME FloorAssumption == Floor \in [Version -> Nat]
ASSUME SourcesAssumption == Sources \in Nat \ {0}
ASSUME FlagAssumption == Manual \in BOOLEAN /\ Damage \in BOOLEAN

VARIABLES
  env,        \* boot/grub/grubenv
  readable,   \* grubenv is there and parses
  images,     \* images/<version>/: the parts on disk
  running,    \* the image this boot came from; None while the power is off
  check,      \* how far labkiosk-boot-slots check has come in this boot
  status,     \* /run/labkiosk-update/status.json: the boot's outcome
  cmd,        \* the updater command holding the boot partition's lock
  update,     \* the updater's state file in /run
  trying,     \* `labkiosk-boot-slots try`: the image it found complete
  rebooting,  \* systemctl reboot: not called, under way, or refused
  confirmed,  \* history: images installed or confirmed by a health check
  tried       \* history: env.next was booted since it was staged

vars == <<env, readable, images, running, check, status, cmd, update, trying,
          rebooting, confirmed, tried>>

Slot == Version \cup {None}
Part == {"dir", "files", "manifest.json", ".verified"}
Env == [current : Version, previous : Slot, next : Slot, next_tries : {"", "0", "1"}]
Phase == {"none", "idle", "checking", "up-to-date", "downloading", "ready",
          "staged", "installing", "error"}
Outcome == {"none", "error", "rolled-back", "staged", "fallback", "running",
            "finishing", "installed", "failed"}
Command == [pc : {"idle", "download", "free", "fetch", "downloaded"},
            op : {"run", "download"}, version : Slot, stage : BOOLEAN, sources : Nat]

NoCommand == [pc |-> "idle", op |-> "run", version |-> None, stage |-> FALSE, sources |-> 0]
NoUpdate == [phase |-> "none", version |-> None]

TypeOK ==
  /\ env \in Env
  /\ readable \in BOOLEAN
  /\ images \in [Version -> SUBSET Part]
  /\ running \in Slot
  /\ check \in {"off", "start", "health", "promote", "done"}
  /\ status \in Outcome
  /\ cmd \in Command
  /\ update \in [phase : Phase, version : Slot]
  /\ trying \in Slot
  /\ rebooting \in {"no", "called", "refused"}
  /\ confirmed \subseteq Version
  /\ tried \in BOOLEAN

-----------------------------------------------------------------------------
(* labkiosk-boot-slots: what a boot is. *)

has_image(v) == v \in Version /\ "files" \in images[v]

classify(e, v) ==
  IF e.next # None /\ e.next_tries = "0"
    THEN IF v = e.next THEN "trial" ELSE "rolled-back"
  ELSE IF e.next # None /\ e.next_tries = "1" THEN "staged"
  ELSE IF e.current # v THEN "fallback"
  ELSE "running"

\* Mutant: the rollback image, not the tried one, becomes current.
promote_wrong_slot(e) ==
  [current |-> e.previous, previous |-> e.current, next |-> None, next_tries |-> ""]

promote(e) ==
  [current |-> e.next,
   previous |-> IF e.current # e.next THEN e.current ELSE None,
   next |-> None, next_tries |-> ""]

stage(e, v) == [e EXCEPT !.next = v, !.next_tries = "1"]

LockFree == cmd.pc = "idle"

\* labkiosk-install: one complete image, made current by cmd_init.
Init ==
  /\ env = [current |-> Installed, previous |-> None, next |-> None, next_tries |-> ""]
  /\ readable = TRUE
  /\ images = [v \in Version |-> IF v = Installed THEN {"dir", "files"} ELSE {}]
  /\ running = None
  /\ check = "off"
  /\ status = "none"
  /\ cmd = NoCommand
  /\ update = NoUpdate
  /\ trying = None
  /\ rebooting = "no"
  /\ confirmed = {Installed}
  /\ tried = FALSE

-----------------------------------------------------------------------------
(* grub.cfg *)

Spends == readable /\ env.next # None /\ env.next_tries = "1"

\* Mutant: no last resort for a grubenv that does not load.
DefaultSlots_no_last_resort(saved) ==
  IF Spends /\ saved /\ has_image(env.next) THEN {env.next}
  ELSE {v \in {env.current, env.previous} : readable /\ has_image(v)}

\* Mutant: the staged image boots although its try could not be recorded.
DefaultSlots_unsaved(saved) ==
  IF Spends /\ has_image(env.next) THEN {env.next} ELSE {env.current}

\* The default entry's image: the staged one if its try could be recorded,
\* then current, then previous, then any complete image.
DefaultSlots(saved) ==
  IF Spends /\ saved /\ has_image(env.next) THEN {env.next}
  ELSE IF readable /\ has_image(env.current) THEN {env.current}
  ELSE IF readable /\ has_image(env.previous) THEN {env.previous}
  ELSE {v \in Version : has_image(v)}

MenuSlots == {v \in Version : readable /\ v = env.previous /\ has_image(v)}

\* One pass through the menu.  `saved`: save_env worked.  A person at the
\* keyboard may choose the entry of the previous version.
Boot(saved, v) ==
  /\ running = None
  /\ v \in DefaultSlots(saved) \cup MenuSlots
  /\ env' = [env EXCEPT !.next_tries = IF Spends /\ saved THEN "0" ELSE @]
  /\ running' = v
  /\ check' = "start"
  /\ tried' = IF v = env.next THEN TRUE ELSE tried
  /\ UNCHANGED <<readable, images, status, cmd, update, trying, rebooting, confirmed>>

\* The machine stops: everything in memory and in /run is gone.
Halt ==
  /\ running # None
  /\ running' = None
  /\ check' = "off"
  /\ status' = "none"
  /\ cmd' = NoCommand
  /\ update' = NoUpdate
  /\ trying' = None
  /\ rebooting' = "no"
  /\ UNCHANGED <<env, readable, images, confirmed, tried>>

PowerCut == Halt
Reboot == rebooting = "called" /\ Halt
\* A kernel that panics restarts the machine (panic=10).
Panic == running \in Panicking /\ Halt

DamageEnv ==
  /\ Damage /\ readable
  /\ readable' = FALSE
  /\ UNCHANGED <<env, images, running, check, status, cmd, update, trying,
                 rebooting, confirmed, tried>>

-----------------------------------------------------------------------------
(* labkiosk-boot-slots check, once in every boot *)

CheckStart ==
  /\ check = "start"
  /\ LET kind == IF readable THEN classify(env, running) ELSE "error" IN
     IF kind = "trial"
       THEN check' = "health" /\ status' = "finishing"
       ELSE check' = "done" /\ status' = kind
  /\ UNCHANGED <<env, readable, images, running, cmd, update, trying, rebooting, confirmed, tried>>

\* The agent and the browser stayed up for the whole hold.
CheckHealthy ==
  /\ check = "health"
  /\ running \notin Broken
  /\ check' = "promote"
  /\ UNCHANGED <<env, readable, images, running, status, cmd, update, trying,
                 rebooting, confirmed, tried>>

\* Mutant: nothing reboots the machine at the deadline.
CheckDeadline_stays(accepted) ==
  /\ check = "health"
  /\ check' = "done"
  /\ status' = "failed"
  /\ UNCHANGED <<env, readable, images, running, cmd, update, trying, rebooting, confirmed, tried>>

\* `accepted`: systemctl reboot did not fail.
CheckDeadline(accepted) ==
  /\ check = "health"
  /\ check' = "done"
  /\ status' = "failed"
  /\ rebooting' = IF accepted THEN "called" ELSE IF rebooting = "called" THEN "called" ELSE "refused"
  /\ UNCHANGED <<env, readable, images, running, cmd, update, trying, confirmed, tried>>

\* Under the lock, and only if grubenv still says trial.  `recorded`: the
\* write reached the disk; `clean`: nothing failed on the way out.
CheckPromote(recorded, clean) ==
  /\ check = "promote"
  /\ LockFree
  /\ check' = "done"
  /\ LET ok == readable /\ classify(env, running) = "trial" IN
     /\ env' = IF ok /\ recorded THEN promote(env) ELSE env
     /\ status' = IF ok /\ recorded /\ clean THEN "installed" ELSE "error"
     /\ confirmed' = IF ok /\ recorded THEN confirmed \cup {running} ELSE confirmed
     /\ tried' = IF ok /\ recorded THEN FALSE ELSE tried
  /\ UNCHANGED <<readable, images, running, cmd, update, trying, rebooting>>

\* cmd_try looks for the image before it takes the lock ...
TryFind(v) ==
  /\ Manual
  /\ running # None
  /\ trying = None
  /\ v # running
  /\ has_image(v)
  /\ trying' = v
  /\ UNCHANGED <<env, readable, images, running, check, status, cmd, update,
                 rebooting, confirmed, tried>>

\* ... and stages it once it has the lock.
TryWrite(recorded) ==
  /\ trying # None
  /\ LockFree
  /\ trying' = None
  /\ env' = IF readable /\ recorded THEN stage(env, trying) ELSE env
  /\ tried' = IF readable /\ recorded THEN FALSE ELSE tried
  /\ UNCHANGED <<readable, images, running, check, status, cmd, update, rebooting, confirmed>>

-----------------------------------------------------------------------------
(* labkiosk-update: each command runs under the boot partition's lock. *)

Enter == running # None /\ LockFree /\ readable

verify_image(v) ==
  /\ {"files", "manifest.json", ".verified"} \subseteq images[v]
  /\ v >= Floor[running]

\* `whole` stands for the hashes of what is on disk still matching.
Installable(v, whole) == v # running /\ verify_image(v) /\ whole

Finish(phase, v) == cmd' = NoCommand /\ update' = [phase |-> phase, version |-> v]

\* Mutant: a release that rolled back is downloaded and staged like any other.
run_retries(w, automatic, kindAgrees) ==
  /\ Enter
  /\ classify(env, running) # "trial"
  /\ w > running
  /\ cmd' = [pc |-> "download", op |-> "run", version |-> w,
             stage |-> automatic /\ kindAgrees, sources |-> Sources]
  /\ update' = [phase |-> "checking", version |-> None]
  /\ UNCHANGED <<env, readable, images, running, check, status, trying, rebooting, confirmed, tried>>

\* `run`, up to the download: what the control plane offers (None, or version
\* w), whether it may install by itself and whether its manifest's kind agrees.
run(w, automatic, kindAgrees) ==
  /\ Enter
  /\ LET boot == classify(env, running) IN
     CASE boot = "trial" -> Finish("idle", None)
       [] boot # "trial" /\ w <= running -> Finish("up-to-date", None)
       [] boot = "staged" /\ env.next = w /\ w > running ->
            IF "manifest.json" \in images[w] THEN Finish("staged", w) ELSE Finish("error", None)
       [] boot = "rolled-back" /\ automatic /\ env.next = w /\ w > running ->
            Finish("error", None)
       [] OTHER ->
            /\ cmd' = [pc |-> "download", op |-> "run", version |-> w,
                       stage |-> automatic /\ kindAgrees, sources |-> Sources]
            /\ update' = [phase |-> "checking", version |-> None]
  /\ UNCHANGED <<env, readable, images, running, check, status, trying, rebooting, confirmed, tried>>

\* `run` before it takes the lock: no enrolment, proxy or floor it can use.
run_unready ==
  /\ running # None
  /\ update' = [phase |-> "error", version |-> None]
  /\ UNCHANGED <<env, readable, images, running, check, status, cmd, trying,
                 rebooting, confirmed, tried>>

\* `labkiosk-update download <url>`, by hand: one source, no state file.
download_command(w) ==
  /\ Manual /\ Enter
  /\ classify(env, running) # "trial"
  /\ cmd' = [pc |-> "download", op |-> "download", version |-> w, stage |-> FALSE, sources |-> 1]
  /\ UNCHANGED <<env, readable, images, running, check, status, update, trying,
                 rebooting, confirmed, tried>>

\* check_release: nothing has been written when it refuses.
Refused(v) ==
  \/ v < Floor[running]
  \/ v \in {running, env.current}
  \/ ".verified" \notin images[v] /\ images[v] # {}

check_release ==
  /\ cmd.pc = "download"
  /\ readable
  /\ ~Refused(cmd.version)
  /\ cmd' = [cmd EXCEPT !.pc = IF ".verified" \in images[cmd.version] THEN "downloaded" ELSE "free"]
  /\ UNCHANGED <<env, readable, images, running, check, status, update, trying,
                 rebooting, confirmed, tried>>

\* Mutants: only one of the two images in use is kept.
Keep_running == {running}
Keep_current == {env.current}

Keep == {running, env.current}
Old == {v \in Version \ Keep : images[v] # {}}

\* free_old_images: one removal of remove_tree, the folders in order.
RemovePart(v, p) ==
  /\ cmd.pc = "free"
  /\ v \in Old
  /\ \A u \in Old : v <= u
  /\ p \in images[v]
  /\ p = "dir" => images[v] = {"dir"}
  /\ images' = [images EXCEPT ![v] = @ \ {p}]
  /\ UNCHANGED <<env, readable, running, check, status, cmd, update, trying,
                 rebooting, confirmed, tried>>

forget(e) ==
  [e EXCEPT !.previous = IF @ \in Keep THEN @ ELSE None,
            !.next = IF @ \in Keep THEN @ ELSE None,
            !.next_tries = IF e.next \in Keep THEN @ ELSE ""]

\* ... and then what they were in grubenv; the download of the files begins.
free_old_images ==
  /\ cmd.pc = "free"
  /\ Old = {}
  /\ env' = forget(env)
  /\ readable' = IF forget(env) = env THEN readable ELSE TRUE
  /\ cmd' = [cmd EXCEPT !.pc = "fetch"]
  /\ update' = IF cmd.op = "run" THEN [phase |-> "downloading", version |-> cmd.version] ELSE update
  /\ UNCHANGED <<images, running, check, status, trying, rebooting, confirmed, tried>>

\* Every file fetched and verified in downloads/, the folder renamed into images/.
Fetched ==
  /\ cmd.pc = "fetch"
  /\ images' = [images EXCEPT ![cmd.version] = Part]
  /\ cmd' = [cmd EXCEPT !.pc = "downloaded"]
  /\ UNCHANGED <<env, readable, running, check, status, update, trying, rebooting, confirmed, tried>>

\* An UpdateError: `run` turns to its next source, or records the error.
SourceFails ==
  /\ cmd.pc \in {"download", "fetch"}
  /\ IF cmd.sources > 1
       THEN /\ cmd' = [pc |-> "download", op |-> cmd.op, version |-> cmd.version,
                       stage |-> cmd.stage, sources |-> cmd.sources - 1]
            /\ UNCHANGED update
       ELSE IF cmd.op = "run" THEN Finish("error", None)
       ELSE cmd' = NoCommand /\ UNCHANGED update
  /\ UNCHANGED <<env, readable, images, running, check, status, trying, rebooting, confirmed, tried>>

\* Any other error (the disk, grubenv) ends the command and records nothing.
CommandFails ==
  /\ ~LockFree
  /\ cmd' = NoCommand
  /\ UNCHANGED <<env, readable, images, running, check, status, update, trying,
                 rebooting, confirmed, tried>>

\* The end of `run`: stage the release, or leave it ready for an administrator.
\* `clean`: nothing failed once grubenv was written.
Downloaded(whole, clean) ==
  /\ cmd.pc = "downloaded"
  /\ cmd.stage => readable
  /\ IF cmd.op = "download" THEN cmd' = NoCommand /\ UNCHANGED <<env, update, tried>>
     ELSE IF ~cmd.stage THEN Finish("ready", cmd.version) /\ UNCHANGED <<env, tried>>
     ELSE IF Installable(cmd.version, whole)
       THEN /\ env' = stage(env, cmd.version)
            /\ tried' = FALSE
            /\ IF clean THEN Finish("staged", cmd.version) ELSE cmd' = NoCommand /\ UNCHANGED update
     ELSE Finish("error", None) /\ UNCHANGED <<env, tried>>
  /\ UNCHANGED <<readable, images, running, check, status, trying, rebooting, confirmed>>

\* install-pending, then the unit's reboot if the command succeeded.  An error
\* of the disk or of grubenv leaves the phase at "installing".
install_pending(whole, recorded, clean) ==
  /\ running # None /\ LockFree
  /\ update.phase = "ready"
  /\ IF Installable(update.version, whole)
       THEN /\ env' = IF readable /\ recorded THEN stage(env, update.version) ELSE env
            /\ tried' = IF readable /\ recorded THEN FALSE ELSE tried
            /\ update' = [update EXCEPT !.phase = "installing"]
            /\ rebooting' = IF readable /\ recorded /\ clean THEN "called" ELSE rebooting
       ELSE /\ update' = [update EXCEPT !.phase = "error"]
            /\ UNCHANGED <<env, tried, rebooting>>
  /\ UNCHANGED <<readable, images, running, check, status, cmd, trying, confirmed>>

\* `labkiosk-update install <version>`, by hand.
install_command(v) ==
  /\ Manual /\ Enter
  /\ Installable(v, TRUE)
  /\ env' = stage(env, v)
  /\ tried' = FALSE
  /\ UNCHANGED <<readable, images, running, check, status, cmd, update, trying,
                 rebooting, confirmed>>

-----------------------------------------------------------------------------
Grub == \E saved \in BOOLEAN, v \in Version : Boot(saved, v)
Check ==
  \/ CheckStart \/ CheckHealthy
  \/ \E a \in BOOLEAN : CheckDeadline(a)
  \/ \E r, c \in BOOLEAN : CheckPromote(r, c)
Try == (\E v \in Version : TryFind(v)) \/ \E r \in BOOLEAN : TryWrite(r)
Updater ==
  \/ \E w \in Slot, a, k \in BOOLEAN : run(w, a, k)
  \/ \E w \in Version : download_command(w) \/ install_command(w)
  \/ check_release
  \/ \E v \in Version, p \in Part : RemovePart(v, p)
  \/ run_unready \/ free_old_images \/ Fetched \/ SourceFails \/ CommandFails
  \/ \E whole, clean \in BOOLEAN : Downloaded(whole, clean)
  \/ \E whole, r, c \in BOOLEAN : install_pending(whole, r, c)

Next == Grub \/ PowerCut \/ Reboot \/ Panic \/ DamageEnv \/ Check \/ Try \/ Updater

Spec == Init /\ [][Next]_vars

\* A workstation that is switched off is switched on again and its boot check runs;
\* a reboot that was accepted happens, and so does the restart after a panic.
Fairness ==
  /\ WF_vars(Grub)
  /\ WF_vars(Reboot)
  /\ WF_vars(Panic)
  /\ WF_vars(CheckStart)
  /\ WF_vars(CheckHealthy \/ \E a \in BOOLEAN : CheckDeadline(a))

FairSpec == Spec /\ Fairness

-----------------------------------------------------------------------------
(* Properties *)

\* grub.cfg always finds a complete image for its default entry: whatever was
\* removed, staged, tried or cut off, "Reinstall from the Lab Kiosk ISO" is
\* never shown.
NeverStranded == \A saved \in BOOLEAN : DefaultSlots(saved) # {}

\* `current`, the image every fallback ends in, is on disk and was installed
\* or passed a health check here (promote in labkiosk-boot-slots).
CurrentConfirmed == has_image(env.current) /\ env.current \in confirmed \ Broken

\* free_old_images never takes the files of the image the machine runs from.
RunningIntact == running # None => has_image(running)

\* While grubenv is readable, GRUB boots an image nobody confirmed only as the
\* staged one, and only once for each time it was staged.
OneTry ==
  [][running = None /\ running' # None /\ readable /\ running' \notin confirmed
       => running' = env.next /\ ~tried]_vars

\* classify's docstring: rolled-back means that `next` had its try.
RolledBackWasTried == status = "rolled-back" => tried

\* A workstation that starts an image that panics, or that comes up without a working
\* agent and browser, comes back to a working image without anyone at the keyboard,
\* unless systemctl refuses the boot check's reboot.
ComesBack == running \in Broken ~> running \in Version \ Broken \/ rebooting = "refused"

=============================================================================
