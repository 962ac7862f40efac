--------------------------- MODULE BootSlotsProofs ---------------------------
(***************************************************************************)
(* Proofs about BootSlots, for any set of releases, any of them broken, any *)
(* number of download sources, with and without commands run by hand and   *)
(* with and without a damaged grubenv.                                     *)
(***************************************************************************)
EXTENDS BootSlots, TLAPS

USE VersionAssumption, InstalledAssumption, FloorAssumption, SourcesAssumption, FlagAssumption

\* What the other parts need: who may be running a check or a command, and
\* which versions the records name.
Bookkeeping ==
  /\ running = None => check = "off" /\ cmd.pc = "idle"
  /\ check = "promote" => running \notin Broken
  /\ cmd.pc # "idle" => cmd.version \in Version
  /\ update.phase = "ready" => update.version \in Version

\* The slots GRUB falls back to have been confirmed here.
SlotsConfirmed ==
  /\ confirmed \cap Broken = {}
  /\ env.previous # None => env.previous \in confirmed

\* A try that is still in grubenv has not been used.
TryUnused ==
  readable \/ cmd.pc # "idle" =>
    (env.next_tries = "1" /\ env.next \notin confirmed => ~tried)

IInv ==
  /\ TypeOK
  /\ CurrentConfirmed
  /\ RunningIntact
  /\ Bookkeeping
  /\ SlotsConfirmed
  /\ TryUnused

\* The strengthening is inductive: no step of GRUB, the boot check, the updater
\* or a power cut leaves it.
THEOREM InductiveInvariant == Spec => []IInv
<1>1. ASSUME Init PROVE IInv
  BY <1>1 DEF Init, IInv, TypeOK, CurrentConfirmed, RunningIntact, Bookkeeping, SlotsConfirmed,
     TryUnused, has_image, Env, Slot, Part, Phase, Outcome, Command, None, NoCommand, NoUpdate
<1>2. ASSUME IInv, [Next]_vars PROVE IInv'
  <2> USE DEF IInv, CurrentConfirmed, RunningIntact, Bookkeeping, SlotsConfirmed, TryUnused,
     has_image
  <2>1. ASSUME NEW saved \in BOOLEAN, NEW v \in Version, Boot(saved, v) PROVE IInv'
    <3>1. TypeOK'
      BY <1>2, <2>1 DEF TypeOK, Boot, Env, Slot
    <3>2. QED
      BY <1>2, <2>1, <3>1 DEF TypeOK, Boot, DefaultSlots, MenuSlots, Spends, Env, None
  <2>2. ASSUME Halt PROVE IInv'
    <3>1. TypeOK'
      BY <1>2, <2>2 DEF TypeOK, Halt, Slot, Outcome, Command, NoCommand, Phase, NoUpdate, None
    <3>2. QED
      BY <1>2, <2>2, <3>1 DEF Halt, NoCommand, NoUpdate, None
  <2>3. ASSUME DamageEnv PROVE IInv'
    <3>1. TypeOK'
      BY <1>2, <2>3 DEF TypeOK, DamageEnv
    <3>2. QED
      BY <1>2, <2>3, <3>1 DEF DamageEnv
  <2>4. ASSUME CheckStart PROVE IInv'
    <3>1. TypeOK'
      BY <1>2, <2>4 DEF TypeOK, CheckStart, Outcome, classify
    <3>2. QED
      BY <1>2, <2>4, <3>1 DEF CheckStart
  <2>5. ASSUME CheckHealthy PROVE IInv'
    <3>1. TypeOK'
      BY <1>2, <2>5 DEF TypeOK, CheckHealthy
    <3>2. QED
      BY <1>2, <2>5, <3>1 DEF CheckHealthy
  <2>6. ASSUME NEW a \in BOOLEAN, CheckDeadline(a) PROVE IInv'
    <3>1. TypeOK'
      BY <1>2, <2>6 DEF TypeOK, CheckDeadline, Outcome
    <3>2. QED
      BY <1>2, <2>6, <3>1 DEF CheckDeadline
  <2>7. ASSUME NEW r \in BOOLEAN, NEW c \in BOOLEAN, CheckPromote(r, c) PROVE IInv'
    <3> DEFINE ok == readable /\ classify(env, running) = "trial"
    <3>1. /\ UNCHANGED <<readable, images, running, cmd, update, trying, rebooting>>
          /\ check = "promote" /\ check' = "done" /\ status' \in Outcome
      BY <2>7 DEF CheckPromote, Outcome
    <3>2. CASE ok /\ r
      <4>1. env' = promote(env) /\ confirmed' = confirmed \cup {running} /\ tried' = FALSE
        BY <3>2, <2>7 DEF CheckPromote
      <4>2. running = env.next /\ running # None
        BY <3>2 DEF classify
      <4>3. /\ env'.current = running
            /\ env'.previous \in {None, env.current}
            /\ env'.next_tries = ""
        BY <4>1, <4>2 DEF promote
      <4>4. TypeOK'
        BY <1>2, <3>1, <4>1, <4>2 DEF TypeOK, promote, Env, Slot
      <4>5. CurrentConfirmed' /\ RunningIntact'
        BY <1>2, <3>1, <4>1, <4>2, <4>3
      <4>6. Bookkeeping'
        BY <1>2, <3>1, <4>1, <4>2, <4>3
      <4>7. SlotsConfirmed'
        BY <1>2, <3>1, <4>1, <4>2, <4>3 DEF TypeOK
      <4>8. TryUnused'
        BY <1>2, <3>1, <4>1, <4>2, <4>3
      <4>9. QED
        BY <4>4, <4>5, <4>6, <4>7, <4>8
    <3>3. CASE ~(ok /\ r)
      <4>1. env' = env /\ confirmed' = confirmed /\ tried' = tried
        BY <3>3, <2>7 DEF CheckPromote
      <4>2. QED
        BY <1>2, <3>1, <4>1 DEF TypeOK
    <3>4. QED
      BY <3>2, <3>3
  <2>8. ASSUME NEW v \in Version, TryFind(v) PROVE IInv'
    <3>1. TypeOK'
      BY <1>2, <2>8 DEF TypeOK, TryFind, Slot
    <3>2. QED
      BY <1>2, <2>8, <3>1 DEF TryFind
  <2>9. ASSUME NEW r \in BOOLEAN, TryWrite(r) PROVE IInv'
    <3>1. TypeOK'
      BY <1>2, <2>9 DEF TypeOK, TryWrite, Env, Slot, stage, None
    <3>2. QED
      BY <1>2, <2>9, <3>1 DEF TryWrite, TypeOK, Env, stage, None
  <2>10. ASSUME NEW w \in Slot, NEW a \in BOOLEAN, NEW k \in BOOLEAN, run(w, a, k) PROVE IInv'
    <3> DEFINE Idle(ph, x) == cmd' = NoCommand /\ update' = [phase |-> ph, version |-> x]
    <3> DEFINE Start ==
          /\ w > running
          /\ cmd' = [pc |-> "download", op |-> "run", version |-> w, stage |-> a /\ k,
                     sources |-> Sources]
          /\ update' = [phase |-> "checking", version |-> None]
    <3>1. /\ UNCHANGED <<env, readable, images, running, check, status, trying, rebooting,
                         confirmed, tried>>
          /\ cmd.pc = "idle" /\ running # None /\ readable
      BY <2>10 DEF run, Enter, LockFree
    <3>2. w \in Int /\ running \in Int
      BY <1>2 DEF Slot, TypeOK, None
    <3>3. Idle("idle", None) \/ Idle("up-to-date", None) \/ Idle("staged", w)
            \/ Idle("error", None) \/ Start
      BY <3>2, <2>10 DEF run, Finish
    <3>4. ASSUME NEW ph \in {"idle", "up-to-date", "staged", "error"}, NEW x \in Slot, Idle(ph, x)
          PROVE IInv'
      <4>1. TypeOK'
        BY <1>2, <3>1, <3>4 DEF TypeOK, Command, NoCommand, Slot, Phase, None
      <4>2. QED
        BY <1>2, <3>1, <3>4, <4>1 DEF NoCommand
    <3>5. CASE Start
      <4>1. w \in Version
        BY <1>2, <3>1, <3>2, <3>5 DEF Slot, TypeOK, None
      <4>2. TypeOK'
        BY <1>2, <3>1, <3>5, <4>1 DEF TypeOK, Command, Slot, Phase
      <4>3. QED
        BY <1>2, <3>1, <3>5, <4>1, <4>2
    <3>6. None \in Slot
      BY DEF Slot
    <3>7. QED
      BY <3>3, <3>4, <3>5, <3>6
  <2>11. ASSUME NEW w \in Version, download_command(w) PROVE IInv'
    <3>1. TypeOK'
      BY <1>2, <2>11 DEF TypeOK, download_command, Slot, Command
    <3>2. QED
      BY <1>2, <2>11, <3>1 DEF download_command, Enter, LockFree
  <2>12. ASSUME NEW w \in Version, install_command(w) PROVE IInv'
    <3>1. TypeOK'
      BY <1>2, <2>12 DEF TypeOK, install_command, stage, Env, Slot
    <3>2. QED
      BY <1>2, <2>12, <3>1 DEF TypeOK, install_command, stage, Env
  <2>13. ASSUME check_release PROVE IInv'
    <3>1. TypeOK'
      BY <1>2, <2>13 DEF TypeOK, check_release, Command
    <3>2. QED
      BY <1>2, <2>13, <3>1 DEF TypeOK, check_release, Command
  <2>14. ASSUME NEW v \in Version, NEW p \in Part, RemovePart(v, p) PROVE IInv'
    <3>1. TypeOK'
      BY <1>2, <2>14 DEF TypeOK, RemovePart
    <3>2. QED
      BY <1>2, <2>14, <3>1 DEF TypeOK, RemovePart, Old, Keep
  <2>15. ASSUME free_old_images PROVE IInv'
    <3>1. /\ UNCHANGED <<images, running, check, status, trying, rebooting, confirmed, tried>>
          /\ cmd.pc = "free" /\ readable' \in {readable, TRUE}
          /\ env' = forget(env) /\ (forget(env) = env => readable' = readable)
      BY <2>15 DEF free_old_images
    <3>2. cmd' \in Command /\ cmd'.pc = "fetch" /\ cmd'.version = cmd.version
      BY <1>2, <2>15 DEF free_old_images, TypeOK, Command
    <3>3. cmd.version \in Version
      BY <1>2, <3>1
    <3>4. \/ update' = update
          \/ update' = [phase |-> "downloading", version |-> cmd.version]
      BY <2>15 DEF free_old_images
    <3>5. update' \in [phase : Phase, version : Slot] /\ (update'.phase = "ready" => update'.version \in Version)
      BY <1>2, <3>3, <3>4 DEF TypeOK, Phase, Slot
    <3>6. /\ env' \in Env
          /\ env'.current = env.current
          /\ env'.previous \in {env.previous, None}
          /\ \/ env'.next = env.next /\ env'.next_tries = env.next_tries
             \/ env'.next_tries = ""
      BY <1>2, <3>1 DEF TypeOK, forget, Env, Slot
    <3>7. TypeOK'
      BY <1>2, <3>1, <3>2, <3>5, <3>6 DEF TypeOK
    <3>8. CurrentConfirmed' /\ RunningIntact'
      BY <1>2, <3>1, <3>2, <3>6
    <3>9. Bookkeeping'
      BY <1>2, <3>1, <3>2, <3>3, <3>5
    <3>10. SlotsConfirmed'
      BY <1>2, <3>1, <3>6
    <3>11. TryUnused'
      BY <1>2, <3>1, <3>6
    <3>12. QED
      BY <3>7, <3>8, <3>9, <3>10, <3>11
  <2>16. ASSUME Fetched PROVE IInv'
    <3>1. TypeOK'
      BY <1>2, <2>16 DEF TypeOK, Fetched, Command, Bookkeeping
    <3>2. QED
      BY <1>2, <2>16, <3>1 DEF TypeOK, Fetched, Command, Part
  <2>17. ASSUME SourceFails PROVE IInv'
    <3>1. /\ UNCHANGED <<env, readable, images, running, check, status, trying, rebooting,
                         confirmed, tried>>
          /\ cmd.pc # "idle"
      BY <2>17 DEF SourceFails
    <3>2. CASE cmd.sources > 1
      <4>1. /\ cmd' = [pc |-> "download", op |-> cmd.op, version |-> cmd.version,
                       stage |-> cmd.stage, sources |-> cmd.sources - 1]
            /\ update' = update
        BY <3>2, <2>17 DEF SourceFails
      <4>2. TypeOK'
        BY <1>2, <3>1, <3>2, <4>1 DEF TypeOK, Command
      <4>3. QED
        BY <1>2, <3>1, <4>1, <4>2
    <3>3. CASE ~(cmd.sources > 1)
      <4>1. cmd' = NoCommand /\ update' \in {update, [phase |-> "error", version |-> None]}
        BY <3>3, <2>17 DEF SourceFails, Finish
      <4>2. TypeOK'
        BY <1>2, <3>1, <4>1 DEF TypeOK, Command, NoCommand, Slot, Phase, None
      <4>3. QED
        BY <1>2, <3>1, <4>1, <4>2 DEF NoCommand, TypeOK
    <3>4. QED
      BY <3>2, <3>3
  <2>18. ASSUME CommandFails PROVE IInv'
    <3>1. TypeOK'
      BY <1>2, <2>18 DEF TypeOK, CommandFails, Command, NoCommand, Slot
    <3>2. QED
      BY <1>2, <2>18, <3>1 DEF CommandFails, NoCommand, LockFree
  <2>19. ASSUME NEW whole \in BOOLEAN, NEW clean \in BOOLEAN, Downloaded(whole, clean) PROVE IInv'
    <3>1. /\ UNCHANGED <<readable, images, running, check, status, trying, rebooting, confirmed>>
          /\ cmd' = NoCommand /\ cmd.version \in Version
      BY <1>2, <2>19 DEF Downloaded, Finish
    <3>2. \/ update' = update
          \/ update' = [phase |-> "ready", version |-> cmd.version]
          \/ update' = [phase |-> "error", version |-> None]
          \/ update' = [phase |-> "staged", version |-> cmd.version]
      BY <2>19 DEF Downloaded, Finish
    <3>3. /\ update' \in [phase : Phase, version : Slot]
          /\ update'.phase = "ready" => update'.version \in Version
      BY <1>2, <3>1, <3>2 DEF TypeOK, Slot, Phase
    <3>4. NoCommand \in Command
      BY DEF Command, NoCommand, Slot
    <3>5. CASE UNCHANGED <<env, tried>>
      <4>1. TypeOK'
        BY <1>2, <3>1, <3>3, <3>4, <3>5 DEF TypeOK
      <4>2. QED
        BY <1>2, <3>1, <3>3, <3>5, <4>1, <2>19 DEF NoCommand, Downloaded
    <3>6. CASE env' = stage(env, cmd.version) /\ tried' = FALSE
      <4>1. TypeOK'
        BY <1>2, <3>1, <3>3, <3>4, <3>6 DEF TypeOK, stage, Env, Slot
      <4>2. QED
        BY <1>2, <3>1, <3>3, <3>6, <4>1 DEF TypeOK, stage, Env, NoCommand
    <3>7. QED
      BY <3>5, <3>6, <2>19 DEF Downloaded, Finish
  <2>20. ASSUME NEW whole \in BOOLEAN, NEW r \in BOOLEAN, NEW c \in BOOLEAN, install_pending(whole,
     r, c) PROVE IInv'
    <3>1. /\ UNCHANGED <<readable, images, running, check, status, cmd, trying, confirmed>>
          /\ update.version \in Version
      BY <1>2, <2>20 DEF install_pending
    <3>2. /\ update' \in {[update EXCEPT !.phase = "installing"], [update EXCEPT !.phase = "error"]}
          /\ rebooting' \in {"no", "called", "refused"}
      BY <1>2, <2>20 DEF TypeOK, install_pending
    <3>3. update' \in [phase : Phase, version : Slot] /\ update'.phase # "ready"
      BY <1>2, <3>2 DEF TypeOK, Phase
    <3>4. CASE env' = stage(env, update.version) /\ tried' = FALSE
      <4>1. TypeOK'
        BY <1>2, <3>1, <3>2, <3>3, <3>4 DEF TypeOK, stage, Env, Slot
      <4>2. QED
        BY <1>2, <3>1, <3>3, <3>4, <4>1 DEF TypeOK, stage, Env
    <3>5. CASE UNCHANGED <<env, tried>>
      <4>1. TypeOK'
        BY <1>2, <3>1, <3>2, <3>3, <3>5 DEF TypeOK
      <4>2. QED
        BY <1>2, <3>1, <3>3, <3>5, <4>1
    <3>6. QED
      BY <3>4, <3>5, <2>20 DEF install_pending
  <2>21. ASSUME run_unready PROVE IInv'
    <3>1. TypeOK'
      BY <1>2, <2>21 DEF TypeOK, run_unready, Phase, Slot
    <3>2. QED
      BY <1>2, <2>21, <3>1 DEF run_unready
  <2>22. CASE UNCHANGED vars
    BY <1>2, <2>22 DEF vars, TypeOK
  <2> HIDE DEF IInv
  <2>23. QED
    BY <1>2, <2>1, <2>2, <2>3, <2>4, <2>5, <2>6, <2>7, <2>8, <2>9, <2>10, <2>11, <2>12, <2>13,
       <2>14, <2>15, <2>16, <2>17, <2>18, <2>19, <2>20, <2>21, <2>22
       DEF Next, Grub, Check, Try, Updater, PowerCut, Reboot, Panic
<1>3. QED
  BY <1>1, <1>2, PTL DEF Spec

\* Every variable keeps its type.
THEOREM TypeCorrect == Spec => []TypeOK
<1>1. IInv => TypeOK
  BY DEF IInv
<1>2. QED
  BY InductiveInvariant, <1>1, PTL

\* `current` is always a complete image that was installed here or passed its
\* health check here, whatever the updater removed or a power cut interrupted.
THEOREM CurrentAlwaysConfirmed == Spec => []CurrentConfirmed
<1>1. IInv => CurrentConfirmed
  BY DEF IInv
<1>2. QED
  BY InductiveInvariant, <1>1, PTL

\* The image the machine runs from keeps its files.
THEOREM RunningAlwaysIntact == Spec => []RunningIntact
<1>1. IInv => RunningIntact
  BY DEF IInv
<1>2. QED
  BY InductiveInvariant, <1>1, PTL

\* GRUB's default entry always finds a complete image: `current` is one.
THEOREM AlwaysBootable == Spec => []NeverStranded
<1>1. IInv => NeverStranded
  <2>1. IInv => has_image(env.current) /\ env.current \in Version
    BY DEF IInv, CurrentConfirmed, has_image
  <2>2. QED
    BY <2>1 DEF NeverStranded, DefaultSlots
<1>2. QED
  BY InductiveInvariant, <1>1, PTL

\* With a readable grubenv, an image nobody confirmed boots only as the staged
\* one, and only if it has not been booted since it was staged.
THEOREM OneTryEach == Spec => OneTry
<1> DEFINE A == running = None /\ running' # None /\ readable /\ running' \notin confirmed
                  => running' = env.next /\ ~tried
<1>1. ASSUME IInv, [Next]_vars PROVE A \/ UNCHANGED vars
  <2>1. SUFFICES ASSUME running = None, running' # None, readable, running' \notin confirmed
                 PROVE running' = env.next /\ ~tried
    OBVIOUS
  <2>2. check = "off" /\ cmd.pc = "idle"
    BY <1>1, <2>1 DEF IInv, Bookkeeping
  <2>3. PICK saved \in BOOLEAN, v \in Version : Boot(saved, v)
    <3>1. /\ UNCHANGED vars => running' = running
          /\ Halt => running' = None
          /\ DamageEnv \/ Check \/ Try \/ Updater => running' = running
      BY DEF vars, Halt, DamageEnv, Check, CheckStart, CheckHealthy, CheckDeadline, CheckPromote,
         Try, TryFind, TryWrite, Updater, run, run_unready, download_command, install_command,
            check_release,
         RemovePart, free_old_images, Fetched, SourceFails, CommandFails, Downloaded,
         install_pending
    <3>2. QED
      BY <1>1, <2>1, <3>1 DEF Next, Grub, PowerCut, Reboot, Panic
  <2>4. CASE Spends
    BY <1>1, <2>1, <2>3, <2>4 DEF IInv, TryUnused, CurrentConfirmed, SlotsConfirmed, Spends, Boot,
       DefaultSlots, MenuSlots, None
  <2>5. CASE ~Spends
    BY <1>1, <2>1, <2>3, <2>5 DEF IInv, CurrentConfirmed, SlotsConfirmed, Boot, DefaultSlots,
       MenuSlots, None
  <2>6. QED
    BY <2>4, <2>5
<1>2. QED
  BY <1>1, InductiveInvariant, PTL DEF OneTry, Spec

=============================================================================

