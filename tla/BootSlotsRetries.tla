-------------------------- MODULE BootSlotsRetries ---------------------------
(***************************************************************************)
(* BootSlots with a memory: which releases rolled back on this workstation *)
(* since it was installed, which neither grubenv nor the updater keeps.    *)
(***************************************************************************)
EXTENDS BootSlots

VARIABLES
  failed,   \* the releases a boot check recorded as rolled back
  cleared   \* those of them since which a download cleared the disk

RetryVars == <<vars, failed, cleared>>

RetryInit == Init /\ failed = {} /\ cleared = {}

\* The boot check records a rollback; free_old_images is done.
Remember ==
  LET back == {v \in {env.next} : check = "start" /\ status' = "rolled-back"}
  IN /\ failed' = failed \cup back
     /\ cleared' = IF cmd.pc = "free" /\ cmd'.pc = "fetch" THEN failed ELSE cleared \ back

RetrySpec == RetryInit /\ [][Next /\ Remember]_RetryVars

Staged(e, v) == e.next = v /\ e.next_tries = "1"

\* Who stages v in this step is not the administrator's install-pending.
StagedAlone(v) == ~Staged(env, v) /\ Staged(env', v) /\ update'.phase # "installing"

\* docs/OTA_UPDATES.md: a release "that rolled back is never staged again by itself ...
\* an administrator can still install it".
NotRetriedAlone == [][\A v \in failed : ~StagedAlone(v)]_RetryVars

\* How far `run` keeps that promise: a release that rolled back is not staged again
\* without an administrator, over any number of offers and restarts, until a
\* download has cleared the disk for its own files, of this release or another.
NotRetriedYet == [][\A v \in failed \ cleared : ~StagedAlone(v)]_RetryVars

=============================================================================
