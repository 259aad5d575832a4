----------------------------- MODULE MupgradeCheck -----------------------------
(***************************************************************************)
(* Falling back to the firmware of the other partition when a device       *)
(* restarts again and again (mupgrade_check.c).  Every boot counts itself  *)
(* in NVS, a timer erases the count, and the boot that makes it so many    *)
(* looks for the mark of this project in the other partition and boots it. *)
(* A reset may come between any two effects.                               *)
(***************************************************************************)
EXTENDS Integers, Sequences

CONSTANTS
  RestartCount,  \* CONFIG_MUPGRADE_RESTART_COUNT
  FirmwareFlag,  \* MUPGRADE_FIRMWARE_FLAG, a sequence
  ImageLetter, ImageSize,  \* what a partition consists of
  Boots,         \* how often the device boots
  NvsFailures    \* bound on failing calls

ASSUME CheckAssumption ==
  /\ RestartCount \in Nat \ {0} /\ FirmwareFlag \in Seq(ImageLetter) /\ FirmwareFlag # <<>>
  /\ ImageSize \in Nat /\ Boots \in Nat /\ NvsFailures \in Nat

VARIABLES
  bootAt,       \* the task mupgrade_version_fallback, "run" after it
  reason,       \* rtc_get_reset_reason: a cold start or a restart
  restartCount, \* the count stored in NVS, 0 when none is
  eraseTimer,   \* whether the timer that erases it runs
  image,        \* the other partition, once it was looked at
  boots, nvsFailures,  \* how much of the bounds is used
  inARow        \* boots one after the other none of which lived until its timer

checkVars == <<bootAt, reason, restartCount, eraseTimer, image, boots, nvsFailures, inARow>>

NvsFails == nvsFailures < NvsFailures /\ nvsFailures' = nvsFailures + 1

-----------------------------------------------------------------------------
\* kmp_next: for every place of the target, how much of its beginning ends there.
\* From k matched letters, fall back until letter c can follow.
FallBackToStart(target, next, k, c) == IF target[k + 1] = c THEN k ELSE 0  \* mutant

FallBack(target, next, k, c) ==
  LET back[j \in 0 .. k] == IF j = 0 \/ target[j + 1] = c THEN j ELSE back[next[j]]
  IN back[k]

Advance(target, k, c) == IF target[k + 1] = c THEN k + 1 ELSE k

KmpNext(target) ==
  LET table[i \in 1 .. Len(target)] ==
        IF i = 1 THEN <<0>>
        ELSE LET next == table[i - 1]
                 k == FallBack(target, next, next[i - 1], target[i])
             IN Append(next, Advance(target, k, target[i]))
  IN table[Len(target)]

\* kmp_find.  The loop ends when less than a target is left.
LettersSearched(src, target) == IF Len(src) < Len(target) THEN 0 ELSE Len(src) - Len(target) + 1

KmpFind(src, target) ==
  LET next == KmpNext(target)
      matched[i \in 0 .. LettersSearched(src, target)] ==
        IF i = 0 THEN 0
        ELSE LET k == matched[i - 1] IN
             IF k = Len(target) THEN k
             ELSE Advance(target, FallBack(target, next, k, src[i]), src[i])
  IN matched[LettersSearched(src, target)] = Len(target)

-----------------------------------------------------------------------------
\* The chip starts.
CheckBoot(why) ==
  /\ bootAt = "off" /\ boots < Boots /\ boots' = boots + 1
  /\ bootAt' = "count" /\ reason' = why
  /\ inARow' = inARow + 1 /\ image' = <<>>
  /\ UNCHANGED <<restartCount, eraseTimer, nvsFailures>>

\* A crash, the reset button, or the power goes.
CheckReset ==
  /\ bootAt # "off" /\ bootAt' = "off" /\ eraseTimer' = FALSE
  /\ UNCHANGED <<reason, restartCount, image, boots, nvsFailures, inARow>>

\* restart_trigger
Counted == IF reason = "cold" THEN 1 ELSE restartCount + 1

RestartSave ==
  /\ bootAt = "count" /\ restartCount' = Counted
  /\ inARow' = IF reason = "cold" THEN 1 ELSE inARow
  /\ bootAt' = IF Counted < RestartCount THEN "run" ELSE "erase"
  \* xTimerCreate and xTimerStart: without a timer created, the count is not looked at.
  /\ \/ eraseTimer' = TRUE /\ UNCHANGED nvsFailures
     \/ NvsFails /\ UNCHANGED eraseTimer
  /\ UNCHANGED <<reason, image, boots>>

RestartSaveFails ==
  /\ bootAt = "count" /\ NvsFails /\ bootAt' = "run"
  /\ restartCount' \in {restartCount, Counted}
  /\ UNCHANGED <<reason, eraseTimer, image, boots, inARow>>

RestartErase ==
  /\ bootAt = "erase" /\ bootAt' = "fallback"
  /\ \/ restartCount' = 0 /\ UNCHANGED nvsFailures
     \/ NvsFails /\ UNCHANGED restartCount
  /\ UNCHANGED <<reason, eraseTimer, image, boots, inARow>>

\* restart_count_erase_timercb
CountErasedNever == restartCount  \* mutant
CountErased == 0

EraseTimerExpires ==
  /\ eraseTimer /\ eraseTimer' = FALSE /\ inARow' = 0
  /\ \/ restartCount' = CountErased /\ UNCHANGED nvsFailures
     \/ NvsFails /\ UNCHANGED restartCount
  /\ UNCHANGED <<bootAt, reason, image, boots>>

\* mupgrade_version_fallback with mupgrade_firmware_check; the task restarts the chip
\* if it worked.
Image == [1 .. ImageSize -> ImageLetter]

VersionFallback(img) ==
  /\ bootAt = "fallback" /\ image' = img /\ inARow' = 0
  /\ \/ KmpFind(img, FirmwareFlag) /\ bootAt' = "off" /\ eraseTimer' = FALSE
        /\ UNCHANGED nvsFailures
     \/ /\ bootAt' = "run" /\ UNCHANGED eraseTimer
        /\ IF KmpFind(img, FirmwareFlag) THEN NvsFails ELSE UNCHANGED nvsFailures
  /\ UNCHANGED <<reason, restartCount, boots>>

-----------------------------------------------------------------------------
CheckInit ==
  /\ bootAt = "off" /\ reason = "cold" /\ restartCount = 0 /\ eraseTimer = FALSE
  /\ image = <<>> /\ boots = 0 /\ nvsFailures = 0 /\ inARow = 0

CheckNext ==
  \/ \E why \in {"cold", "restart"} : CheckBoot(why)
  \/ CheckReset \/ RestartSave \/ RestartSaveFails \/ RestartErase \/ EraseTimerExpires
  \/ \E img \in Image : VersionFallback(img)

CheckSpec == CheckInit /\ [][CheckNext]_checkVars

-----------------------------------------------------------------------------
CheckTypeOK ==
  /\ bootAt \in {"off", "count", "erase", "fallback", "run"} /\ reason \in {"cold", "restart"}
  /\ restartCount \in 0 .. Boots /\ eraseTimer \in BOOLEAN /\ image \in Image \union {<<>>}
  /\ boots \in 0 .. Boots /\ nvsFailures \in 0 .. NvsFailures
  /\ inARow \in 0 .. Boots

\* A device gives its firmware up only at the last of RestartCount boots one after the
\* other, none of which lived until its timer, and it begins to count anew at every power-on
\* (which it counts as the first), at a boot that lived, and when it gave up, unless a call
\* has failed.  So it never gives up at a power-on, unless one boot is enough: a device
\* whose power is cut again and again, which mupgrade.rst:22 names as a way to revert to
\* the earlier version, keeps its firmware.
FallbackMeansRestarts ==
  [][bootAt = "count" /\ bootAt' = "erase" /\ nvsFailures = 0 =>
       inARow' >= RestartCount /\ (reason = "cold" => RestartCount = 1)]_checkVars

Occurs(target, src) ==
  \E i \in 0 .. Len(src) - Len(target) : SubSeq(src, i + 1, i + Len(target)) = target

\* A partition is taken for one of this project if and only if it has the mark, except
\* that a mark that ends in the last of its cells is not seen: so much as the mark is
\* long, but one, is never looked at.
MarkIsFound ==
  image # <<>> =>
    (KmpFind(image, FirmwareFlag) <=>
       Occurs(FirmwareFlag, SubSeq(image, 1, ImageSize - Len(FirmwareFlag) + 1)))
=============================================================================
