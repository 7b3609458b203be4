---------------------------- MODULE CountedWait -----------------------------
(***************************************************************************)
(* A primitive with a field __nsleep, which counts its sleepers: the       *)
(* mutex, the event, the once flag and the shared mutex.                   *)
(***************************************************************************)
EXTENDS KeyedWait

VARIABLE nsleep     \* the field __nsleep

(***************************************************************************)
(* The sleeping count and the releases follow the protocol of SleepQueue.  *)
(***************************************************************************)
SQ == INSTANCE SleepQueue WITH asleep <- Asleep

SleepsProperly == SQ!Spec
=============================================================================
