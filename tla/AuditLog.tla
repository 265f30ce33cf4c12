------------------------------ MODULE AuditLog ------------------------------
(***************************************************************************)
(* The audit log of src/audit.ts: events are recorded at once and written  *)
(* one after the other, in a file that is rotated into one older           *)
(* generation when it has reached its size.                                *)
(*                                                                         *)
(* An event is its number in the order of record().  A file is the events  *)
(* whose lines it holds to their end, each on a line of its own, and its   *)
(* size.                                                                   *)
(***************************************************************************)
EXTENDS Naturals

CONSTANTS
  MaxBytes,   \* maxBytes
  LineSizes   \* the sizes a line may have: a set of positive naturals

VARIABLES
  recorded,   \* number of events recorded so far
  settled,    \* number of events the queue is through with, written or not
  stage,      \* what the write of the next one comes to: "idle", "stat", "rm", "rename", "append"
  current,    \* the events of the file
  older,      \* the events of the generation before, in the file ".1"
  size,       \* the size of the file
  torn        \* the file ends in the middle of a line

files == <<current, older, size, torn>>
auditVars == <<recorded, settled, stage, files>>

Stages == {"idle", "stat", "rm", "rename", "append"}
Events == Nat \ {0}

AuditInit ==
  /\ recorded = 0 /\ settled = 0 /\ stage = "idle"
  /\ current = {} /\ older = {} /\ size = 0 /\ torn = FALSE

(* write: the event joins the queue. *)
Record ==
  /\ recorded' = recorded + 1
  /\ UNCHANGED <<settled, stage, files>>

(* mkdir *)
Begin ==
  /\ stage = "idle" /\ settled < recorded
  /\ stage' = "stat"
  /\ UNCHANGED <<recorded, settled, files>>

(* A missing file has size 0; any other error of stat comes back at the    *)
(* append.                                                                 *)
Measure ==
  /\ stage = "stat"
  /\ stage' = IF size >= MaxBytes THEN "rm" ELSE "append"
  /\ UNCHANGED <<recorded, settled, files>>

(* "rm first because rename(2) cannot replace an existing file on Windows" *)
Remove ==
  /\ stage = "rm"
  /\ older' = {}
  /\ stage' = "rename"
  /\ UNCHANGED <<recorded, settled, current, size, torn>>

Rename ==
  /\ stage = "rename"
  /\ older' = current
  /\ current' = {} /\ size' = 0 /\ torn' = FALSE
  /\ stage' = "append"
  /\ UNCHANGED <<recorded, settled>>

Settle == settled' = settled + 1 /\ stage' = "idle"

(* A line that follows a torn one ends it and is lost with it. *)
AppendLine ==
  /\ stage = "append"
  /\ \E n \in LineSizes : size' = size + n
  /\ current' = IF torn THEN current ELSE current \cup {settled + 1}
  /\ torn' = FALSE
  /\ Settle
  /\ UNCHANGED <<recorded, older>>

(* An append that does not end has written some part of its line.          *)
Partial ==
  IF stage = "append"
  THEN \E l \in LineSizes : \E n \in 0..(l - 1) :
         size' = size + n /\ torn' = (torn \/ n > 0)
  ELSE UNCHANGED <<size, torn>>

(* The catch clause gives the event up and the queue goes on. *)
Fails ==
  /\ stage # "idle"
  /\ Partial
  /\ Settle
  /\ UNCHANGED <<recorded, current, older>>

(* The process ends without a flush: what is queued is lost. *)
Crash ==
  /\ Partial
  /\ settled' = recorded /\ stage' = "idle"
  /\ UNCHANGED <<recorded, current, older>>

AuditNext == Record \/ Begin \/ Measure \/ Remove \/ Rename \/ AppendLine \/ Fails \/ Crash

AuditSpec == AuditInit /\ [][AuditNext]_auditVars

---------------------------------------------------------------------------
(* What a reader finds: the last events of the file, or all of them.       *)
Logged == current \cup older

(* A generation holds events of one stretch of time, in their order, and   *)
(* the file continues where the older one ended.                           *)
InOrder ==
  /\ \A e \in older, f \in current : e < f
  /\ \A e \in Logged : e <= settled

(* A rotation loses no recent event: what is dropped is older than all the *)
(* events of a file that has reached its size, also when the rename fails  *)
(* or the process ends between the two steps.                              *)
Retained ==
  [][\A e \in Logged \ Logged' : size >= MaxBytes /\ \A f \in current : e < f]_auditVars

(* A file that has reached its size does not grow, whatever fails. *)
GrowthEnds == [][size' > size => size < MaxBytes]_auditVars
=============================================================================
