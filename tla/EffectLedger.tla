---------------------------- MODULE EffectLedger ----------------------------
(***************************************************************************)
(* The durable table of external effects (EffectLedger.py).  One consumer  *)
(* owns it, so a row is named by its effect identity alone.  Every         *)
(* operator is one SQLite transaction: it takes the table and returns the  *)
(* table after the commit.  The timestamps and the forensic texts of       *)
(* details_json are left out; of the details only what a later             *)
(* transaction reads is kept.                                              *)
(***************************************************************************)
EXTENDS Naturals

CONSTANTS Messages,          \* business messages; each names its effect identity
          MediaMaxAttempts   \* media_retry_max_attempts, at least 1

ASSUME EffectLedgerAssumption == MediaMaxAttempts \in Nat \ {0}

NoEffect == "NoEffect"       \* get_effect_status returns None: there is no row

Statuses == {NoEffect, "RESERVED", "DELIVERED", "UNCERTAIN",
             "PENDING_MEDIA", "MEDIA_FAILED"}

\* parked is retry_parked, hasMedia says that a media_id is recorded.  The code
\* only compares attempt_count with media_retry_max_attempts, so a count past
\* that value is kept at it.
Rows == [status : Statuses, attempts : 0 .. MediaMaxAttempts,
         parked : BOOLEAN, hasMedia : BOOLEAN]

NoRow == [status |-> NoEffect, attempts |-> 0, parked |-> FALSE, hasMedia |-> FALSE]

Ledgers == [Messages -> Rows]

EmptyLedger == [e \in Messages |-> NoRow]

Terminal == {"DELIVERED", "MEDIA_FAILED"}

FailClosed == {"RESERVED", "UNCERTAIN"}

\* The attempt number of a new observation, from the one on record.
NextAttempt(row) ==
  IF row.attempts < MediaMaxAttempts THEN row.attempts + 1 ELSE row.attempts

(***************************************************************************)
(* Media that is not available yet.  Neither transaction touches a row     *)
(* that left PENDING_MEDIA.                                                *)
(***************************************************************************)
\* Fault: without a media reference there is nothing to wait for.
MarkMediaReferenced(ledger, e, attempt, hasMedia) ==
  IF hasMedia
    THEN [ledger EXCEPT ![e] = [status |-> "PENDING_MEDIA", attempts |-> attempt,
                                parked |-> FALSE, hasMedia |-> TRUE]]
    ELSE ledger

MarkMediaPending(ledger, e, attempt, hasMedia) ==
  IF ledger[e].status \in {NoEffect, "PENDING_MEDIA"}
    THEN [ledger EXCEPT ![e] = [status |-> "PENDING_MEDIA", attempts |-> attempt,
                                parked |-> FALSE, hasMedia |-> hasMedia]]
    ELSE ledger

\* Fault: running out of active retries makes the effect terminal.
MarkMediaExhausted(ledger, e, attempt, hasMedia) ==
  [ledger EXCEPT ![e] = [status |-> "MEDIA_FAILED", attempts |-> attempt,
                         parked |-> FALSE, hasMedia |-> hasMedia]]

MarkMediaParked(ledger, e, attempt, hasMedia) ==
  IF ledger[e].status \in {NoEffect, "PENDING_MEDIA"}
    THEN [ledger EXCEPT ![e] = [status |-> "PENDING_MEDIA", attempts |-> attempt,
                                parked |-> TRUE, hasMedia |-> hasMedia]]
    ELSE ledger

MarkMediaFailed(ledger, e) ==
  IF ledger[e].status \in {NoEffect, "PENDING_MEDIA", "MEDIA_FAILED"}
    THEN [ledger EXCEPT ![e].status = "MEDIA_FAILED"]
    ELSE ledger

\* The scheduled view: parked rows are left out.  Whether next_retry_at has
\* passed is the caller's choice among these rows.
ScheduledMedia(ledger) ==
  {e \in Messages : ledger[e].status = "PENDING_MEDIA" /\ ~ledger[e].parked}

\* The view a media.ready event asks for: parked or not, by media_id.
ReadyMedia(ledger, e) ==
  {x \in {e} : ledger[x].status = "PENDING_MEDIA" /\ ledger[x].hasMedia}

(***************************************************************************)
(* Reservation before the external call, and its two outcomes.             *)
(***************************************************************************)
MayReserve(ledger, e, seen) ==
  ledger[e].status = (IF seen = "PENDING_MEDIA" THEN "PENDING_MEDIA" ELSE NoEffect)

\* Fault: pending media is delivered under the row it has.
ReserveUnlessPending(ledger, e) ==
  IF ledger[e].status = "PENDING_MEDIA" THEN ledger ELSE [ledger EXCEPT ![e].status = "RESERVED"]

Reserve(ledger, e) == [ledger EXCEPT ![e].status = "RESERVED"]

MarkDelivered(ledger, e) ==
  IF ledger[e].status = NoEffect
    THEN ledger
    ELSE [ledger EXCEPT ![e].status = "DELIVERED"]

\* Fault: an effect whose external call raised is given free again.
ReleaseReservation(ledger, e) == [ledger EXCEPT ![e] = NoRow]

MarkUncertain(ledger, e) ==
  IF ledger[e].status = NoEffect
    THEN ledger
    ELSE [ledger EXCEPT ![e].status = "UNCERTAIN"]

\* Fault: a start takes an open reservation for one that never left the process.
ForgetReserved(ledger) ==
  [e \in Messages |-> IF ledger[e].status = "RESERVED" THEN NoRow ELSE ledger[e]]

\* Run once by the constructor of the channel, before anything else is read.
ReconcileOnStartup(ledger) ==
  [e \in Messages |-> IF ledger[e].status = "RESERVED"
                       THEN [ledger[e] EXCEPT !.status = "UNCERTAIN"]
                       ELSE ledger[e]]
=============================================================================
