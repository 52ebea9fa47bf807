---------------------------- MODULE Idempotency ----------------------------
(***************************************************************************)
(* One row of idempotency_records: internal/adapters/postgres/             *)
(* idempotency.go.  A row belongs to one (tenant, principal, route, key).  *)
(* A request is represented by the hash of its normalised form, a stored   *)
(* response by the value the caller stored.                                *)
(***************************************************************************)
EXTENDS Naturals

CONSTANT NoRecord   \* there is no row for the key

(* Rows for requests with hashes in hashes and responses in responses.     *)
RecordOf(hashes, responses) ==
    [hash : hashes, state : {"IN_PROGRESS", "COMPLETED", "FAILED"}, owner : Nat, locked : Nat,
     expires : Nat, response : responses \cup {NoRecord}]

(* The upsert takes a key that has no row or an expired one, and, for the  *)
(* same request, a row whose owner failed or let its lease run out.        *)
Acquirable(record, hash, now) ==
    \/ record = NoRecord
    \/ record.expires <= now
    \/ /\ record.hash = hash
       /\ \/ record.state = "FAILED"
          \/ record.state = "IN_PROGRESS" /\ record.locked <= now

AcquiredRecord(hash, owner, now, lease, ttl) ==
    [hash |-> hash, state |-> "IN_PROGRESS", owner |-> owner, locked |-> now + lease,
     expires |-> now + ttl, response |-> NoRecord]

(* Slip: a stored answer is replayed to whoever knows the key.             *)
ContendedOutcomeForKey(record, hash) ==
    IF record.state = "COMPLETED" THEN "REPLAY" ELSE "IN_FLIGHT"

(* What reading a row that could not be acquired says: another request     *)
(* used the key, the answer is stored, or somebody is at work (a FAILED    *)
(* row that appeared between the two statements reads the same way).       *)
ContendedOutcome(record, hash) ==
    IF record.hash # hash THEN "CONFLICT"
    ELSE IF record.state = "COMPLETED" THEN "REPLAY"
    ELSE "IN_FLIGHT"

(* Slip: the record is found by its key and not by its owner.              *)
OwnsKey(record, owner) == record # NoRecord

(* id and owner_token identify the acquisition; both are new every time.   *)
Owns(record, owner) ==
    record # NoRecord /\ record.state = "IN_PROGRESS" /\ record.owner = owner

CompletedRecord(record, response, now) ==
    [record EXCEPT !.state = "COMPLETED", !.response = response, !.locked = now]

(* FailIdempotency changes the row only for its owner and only while it is *)
(* IN_PROGRESS.                                                            *)
FailedRecord(record, owner, now) ==
    IF Owns(record, owner)
    THEN [record EXCEPT !.state = "FAILED", !.locked = now]
    ELSE record

=============================================================================
