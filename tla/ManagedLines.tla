---------------------------- MODULE ManagedLines ----------------------------
(***************************************************************************)
(* The life of one managed playback line: server/server/managed_lines.     *)
(*                                                                         *)
(* Every operation of an administrator reads the whole record, decides,    *)
(* and saves a whole record.  What it does in between may take long: a     *)
(* verification fetches the media.  save() loads the row again and sets    *)
(* every column from the record; the UPDATE of its commit then names the   *)
(* columns that differ from what was loaded.                               *)
(***************************************************************************)
EXTENDS Naturals

CONSTANTS
    Admins,             \* administrators' requests at the same time
    RequireApproval     \* MANAGED_PLAYBACK_LINES_REQUIRE_APPROVAL

Record ==
    [status   : {"draft", "active", "degraded", "quarantined", "revoked"},
     approved : BOOLEAN,                                \* review_status
     enabled  : BOOLEAN,
     verified : {"unverified", "good", "unavailable"},  \* last_verified_status
     expires  : 1..2]                                   \* expires_at; 2: never

Operation == {"update", "verify", "approve", "enable", "disable", "revoke"}

VARIABLES
    row,        \* the row of `managed_playback_lines`
    now,        \* 1: an expires_at of 1 has passed
    admin       \* the requests: what they have read, want to save, have loaded

vars == <<row, now, admin>>

\* _prepare_record
Draft == [status |-> "draft", approved |-> FALSE, enabled |-> FALSE,
          verified |-> "unverified", expires |-> 1]

Idle == [step |-> "idle", op |-> "update", record |-> Draft, loaded |-> Draft]

Init ==
    /\ row = Draft /\ now = 0
    /\ admin = [a \in Admins |-> Idle]

-----------------------------------------------------------------------------
(***************************************************************************)
(* What each operation makes of the record it has read; none when it       *)
(* refuses or has nothing to change.                                       *)
(***************************************************************************)
\* update: a change of the source starts the review again.
Updated(record) == {record} \cup {[Draft EXCEPT !.expires = e] : e \in 1..2}

StatusAfter(verified, approved) ==
    IF verified = "unavailable" THEN "degraded"
    ELSE IF approved THEN "active" ELSE "draft"

\* verify: a result, or an address the policy does not allow any more.
Verified(record) ==
    {LET approved == record.approved \/ (verified = "good" /\ ~RequireApproval)
         status == StatusAfter(verified, approved)
     IN [record EXCEPT !.status = status, !.approved = approved,
                       !.verified = verified,
                       !.enabled = @ /\ status = "active"]
        : verified \in {"good", "unavailable"}}
    \cup {[record EXCEPT !.status = "quarantined", !.enabled = FALSE,
                         !.verified = "unavailable"]}

\* _ensure_current_verification
Current(record) == record.verified = "good" /\ record.expires > now

\* What is saved; empty if the operation ends without saving.
Results(op, record) ==
    IF op = "disable"
      THEN IF record.enabled THEN {[record EXCEPT !.enabled = FALSE]} ELSE {}
    ELSE IF record.status = "revoked" THEN {}
    ELSE CASE op = "revoke" -> {[record EXCEPT !.status = "revoked", !.enabled = FALSE]}
      [] op = "update" -> Updated(record)
      [] op = "verify" -> Verified(record)
      [] op = "approve" /\ Current(record) ->
            {[record EXCEPT !.status = "active", !.approved = TRUE]}
      [] op = "enable" /\ Current(record) /\ record.approved
            /\ record.status = "active" -> {[record EXCEPT !.enabled = TRUE]}
      [] OTHER -> {}

-----------------------------------------------------------------------------
\* get()
Read(a, op) ==
    /\ admin[a].step = "idle"
    /\ admin' = [admin EXCEPT ![a] =
                   [Idle EXCEPT !.step = "read", !.op = op, !.record = row]]
    /\ UNCHANGED <<row, now>>

\* The operation decides, however long that takes, and save() loads the row.
Load(a) ==
    /\ admin[a].step = "read"
    /\ \E record \in Results(admin[a].op, admin[a].record) :
          admin' = [admin EXCEPT ![a] =
                      [@ EXCEPT !.step = "loaded", !.record = record, !.loaded = row]]
    /\ UNCHANGED <<row, now>>

EndWithoutSaving(a) ==
    /\ admin[a].step = "read"
    /\ Results(admin[a].op, admin[a].record) = {}
    /\ admin' = [admin EXCEPT ![a] = Idle]
    /\ UNCHANGED <<row, now>>

\* The commit of save(): the columns that differ from what was loaded.
Save(a) ==
    LET new == admin[a].record
        old == admin[a].loaded
    IN /\ admin[a].step = "loaded"
       /\ row' = [column \in DOMAIN row |->
             IF new[column] # old[column] THEN new[column] ELSE row[column]]
       /\ admin' = [admin EXCEPT ![a] = Idle]
       /\ UNCHANGED now

Expire ==
    /\ now = 0 /\ now' = 1
    /\ UNCHANGED <<row, admin>>

Next ==
    \/ \E a \in Admins :
          (\E op \in Operation : Read(a, op)) \/ Load(a) \/ EndWithoutSaving(a) \/ Save(a)
    \/ Expire

Spec == Init /\ [][Next]_vars

-----------------------------------------------------------------------------

\* publishable(): what a player is given.
Publishable(record) ==
    /\ record.enabled /\ record.status = "active" /\ record.approved
    /\ Current(record)

\* A line that was revoked is not published again (service.py:450).
RevokedIsNotPublished == [][row.status = "revoked" => ~Publishable(row)']_vars

=============================================================================
