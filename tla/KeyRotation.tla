------------------------------ MODULE KeyRotation ------------------------------
(***************************************************************************)
(* Encrypted columns through the rotation of a key: FieldCipher, the         *)
(* envelope, the key ring and the column types (src/encryption), on a fleet  *)
(* of replicas that share one row.                                           *)
(*                                                                          *)
(* A sealed value names its key in the clear.  The operator is external: a   *)
(* step of the rotation starts once the one before it has reached every      *)
(* replica, and the old key goes only when no row names it.  A replica reads *)
(* its settings when it starts.                                              *)
(***************************************************************************)
EXTENDS Integers, FiniteSets

CONSTANTS
    Replicas,  \* processes
    MaxEdits   \* bound: plaintexts the column goes through

ASSUME RotationAssumption == MaxEdits \in Nat \ {0}

VARIABLES
    stage,   \* the step of the rotation being rolled out
    at,      \* the step each replica's settings are of; Down when it is not running
    cell,    \* the stored value: key and text it seals, or Null
    rowRev,  \* the row's version
    edits,   \* each replica's transaction: state, text and version it read, what it flushed
    truth    \* history: the text last committed, 0 for none

ringVars == <<stage, at, cell, rowRev, edits, truth>>

Down == -1
Null == [key |-> "none", text |-> 0]
Cells == {Null} \union [key : {"old", "new"}, text : 1..MaxEdits]
NoEdit == [state |-> "idle", text |-> 0, rev |-> 0, out |-> Null]

\* The settings of each step: ENCRYPTION_KEYS and ENCRYPTION_ACTIVE_KEY_ID.
Settings == [s \in 0..3 |->
    CASE s = 0 -> [keys |-> {"old"}, active |-> "old"]
      [] s = 1 -> [keys |-> {"old", "new"}, active |-> "old"]
      [] s = 2 -> [keys |-> {"old", "new"}, active |-> "new"]
      [] s = 3 -> [keys |-> {"new"}, active |-> "new"]]

RotationTypeOK ==
    /\ stage \in 0..3 /\ at \in [Replicas -> Down..3] /\ cell \in Cells
    /\ rowRev \in 1..(MaxEdits + 2) /\ truth \in 0..MaxEdits
    /\ edits \in [Replicas -> [state : {"idle", "read", "failed", "flushed"}, text : 0..MaxEdits,
                               rev : 0..(MaxEdits + 2), out : Cells]]

\* Migration 0007 has sealed what the plain column held, in one transaction and before any
\* replica reads the column as sealed; NULL stays NULL.
Migrated(plain) == IF plain = 0 THEN Null ELSE [key |-> Settings[0].active, text |-> plain]

RotationInit ==
    /\ stage = 0 /\ at = [r \in Replicas |-> 0]
    /\ rowRev = 1 /\ truth \in {0, 1} /\ cell = Migrated(truth)
    /\ edits = [r \in Replicas |-> NoEdit]

-----------------------------------------------------------------------------
(* FieldCipher and the column types.                                       *)

\* mutant: values are sealed under the last key of the ring.
SealNewest(r) == IF "new" \in Settings[at[r]].keys THEN "new" ELSE "old"

\* KeyRing.active.
SealKey(r) == Settings[at[r]].active

\* process_bind_param: NULL stays NULL.
Encrypt(r, text) == IF text = 0 THEN Null ELSE [key |-> SealKey(r), text |-> text]

\* mutant: the active key is tried, whatever the value says.
OpensActive(r, c) == c.key = Settings[at[r]].active

\* parse, then KeyRing.get by the id in the header: UnknownKeyError if the ring has no such key.
Opens(r, c) == c.key \in Settings[at[r]].keys

Readable(r, c) == c = Null \/ Opens(r, c)

-----------------------------------------------------------------------------
(* A request of a replica.                                                 *)

\* The row is loaded: process_result_value decrypts, or raises.
Load(r) ==
    /\ at[r] # Down /\ edits[r].state \in {"idle", "failed"}
    /\ edits' = [edits EXCEPT ![r] = IF Readable(r, cell)
                                     THEN [state |-> "read", text |-> cell.text, rev |-> rowRev, out |-> Null]
                                     ELSE [NoEdit EXCEPT !.state = "failed"]]
    /\ UNCHANGED <<stage, at, cell, rowRev, truth>>

\* A new text, or the one that was read, is sealed when the session is flushed.
Flush(r, text) ==
    /\ edits[r].state = "read" /\ text \in {edits[r].text, truth + 1} /\ text <= MaxEdits
    /\ rowRev < MaxEdits + 2
    /\ edits' = [edits EXCEPT ![r].state = "flushed", ![r].out = Encrypt(r, text)]
    /\ UNCHANGED <<stage, at, cell, rowRev, truth>>

\* The UPDATE names the version that was read; a stale one is refused.
CommitEdit(r) ==
    /\ edits[r].state = "flushed"
    /\ IF edits[r].rev = rowRev
       THEN cell' = edits[r].out /\ rowRev' = rowRev + 1 /\ truth' = edits[r].out.text
       ELSE UNCHANGED <<cell, rowRev, truth>>
    /\ edits' = [edits EXCEPT ![r] = NoEdit]
    /\ UNCHANGED <<stage, at>>

\* The process stops, with or without the new settings to come; its transactions are rolled back.
Stop(r) ==
    /\ at[r] # Down
    /\ at' = [at EXCEPT ![r] = Down] /\ edits' = [edits EXCEPT ![r] = NoEdit]
    /\ UNCHANGED <<stage, cell, rowRev, truth>>

\* validate_encryption_configuration: the ring is parsed, its active key looked up, and a
\* value sealed and opened again, or the process does not start.
Starts(s) == Settings[s].active \in Settings[s].keys

Start(r) ==
    /\ at[r] = Down /\ Starts(stage)
    /\ at' = [at EXCEPT ![r] = stage]
    /\ UNCHANGED <<stage, cell, rowRev, edits, truth>>

\* The operator goes on to the next step.
NextStep ==
    /\ stage < 3 /\ \A r \in Replicas : at[r] = stage
    /\ stage = 2 => cell.key # "old"
    /\ stage' = stage + 1
    /\ UNCHANGED <<at, cell, rowRev, edits, truth>>

RotationNext ==
    \/ NextStep
    \/ \E r \in Replicas :
          \/ Load(r) \/ CommitEdit(r) \/ Stop(r) \/ Start(r)
          \/ \E text \in 0..MaxEdits : Flush(r, text)

RotationSpec == RotationInit /\ [][RotationNext]_ringVars

-----------------------------------------------------------------------------
(* Properties.                                                             *)

\* Throughout the rotation every running replica can open the stored value, whoever wrote it
\* and whatever step either is at; what it opens is the text last committed; no request fails.
RotationKeepsRows ==
    /\ \A r \in Replicas : at[r] # Down => Readable(r, cell) /\ edits[r].state # "failed"
    /\ cell.text = truth
=============================================================================
