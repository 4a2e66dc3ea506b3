----------------------------- MODULE BackupQueue -----------------------------
(***************************************************************************)
(* A backup and its retry queue (services/backup_retry_queue.py,           *)
(* run_scheduled_backup of backup_settings_service.py).  The queue is a    *)
(* directory: a ZIP and a JSON description for each archive.  One job at a *)
(* time, a backup or a round of retries, runs under the advisory lock and  *)
(* does one file operation per action; discarding and looking at the queue *)
(* take no lock.  A process may die between any two operations, and the    *)
(* file system may refuse one.  Time is abstract: which waits have ended   *)
(* is a choice of the round.  Downloads (nothing is sent) are left out.    *)
(***************************************************************************)
EXTENDS Naturals, FiniteSets

CONSTANTS
  Kinds,                 \* destinations, numbered in the order they are tried
  MAX_ATTEMPTS,          \* length of RETRY_DELAYS_MIN
  MAX_QUEUED_ARCHIVES,
  MaxArchives,           \* bound: backups made; an archive is its place in time
  MaxFaults              \* bound: crashes and refused file operations

ASSUME BackupAssumption ==
  /\ Kinds \subseteq Nat \ {0}
  /\ MAX_ATTEMPTS \in Nat \ {0} /\ MAX_QUEUED_ARCHIVES \in Nat \ {0}
  /\ MaxArchives \in Nat /\ MaxFaults \in Nat

VARIABLES
  made,        \* number of archives built so far
  local,       \* archives in the backup directory
  zip,         \* archives in its directory pending
  meta,        \* the attempts in the JSON beside each, or NoEntry
  newest,      \* for each destination, the newest archive reported as delivered
  job,         \* what the holder of the lock is doing
  faults

vars  == <<made, local, zip, meta, newest, job, faults>>
files == <<local, zip, meta>>

Archives == 1 .. MaxArchives

\* Attempts of each kind, 0 for a kind that is not there or was given up.
Entry   == [Kinds -> 0 .. MAX_ATTEMPTS]
Empty   == [k \in Kinds |-> 0]
NoEntry == <<>>

Waiting(e)    == {k \in Kinds : e[k] > 0}
Without(e, k) == [e EXCEPT ![k] = 0]

\* An entry is kept by its JSON file and worth something with its ZIP.
Listed       == {a \in zip : meta[a] # NoEntry}
Queued(a, k) == a \in Listed /\ k \in Waiting(meta[a])

\* list_entries unlinks the descriptions whose ZIP is gone.
Healed == [a \in Archives |-> IF a \in zip THEN meta[a] ELSE NoEntry]

NoSave == [a \in {} |-> Empty]
Idle   == [phase |-> "idle", arch |-> 0, kinds |-> {}, entry |-> Empty, arrived |-> 0,
           save |-> NoSave, read |-> NoSave]
Ready  == job.arrived = 0 /\ DOMAIN job.save = {}

Init ==
  /\ made = 0 /\ local = {} /\ zip = {} /\ meta = [a \in Archives |-> NoEntry]
  /\ newest = [k \in Kinds |-> 0] /\ job = Idle /\ faults = 0

-----------------------------------------------------------------------------
(* Sending.  A backup sends the archive it has just built; a round of      *)
(* retries the file in pending, with the description it read at its start. *)

\* All destinations: one that is not enabled goes the way of FailsForGood.
BeginBackup ==
  /\ job.phase = "idle" /\ made < MaxArchives
  /\ made' = made + 1 /\ local' = local \cup {made'}
  /\ job' = [Idle EXCEPT !.phase = "send", !.arch = made', !.kinds = Kinds]
  /\ UNCHANGED <<zip, meta, newest, faults>>

NextKind(k) == k \in job.kinds /\ (\A l \in job.kinds : k <= l) /\ Ready

Arrives(k) ==
  /\ NextKind(k)
  /\ job.arch \in local \cup zip
  /\ newest' = [newest EXCEPT ![k] = IF @ < job.arch THEN job.arch ELSE @]
  /\ job' = [job EXCEPT !.kinds = @ \ {k}, !.arrived = k, !.entry = Without(@, k)]
  /\ UNCHANGED <<made, files, faults>>

(* mutant: one attempt too many *)
FailedOnceMore(e, k) ==
  IF e[k] > MAX_ATTEMPTS THEN Without(e, k) ELSE [e EXCEPT ![k] = @ + 1]

(* mutant: the attempts are not counted *)
FailedAsAtFirst(e, k) == [e EXCEPT ![k] = 1]

\* attempts is 1 after the failure of the backup itself; beyond the cap
\* (next_retry_at answers None) the kind is given up.
Failed(e, k) ==
  IF e[k] + 1 > MAX_ATTEMPTS THEN Without(e, k) ELSE [e EXCEPT ![k] = @ + 1]

\* deliver_to raises.  The archive may have arrived all the same (it could not be
\* verified, the retention failed, one of several e-mails was refused), but for
\* the queue only a delivery that is reported counts.
Fails(k) ==
  /\ NextKind(k)
  /\ job' = [job EXCEPT !.kinds = @ \ {k}, !.entry = Failed(@, k)]
  /\ UNCHANGED <<made, files, newest, faults>>

\* PermanentDeliveryError: reported, not queued.
FailsForGood(k) ==
  /\ job.phase = "send" /\ NextKind(k)
  /\ job' = [job EXCEPT !.kinds = @ \ {k}]
  /\ UNCHANGED <<made, files, newest, faults>>

(* mutant: newer entries are taken for older ones *)
SupersededAll(a, k) == {b \in Listed : b # a /\ k \in Waiting(meta[b])}

\* Archives whose wait for k is over because a newer one arrived there.
Superseded(a, k) == {b \in Listed : b < a /\ k \in Waiting(meta[b])}

\* note_success: what it will write, from the descriptions as it reads them.
NoteSuccess ==
  /\ job.arrived # 0 /\ DOMAIN job.save = {}
  /\ meta' = Healed
  /\ LET older == Superseded(job.arch, job.arrived)
     IN job' = [job EXCEPT
          !.save    = [b \in older |-> Without(meta[b], job.arrived)],
          !.arrived = IF older = {} THEN 0 ELSE @]
  /\ UNCHANGED <<made, local, zip, newest, faults>>

-----------------------------------------------------------------------------
(* _save_or_remove and _remove, newest entry first: a description is       *)
(* replaced in one step, an entry is removed in two.                       *)

NextToSave == CHOOSE a \in DOMAIN job.save : \A b \in DOMAIN job.save : b <= a

Saved(a) ==
  LET rest == [b \in DOMAIN job.save \ {a} |-> job.save[b]]
  IN [job EXCEPT !.save = rest, !.arrived = IF DOMAIN rest = {} THEN 0 ELSE @]

Write ==
  /\ DOMAIN job.save # {} /\ Waiting(job.save[NextToSave]) # {}
  /\ meta' = [meta EXCEPT ![NextToSave] = job.save[NextToSave]]
  /\ job' = Saved(NextToSave)
  /\ UNCHANGED <<made, local, zip, newest, faults>>

UnlinkZip ==
  /\ DOMAIN job.save # {} /\ Waiting(job.save[NextToSave]) = {} /\ NextToSave \in zip
  /\ zip' = zip \ {NextToSave}
  /\ UNCHANGED <<made, local, meta, newest, job, faults>>

UnlinkMeta ==
  /\ DOMAIN job.save # {} /\ Waiting(job.save[NextToSave]) = {} /\ NextToSave \notin zip
  /\ meta' = [meta EXCEPT ![NextToSave] = NoEntry]
  /\ job' = Saved(NextToSave)
  /\ UNCHANGED <<made, local, zip, newest, faults>>

-----------------------------------------------------------------------------
(* The end of a backup: enqueue what failed, drop the oldest entries, and  *)
(* empty the backup directory.                                             *)

Sent == job.phase = "send" /\ job.kinds = {} /\ Ready

MoveZip ==
  /\ Sent /\ Waiting(job.entry) # {}
  /\ zip' = zip \cup {job.arch} /\ local' = local \ {job.arch}
  /\ job' = [job EXCEPT !.phase = "describe"]
  /\ UNCHANGED <<made, meta, newest, faults>>

Describe ==
  /\ job.phase = "describe"
  /\ meta' = [meta EXCEPT ![job.arch] = job.entry]
  /\ job' = [job EXCEPT !.phase = "drop", !.entry = Empty]
  /\ UNCHANGED <<made, local, zip, newest, faults>>

(* mutant: keeps one archive too many *)
DropBeyondOneMore ==
  {a \in Listed : Cardinality({b \in Listed : b > a}) > MAX_QUEUED_ARCHIVES}

EntriesToDrop ==
  {a \in Listed : Cardinality({b \in Listed : b > a}) >= MAX_QUEUED_ARCHIVES}

DropOldest ==
  /\ job.phase = "drop"
  /\ meta' = Healed
  /\ job' = [job EXCEPT !.phase = "clean", !.save = [a \in EntriesToDrop |-> Empty]]
  /\ UNCHANGED <<made, local, zip, newest, faults>>

CleanUp ==
  /\ \/ job.phase = "clean" /\ Ready
     \/ Sent /\ Waiting(job.entry) = {}
  /\ local' = {} /\ job' = Idle
  /\ UNCHANGED <<made, zip, meta, newest, faults>>

-----------------------------------------------------------------------------
(* A round of retries: every entry as read at the start, oldest first.     *)
(* The kinds of an entry fail in the same round, so their waits end        *)
(* together: all of them are due, or none.                                 *)

BeginRetry ==
  /\ job.phase = "idle" /\ Listed # {}
  /\ meta' = Healed
  /\ job' = [Idle EXCEPT !.phase = "retry", !.read = [a \in Listed |-> meta[a]]]
  /\ UNCHANGED <<made, local, zip, newest, faults>>

(* mutant: in the order of list_entries, the newest first *)
NewestToTry == CHOOSE a \in DOMAIN job.read : \A b \in DOMAIN job.read : b <= a

NextToTry == CHOOSE a \in DOMAIN job.read : \A b \in DOMAIN job.read : a <= b

NextEntry(due) ==
  /\ job.phase = "retry" /\ job.arch = 0 /\ Ready /\ DOMAIN job.read # {}
  /\ job' = [job EXCEPT !.arch = NextToTry, !.entry = job.read[NextToTry],
                        !.kinds = IF due THEN Waiting(job.read[NextToTry]) ELSE {},
                        !.read = [b \in DOMAIN @ \ {NextToTry} |-> @[b]]]
  /\ UNCHANGED <<made, files, newest, faults>>

SaveEntry ==
  /\ job.phase = "retry" /\ job.arch # 0 /\ job.kinds = {} /\ Ready
  /\ job' = [job EXCEPT !.save = [a \in {job.arch} |-> job.entry], !.arch = 0, !.entry = Empty]
  /\ UNCHANGED <<made, files, newest, faults>>

EndRetry ==
  /\ job.phase = "retry" /\ job.arch = 0 /\ Ready /\ DOMAIN job.read = {}
  /\ job' = Idle
  /\ UNCHANGED <<made, files, newest, faults>>

-----------------------------------------------------------------------------
(* Requests without the lock, and faults.                                  *)

\* _remove once more: the ZIP goes first.  A description without its ZIP is not
\* listed; the request itself, or whoever lists next, unlinks it.
Discard(a) ==
  /\ meta[a] # NoEntry
  /\ zip' = zip \ {a}
  /\ UNCHANGED <<made, local, meta, newest, job, faults>>

Heal(a) ==
  /\ meta[a] # NoEntry /\ a \notin zip
  /\ meta' = [meta EXCEPT ![a] = NoEntry]
  /\ UNCHANGED <<made, local, zip, newest, job, faults>>

\* The lock goes with the connection of the process.
Crash ==
  /\ job.phase # "idle" /\ faults < MaxFaults /\ faults' = faults + 1
  /\ job' = Idle
  /\ UNCHANGED <<made, files, newest>>

\* A file operation is refused.  After an arrival the backup takes it for a
\* failure to send; in enqueue, while it drops the oldest entries too, it is
\* logged and the backup goes on to the clean-up.  A refusal in the clean-up or in
\* a round of retries leaves what a crash leaves.
NoteFails ==
  /\ job.phase = "send" /\ job.arrived # 0
  /\ faults < MaxFaults /\ faults' = faults + 1
  /\ job' = [job EXCEPT !.entry = Failed(@, job.arrived), !.arrived = 0, !.save = NoSave]
  /\ UNCHANGED <<made, files, newest>>

EnqueueFails ==
  /\ \/ Sent /\ Waiting(job.entry) # {}
     \/ job.phase \in {"describe", "drop"}
     \/ job.phase = "clean" /\ ~Ready
  /\ faults < MaxFaults /\ faults' = faults + 1
  /\ job' = [job EXCEPT !.phase = "clean", !.entry = Empty, !.save = NoSave]
  /\ UNCHANGED <<made, files, newest>>

JobStep ==
  \/ \E k \in Kinds : Arrives(k) \/ Fails(k) \/ FailsForGood(k)
  \/ NoteSuccess \/ Write \/ UnlinkZip \/ UnlinkMeta
  \/ MoveZip \/ Describe \/ DropOldest \/ CleanUp
  \/ (\E due \in BOOLEAN : NextEntry(due)) \/ SaveEntry \/ EndRetry

Next ==
  \/ BeginBackup \/ BeginRetry \/ JobStep
  \/ \E a \in Archives : Discard(a) \/ Heal(a)
  \/ Crash \/ NoteFails \/ EnqueueFails

\* The scheduler looks every five minutes, no wait is longer than eight hours
\* and the lock is not always taken when it looks.  Sending ends, well or not.
Fairness == SF_vars(BeginRetry) /\ SF_vars(NextEntry(TRUE)) /\ WF_vars(JobStep)

Spec == Init /\ [][Next]_vars /\ Fairness
=============================================================================
