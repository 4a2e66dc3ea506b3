--------------------------- MODULE BackupProperties ---------------------------
(***************************************************************************)
(* What the retry queue of the backups promises.                           *)
(***************************************************************************)
EXTENDS BackupQueue

(* Every file of the queue and every description in memory is well formed: *)
(* in particular no kind is queued with more attempts than the cap.        *)
TypeOK ==
  /\ made \in 0 .. MaxArchives /\ faults \in 0 .. MaxFaults
  /\ local \subseteq 1 .. made /\ zip \subseteq 1 .. made
  /\ meta \in [Archives -> Entry \cup {NoEntry}]
  /\ \A a \in Archives : meta[a] # NoEntry => Waiting(meta[a]) # {}
  /\ newest \in [Kinds -> 0 .. made]
  /\ job.phase \in {"idle", "send", "describe", "drop", "clean", "retry"}
  /\ job.entry \in Entry /\ job.arch \in 0 .. made

(* A backup leaves at most MAX_QUEUED_ARCHIVES archives behind on the disk *)
(* of the server, wherever they lie, and one more while it runs; each crash*)
(* or refused operation in run_scheduled_backup, enqueue or retry_due      *)
(* costs at most one archive more.  What a crash inside build_archive      *)
(* leaves half built is not counted.                                       *)
DiskBounded ==
  Cardinality(local) + Cardinality(zip)
    <= MAX_QUEUED_ARCHIVES + faults + (IF job.phase = "idle" THEN 0 ELSE 1)

(* As long as no process dies and no file operation is refused, neither a  *)
(* backup nor retry_due tries an archive, well or not, at a destination    *)
(* for which a newer one was reported as delivered: note_success took it   *)
(* off the older entries, and a round that read them before goes from the  *)
(* oldest to the newest.  A newer archive that arrived and was reported as *)
(* failed does not count: an older one may follow it.                      *)
NothingOlderSent ==
  [][\A k \in job.kinds \ job'.kinds : faults' = 0 => newest[k] <= job.arch]_vars

(* A destination leaves the queue only for a reason: this archive or a     *)
(* newer one was reported as delivered there, the cap of attempts was passed (that    *)
(* was the last failure of the entry the round has just saved), the        *)
(* archive was discarded by hand, or a backup that many archives later has *)
(* filled the queue.                                                       *)
LeavesForAReason ==
  [][\A a \in Archives, k \in Kinds :
       Queued(a, k) /\ ~Queued(a, k)' =>
         \/ newest[k] >= a
         \/ meta[a][k] = MAX_ATTEMPTS /\ job.phase = "retry"
         \/ Discard(a) /\ ~(a \in DOMAIN job.save /\ Waiting(job.save[a]) = {})
         \/ job.phase = "clean" /\ job.arch - a >= MAX_QUEUED_ARCHIVES]_vars

(* Whatever fails, crashes or is discarded, the queue empties unless new   *)
(* backups keep coming: the destinations of each entry are reached,        *)
(* overtaken or given up, and the entry goes with the last of them.        *)
QueueDrains == []<>(Listed = {} \/ job.phase = "send")
=============================================================================
