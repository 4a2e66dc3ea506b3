----------------------------- MODULE BackupProofs -----------------------------
(***************************************************************************)
(* Proofs about the retry queue, for any number of destinations, attempts, *)
(* archives, crashes and refused file operations.  The invariant says what *)
(* the file operations that are left to a job still have to do with what   *)
(* lies on the disk.                                                       *)
(***************************************************************************)
EXTENDS BackupProperties, FiniteSetTheorems, WellFoundedInduction, TLAPS

Phases == {"idle", "send", "describe", "drop", "clean", "retry"}

(* Descriptions in memory, one for each archive of a set.                  *)
Notes == UNION {[S -> Entry] : S \in SUBSET Archives}

Job == [phase : Phases, arch : 0 .. MaxArchives, kinds : SUBSET Kinds, entry : Entry,
        arrived : Kinds \cup {0}, save : Notes, read : Notes]

Typed ==
  /\ made \in 0 .. MaxArchives /\ faults \in 0 .. MaxFaults
  /\ local \subseteq 1 .. made /\ zip \subseteq 1 .. made
  /\ meta \in [Archives -> Entry \cup {NoEntry}]
  /\ \A a \in Archives : meta[a] # NoEntry => Waiting(meta[a]) # {} /\ a <= made
  /\ newest \in [Kinds -> 0 .. made]
  /\ job \in Job /\ job.arch <= made

Saving == DOMAIN job.save # {}

(* What each phase of the job has left to do.                              *)
Structure ==
  /\ job.phase \in {"idle", "describe", "drop"} => job.arrived = 0 /\ ~Saving
  /\ job.phase \in {"idle", "describe", "drop", "clean"} => job.kinds = {}
  /\ job.phase = "idle" => job.arch = 0
  /\ job.phase \in {"send", "describe", "drop", "clean"} => job.arch = made /\ made > 0
  /\ job.phase = "send" => job.arch \in local \ zip /\ meta[job.arch] = NoEntry
  /\ job.phase = "describe" =>
       job.arch \in zip /\ meta[job.arch] = NoEntry /\ Waiting(job.entry) # {}
  /\ job.phase = "clean" => job.arrived = 0 /\ \A a \in DOMAIN job.save : job.save[a] = Empty
  /\ job.arrived # 0 => /\ job.arch # 0 /\ job.arch <= newest[job.arrived]
                        /\ \A a \in DOMAIN job.save : a < job.arch
  /\ (Saving /\ job.arrived = 0) => job.phase = "clean" \/ (job.phase = "retry" /\ job.arch = 0)
  /\ job.phase = "retry" =>
       /\ job.arch = 0 => job.kinds = {} /\ job.arrived = 0
       /\ \A b \in DOMAIN job.read : /\ job.arch < b /\ Waiting(job.read[b]) # {} /\ b <= made
                                     /\ \A a \in DOMAIN job.save : a < b
  /\ \A a \in DOMAIN job.save : a <= made

(* Archives on the disk: those that a dead process or a refused operation  *)
(* has left without a description, those that the queue may keep, and the  *)
(* one of the backup that is running.                                      *)
Disk ==
  /\ Cardinality(local) + Cardinality(zip)
       <= MAX_QUEUED_ARCHIVES + faults + (IF job.phase \in {"idle", "retry"} THEN 0 ELSE 1)
  /\ Cardinality(zip \ Listed) <= faults + (IF job.phase = "describe" THEN 1 ELSE 0)
  /\ job.phase = "clean" => Cardinality(zip \ DOMAIN job.save) <= MAX_QUEUED_ARCHIVES + faults

(* A job takes a destination off an entry for a reason only.               *)
Reasons ==
  /\ \A a \in Listed \cap DOMAIN job.save : \A k \in Waiting(meta[a]) :
       \/ k \in Waiting(job.save[a]) \/ newest[k] >= a
       \/ job.phase = "retry" /\ meta[a][k] = MAX_ATTEMPTS
       \/ job.phase = "clean" /\ job.arch - a >= MAX_QUEUED_ARCHIVES
  /\ job.phase = "retry" =>
       /\ \A a \in Listed \cap DOMAIN job.read : meta[a] = job.read[a]
       /\ job.arch \in Listed =>
            /\ \A k \in job.kinds : job.entry[k] = meta[job.arch][k]
            /\ \A k \in Waiting(meta[job.arch]) :
                 k \in Waiting(job.entry) \/ newest[k] >= job.arch \/ meta[job.arch][k] = MAX_ATTEMPTS

(* As long as nothing broke, nobody waits for an archive that is older     *)
(* than the newest reported there, unless the job is about to take it off. *)
Ordered ==
  /\ \A a \in Listed : \A k \in Waiting(meta[a]) :
       \/ newest[k] <= a
       \/ job.arrived = k /\ a < job.arch
            /\ (Saving => a \in DOMAIN job.save /\ k \notin Waiting(job.save[a]))
  /\ \A a \in DOMAIN job.save : \A k \in Waiting(job.save[a]) : newest[k] <= a
  /\ job.phase = "retry" =>
       /\ \A k \in job.kinds : newest[k] <= job.arch
       /\ job.arch # 0 => \A k \in Waiting(job.entry) : newest[k] <= job.arch
       /\ \A a \in DOMAIN job.read : \A k \in Waiting(job.read[a]) : newest[k] <= a

BackupInv == Typed /\ Structure /\ Disk /\ Reasons /\ (faults = 0 => Ordered)

-----------------------------------------------------------------------------
(* Descriptions, and which one is next.                                    *)

LEMMA Numbers ==
  /\ Kinds \subseteq Nat \ {0} /\ MAX_ATTEMPTS \in Nat \ {0} /\ MAX_QUEUED_ARCHIVES \in Nat \ {0}
  /\ MaxArchives \in Nat /\ MaxFaults \in Nat
  /\ Empty \in Entry /\ Waiting(Empty) = {}
  BY BackupAssumption DEF Empty, Entry, Waiting

LEMMA EntryHere ==
  ASSUME NEW e \in Entry, Waiting(e) # {}
  PROVE  e # NoEntry
  BY DEF Entry, Waiting, NoEntry

LEMMA NotesAre ==
  ASSUME NEW f \in Notes
  PROVE  /\ DOMAIN f \subseteq Archives /\ f = [a \in DOMAIN f |-> f[a]]
         /\ \A a \in DOMAIN f : f[a] \in Entry
  BY DEF Notes

LEMMA NewNotes ==
  ASSUME NEW S \in SUBSET Archives, NEW f \in [S -> Entry]
  PROVE  f \in Notes
  BY DEF Notes

LEMMA NoNotes == NoSave \in Notes /\ DOMAIN NoSave = {}
<1>1. NoSave \in [{} -> Entry] /\ DOMAIN NoSave = {}
  BY DEF NoSave
<1> QED
  BY <1>1, NewNotes

LEMMA OldestThere ==
  ASSUME NEW S \in SUBSET Archives, S # {}
  PROVE  \E m \in S : \A n \in S : m <= n
<1>1. S \subseteq Nat
  BY DEF Archives
<1>2. PICK m \in S : \A n \in S : <<n, m>> \notin OpToRel(<, Nat)
  BY <1>1, NatLessThanWellFounded, WFMin
<1>3. \A n \in S : ~(n < m)
  BY <1>1, <1>2 DEF OpToRel
<1> QED
  BY <1>1, <1>3

LEMMA NewestThere ==
  ASSUME NEW S \in SUBSET Archives, S # {}
  PROVE  \E m \in S : \A n \in S : n <= m
<1> DEFINE T == {MaxArchives + 1 - a : a \in S}
<1>1. S \subseteq 1 .. MaxArchives /\ MaxArchives \in Nat
  BY Numbers DEF Archives
<1>2. T \in SUBSET Archives /\ T # {}
  <2>1. \A a \in S : MaxArchives + 1 - a \in 1 .. MaxArchives
    BY <1>1
  <2> QED
    BY <2>1 DEF Archives
<1> HIDE DEF T
<1>3. PICK t \in T : \A u \in T : t <= u
  BY <1>2, OldestThere
<1>4. PICK m \in S : t = MaxArchives + 1 - m
  BY <1>3 DEF T
<1>5. \A n \in S : n <= m
  BY <1>1, <1>3, <1>4 DEF T
<1> QED
  BY <1>5

LEMMA NextSaved ==
  ASSUME Typed, Saving
  PROVE  /\ NextToSave \in DOMAIN job.save /\ NextToSave \in Archives
         /\ job.save[NextToSave] \in Entry
         /\ \A b \in DOMAIN job.save : b <= NextToSave
<1>1. job.save \in Notes
  BY DEF Typed, Job
<1>2. DOMAIN job.save \in SUBSET Archives
  BY <1>1, NotesAre
<1>3. \E m \in DOMAIN job.save : \A n \in DOMAIN job.save : n <= m
  BY <1>2, NewestThere DEF Saving
<1>4. NextToSave \in DOMAIN job.save /\ \A b \in DOMAIN job.save : b <= NextToSave
  BY <1>3 DEF NextToSave
<1> QED
  BY <1>1, <1>2, <1>4, NotesAre

LEMMA NextTried ==
  ASSUME Typed, DOMAIN job.read # {}
  PROVE  /\ NextToTry \in DOMAIN job.read /\ NextToTry \in Archives
         /\ job.read[NextToTry] \in Entry
         /\ \A b \in DOMAIN job.read : NextToTry <= b
<1>1. job.read \in Notes
  BY DEF Typed, Job
<1>2. DOMAIN job.read \in SUBSET Archives
  BY <1>1, NotesAre
<1>3. \E m \in DOMAIN job.read : \A n \in DOMAIN job.read : m <= n
  BY <1>2, OldestThere
<1>4. NextToTry \in DOMAIN job.read /\ \A b \in DOMAIN job.read : NextToTry <= b
  BY <1>3 DEF NextToTry
<1> QED
  BY <1>1, <1>2, <1>4, NotesAre

-----------------------------------------------------------------------------
(* What each action does to the job, field by field.                       *)
JobNow(phase, arch, kinds, entry, arrived, save, read) ==
  /\ job'.phase = phase /\ job'.arch = arch /\ job'.kinds = kinds /\ job'.entry = entry
  /\ job'.arrived = arrived /\ job'.save = save /\ job'.read = read

LEMMA JobFields ==
  ASSUME Typed
  PROVE  /\ job = [phase |-> job.phase, arch |-> job.arch, kinds |-> job.kinds, entry |-> job.entry,
                   arrived |-> job.arrived, save |-> job.save, read |-> job.read]
         /\ job.phase \in Phases /\ job.arch \in 0 .. MaxArchives /\ job.kinds \subseteq Kinds
         /\ job.entry \in Entry /\ job.arrived \in Kinds \cup {0} /\ job.save \in Notes /\ job.read \in Notes
  BY DEF Typed, Job

LEMMA NewJob ==
  ASSUME NEW phase \in Phases, NEW arch \in 0 .. MaxArchives, NEW kinds \in SUBSET Kinds,
         NEW entry \in Entry, NEW arrived \in Kinds \cup {0}, NEW save \in Notes, NEW read \in Notes,
         job' = [phase |-> phase, arch |-> arch, kinds |-> kinds, entry |-> entry,
                 arrived |-> arrived, save |-> save, read |-> read]
  PROVE  job' \in Job /\ JobNow(phase, arch, kinds, entry, arrived, save, read)
  BY DEF Job, JobNow

LEMMA WithoutEntry ==
  ASSUME NEW e \in Entry, NEW k \in Kinds
  PROVE  /\ Without(e, k) \in Entry /\ Waiting(Without(e, k)) = Waiting(e) \ {k}
         /\ \A l \in Kinds : l # k => Without(e, k)[l] = e[l]
  BY Numbers DEF Without, Entry, Waiting

LEMMA FailedEntry ==
  ASSUME NEW e \in Entry, NEW k \in Kinds
  PROVE  /\ Failed(e, k) \in Entry
         /\ \A l \in Kinds : l # k => Failed(e, k)[l] = e[l]
         /\ k \in Waiting(Failed(e, k)) \/ e[k] = MAX_ATTEMPTS
         /\ Waiting(Failed(e, k)) \subseteq Waiting(e) \cup {k}
  BY Numbers DEF Failed, Without, Entry, Waiting

LEMMA ListedAre ==
  ASSUME Typed
  PROVE  /\ zip \subseteq Archives /\ local \subseteq Archives
         /\ Listed \subseteq zip /\ Listed \subseteq Archives
         /\ \A a \in Listed : meta[a] \in Entry /\ meta[a] # NoEntry /\ Waiting(meta[a]) # {}
<1>1. zip \subseteq Archives /\ local \subseteq Archives
  BY Numbers DEF Typed, Archives
<1>2. Listed \subseteq zip
  BY DEF Listed
<1>3. \A a \in Listed : meta[a] \in Entry \cup {NoEntry} /\ meta[a] # NoEntry
  BY <1>1, <1>2 DEF Listed, Typed
<1> QED
  BY <1>1, <1>2, <1>3 DEF Typed

LEMMA SavedJob ==
  ASSUME Typed, Saving, job' = Saved(NextToSave)
  PROVE  /\ job' \in Job
         /\ JobNow(job.phase, job.arch, job.kinds, job.entry, job'.arrived, job'.save, job.read)
         /\ DOMAIN job'.save = DOMAIN job.save \ {NextToSave}
         /\ \A b \in DOMAIN job'.save : job'.save[b] = job.save[b]
         /\ job'.arrived = IF DOMAIN job'.save = {} THEN 0 ELSE job.arrived
<1> DEFINE R == DOMAIN job.save \ {NextToSave}
<1> DEFINE rest == [b \in R |-> job.save[b]]
<1> DEFINE arr == IF R = {} THEN 0 ELSE job.arrived
<1>1. rest \in Notes /\ DOMAIN rest = R
  BY JobFields, NotesAre, NewNotes
<1>2. arr \in Kinds \cup {0}
  BY JobFields
<1>3. \A b \in DOMAIN rest : rest[b] = job.save[b]
  OBVIOUS
<1>4. job' = [job EXCEPT !.save = rest, !.arrived = arr]
  BY DEF Saved
<1> HIDE DEF rest, arr
<1>5. job' = [phase |-> job.phase, arch |-> job.arch, kinds |-> job.kinds, entry |-> job.entry,
              arrived |-> arr, save |-> rest, read |-> job.read]
  BY <1>4, JobFields
<1>6. job' \in Job /\ JobNow(job.phase, job.arch, job.kinds, job.entry, arr, rest, job.read)
  BY <1>1, <1>2, <1>5, JobFields, NewJob
<1> QED
  BY <1>1, <1>3, <1>6 DEF JobNow, arr

LEMMA ArrivesEffect ==
  ASSUME Typed, NEW k \in Kinds, Arrives(k)
  PROVE  /\ job' \in Job
         /\ JobNow(job.phase, job.arch, job.kinds \ {k}, Without(job.entry, k), k, job.save, job.read)
         /\ newest' = [newest EXCEPT ![k] = IF @ < job.arch THEN job.arch ELSE @]
         /\ UNCHANGED <<made, local, zip, meta, faults>>
<1>1. job' = [phase |-> job.phase, arch |-> job.arch, kinds |-> job.kinds \ {k},
              entry |-> Without(job.entry, k), arrived |-> k, save |-> job.save, read |-> job.read]
  BY JobFields DEF Arrives
<1>2. Without(job.entry, k) \in Entry /\ job.kinds \ {k} \in SUBSET Kinds
  BY JobFields, WithoutEntry
<1>3. job' \in Job
      /\ JobNow(job.phase, job.arch, job.kinds \ {k}, Without(job.entry, k), k, job.save, job.read)
  BY <1>1, <1>2, JobFields, NewJob
<1> QED
  BY <1>3 DEF Arrives, files

LEMMA FailsEffect ==
  ASSUME Typed, NEW k \in Kinds, Fails(k)
  PROVE  /\ job' \in Job
         /\ JobNow(job.phase, job.arch, job.kinds \ {k}, Failed(job.entry, k), job.arrived, job.save, job.read)
         /\ UNCHANGED <<made, local, zip, meta, newest, faults>>
<1>1. job' = [phase |-> job.phase, arch |-> job.arch, kinds |-> job.kinds \ {k},
              entry |-> Failed(job.entry, k), arrived |-> job.arrived, save |-> job.save, read |-> job.read]
  BY JobFields DEF Fails
<1>2. Failed(job.entry, k) \in Entry /\ job.kinds \ {k} \in SUBSET Kinds
  BY JobFields, FailedEntry
<1>3. job' \in Job
      /\ JobNow(job.phase, job.arch, job.kinds \ {k}, Failed(job.entry, k), job.arrived, job.save, job.read)
  BY <1>1, <1>2, JobFields, NewJob
<1> QED
  BY <1>3 DEF Fails, files

LEMMA FailsForGoodEffect ==
  ASSUME Typed, NEW k \in Kinds, FailsForGood(k)
  PROVE  /\ job' \in Job
         /\ JobNow(job.phase, job.arch, job.kinds \ {k}, job.entry, job.arrived, job.save, job.read)
         /\ UNCHANGED <<made, local, zip, meta, newest, faults>>
<1>1. job' = [phase |-> job.phase, arch |-> job.arch, kinds |-> job.kinds \ {k},
              entry |-> job.entry, arrived |-> job.arrived, save |-> job.save, read |-> job.read]
  BY JobFields DEF FailsForGood
<1> QED
  BY <1>1, JobFields, NewJob DEF FailsForGood, files

LEMMA MoveZipEffect ==
  ASSUME Typed, MoveZip
  PROVE  /\ job' \in Job
         /\ JobNow("describe", job.arch, job.kinds, job.entry, job.arrived, job.save, job.read)
         /\ UNCHANGED <<made, meta, newest, faults>>
<1>1. job' = [phase |-> "describe", arch |-> job.arch, kinds |-> job.kinds,
              entry |-> job.entry, arrived |-> job.arrived, save |-> job.save, read |-> job.read]
  BY JobFields DEF MoveZip
<1> QED
  BY <1>1, JobFields, NewJob DEF MoveZip, Phases

LEMMA DescribeEffect ==
  ASSUME Typed, Describe
  PROVE  /\ job' \in Job
         /\ JobNow("drop", job.arch, job.kinds, Empty, job.arrived, job.save, job.read)
         /\ UNCHANGED <<made, local, zip, newest, faults>>
<1>1. job' = [phase |-> "drop", arch |-> job.arch, kinds |-> job.kinds,
              entry |-> Empty, arrived |-> job.arrived, save |-> job.save, read |-> job.read]
  BY JobFields DEF Describe
<1> QED
  BY ZenonT(60), <1>1, JobFields, NewJob, Numbers DEF Describe, Phases

LEMMA CleanUpEffect ==
  ASSUME CleanUp
  PROVE  /\ job' = Idle /\ local' = {}
         /\ UNCHANGED <<made, zip, meta, newest, faults>>
  BY DEF CleanUp

LEMMA IdleJob ==
  ASSUME job' = Idle
  PROVE  job' \in Job /\ JobNow("idle", 0, {}, Empty, 0, NoSave, NoSave)
<1>1. job' = [phase |-> "idle", arch |-> 0, kinds |-> {}, entry |-> Empty, arrived |-> 0,
              save |-> NoSave, read |-> NoSave]
  BY DEF Idle
<1>2. "idle" \in Phases /\ 0 \in 0 .. MaxArchives /\ {} \in SUBSET Kinds /\ 0 \in Kinds \cup {0}
  BY Numbers DEF Phases
<1> QED
  BY <1>1, <1>2, Numbers, NoNotes, NewJob

LEMMA BeginBackupEffect ==
  ASSUME Typed, BeginBackup
  PROVE  /\ job' \in Job /\ JobNow("send", made', Kinds, Empty, 0, NoSave, NoSave)
         /\ made < MaxArchives /\ made' = made + 1 /\ local' = local \cup {made'}
         /\ UNCHANGED <<zip, meta, newest, faults>>
<1>1. job' = [phase |-> "send", arch |-> made', kinds |-> Kinds, entry |-> Empty, arrived |-> 0,
              save |-> NoSave, read |-> NoSave]
  BY DEF BeginBackup, Idle
<1>2. "send" \in Phases /\ made' \in 0 .. MaxArchives /\ Kinds \in SUBSET Kinds /\ 0 \in Kinds \cup {0}
  BY Numbers DEF Phases, BeginBackup, Typed
<1>3. job' \in Job /\ JobNow("send", made', Kinds, Empty, 0, NoSave, NoSave)
  BY <1>1, <1>2, Numbers, NoNotes, NewJob
<1> QED
  BY <1>3 DEF BeginBackup

LEMMA DropOldestEffect ==
  ASSUME Typed, DropOldest
  PROVE  /\ job' \in Job
         /\ JobNow("clean", job.arch, job.kinds, job.entry, job.arrived,
                   [a \in EntriesToDrop |-> Empty], job.read)
         /\ EntriesToDrop \subseteq Archives
         /\ meta' = Healed
         /\ UNCHANGED <<made, local, zip, newest, faults>>
<1> DEFINE s == [a \in EntriesToDrop |-> Empty]
<1>1. EntriesToDrop \subseteq Archives
  BY ListedAre DEF EntriesToDrop
<1>2. s \in Notes
  BY <1>1, Numbers, NewNotes
<1>3. job' = [job EXCEPT !.phase = "clean", !.save = s]
  BY DEF DropOldest
<1> HIDE DEF s
<1>4. job' = [phase |-> "clean", arch |-> job.arch, kinds |-> job.kinds, entry |-> job.entry,
              arrived |-> job.arrived, save |-> s, read |-> job.read]
  BY <1>3, JobFields
<1>5. job' \in Job /\ JobNow("clean", job.arch, job.kinds, job.entry, job.arrived, s, job.read)
  BY <1>2, <1>4, JobFields, NewJob DEF Phases
<1> QED
  BY <1>1, <1>5 DEF s, DropOldest

LEMMA BeginRetryEffect ==
  ASSUME Typed, BeginRetry
  PROVE  /\ job' \in Job
         /\ JobNow("retry", 0, {}, Empty, 0, NoSave, [a \in Listed |-> meta[a]])
         /\ meta' = Healed
         /\ UNCHANGED <<made, local, zip, newest, faults>>
<1> DEFINE r == [a \in Listed |-> meta[a]]
<1>1. Listed \in SUBSET Archives /\ \A a \in Listed : meta[a] \in Entry
  BY ListedAre
<1>2. r \in Notes
  BY <1>1, NewNotes
<1>3. job' = [Idle EXCEPT !.phase = "retry", !.read = r]
  BY DEF BeginRetry
<1> HIDE DEF r
<1>4. job' = [phase |-> "retry", arch |-> 0, kinds |-> {}, entry |-> Empty, arrived |-> 0,
              save |-> NoSave, read |-> r]
  BY <1>3 DEF Idle
<1>5. "retry" \in Phases /\ 0 \in 0 .. MaxArchives /\ {} \in SUBSET Kinds /\ 0 \in Kinds \cup {0}
  BY Numbers DEF Phases
<1>6. job' \in Job /\ JobNow("retry", 0, {}, Empty, 0, NoSave, r)
  BY <1>2, <1>4, <1>5, Numbers, NoNotes, NewJob
<1> QED
  BY <1>6 DEF r, BeginRetry

LEMMA NextEntryEffect ==
  ASSUME Typed, NEW due \in BOOLEAN, NextEntry(due)
  PROVE  /\ job' \in Job
         /\ JobNow(job.phase, NextToTry, IF due THEN Waiting(job.read[NextToTry]) ELSE {},
                   job.read[NextToTry], job.arrived, job.save, job'.read)
         /\ DOMAIN job'.read = DOMAIN job.read \ {NextToTry}
         /\ \A b \in DOMAIN job'.read : job'.read[b] = job.read[b]
         /\ UNCHANGED <<made, local, zip, meta, newest, faults>>
<1> DEFINE R == DOMAIN job.read \ {NextToTry}
<1> DEFINE r == [b \in R |-> job.read[b]]
<1> DEFINE kinds == IF due THEN Waiting(job.read[NextToTry]) ELSE {}
<1>1. r \in Notes /\ DOMAIN r = R /\ \A b \in DOMAIN r : r[b] = job.read[b]
  BY JobFields, NotesAre, NewNotes
<1>2. NextToTry \in 0 .. MaxArchives /\ job.read[NextToTry] \in Entry
  BY NextTried, Numbers DEF NextEntry, Archives
<1>3. kinds \in SUBSET Kinds
  BY DEF Waiting
<1>4. job' = [job EXCEPT !.arch = NextToTry, !.entry = job.read[NextToTry], !.kinds = kinds, !.read = r]
  BY DEF NextEntry
<1> HIDE DEF r, kinds
<1>5. job' = [phase |-> job.phase, arch |-> NextToTry, kinds |-> kinds, entry |-> job.read[NextToTry],
              arrived |-> job.arrived, save |-> job.save, read |-> r]
  BY <1>4, JobFields
<1>6. job' \in Job
      /\ JobNow(job.phase, NextToTry, kinds, job.read[NextToTry], job.arrived, job.save, r)
  BY <1>1, <1>2, <1>3, <1>5, JobFields, NewJob
<1>7. UNCHANGED <<made, local, zip, meta, newest, faults>>
  BY DEF NextEntry, files
<1> QED
  BY <1>1, <1>6, <1>7 DEF kinds, JobNow

LEMMA SaveEntryEffect ==
  ASSUME Typed, SaveEntry
  PROVE  /\ job' \in Job
         /\ JobNow(job.phase, 0, job.kinds, Empty, job.arrived, [a \in {job.arch} |-> job.entry], job.read)
         /\ UNCHANGED <<made, local, zip, meta, newest, faults>>
<1> DEFINE s == [a \in {job.arch} |-> job.entry]
<1>1. s \in Notes
  <2>1. {job.arch} \in SUBSET Archives
    BY JobFields, Numbers DEF SaveEntry, Archives
  <2> QED
    BY <2>1, JobFields, NewNotes
<1>2. job' = [job EXCEPT !.save = s, !.arch = 0, !.entry = Empty]
  BY DEF SaveEntry
<1> HIDE DEF s
<1>3. job' = [phase |-> job.phase, arch |-> 0, kinds |-> job.kinds, entry |-> Empty,
              arrived |-> job.arrived, save |-> s, read |-> job.read]
  BY <1>2, JobFields
<1>4. 0 \in 0 .. MaxArchives
  BY Numbers
<1>5. job' \in Job /\ JobNow(job.phase, 0, job.kinds, Empty, job.arrived, s, job.read)
  BY <1>1, <1>3, <1>4, JobFields, Numbers, NewJob
<1> QED
  BY <1>5 DEF s, SaveEntry, files

LEMMA NoteSuccessEffect ==
  ASSUME Typed, NoteSuccess
  PROVE  LET older == Superseded(job.arch, job.arrived) IN
         /\ job' \in Job
         /\ JobNow(job.phase, job.arch, job.kinds, job.entry, IF older = {} THEN 0 ELSE job.arrived,
                   [b \in older |-> Without(meta[b], job.arrived)], job.read)
         /\ meta' = Healed
         /\ UNCHANGED <<made, local, zip, newest, faults>>
<1> DEFINE older == Superseded(job.arch, job.arrived)
           s     == [b \in older |-> Without(meta[b], job.arrived)]
           arr   == IF older = {} THEN 0 ELSE job.arrived
<1>1. job.arrived \in Kinds /\ job.arrived # 0
  BY JobFields DEF NoteSuccess
<1>2. older \in SUBSET Archives /\ \A b \in older : meta[b] \in Entry
  BY ListedAre DEF Superseded
<1>3. \A b \in older : Without(meta[b], job.arrived) \in Entry
  BY <1>1, <1>2, WithoutEntry
<1>4. s \in Notes
  BY <1>2, <1>3, NewNotes
<1>5. arr \in Kinds \cup {0}
  BY <1>1
<1>6. job' = [job EXCEPT !.save = s, !.arrived = arr]
  BY DEF NoteSuccess
<1> HIDE DEF s, arr
<1>7. job' = [phase |-> job.phase, arch |-> job.arch, kinds |-> job.kinds, entry |-> job.entry,
              arrived |-> arr, save |-> s, read |-> job.read]
  BY <1>6, JobFields
<1>8. job' \in Job /\ JobNow(job.phase, job.arch, job.kinds, job.entry, arr, s, job.read)
  BY <1>4, <1>5, <1>7, JobFields, NewJob
<1> QED
  BY <1>8 DEF s, arr, NoteSuccess

LEMMA NoteFailsEffect ==
  ASSUME Typed, NoteFails
  PROVE  /\ job' \in Job
         /\ JobNow(job.phase, job.arch, job.kinds, Failed(job.entry, job.arrived), 0, NoSave, job.read)
         /\ faults' = faults + 1 /\ faults < MaxFaults
         /\ UNCHANGED <<made, local, zip, meta, newest>>
<1>1. job.arrived \in Kinds
  BY JobFields DEF NoteFails
<1>2. Failed(job.entry, job.arrived) \in Entry
  BY <1>1, JobFields, FailedEntry
<1>3. job' = [phase |-> job.phase, arch |-> job.arch, kinds |-> job.kinds,
              entry |-> Failed(job.entry, job.arrived),
              arrived |-> 0, save |-> NoSave, read |-> job.read]
  BY JobFields DEF NoteFails
<1>4. job' \in Job
      /\ JobNow(job.phase, job.arch, job.kinds, Failed(job.entry, job.arrived), 0, NoSave, job.read)
  BY <1>2, <1>3, JobFields, NoNotes, NewJob
<1> QED
  BY <1>4 DEF NoteFails, files

LEMMA EnqueueFailsEffect ==
  ASSUME Typed, EnqueueFails
  PROVE  /\ job' \in Job
         /\ JobNow("clean", job.arch, job.kinds, Empty, job.arrived, NoSave, job.read)
         /\ faults' = faults + 1 /\ faults < MaxFaults
         /\ UNCHANGED <<made, local, zip, meta, newest>>
<1>1. job' = [phase |-> "clean", arch |-> job.arch, kinds |-> job.kinds,
              entry |-> Empty, arrived |-> job.arrived, save |-> NoSave, read |-> job.read]
  BY JobFields DEF EnqueueFails
<1>2. job' \in Job /\ JobNow("clean", job.arch, job.kinds, Empty, job.arrived, NoSave, job.read)
  BY <1>1, JobFields, Numbers, NoNotes, NewJob DEF Phases
<1> QED
  BY <1>2 DEF EnqueueFails, files

LEMMA HealedQueue ==
  ASSUME Typed, meta' = Healed, zip' = zip
  PROVE  /\ meta' \in [Archives -> Entry \cup {NoEntry}]
         /\ Listed' = Listed /\ \A a \in Listed : meta'[a] = meta[a]
         /\ \A a \in Archives : meta'[a] # NoEntry => meta'[a] = meta[a]
<1>1. \A a \in Archives : meta'[a] = IF a \in zip THEN meta[a] ELSE NoEntry
  BY DEF Healed
<1>2. meta' \in [Archives -> Entry \cup {NoEntry}]
  BY DEF Healed, Typed
<1>3. \A a \in zip : a \in Archives /\ meta'[a] = meta[a]
  BY <1>1, ListedAre
<1> QED
  BY <1>1, <1>2, <1>3 DEF Listed

-----------------------------------------------------------------------------
(* Types.                                                                  *)

LEMMA TypedInit ==
  ASSUME Init
  PROVE  Typed
<1>1. job \in Job
  BY Numbers, NoNotes DEF Init, Idle, Job, Phases
<1>2. job.arch = 0
  BY DEF Init, Idle
<1> QED
  BY <1>1, <1>2, Numbers DEF Init, Typed

LEMMA OnlyTheJob ==
  ASSUME Typed, job' \in Job, job'.arch <= made, local' \subseteq local,
         made' = made, zip' = zip, meta' = meta, newest' = newest, faults' \in 0 .. MaxFaults
  PROVE  Typed'
  BY DEF Typed

LEMMA TypedKept ==
  ASSUME Typed, Structure, Next
  PROVE  Typed'
<1>0. made \in Nat /\ job.arch \in Nat /\ job.arch <= made /\ faults \in Nat /\ MaxFaults \in Nat
      /\ faults \in 0 .. MaxFaults
  BY Numbers, JobFields DEF Typed
<1>1. ASSUME BeginBackup PROVE Typed'
  <2>1. job' \in Job /\ made < MaxArchives /\ made' = made + 1 /\ local' = local \cup {made'}
        /\ UNCHANGED <<zip, meta, newest, faults>> /\ job'.arch = made'
    BY <1>1, BeginBackupEffect DEF JobNow
  <2>2. made' \in 0 .. MaxArchives /\ 1 .. made \subseteq 1 .. made' /\ made' \in 1 .. made'
        /\ 0 .. made \subseteq 0 .. made'
    BY <1>0, <2>1, Numbers
  <2>3. local' \subseteq 1 .. made' /\ zip' \subseteq 1 .. made' /\ newest' \in [Kinds -> 0 .. made']
    BY <2>1, <2>2 DEF Typed
  <2>4. \A a \in Archives : meta[a] # NoEntry => Waiting(meta[a]) # {} /\ a <= made'
    BY <1>0, <2>1, Numbers DEF Typed, Archives
  <2> QED
    BY <1>0, <2>1, <2>2, <2>3, <2>4 DEF Typed
<1>2. ASSUME BeginRetry PROVE Typed'
  BY <1>0, <1>2, BeginRetryEffect, HealedQueue DEF Typed, JobNow
<1>3. ASSUME NEW k \in Kinds, Arrives(k) PROVE Typed'
  <2>1. newest' \in [Kinds -> 0 .. made]
    <3>1. newest \in [Kinds -> 0 .. made] /\ job.arch \in 0 .. made
      BY <1>0 DEF Typed
    <3>2. newest' = [newest EXCEPT ![k] = IF @ < job.arch THEN job.arch ELSE @]
      BY <1>3, ArrivesEffect
    <3> QED
      BY <3>1, <3>2
  <2> QED
    BY <1>3, <2>1, ArrivesEffect DEF Typed, JobNow
<1>4. ASSUME NEW k \in Kinds, Fails(k) PROVE Typed'
  BY <1>4, FailsEffect DEF Typed, JobNow
<1>5. ASSUME NEW k \in Kinds, FailsForGood(k) PROVE Typed'
  BY <1>5, FailsForGoodEffect DEF Typed, JobNow
<1>6. ASSUME NoteSuccess PROVE Typed'
  BY <1>6, NoteSuccessEffect, HealedQueue DEF Typed, JobNow
<1>7. ASSUME Write PROVE Typed'
  <2>1. Saving /\ job' = Saved(NextToSave) /\ UNCHANGED <<made, local, zip, newest, faults>>
    BY <1>7 DEF Write, Saving
  <2>2. NextToSave \in Archives /\ job.save[NextToSave] \in Entry /\ Waiting(job.save[NextToSave]) # {}
        /\ NextToSave <= made
    BY <1>7, <2>1, NextSaved DEF Write, Structure
  <2>3. meta' = [meta EXCEPT ![NextToSave] = job.save[NextToSave]]
    BY <1>7 DEF Write
  <2> QED
    BY <2>1, <2>2, <2>3, SavedJob DEF Typed, JobNow
<1>8. ASSUME UnlinkZip PROVE Typed'
  BY <1>8 DEF UnlinkZip, Typed
<1>9. ASSUME UnlinkMeta PROVE Typed'
  <2>1. Saving /\ job' = Saved(NextToSave) /\ UNCHANGED <<made, local, zip, newest, faults>>
        /\ meta' = [meta EXCEPT ![NextToSave] = NoEntry]
    BY <1>9 DEF UnlinkMeta, Saving
  <2> QED
    BY <2>1, NextSaved, SavedJob DEF Typed, JobNow
<1>10. ASSUME MoveZip PROVE Typed'
  <2>1. job.arch = made /\ made > 0
    BY <1>10 DEF MoveZip, Sent, Structure
  <2>2. zip' = zip \cup {job.arch} /\ local' = local \ {job.arch}
    BY <1>10 DEF MoveZip
  <2> QED
    BY <1>0, <1>10, <2>1, <2>2, MoveZipEffect DEF Typed, JobNow
<1>11. ASSUME Describe PROVE Typed'
  <2>1. Waiting(job.entry) # {} /\ job.entry \in Entry
    BY <1>11, JobFields DEF Describe, Structure
  <2>2. meta' = [meta EXCEPT ![job.arch] = job.entry]
    BY <1>11 DEF Describe
  <2> QED
    BY <1>0, <1>11, <2>1, <2>2, DescribeEffect DEF Typed, JobNow
<1>12. ASSUME DropOldest PROVE Typed'
  BY <1>12, DropOldestEffect, HealedQueue DEF Typed, JobNow
<1>13. ASSUME CleanUp PROVE Typed'
  <2>1. job' \in Job /\ job'.arch <= made
    BY <1>0, <1>13, CleanUpEffect, IdleJob DEF JobNow
  <2> QED
    BY <1>0, <1>13, <2>1, CleanUpEffect, OnlyTheJob
<1>14. ASSUME NEW due \in BOOLEAN, NextEntry(due) PROVE Typed'
  <2>1. NextToTry <= made
    BY <1>14, NextTried DEF NextEntry, Structure
  <2> QED
    BY <1>14, <2>1, NextEntryEffect DEF Typed, JobNow
<1>15. ASSUME SaveEntry PROVE Typed'
  <2>1. job'.arch <= made
    BY <1>0, <1>15, SaveEntryEffect DEF JobNow
  <2> QED
    BY <1>0, <1>15, <2>1, SaveEntryEffect, OnlyTheJob
<1>16. ASSUME EndRetry PROVE Typed'
  BY <1>0, <1>16, IdleJob DEF EndRetry, files, Typed, JobNow
<1>17. ASSUME NEW a \in Archives, Discard(a) PROVE Typed'
  BY <1>17 DEF Discard, Typed
<1>18. ASSUME NEW a \in Archives, Heal(a) PROVE Typed'
  BY <1>18 DEF Heal, Typed
<1>19. ASSUME Crash PROVE Typed'
  BY <1>0, <1>19, IdleJob, Numbers DEF Crash, files, Typed, JobNow
<1>20. ASSUME NoteFails PROVE Typed'
  <2>1. faults' \in 0 .. MaxFaults
    BY <1>0, <1>20, NoteFailsEffect
  <2> QED
    BY <1>0, <1>20, <2>1, NoteFailsEffect, OnlyTheJob DEF JobNow
<1>21. ASSUME EnqueueFails PROVE Typed'
  <2>1. faults' \in 0 .. MaxFaults
    BY <1>0, <1>21, EnqueueFailsEffect
  <2> QED
    BY <1>0, <1>21, <2>1, EnqueueFailsEffect, OnlyTheJob DEF JobNow
<1> QED
  BY <1>1, <1>2, <1>3, <1>4, <1>5, <1>6, <1>7, <1>8, <1>9, <1>10, <1>11, <1>12, <1>13, <1>14,
     <1>15, <1>16, <1>17, <1>18, <1>19, <1>20, <1>21 DEF Next, JobStep

-----------------------------------------------------------------------------
(* What is left to do.                                                     *)

LEMMA StructureInit ==
  ASSUME Init
  PROVE  Structure
<1>1. job.phase = "idle" /\ job.arch = 0 /\ job.kinds = {} /\ job.arrived = 0 /\ job.save = NoSave
  BY DEF Init, Idle
<1> QED
  BY <1>1, NoNotes DEF Structure, Saving

LEMMA StructureWhenIdle ==
  ASSUME job' = Idle
  PROVE  Structure'
<1>1. JobNow("idle", 0, {}, Empty, 0, NoSave, NoSave)
  BY IdleJob
<1> QED
  BY <1>1, NoNotes DEF Structure, Saving, JobNow

(* The part of Structure that is about the files.                          *)
FilesFit ==
  /\ job.phase = "send" => job.arch \in local \ zip /\ meta[job.arch] = NoEntry
  /\ job.phase = "describe" => job.arch \in zip /\ meta[job.arch] = NoEntry

LEMMA StructureWithFiles ==
  ASSUME Typed, Structure, job' = job, made' = made, newest' = newest, FilesFit'
  PROVE  Structure'
  BY DEF Structure, FilesFit, Saving

LEMMA StructureKept ==
  ASSUME Typed, Structure, Next
  PROVE  Structure'
<1>0. /\ made \in Nat /\ job.arch \in Nat /\ job.arch <= made
      /\ job.phase \in Phases /\ Kinds \subseteq Nat \ {0}
      /\ job.arrived \in Kinds \cup {0}
      /\ DOMAIN NoSave = {}
      /\ \A a \in Archives : a \in Nat /\ a > 0
  BY Numbers, JobFields, NoNotes DEF Typed, Archives
<1>1. ASSUME BeginBackup PROVE Structure'
  <2>1. JobNow("send", made', Kinds, Empty, 0, NoSave, NoSave)
        /\ made < MaxArchives /\ made' = made + 1 /\ local' = local \cup {made'} /\ zip' = zip /\ meta' = meta
    BY <1>1, BeginBackupEffect
  <2>2. made' \in Archives /\ made' \notin zip /\ ~(made' <= made)
    BY <1>0, <2>1, Numbers DEF Typed, Archives
  <2>3. meta[made'] = NoEntry
    BY <2>2 DEF Typed
  <2> QED
    BY <1>0, <2>1, <2>2, <2>3 DEF Structure, Saving, JobNow
<1>2. ASSUME BeginRetry PROVE Structure'
  <2>1. JobNow("retry", 0, {}, Empty, 0, NoSave, [a \in Listed |-> meta[a]]) /\ made' = made
    BY <1>2, BeginRetryEffect
  <2>2. DOMAIN job'.read = Listed /\ \A b \in Listed : job'.read[b] = meta[b]
    BY <2>1 DEF JobNow
  <2>3. \A b \in Listed : 0 < b /\ Waiting(meta[b]) # {} /\ b <= made
    BY <1>0, ListedAre DEF Typed
  <2> QED
    BY <1>0, <2>1, <2>2, <2>3 DEF Structure, Saving, JobNow
<1>3. ASSUME NEW k \in Kinds, Arrives(k) PROVE Structure'
  <2>1. JobNow(job.phase, job.arch, job.kinds \ {k}, Without(job.entry, k), k, job.save, job.read)
        /\ UNCHANGED <<made, local, zip, meta, faults>>
        /\ newest' = [newest EXCEPT ![k] = IF @ < job.arch THEN job.arch ELSE @]
    BY <1>3, ArrivesEffect
  <2>2. k \in job.kinds /\ job.arrived = 0 /\ DOMAIN job.save = {}
    BY <1>3 DEF Arrives, NextKind, Ready
  <2>3. job.phase \in {"send", "retry"} /\ job.arch # 0
    BY <1>0, <2>2 DEF Structure, Phases
  <2>4. job.arch <= newest'[k]
    BY <1>0, <2>1 DEF Typed
  <2> QED
    BY <1>0, <2>1, <2>2, <2>3, <2>4 DEF Structure, Saving, JobNow
<1>4. ASSUME NEW k \in Kinds, Fails(k) \/ FailsForGood(k) PROVE Structure'
  <2>1. /\ JobNow(job.phase, job.arch, job.kinds \ {k}, job'.entry, job.arrived, job.save, job.read)
        /\ UNCHANGED <<made, local, zip, meta, newest, faults>>
    BY <1>4, FailsEffect, FailsForGoodEffect DEF JobNow
  <2>2. k \in job.kinds /\ job.arrived = 0 /\ DOMAIN job.save = {}
    BY <1>4 DEF Fails, FailsForGood, NextKind, Ready
  <2>3. job.phase \in {"send", "retry"}
    BY <1>0, <2>2 DEF Structure, Phases
  <2> QED
    BY <1>0, <2>1, <2>2, <2>3 DEF Structure, Saving, JobNow
<1>5. ASSUME NoteSuccess PROVE Structure'
  <2> DEFINE older == Superseded(job.arch, job.arrived)
  <2>1. /\ JobNow(job.phase, job.arch, job.kinds, job.entry, IF older = {} THEN 0 ELSE job.arrived,
                  [b \in older |-> Without(meta[b], job.arrived)], job.read)
        /\ meta' = Healed /\ UNCHANGED <<made, local, zip, newest, faults>>
    BY <1>5, NoteSuccessEffect
  <2>2. job.arrived # 0 /\ DOMAIN job'.save = older
    BY <1>5, <2>1 DEF NoteSuccess, JobNow
  <2>3. job.phase \in {"send", "retry"} /\ job.arch # 0 /\ job.arch <= newest[job.arrived]
    BY <1>0, <2>2 DEF Structure, Phases
  <2>4. \A a \in older : a < job.arch /\ a \in Nat /\ a <= made
    BY <1>0, ListedAre DEF Superseded
  <2>5. job.phase = "send" => meta'[job.arch] = NoEntry
    <3>1. ASSUME job.phase = "send" PROVE job.arch \in Archives /\ meta[job.arch] = NoEntry
      BY <1>0, <3>1, ListedAre DEF Structure
    <3> QED
      BY <2>1, <3>1, HealedQueue
  <2>6. job.phase = "retry" => \A b \in DOMAIN job.read : job.arch < b /\ \A a \in older : a < b
    <3>1. DOMAIN job.read \subseteq Archives
      BY JobFields, NotesAre
    <3> QED
      BY <1>0, <2>4, <3>1 DEF Structure
  <2> HIDE DEF older
  <2> QED
    BY <1>0, <2>1, <2>2, <2>3, <2>4, <2>5, <2>6 DEF Structure, Saving, JobNow
<1>6. ASSUME Saving, job' = Saved(NextToSave), UNCHANGED <<made, local, zip, newest, faults>>,
             \A a \in Archives \ {NextToSave} : meta'[a] = meta[a]
      PROVE  Structure'
  <2>1. /\ JobNow(job.phase, job.arch, job.kinds, job.entry, job'.arrived, job'.save, job.read)
        /\ DOMAIN job'.save \subseteq DOMAIN job.save
        /\ \A b \in DOMAIN job'.save : job'.save[b] = job.save[b]
        /\ job'.arrived = IF DOMAIN job'.save = {} THEN 0 ELSE job.arrived
    BY <1>6, SavedJob
  <2>2. NextToSave \in DOMAIN job.save
    BY <1>6, NextSaved
  <2>3. job.phase = "send" => meta'[job.arch] = NoEntry
    <3>1. ASSUME job.phase = "send" PROVE job.arch \in Archives \ {NextToSave} /\ meta[job.arch] = NoEntry
      BY <1>0, <1>6, <2>2, <3>1, ListedAre DEF Structure
    <3> QED
      BY <1>6, <3>1
  <2>4. job.phase \in {"send", "clean", "retry"}
    BY <1>0, <1>6 DEF Structure, Phases
  <2> QED
    BY <1>0, <1>6, <2>1, <2>3, <2>4 DEF Structure, Saving, JobNow
<1>7. ASSUME Write PROVE Structure'
  <2>1. Saving /\ job' = Saved(NextToSave) /\ UNCHANGED <<made, local, zip, newest, faults>>
        /\ meta' = [meta EXCEPT ![NextToSave] = job.save[NextToSave]]
    BY <1>7 DEF Write, Saving
  <2> QED
    BY <1>6, <2>1 DEF Typed
<1>8. ASSUME UnlinkMeta PROVE Structure'
  <2>1. Saving /\ job' = Saved(NextToSave) /\ UNCHANGED <<made, local, zip, newest, faults>>
        /\ meta' = [meta EXCEPT ![NextToSave] = NoEntry]
    BY <1>8 DEF UnlinkMeta, Saving
  <2> QED
    BY <1>6, <2>1 DEF Typed
<1>9. ASSUME UnlinkZip PROVE Structure'
  <2>1. zip' = zip \ {NextToSave} /\ UNCHANGED <<made, local, meta, newest, job>> /\ Saving
    BY <1>9 DEF UnlinkZip, Saving
  <2>2. job.phase # "describe"
    BY <2>1 DEF Structure
  <2> QED
    BY <2>1, <2>2, StructureWithFiles DEF Structure, FilesFit
<1>10. ASSUME MoveZip PROVE Structure'
  <2>1. JobNow("describe", job.arch, job.kinds, job.entry, job.arrived, job.save, job.read)
        /\ UNCHANGED <<made, meta, newest, faults>>
    BY <1>10, MoveZipEffect
  <2>2. job.phase = "send" /\ job.kinds = {} /\ job.arrived = 0 /\ DOMAIN job.save = {}
        /\ Waiting(job.entry) # {} /\ zip' = zip \cup {job.arch}
    BY <1>10 DEF MoveZip, Sent, Ready
  <2> QED
    BY <1>0, <2>1, <2>2 DEF Structure, Saving, JobNow
<1>11. ASSUME Describe PROVE Structure'
  <2>1. JobNow("drop", job.arch, job.kinds, Empty, job.arrived, job.save, job.read)
        /\ UNCHANGED <<made, local, zip, newest, faults>>
    BY <1>11, DescribeEffect
  <2>2. job.phase = "describe"
    BY <1>11 DEF Describe
  <2> QED
    BY <1>0, <2>1, <2>2 DEF Structure, Saving, JobNow
<1>12. ASSUME DropOldest PROVE Structure'
  <2>1. JobNow("clean", job.arch, job.kinds, job.entry, job.arrived, [a \in EntriesToDrop |-> Empty], job.read)
        /\ UNCHANGED <<made, local, zip, newest, faults>>
    BY <1>12, DropOldestEffect
  <2>2. DOMAIN job'.save = EntriesToDrop /\ \A a \in EntriesToDrop : job'.save[a] = Empty
    BY <2>1 DEF JobNow
  <2>3. \A a \in EntriesToDrop : a <= made
    BY <1>0, ListedAre DEF EntriesToDrop, Typed
  <2>4. job.phase = "drop"
    BY <1>12 DEF DropOldest
  <2> QED
    BY <1>0, <2>1, <2>2, <2>3, <2>4 DEF Structure, Saving, JobNow
<1>13. ASSUME CleanUp \/ EndRetry \/ Crash PROVE Structure'
  BY <1>13, StructureWhenIdle DEF CleanUp, EndRetry, Crash
<1>14. ASSUME NEW due \in BOOLEAN, NextEntry(due) PROVE Structure'
  <2>1. /\ JobNow(job.phase, NextToTry, job'.kinds, job.read[NextToTry], job.arrived, job.save, job'.read)
        /\ DOMAIN job'.read = DOMAIN job.read \ {NextToTry}
        /\ \A b \in DOMAIN job'.read : job'.read[b] = job.read[b]
        /\ UNCHANGED <<made, local, zip, meta, newest, faults>>
    BY <1>14, NextEntryEffect DEF JobNow
  <2>2. job.phase = "retry" /\ job.arrived = 0 /\ DOMAIN job.save = {}
    BY <1>14 DEF NextEntry, Ready
  <2>3. NextToTry \in DOMAIN job.read /\ NextToTry \in Archives /\ \A b \in DOMAIN job.read : NextToTry <= b
    BY <1>14, NextTried DEF NextEntry
  <2>4. DOMAIN job.read \subseteq Archives
    BY JobFields, NotesAre
  <2>5. \A b \in DOMAIN job'.read : NextToTry < b
    BY <1>0, <2>1, <2>3, <2>4
  <2> QED
    BY <1>0, <2>1, <2>2, <2>3, <2>5 DEF Structure, Saving, JobNow
<1>15. ASSUME SaveEntry PROVE Structure'
  <2>1. /\ JobNow(job.phase, 0, job.kinds, Empty, job.arrived, [a \in {job.arch} |-> job.entry], job.read)
        /\ UNCHANGED <<made, local, zip, meta, newest, faults>>
    BY <1>15, SaveEntryEffect
  <2>2. job.phase = "retry" /\ job.arrived = 0 /\ job.kinds = {} /\ job.arch # 0
    BY <1>15 DEF SaveEntry, Ready
  <2>3. DOMAIN job'.save = {job.arch}
    BY <2>1 DEF JobNow
  <2>4. DOMAIN job.read \subseteq Archives
    BY JobFields, NotesAre
  <2> QED
    BY <1>0, <2>1, <2>2, <2>3, <2>4 DEF Structure, Saving, JobNow
<1>16. ASSUME NEW a \in Archives, Discard(a) PROVE Structure'
  <2>1. meta[a] # NoEntry /\ zip' = zip \ {a} /\ UNCHANGED <<made, local, meta, newest, job, faults>>
    BY <1>16 DEF Discard
  <2> QED
    BY <2>1, StructureWithFiles DEF Structure, FilesFit
<1>17. ASSUME NEW a \in Archives, Heal(a) PROVE Structure'
  <2>1. meta' = [meta EXCEPT ![a] = NoEntry] /\ UNCHANGED <<made, local, zip, newest, job, faults>>
    BY <1>17 DEF Heal
  <2>2. \A b \in Archives : meta[b] = NoEntry => meta'[b] = NoEntry
    BY <2>1 DEF Typed
  <2>3. job.phase \in {"send", "describe"} => job.arch \in Archives
    BY ListedAre DEF Structure
  <2> QED
    BY <2>1, <2>2, <2>3, StructureWithFiles DEF Structure, FilesFit
<1>18. ASSUME NoteFails PROVE Structure'
  <2>1. JobNow(job.phase, job.arch, job.kinds, Failed(job.entry, job.arrived), 0, NoSave, job.read)
        /\ UNCHANGED <<made, local, zip, meta, newest>>
    BY <1>18, NoteFailsEffect
  <2>2. job.phase = "send"
    BY <1>18 DEF NoteFails
  <2> QED
    BY <1>0, <2>1, <2>2 DEF Structure, Saving, JobNow
<1>19. ASSUME EnqueueFails PROVE Structure'
  <2>1. JobNow("clean", job.arch, job.kinds, Empty, job.arrived, NoSave, job.read)
        /\ UNCHANGED <<made, local, zip, meta, newest>>
    BY <1>19, EnqueueFailsEffect
  <2>2. /\ job.phase \in {"send", "describe", "drop", "clean"}
        /\ job.kinds = {} /\ job.arrived = 0 /\ DOMAIN NoSave = {}
    BY <1>19, NoNotes DEF EnqueueFails, Sent, Ready, Structure, Saving
  <2> QED
    BY <1>0, <2>1, <2>2 DEF Structure, Saving, JobNow
<1> QED
  BY <1>1, <1>2, <1>3, <1>4, <1>5, <1>7, <1>8, <1>9, <1>10, <1>11, <1>12, <1>13, <1>14,
     <1>15, <1>16, <1>17, <1>18, <1>19 DEF Next, JobStep

-----------------------------------------------------------------------------
(* Archives on the disk.                                                   *)

(* The members of a finite set of numbers that have fewer than M above     *)
(* them are at most M: no two of them have as many.                        *)
LEMMA FewHaveFewAbove ==
  ASSUME NEW S \in SUBSET Nat, IsFiniteSet(S), NEW M \in Nat \ {0}
  PROVE  LET T == {a \in S : Cardinality({b \in S : b > a}) < M}
         IN  IsFiniteSet(T) /\ Cardinality(T) <= M
<1> DEFINE Above(a) == {b \in S : b > a}
           T == {a \in S : Cardinality(Above(a)) < M}
           N == 0 .. M - 1
           f == [a \in T |-> Cardinality(Above(a))]
<1>1. \A a \in S : IsFiniteSet(Above(a)) /\ Cardinality(Above(a)) \in Nat
  BY FS_Subset, FS_CardinalityType
<1>2. IsFiniteSet(T) /\ Cardinality(T) \in Nat
  BY FS_Subset, FS_CardinalityType
<1>3. IsFiniteSet(N) /\ Cardinality(N) = M
  BY FS_Interval
<1>4. f \in [T -> N]
  <2>1. \A a \in T : a \in S /\ Cardinality(Above(a)) < M
    OBVIOUS
  <2>2. \A a \in T : Cardinality(Above(a)) \in N
    BY <1>1, <2>1
  <2> QED
    BY <2>2
<1>5. \A a, b \in S : a < b => Cardinality(Above(a)) # Cardinality(Above(b))
  <2> SUFFICES ASSUME NEW a \in S, NEW b \in S, a < b, Cardinality(Above(a)) = Cardinality(Above(b))
               PROVE  FALSE
    OBVIOUS
  <2>0. a \in Nat /\ b \in Nat /\ \A x \in S : x \in Nat
    OBVIOUS
  <2>1. \A x \in Above(b) : x \in Above(a)
    BY <2>0
  <2>2. b \in Above(a) /\ b \notin Above(b)
    BY <2>0
  <2> HIDE DEF Above
  <2>3. Above(a) = Above(b)
    <3>1. Above(b) \in SUBSET Above(a)
      BY <2>1
    <3> QED
      BY <1>1, <3>1, FS_Subset
  <2> QED
    BY <2>2, <2>3
<1>6. \A x, y \in T : x # y => f[x] # f[y]
  <2> SUFFICES ASSUME NEW x \in T, NEW y \in T, x # y
               PROVE  f[x] # f[y]
    OBVIOUS
  <2>1. x \in S /\ y \in S /\ (x < y \/ y < x)
    OBVIOUS
  <2>2. f[x] = Cardinality(Above(x)) /\ f[y] = Cardinality(Above(y))
    OBVIOUS
  <2> HIDE DEF f, Above
  <2> QED
    BY <1>5, <2>1, <2>2
<1> HIDE DEF f, N, T, Above
<1>7. ~(Cardinality(N) < Cardinality(T))
  BY <1>2, <1>3, <1>4, <1>6, FS_PigeonHole
<1> QED
  BY <1>2, <1>3, <1>7 DEF T, Above

LEMMA Counted ==
  ASSUME Typed
  PROVE  /\ IsFiniteSet(local) /\ IsFiniteSet(zip)
         /\ Cardinality(local) \in Nat /\ Cardinality(zip) \in Nat
         /\ \A S \in SUBSET zip : IsFiniteSet(S) /\ Cardinality(S) \in Nat
         /\ faults \in Nat /\ MAX_QUEUED_ARCHIVES \in Nat
<1>1. IsFiniteSet(Archives)
  BY Numbers, FS_Interval DEF Archives
<1>2. IsFiniteSet(local) /\ IsFiniteSet(zip)
  BY <1>1, ListedAre, FS_Subset
<1>3. \A S \in SUBSET zip : IsFiniteSet(S)
  BY <1>2, FS_Subset
<1> QED
  BY <1>2, <1>3, FS_CardinalityType, Numbers DEF Typed

(* Nothing is added to the disk, and the job is not in a phase that has    *)
(* less room, unless a fault pays for it.                                  *)
LEMMA DiskNotFuller ==
  ASSUME Typed, Disk, faults' \in Nat, faults <= faults',
         local' \subseteq local, zip' \subseteq zip, (zip \ Listed)' \subseteq zip \ Listed,
         job'.phase \in {"idle", "retry"} => job.phase \in {"idle", "retry"} \/ faults < faults',
         job.phase = "describe" => job'.phase = "describe" \/ faults < faults',
         job'.phase = "clean" =>
           job.phase = "clean" /\ (zip \ DOMAIN job.save)' \subseteq zip \ DOMAIN job.save
  PROVE  Disk'
<1>1. \A S \in SUBSET zip, T \in SUBSET zip :
        S \subseteq T => Cardinality(S) <= Cardinality(T) /\ Cardinality(S) \in Nat /\ Cardinality(T) \in Nat
  BY Counted, FS_Subset
<1>2. Cardinality(local') <= Cardinality(local) /\ Cardinality(local') \in Nat
  BY Counted, FS_Subset, FS_CardinalityType
<1>3. Cardinality(zip') <= Cardinality(zip) /\ Cardinality(zip') \in Nat
  BY <1>1
<1>4. Cardinality((zip \ Listed)') <= Cardinality(zip \ Listed) /\ Cardinality((zip \ Listed)') \in Nat
      /\ Cardinality(zip \ Listed) \in Nat
  BY <1>1
<1>5. Cardinality(local') + Cardinality(zip')
        <= MAX_QUEUED_ARCHIVES + faults' + (IF job'.phase \in {"idle", "retry"} THEN 0 ELSE 1)
  BY <1>2, <1>3, Counted DEF Disk
<1>6. Cardinality((zip \ Listed)') <= faults' + (IF job'.phase = "describe" THEN 1 ELSE 0)
  BY <1>4, Counted DEF Disk
<1>7. job'.phase = "clean" => Cardinality((zip \ DOMAIN job.save)') <= MAX_QUEUED_ARCHIVES + faults'
  <2> SUFFICES ASSUME job'.phase = "clean"
               PROVE  Cardinality((zip \ DOMAIN job.save)') <= MAX_QUEUED_ARCHIVES + faults'
    OBVIOUS
  <2>1. Cardinality((zip \ DOMAIN job.save)') <= Cardinality(zip \ DOMAIN job.save)
        /\ Cardinality((zip \ DOMAIN job.save)') \in Nat /\ Cardinality(zip \ DOMAIN job.save) \in Nat
    BY <1>1
  <2> QED
    BY <2>1, Counted DEF Disk
<1> QED
  BY <1>5, <1>6, <1>7 DEF Disk

LEMMA DiskInit ==
  ASSUME Init
  PROVE  Disk
<1>1. job.phase = "idle" /\ local = {} /\ zip = {} /\ zip \ Listed = {} /\ faults = 0
  BY DEF Init, Idle
<1> QED
  BY <1>1, FS_EmptySet, Numbers DEF Disk

(* The queue as it is listed changes with the files only.                  *)
LEMMA ListedKept ==
  ASSUME Typed, zip' = zip, \A a \in zip : meta'[a] = NoEntry <=> meta[a] = NoEntry
  PROVE  Listed' = Listed
  BY DEF Listed

LEMMA DiskKept ==
  ASSUME Typed, Structure, Disk, Next
  PROVE  Disk'
<1>0. /\ made \in Nat /\ job.phase \in Phases /\ faults \in Nat /\ MAX_QUEUED_ARCHIVES \in Nat \ {0}
      /\ zip \subseteq Archives /\ DOMAIN NoSave = {}
  BY Numbers, JobFields, ListedAre, NoNotes DEF Typed
<1>1. ASSUME BeginBackup PROVE Disk'
  <2>1. JobNow("send", made', Kinds, Empty, 0, NoSave, NoSave) /\ local' = local \cup {made'}
        /\ zip' = zip /\ meta' = meta /\ faults' = faults /\ job.phase = "idle"
    BY <1>1, BeginBackupEffect DEF BeginBackup
  <2>2. Cardinality(local') <= Cardinality(local) + 1 /\ Cardinality(local') \in Nat
    BY <2>1, Counted, FS_AddElement, FS_CardinalityType
  <2>3. job'.phase = "send" /\ Listed' = Listed
    BY <2>1 DEF JobNow, Listed
  <2> QED
    BY <1>0, <2>1, <2>2, <2>3, Counted DEF Disk
<1>2. ASSUME BeginRetry PROVE Disk'
  <2>1. job'.phase = "retry" /\ UNCHANGED <<local, zip, faults>> /\ meta' = Healed /\ job.phase = "idle"
    BY <1>2, BeginRetryEffect DEF BeginRetry, JobNow
  <2>2. Listed' = Listed
    BY <2>1, HealedQueue
  <2> QED
    BY <1>0, <2>1, <2>2, DiskNotFuller
<1>3. ASSUME NEW k \in Kinds, Arrives(k) \/ Fails(k) \/ FailsForGood(k) PROVE Disk'
  <2>1. job'.phase = job.phase /\ UNCHANGED <<local, zip, meta, faults>>
    BY <1>3, ArrivesEffect, FailsEffect, FailsForGoodEffect DEF JobNow
  <2>2. Listed' = Listed
    BY <2>1 DEF Listed
  <2>3. job.phase # "clean"
    BY <1>3 DEF Arrives, Fails, FailsForGood, NextKind, Structure
  <2> QED
    BY <1>0, <2>1, <2>2, <2>3, DiskNotFuller
<1>4. ASSUME NoteSuccess PROVE Disk'
  <2>1. job'.phase = job.phase /\ UNCHANGED <<local, zip, faults>> /\ meta' = Healed
    BY <1>4, NoteSuccessEffect DEF JobNow
  <2>2. Listed' = Listed
    BY <2>1, HealedQueue
  <2>3. job.phase # "clean"
    BY <1>4 DEF NoteSuccess, Structure
  <2> QED
    BY <1>0, <2>1, <2>2, <2>3, DiskNotFuller
<1>5. ASSUME Write PROVE Disk'
  <2>1. Saving /\ job' = Saved(NextToSave) /\ UNCHANGED <<made, local, zip, newest, faults>>
        /\ meta' = [meta EXCEPT ![NextToSave] = job.save[NextToSave]]
        /\ Waiting(job.save[NextToSave]) # {}
    BY <1>5 DEF Write, Saving
  <2>2. job'.phase = job.phase
    BY <2>1, SavedJob DEF JobNow
  <2>3. NextToSave \in Archives /\ NextToSave \in DOMAIN job.save /\ job.save[NextToSave] \in Entry
    BY <2>1, NextSaved
  <2>4. job.save[NextToSave] # NoEntry /\ job.phase # "clean"
    BY <2>1, <2>3, EntryHere, Numbers DEF Structure
  <2>5. \A a \in zip : meta[a] # NoEntry => meta'[a] # NoEntry
    BY <1>0, <2>1, <2>3, <2>4 DEF Typed
  <2>6. (zip \ Listed)' \subseteq zip \ Listed
    BY <2>1, <2>5 DEF Listed
  <2> QED
    BY <1>0, <2>1, <2>2, <2>4, <2>6, DiskNotFuller
<1>6. ASSUME UnlinkZip PROVE Disk'
  <2>1. zip' = zip \ {NextToSave} /\ UNCHANGED <<local, meta, job, faults>>
    BY <1>6 DEF UnlinkZip
  <2>2. (zip \ Listed)' \subseteq zip \ Listed
    BY <2>1 DEF Listed
  <2>3. (zip \ DOMAIN job.save)' \subseteq zip \ DOMAIN job.save
    BY <2>1
  <2> QED
    BY <1>0, <2>1, <2>2, <2>3, DiskNotFuller
<1>7. ASSUME UnlinkMeta PROVE Disk'
  <2>1. Saving /\ job' = Saved(NextToSave) /\ UNCHANGED <<made, local, zip, newest, faults>>
        /\ meta' = [meta EXCEPT ![NextToSave] = NoEntry] /\ NextToSave \notin zip
    BY <1>7 DEF UnlinkMeta, Saving
  <2>2. job'.phase = job.phase /\ DOMAIN job'.save = DOMAIN job.save \ {NextToSave}
    BY <2>1, SavedJob DEF JobNow
  <2>3. \A a \in zip : meta'[a] = meta[a]
    BY <1>0, <2>1 DEF Typed
  <2>4. Listed' = Listed
    BY <2>1, <2>3, ListedKept
  <2>5. (zip \ DOMAIN job.save)' \subseteq zip \ DOMAIN job.save
    BY <2>1, <2>2
  <2> QED
    BY <1>0, <2>1, <2>2, <2>4, <2>5, DiskNotFuller
<1>8. ASSUME MoveZip PROVE Disk'
  <2>1. job'.phase = "describe" /\ UNCHANGED <<meta, faults>>
        /\ zip' = zip \cup {job.arch} /\ local' = local \ {job.arch} /\ job.phase = "send"
    BY <1>8, MoveZipEffect DEF MoveZip, Sent, JobNow
  <2>2. job.arch \in local /\ job.arch \notin zip
    BY <2>1 DEF Structure
  <2>3. /\ Cardinality(local') = Cardinality(local) - 1
        /\ Cardinality(zip') = Cardinality(zip) + 1
    BY <2>1, <2>2, Counted, FS_AddElement, FS_RemoveElement
  <2>4. Cardinality((zip \ Listed)') <= Cardinality(zip \ Listed) + 1
        /\ Cardinality((zip \ Listed)') \in Nat /\ Cardinality(zip \ Listed) \in Nat
    <3> DEFINE Z == zip \ Listed
    <3>1. IsFiniteSet(Z) /\ Cardinality(Z) \in Nat
      BY Counted
    <3>2. IsFiniteSet(Z \cup {job.arch}) /\ Cardinality(Z \cup {job.arch}) <= Cardinality(Z) + 1
      BY SMTT(30), <3>1, FS_AddElement
    <3>3. (zip \ Listed)' \in SUBSET (Z \cup {job.arch})
      BY <2>1 DEF Listed
    <3> HIDE DEF Z
    <3>4. IsFiniteSet((zip \ Listed)') /\ Cardinality((zip \ Listed)') <= Cardinality(Z \cup {job.arch})
      BY <3>2, <3>3, FS_Subset
    <3>5. Cardinality((zip \ Listed)') \in Nat /\ Cardinality(Z \cup {job.arch}) \in Nat
      BY <3>2, <3>4, FS_CardinalityType
    <3> QED
      BY <3>1, <3>2, <3>4, <3>5 DEF Z
  <2>5. Cardinality(local') + Cardinality(zip')
          <= MAX_QUEUED_ARCHIVES + faults' + (IF job'.phase \in {"idle", "retry"} THEN 0 ELSE 1)
    BY <1>0, <2>1, <2>3, Counted DEF Disk
  <2>6. Cardinality((zip \ Listed)') <= faults' + (IF job'.phase = "describe" THEN 1 ELSE 0)
    BY <1>0, <2>1, <2>4 DEF Disk
  <2> QED
    BY <2>1, <2>5, <2>6 DEF Disk
<1>9. ASSUME Describe PROVE Disk'
  <2>1. job'.phase = "drop" /\ UNCHANGED <<local, zip, faults>> /\ job.phase = "describe"
        /\ meta' = [meta EXCEPT ![job.arch] = job.entry]
    BY <1>9, DescribeEffect DEF Describe, JobNow
  <2>2. job.arch \in zip /\ meta[job.arch] = NoEntry /\ job.entry # NoEntry
    BY <2>1, JobFields, EntryHere DEF Structure
  <2>3. \A a \in zip : meta'[a] = IF a = job.arch THEN job.entry ELSE meta[a]
    BY <1>0, <2>1 DEF Typed
  <2>4. (zip \ Listed)' = (zip \ Listed) \ {job.arch} /\ job.arch \in zip \ Listed
    BY <2>1, <2>2, <2>3 DEF Listed
  <2>5. IsFiniteSet(zip \ Listed) /\ Cardinality(zip \ Listed) \in Nat
    BY Counted
  <2>6. Cardinality((zip \ Listed)') = Cardinality(zip \ Listed) - 1
    BY <2>4, <2>5, FS_RemoveElement
  <2> QED
    BY <1>0, <2>1, <2>5, <2>6 DEF Disk
<1>10. ASSUME DropOldest PROVE Disk'
  <2>1. /\ JobNow("clean", job.arch, job.kinds, job.entry, job.arrived, [a \in EntriesToDrop |-> Empty], job.read)
        /\ meta' = Healed /\ UNCHANGED <<made, local, zip, newest, faults>> /\ job.phase = "drop"
    BY <1>10, DropOldestEffect DEF DropOldest
  <2>2. job'.phase = "clean" /\ DOMAIN job'.save = EntriesToDrop
    BY <2>1 DEF JobNow
  <2>3. Listed' = Listed
    BY <2>1, HealedQueue
  <2> DEFINE Few == {a \in Listed : Cardinality({b \in Listed : b > a}) < MAX_QUEUED_ARCHIVES}
  <2>4. Listed \in SUBSET Nat /\ Listed \in SUBSET zip
    BY ListedAre, Numbers DEF Archives
  <2>5. IsFiniteSet(Listed) /\ \A S \in SUBSET Listed : Cardinality(S) \in Nat /\ IsFiniteSet(S)
    BY <2>4, Counted, FS_Subset
  <2>6. Cardinality(Few) <= MAX_QUEUED_ARCHIVES /\ IsFiniteSet(Few) /\ Cardinality(Few) \in Nat
    BY <1>0, <2>4, <2>5, FewHaveFewAbove
  <2>7. Listed \ EntriesToDrop \subseteq Few
    <3>1. \A a \in Listed : Cardinality({b \in Listed : b > a}) \in Nat
      BY <2>5
    <3> QED
      BY <1>0, <3>1 DEF EntriesToDrop
  <2> HIDE DEF Few
  <2>8. zip \ EntriesToDrop \in SUBSET (Few \cup (zip \ Listed))
    BY <2>7
  <2>9. IsFiniteSet(zip \ Listed) /\ Cardinality(zip \ Listed) \in Nat
    BY Counted
  <2>10. /\ IsFiniteSet(Few \cup (zip \ Listed))
         /\ Cardinality(Few \cup (zip \ Listed)) <= Cardinality(Few) + Cardinality(zip \ Listed)
    <3>1. Cardinality(Few \cap (zip \ Listed)) \in Nat
      BY <2>6, FS_Intersection, FS_CardinalityType
    <3>2. /\ IsFiniteSet(Few \cup (zip \ Listed))
          /\ Cardinality(Few \cup (zip \ Listed))
               = Cardinality(Few) + Cardinality(zip \ Listed) - Cardinality(Few \cap (zip \ Listed))
      BY <2>6, <2>9, FS_Union
    <3> QED
      BY <2>6, <2>9, <3>1, <3>2
  <2>11. /\ Cardinality(zip \ EntriesToDrop) <= Cardinality(Few \cup (zip \ Listed))
         /\ Cardinality(zip \ EntriesToDrop) \in Nat /\ Cardinality(Few \cup (zip \ Listed)) \in Nat
    BY <2>8, <2>10, FS_Subset, FS_CardinalityType, Counted
  <2>12. Cardinality(zip \ Listed) <= faults
    BY <1>0, <2>1, <2>9 DEF Disk
  <2>13. Cardinality(zip \ EntriesToDrop) <= MAX_QUEUED_ARCHIVES + faults
    BY <1>0, <2>6, <2>9, <2>10, <2>11, <2>12
  <2>14. (zip \ DOMAIN job.save)' = zip \ EntriesToDrop /\ (zip \ Listed)' = zip \ Listed
    BY <2>1, <2>2, <2>3
  <2>15. Cardinality(local') + Cardinality(zip')
           <= MAX_QUEUED_ARCHIVES + faults' + (IF job'.phase \in {"idle", "retry"} THEN 0 ELSE 1)
    BY <1>0, <2>1, <2>2, Counted DEF Disk
  <2>16. Cardinality((zip \ Listed)') <= faults' + (IF job'.phase = "describe" THEN 1 ELSE 0)
    <3>1. Cardinality((zip \ Listed)') = Cardinality(zip \ Listed)
      BY <2>14, Zenon
    <3>2. job'.phase # "describe"
      BY <2>2
    <3> QED
      BY <1>0, <2>1, <2>9, <2>12, <3>1, <3>2
  <2> QED
    BY <2>1, <2>2, <2>13, <2>14, <2>15, <2>16 DEF Disk
<1>11. ASSUME CleanUp PROVE Disk'
  <2>1. job'.phase = "idle" /\ local' = {} /\ UNCHANGED <<zip, meta, faults>>
    BY <1>11, CleanUpEffect, IdleJob DEF JobNow
  <2>2. Listed' = Listed
    BY <2>1 DEF Listed
  <2>3. Cardinality(zip) <= MAX_QUEUED_ARCHIVES + faults
    <3>1. CASE job.phase = "clean" /\ Ready
      <4>1. zip \ DOMAIN job.save = zip
        BY <3>1 DEF Ready
      <4> QED
        BY <3>1, <4>1 DEF Disk
    <3>2. CASE Sent
      <4>1. job.arch \in local /\ job.phase = "send"
        BY <3>2 DEF Sent, Structure
      <4>2. Cardinality(local) >= 1
        BY <4>1, Counted, FS_EmptySet
      <4> QED
        BY <1>0, <4>1, <4>2, Counted DEF Disk
    <3> QED
      BY <1>11, <3>1, <3>2 DEF CleanUp
  <2>4. job.phase # "describe"
    BY <1>11 DEF CleanUp, Sent
  <2> QED
    BY <1>0, <2>1, <2>2, <2>3, <2>4, Counted, FS_EmptySet DEF Disk
<1>12. ASSUME NEW due \in BOOLEAN, NextEntry(due) \/ SaveEntry \/ EndRetry PROVE Disk'
  <2>1. job.phase = "retry" /\ UNCHANGED <<local, zip, meta, faults>> /\ job'.phase \in {"retry", "idle"}
    BY <1>12, NextEntryEffect, SaveEntryEffect, IdleJob DEF NextEntry, SaveEntry, EndRetry, files, JobNow
  <2>2. Listed' = Listed
    BY <2>1 DEF Listed
  <2> QED
    BY <1>0, <2>1, <2>2, DiskNotFuller
<1>13. ASSUME NEW a \in Archives, Discard(a) PROVE Disk'
  <2>1. zip' = zip \ {a} /\ UNCHANGED <<local, meta, job, faults>>
    BY <1>13 DEF Discard
  <2>2. (zip \ Listed)' \subseteq zip \ Listed
    BY <2>1 DEF Listed
  <2>3. (zip \ DOMAIN job.save)' \subseteq zip \ DOMAIN job.save
    BY <2>1
  <2> QED
    BY <1>0, <2>1, <2>2, <2>3, DiskNotFuller
<1>14. ASSUME NEW a \in Archives, Heal(a) PROVE Disk'
  <2>1. meta' = [meta EXCEPT ![a] = NoEntry] /\ a \notin zip /\ UNCHANGED <<local, zip, job, faults>>
    BY <1>14 DEF Heal
  <2>2. \A b \in zip : meta'[b] = meta[b]
    BY <1>0, <2>1 DEF Typed
  <2>3. Listed' = Listed
    BY <2>1, <2>2, ListedKept
  <2> QED
    BY <1>0, <2>1, <2>3, DiskNotFuller
<1>15. ASSUME Crash PROVE Disk'
  <2>1. job'.phase = "idle" /\ UNCHANGED <<local, zip, meta>> /\ faults' = faults + 1
    BY <1>15, IdleJob DEF Crash, files, JobNow
  <2>2. Listed' = Listed
    BY <2>1 DEF Listed
  <2> QED
    BY <1>0, <2>1, <2>2, DiskNotFuller
<1>16. ASSUME NoteFails PROVE Disk'
  <2>1. job'.phase = "send" /\ job.phase = "send" /\ UNCHANGED <<local, zip, meta>> /\ faults' = faults + 1
    BY <1>16, NoteFailsEffect DEF NoteFails, JobNow
  <2>2. Listed' = Listed
    BY <2>1 DEF Listed
  <2> QED
    BY <1>0, <2>1, <2>2, DiskNotFuller
<1>17. ASSUME EnqueueFails PROVE Disk'
  <2>1. JobNow("clean", job.arch, job.kinds, Empty, job.arrived, NoSave, job.read)
        /\ UNCHANGED <<local, zip, meta>> /\ faults' = faults + 1
    BY <1>17, EnqueueFailsEffect
  <2>2. job.phase \in {"send", "describe", "drop", "clean"} /\ DOMAIN NoSave = {}
    BY <1>17, NoNotes DEF EnqueueFails, Sent, Ready, Structure, Saving
  <2>3. job'.phase = "clean" /\ Listed' = Listed /\ (zip \ DOMAIN job.save)' = zip
    BY <2>1, <2>2 DEF Listed, JobNow
  <2>4. Cardinality(zip) <= MAX_QUEUED_ARCHIVES + faults'
    BY <1>0, <2>1, <2>2, Counted DEF Disk
  <2>5. Cardinality((zip \ Listed)') <= faults' /\ Cardinality(zip \ Listed) \in Nat
    BY <1>0, <2>1, <2>3, Counted DEF Disk
  <2>6. Cardinality(local') + Cardinality(zip') <= MAX_QUEUED_ARCHIVES + faults' + 1
    BY <1>0, <2>1, <2>2, Counted DEF Disk
  <2>7. Cardinality((zip \ DOMAIN job.save)') <= MAX_QUEUED_ARCHIVES + faults'
    BY <2>3, <2>4, Zenon
  <2>8. Cardinality((zip \ Listed)') <= faults' + (IF job'.phase = "describe" THEN 1 ELSE 0)
    <3>1. faults' \in Nat /\ job'.phase # "describe" /\ Cardinality((zip \ Listed)') = Cardinality(zip \ Listed)
      BY <1>0, <2>1, <2>3
    <3> QED
      BY <2>5, <3>1
  <2>9. Cardinality(local') + Cardinality(zip')
          <= MAX_QUEUED_ARCHIVES + faults' + (IF job'.phase \in {"idle", "retry"} THEN 0 ELSE 1)
    BY <2>3, <2>6
  <2> QED
    BY <2>7, <2>8, <2>9 DEF Disk
<1> QED
  BY <1>1, <1>2, <1>3, <1>4, <1>5, <1>6, <1>7, <1>8, <1>9, <1>10, <1>11, <1>12, <1>13, <1>14,
     <1>15, <1>16, <1>17 DEF Next, JobStep

-----------------------------------------------------------------------------
(* What a step does to the queue as it is listed: most leave it alone.     *)
QueueSame == Listed' = Listed /\ \A a \in Listed : meta'[a] = meta[a]

LEMMA QueueWithoutChange ==
  ASSUME Typed, zip' = zip, meta' = meta
  PROVE  QueueSame
  BY DEF QueueSame, Listed

LEMMA QueueHealed ==
  ASSUME Typed, zip' = zip, meta' = Healed
  PROVE  QueueSame
  BY HealedQueue DEF QueueSame

LEMMA QueueMoveZip ==
  ASSUME Typed, Structure, MoveZip
  PROVE  QueueSame
<1>1. zip' = zip \cup {job.arch} /\ meta' = meta /\ meta[job.arch] = NoEntry
  BY DEF MoveZip, Sent, Structure
<1> QED
  BY <1>1 DEF QueueSame, Listed

LEMMA QueueUnlinkMeta ==
  ASSUME Typed, UnlinkMeta
  PROVE  QueueSame
<1>1. zip' = zip /\ meta' = [meta EXCEPT ![NextToSave] = NoEntry] /\ NextToSave \notin zip
  BY DEF UnlinkMeta
<1>2. \A a \in zip : meta'[a] = meta[a]
  BY <1>1, ListedAre DEF Typed
<1> QED
  BY <1>1, <1>2, ListedKept, ListedAre DEF QueueSame

LEMMA QueueHeal ==
  ASSUME Typed, NEW a \in Archives, Heal(a)
  PROVE  QueueSame
<1>1. zip' = zip /\ meta' = [meta EXCEPT ![a] = NoEntry] /\ a \notin zip
  BY DEF Heal
<1>2. \A b \in zip : meta'[b] = meta[b]
  BY <1>1, ListedAre DEF Typed
<1> QED
  BY <1>1, <1>2, ListedKept, ListedAre DEF QueueSame

(* Write, UnlinkZip, Describe and Discard change one archive.              *)
LEMMA QueueWrite ==
  ASSUME Typed, Write
  PROVE  /\ Saving /\ job' = Saved(NextToSave) /\ UNCHANGED <<made, local, zip, newest, faults>>
         /\ NextToSave \in Archives /\ NextToSave \in DOMAIN job.save
         /\ Waiting(job.save[NextToSave]) # {}
         /\ meta'[NextToSave] = job.save[NextToSave]
         /\ Listed' \subseteq Listed \cup {NextToSave}
         /\ Listed \subseteq Listed'
         /\ \A a \in Archives \ {NextToSave} : meta'[a] = meta[a]
<1>1. Saving /\ job' = Saved(NextToSave) /\ UNCHANGED <<made, local, zip, newest, faults>>
      /\ meta' = [meta EXCEPT ![NextToSave] = job.save[NextToSave]] /\ Waiting(job.save[NextToSave]) # {}
  BY DEF Write, Saving
<1>2. NextToSave \in Archives /\ NextToSave \in DOMAIN job.save /\ job.save[NextToSave] \in Entry
  BY <1>1, NextSaved
<1>3. job.save[NextToSave] # NoEntry
  BY <1>1, <1>2, EntryHere
<1>4. meta'[NextToSave] = job.save[NextToSave] /\ \A a \in Archives \ {NextToSave} : meta'[a] = meta[a]
  BY <1>1, <1>2 DEF Typed
<1>5. \A a \in zip : a \in Archives /\ (a \in Listed <=> meta[a] # NoEntry) /\ (a \in Listed' <=> meta'[a] # NoEntry)
  BY <1>1, ListedAre DEF Listed
<1>6. Listed \subseteq zip /\ Listed' \subseteq zip
  BY <1>1 DEF Listed
<1> QED
  BY <1>1, <1>2, <1>3, <1>4, <1>5, <1>6

LEMMA QueueDescribe ==
  ASSUME Typed, Structure, Describe
  PROVE  /\ Listed' = Listed \cup {job.arch} /\ job.arch \notin Listed
         /\ meta'[job.arch] = job.entry
         /\ \A a \in Listed : meta'[a] = meta[a]
<1>1. job.phase = "describe" /\ zip' = zip /\ meta' = [meta EXCEPT ![job.arch] = job.entry]
  BY DEF Describe
<1>2. job.arch \in zip /\ meta[job.arch] = NoEntry /\ job.entry # NoEntry
  BY <1>1, JobFields, EntryHere DEF Structure
<1>3. \A a \in zip : meta'[a] = IF a = job.arch THEN job.entry ELSE meta[a]
  BY <1>1, ListedAre DEF Typed
<1> QED
  BY <1>1, <1>2, <1>3 DEF Listed

LEMMA QueueLess ==
  ASSUME Typed, NEW a, zip' = zip \ {a}, meta' = meta
  PROVE  Listed' = Listed \ {a} /\ \A b \in Listed : meta'[b] = meta[b]
  BY DEF Listed

-----------------------------------------------------------------------------
(* Reasons.                                                                *)

LEMMA ReasonsInit ==
  ASSUME Init
  PROVE  Reasons
<1>1. job.phase = "idle" /\ job.save = NoSave
  BY DEF Init, Idle
<1> QED
  BY <1>1, NoNotes DEF Reasons

LEMMA ReasonsNothingLeft ==
  ASSUME DOMAIN job'.save = {}, job'.phase # "retry"
  PROVE  Reasons'
  BY DEF Reasons

LEMMA ReasonsSameJob ==
  ASSUME Reasons, job' = job, newest' = newest, Listed' \subseteq Listed,
         \A a \in Listed : meta'[a] = meta[a]
  PROVE  Reasons'
  BY DEF Reasons

LEMMA ReasonsSaved ==
  ASSUME Typed, Structure, Reasons, Saving, job' = Saved(NextToSave), newest' = newest,
         Listed' \subseteq Listed \cup {NextToSave},
         \A a \in Archives \ {NextToSave} : meta'[a] = meta[a]
  PROVE  Reasons'
<1>1. /\ JobNow(job.phase, job.arch, job.kinds, job.entry, job'.arrived, job'.save, job.read)
      /\ DOMAIN job'.save = DOMAIN job.save \ {NextToSave}
      /\ \A b \in DOMAIN job'.save : job'.save[b] = job.save[b]
  BY SavedJob
<1>2. \A a \in Listed' : a # NextToSave => a \in Listed /\ meta'[a] = meta[a]
  BY ListedAre
<1>3. NextToSave \in DOMAIN job.save /\ NextToSave \in Nat /\ NextToSave > 0
  BY NextSaved, Numbers DEF Archives
<1>4. job.phase = "retry" => NextToSave \notin DOMAIN job.read
  <2>1. DOMAIN job.read \subseteq Archives
    BY JobFields, NotesAre
  <2> QED
    BY <1>3, <2>1, Numbers DEF Structure, Archives
<1>5. job.phase = "retry" => job.arch # NextToSave
  <2>1. CASE job.arrived # 0
    BY <1>3, <2>1, JobFields DEF Structure
  <2>2. CASE job.arrived = 0
    BY <1>3, <2>2 DEF Structure
  <2> QED
    BY <2>1, <2>2
<1> QED
  BY <1>1, <1>2, <1>4, <1>5 DEF Reasons, JobNow

LEMMA ReasonsKept ==
  ASSUME Typed, Structure, Reasons, Next
  PROVE  Reasons'
<1>0. /\ made \in Nat /\ job.arch \in Nat /\ job.phase \in Phases /\ DOMAIN NoSave = {}
      /\ Listed \subseteq Archives /\ 0 \notin Archives /\ \A a \in Archives : a \in Nat
      /\ MAX_QUEUED_ARCHIVES \in Nat
      /\ \A k \in Kinds : newest[k] \in Nat
  BY Numbers, JobFields, ListedAre, NoNotes DEF Typed, Archives
<1>1. ASSUME BeginBackup PROVE Reasons'
  BY <1>0, <1>1, BeginBackupEffect, ReasonsNothingLeft DEF JobNow
<1>2. ASSUME BeginRetry PROVE Reasons'
  <2>1. /\ JobNow("retry", 0, {}, Empty, 0, NoSave, [a \in Listed |-> meta[a]])
        /\ meta' = Healed /\ UNCHANGED <<made, local, zip, newest, faults>>
    BY <1>2, BeginRetryEffect
  <2>2. Listed' = Listed /\ \A a \in Listed : meta'[a] = meta[a]
    BY <2>1, QueueHealed DEF QueueSame
  <2>3. job'.phase = "retry" /\ job'.arch = 0 /\ DOMAIN job'.save = {} /\ job'.read = [a \in Listed |-> meta[a]]
    BY <1>0, <2>1 DEF JobNow
  <2>4. \A a \in Listed : job'.read[a] = meta[a]
    BY <2>3
  <2> QED
    BY <1>0, <2>2, <2>3, <2>4 DEF Reasons
<1>3. ASSUME NEW k \in Kinds, Arrives(k) PROVE Reasons'
  <2>1. /\ JobNow(job.phase, job.arch, job.kinds \ {k}, Without(job.entry, k), k, job.save, job.read)
        /\ newest' = [newest EXCEPT ![k] = IF @ < job.arch THEN job.arch ELSE @]
        /\ UNCHANGED <<made, local, zip, meta, faults>>
    BY <1>3, ArrivesEffect
  <2>2. Listed' = Listed /\ \A a \in Listed : meta'[a] = meta[a]
    BY <2>1, QueueWithoutChange DEF QueueSame
  <2>3. newest'[k] >= job.arch /\ \A l \in Kinds : newest'[l] >= newest[l] /\ newest'[l] \in Nat
    BY <1>0, <2>1 DEF Typed
  <2>4. DOMAIN job.save = {}
    BY <1>3 DEF Arrives, NextKind, Ready
  <2>5. job.entry \in Entry /\ job.kinds \subseteq Kinds
    BY JobFields
  <2>6. job'.phase = job.phase /\ job'.arch = job.arch /\ job'.kinds = job.kinds \ {k}
        /\ job'.save = job.save /\ job'.read = job.read
        /\ (\A l \in Kinds : l # k => job'.entry[l] = job.entry[l])
        /\ Waiting(job'.entry) = Waiting(job.entry) \ {k}
    BY <2>1, <2>5, WithoutEntry DEF JobNow
  <2>7. \A a \in Archives : Waiting(meta[a]) \subseteq Kinds
    BY DEF Waiting
  <2> QED
    BY <1>0, <2>2, <2>3, <2>4, <2>5, <2>6, <2>7 DEF Reasons
<1>4. ASSUME NEW k \in Kinds, Fails(k) PROVE Reasons'
  <2>1. /\ JobNow(job.phase, job.arch, job.kinds \ {k}, Failed(job.entry, k), job.arrived, job.save, job.read)
        /\ UNCHANGED <<made, local, zip, meta, newest, faults>>
    BY <1>4, FailsEffect
  <2>2. Listed' = Listed /\ \A a \in Listed : meta'[a] = meta[a]
    BY <2>1, QueueWithoutChange DEF QueueSame
  <2>3. DOMAIN job.save = {} /\ k \in job.kinds
    BY <1>4 DEF Fails, NextKind, Ready
  <2>4. job.entry \in Entry /\ job.kinds \subseteq Kinds
    BY JobFields
  <2>5. job'.phase = job.phase /\ job'.arch = job.arch /\ job'.kinds = job.kinds \ {k}
        /\ job'.save = job.save /\ job'.read = job.read
        /\ (\A l \in Kinds : l # k => job'.entry[l] = job.entry[l])
        /\ (k \in Waiting(job'.entry) \/ job.entry[k] = MAX_ATTEMPTS)
    BY <2>1, <2>4, FailedEntry DEF JobNow
  <2>6. \A l \in Waiting(job.entry) : l # k => l \in Waiting(job'.entry)
    BY <2>5 DEF Waiting
  <2>7. \A a \in Archives : Waiting(meta[a]) \subseteq Kinds
    BY DEF Waiting
  <2> QED
    BY <1>0, <2>1, <2>2, <2>3, <2>4, <2>5, <2>6, <2>7 DEF Reasons
<1>5. ASSUME NEW k \in Kinds, FailsForGood(k) PROVE Reasons'
  <2>1. job'.phase = "send" /\ DOMAIN job'.save = {}
    BY <1>5, FailsForGoodEffect DEF FailsForGood, NextKind, Ready, JobNow
  <2> QED
    BY <2>1, ReasonsNothingLeft
<1>6. ASSUME NoteSuccess PROVE Reasons'
  <2> DEFINE older == Superseded(job.arch, job.arrived)
  <2>1. /\ JobNow(job.phase, job.arch, job.kinds, job.entry, job'.arrived,
                  [b \in older |-> Without(meta[b], job.arrived)], job.read)
        /\ meta' = Healed /\ UNCHANGED <<made, local, zip, newest, faults>>
    BY <1>6, NoteSuccessEffect DEF JobNow
  <2>2. Listed' = Listed /\ \A a \in Listed : meta'[a] = meta[a]
    BY <2>1, QueueHealed DEF QueueSame
  <2>3. job.arrived \in Kinds /\ job.arch <= newest[job.arrived]
    BY <1>6, JobFields DEF NoteSuccess, Structure
  <2>4. \A b \in older : b \in Listed /\ b < job.arch /\ b \in Nat
    BY <1>0 DEF Superseded
  <2>5. DOMAIN job'.save = older /\ \A b \in older : job'.save[b] = Without(meta[b], job.arrived)
    BY <2>1 DEF JobNow
  <2>6. \A b \in older : Waiting(job'.save[b]) = Waiting(meta[b]) \ {job.arrived}
    BY <2>3, <2>4, <2>5, ListedAre, WithoutEntry
  <2>7. \A b \in older : newest[job.arrived] >= b
    BY <1>0, <2>3, <2>4
  <2>8. job'.phase = job.phase /\ job'.arch = job.arch /\ job'.kinds = job.kinds /\ job'.read = job.read
        /\ job'.entry = job.entry /\ newest' = newest
    BY <2>1 DEF JobNow
  <2> HIDE DEF older
  <2> QED
    BY <2>2, <2>5, <2>6, <2>7, <2>8 DEF Reasons
<1>7. ASSUME Write PROVE Reasons'
  BY <1>7, QueueWrite, ReasonsSaved
<1>8. ASSUME UnlinkZip PROVE Reasons'
  <2>1. zip' = zip \ {NextToSave} /\ UNCHANGED <<meta, job, newest>>
    BY <1>8 DEF UnlinkZip
  <2> QED
    BY <2>1, QueueLess, ReasonsSameJob
<1>9. ASSUME UnlinkMeta PROVE Reasons'
  <2>1. Saving /\ job' = Saved(NextToSave) /\ newest' = newest
        /\ meta' = [meta EXCEPT ![NextToSave] = NoEntry]
    BY <1>9 DEF UnlinkMeta, Saving
  <2>2. Listed' \subseteq Listed \cup {NextToSave}
    BY <1>9, QueueUnlinkMeta DEF QueueSame
  <2>3. \A a \in Archives \ {NextToSave} : meta'[a] = meta[a]
    BY <2>1 DEF Typed
  <2> QED
    BY <2>1, <2>2, <2>3, ReasonsSaved
<1>10. ASSUME MoveZip PROVE Reasons'
  BY <1>10, MoveZipEffect, ReasonsNothingLeft DEF MoveZip, Sent, Ready, JobNow
<1>11. ASSUME Describe PROVE Reasons'
  BY <1>11, DescribeEffect, ReasonsNothingLeft DEF Describe, Structure, Saving, JobNow
<1>12. ASSUME DropOldest PROVE Reasons'
  <2>1. /\ JobNow("clean", job.arch, job.kinds, job.entry, job.arrived, [a \in EntriesToDrop |-> Empty], job.read)
        /\ meta' = Healed /\ UNCHANGED <<made, local, zip, newest, faults>> /\ job.phase = "drop"
    BY <1>12, DropOldestEffect DEF DropOldest
  <2>2. job'.phase = "clean" /\ job'.arch = made /\ DOMAIN job'.save = EntriesToDrop
    BY <2>1 DEF JobNow, Structure
  <2>3. \A a \in EntriesToDrop : made - a >= MAX_QUEUED_ARCHIVES
    <3> SUFFICES ASSUME NEW a \in EntriesToDrop
                 PROVE  made - a >= MAX_QUEUED_ARCHIVES
      OBVIOUS
    <3>1. a \in Listed /\ Cardinality({b \in Listed : b > a}) >= MAX_QUEUED_ARCHIVES
      BY DEF EntriesToDrop
    <3>2. a \in 1 .. made /\ \A b \in Listed : b \in 1 .. made
      BY <3>1, ListedAre DEF Typed
    <3>3. {b \in Listed : b > a} \in SUBSET ((a + 1) .. made)
      <4>1. \A b \in Listed : b > a => b \in (a + 1) .. made
        BY <1>0, <3>2
      <4> QED
        BY <4>1
    <3>4. IsFiniteSet((a + 1) .. made) /\ Cardinality((a + 1) .. made) = made - a
      <4>1. a + 1 \in Int /\ made \in Int /\ a <= made /\ a \in Int
        BY <1>0, <3>2
      <4>2. IsFiniteSet((a + 1) .. made)
            /\ Cardinality((a + 1) .. made) = IF a + 1 > made THEN 0 ELSE made - (a + 1) + 1
        BY <4>1, FS_Interval
      <4> QED
        BY <4>1, <4>2
    <3>5. Cardinality({b \in Listed : b > a}) <= made - a /\ Cardinality({b \in Listed : b > a}) \in Nat
      BY <3>3, <3>4, FS_Subset, FS_CardinalityType
    <3> QED
      BY <1>0, <3>1, <3>2, <3>5
  <2> QED
    BY <2>2, <2>3 DEF Reasons
<1>13. ASSUME CleanUp \/ EndRetry \/ Crash PROVE Reasons'
  <2>1. job' = Idle
    BY <1>13 DEF CleanUp, EndRetry, Crash
  <2> QED
    BY <1>0, <2>1, IdleJob, ReasonsNothingLeft DEF JobNow
<1>14. ASSUME NEW due \in BOOLEAN, NextEntry(due) PROVE Reasons'
  <2>1. /\ JobNow(job.phase, NextToTry, IF due THEN Waiting(job.read[NextToTry]) ELSE {},
                  job.read[NextToTry], job.arrived, job.save, job'.read)
        /\ DOMAIN job'.read = DOMAIN job.read \ {NextToTry}
        /\ \A b \in DOMAIN job'.read : job'.read[b] = job.read[b]
        /\ UNCHANGED <<made, local, zip, meta, newest, faults>>
    BY <1>14, NextEntryEffect
  <2>2. Listed' = Listed /\ \A a \in Listed : meta'[a] = meta[a]
    BY <2>1, QueueWithoutChange DEF QueueSame
  <2>3. job.phase = "retry" /\ DOMAIN job.save = {} /\ NextToTry \in DOMAIN job.read
    BY <1>14, NextTried DEF NextEntry, Ready
  <2>4. job'.phase = "retry" /\ job'.arch = NextToTry /\ job'.entry = job.read[NextToTry] /\ job'.save = job.save
    BY <2>1, <2>3 DEF JobNow
  <2> QED
    BY <2>1, <2>2, <2>3, <2>4 DEF Reasons
<1>15. ASSUME SaveEntry PROVE Reasons'
  <2>1. /\ JobNow(job.phase, 0, job.kinds, Empty, job.arrived, [a \in {job.arch} |-> job.entry], job.read)
        /\ UNCHANGED <<made, local, zip, meta, newest, faults>>
    BY <1>15, SaveEntryEffect
  <2>2. Listed' = Listed /\ \A a \in Listed : meta'[a] = meta[a]
    BY <2>1, QueueWithoutChange DEF QueueSame
  <2>3. job.phase = "retry"
    BY <1>15 DEF SaveEntry
  <2>4. /\ job'.phase = "retry" /\ job'.arch = 0 /\ job'.read = job.read /\ newest' = newest
        /\ DOMAIN job'.save = {job.arch} /\ job'.save[job.arch] = job.entry
    BY <2>1, <2>3 DEF JobNow
  <2> QED
    BY <1>0, <2>2, <2>3, <2>4 DEF Reasons
<1>16. ASSUME NEW a \in Archives, Discard(a) PROVE Reasons'
  <2>1. zip' = zip \ {a} /\ UNCHANGED <<meta, job, newest>>
    BY <1>16 DEF Discard
  <2> QED
    BY <2>1, QueueLess, ReasonsSameJob
<1>17. ASSUME NEW a \in Archives, Heal(a) PROVE Reasons'
  BY <1>17, QueueHeal, ReasonsSameJob DEF Heal, QueueSame
<1>18. ASSUME NoteFails PROVE Reasons'
  BY <1>0, <1>18, NoteFailsEffect, ReasonsNothingLeft DEF NoteFails, JobNow
<1>19. ASSUME EnqueueFails PROVE Reasons'
  BY <1>19, EnqueueFailsEffect, NoNotes, ReasonsNothingLeft DEF JobNow
<1> QED
  BY <1>1, <1>2, <1>3, <1>4, <1>5, <1>6, <1>7, <1>8, <1>9, <1>10, <1>11, <1>12, <1>13, <1>14,
     <1>15, <1>16, <1>17, <1>18, <1>19 DEF Next, JobStep

-----------------------------------------------------------------------------
(* Order.                                                                  *)

LEMMA OrderedInit ==
  ASSUME Init
  PROVE  Ordered
<1>1. job.phase = "idle" /\ job.save = NoSave /\ Listed = {}
  BY DEF Init, Idle, Listed
<1> QED
  BY <1>1, NoNotes DEF Ordered

LEMMA OrderedSameJob ==
  ASSUME Ordered, job' = job, newest' = newest, Listed' \subseteq Listed,
         \A a \in Listed : meta'[a] = meta[a]
  PROVE  Ordered'
  BY DEF Ordered, Saving

(* Nobody is told of an arrival, and the queue stays as it is.             *)
LEMMA OrderedQuietly ==
  ASSUME Ordered, QueueSame, newest' = newest, job.arrived = 0, 0 \notin Kinds,
         \A a \in DOMAIN job'.save : \A k \in Waiting(job'.save[a]) : newest[k] <= a,
         job'.phase = "retry" =>
           /\ \A k \in job'.kinds : newest[k] <= job'.arch
           /\ job'.arch # 0 => \A k \in Waiting(job'.entry) : newest[k] <= job'.arch
           /\ \A a \in DOMAIN job'.read : \A k \in Waiting(job'.read[a]) : newest[k] <= a
  PROVE  Ordered'
<1>1. \A a \in Listed : Waiting(meta[a]) \subseteq Kinds
  BY DEF Waiting
<1> QED
  BY <1>1 DEF Ordered, QueueSame

LEMMA OrderedSaved ==
  ASSUME Typed, Ordered, Saving, job' = Saved(NextToSave), newest' = newest,
         \A a \in Listed' : \/ a \in Listed /\ a # NextToSave /\ meta'[a] = meta[a]
                            \/ a = NextToSave /\ meta'[a] = job.save[NextToSave]
  PROVE  Ordered'
<1>1. /\ JobNow(job.phase, job.arch, job.kinds, job.entry, job'.arrived, job'.save, job.read)
      /\ DOMAIN job'.save = DOMAIN job.save \ {NextToSave}
      /\ \A b \in DOMAIN job'.save : job'.save[b] = job.save[b]
      /\ job'.arrived = IF DOMAIN job'.save = {} THEN 0 ELSE job.arrived
  BY SavedJob
<1>2. NextToSave \in DOMAIN job.save
  BY NextSaved
<1>3. \A a \in Listed' : \A k \in Waiting(meta'[a]) :
        \/ newest[k] <= a
        \/ job'.arrived = k /\ a < job'.arch /\ a \in DOMAIN job'.save /\ k \notin Waiting(job'.save[a])
  <2> SUFFICES ASSUME NEW a \in Listed', NEW k \in Waiting(meta'[a])
               PROVE  \/ newest[k] <= a
                      \/ job'.arrived = k /\ a < job'.arch /\ a \in DOMAIN job'.save
                           /\ k \notin Waiting(job'.save[a])
    OBVIOUS
  <2>1. CASE a = NextToSave /\ meta'[a] = job.save[NextToSave]
    BY <1>2, <2>1 DEF Ordered
  <2>2. CASE a \in Listed /\ a # NextToSave /\ meta'[a] = meta[a]
    BY <1>1, <2>2 DEF Ordered, JobNow
  <2> QED
    BY <2>1, <2>2
<1>4. /\ job'.phase = job.phase /\ job'.arch = job.arch /\ job'.kinds = job.kinds
      /\ job'.entry = job.entry /\ job'.read = job.read
  BY <1>1 DEF JobNow
<1> QED
  BY <1>1, <1>3, <1>4 DEF Ordered

LEMMA OrderedKept ==
  ASSUME Typed, Structure, Ordered, Next, faults' = 0
  PROVE  Ordered'
<1>0. /\ made \in Nat /\ job.arch \in Nat /\ job.phase \in Phases /\ DOMAIN NoSave = {}
      /\ Listed \subseteq Archives /\ 0 \notin Archives /\ \A a \in Archives : a \in Nat
      /\ 0 \notin Kinds /\ faults \in Nat
      /\ \A k \in Kinds : newest[k] \in Nat /\ newest[k] <= made
      /\ \A e : Waiting(e) \subseteq Kinds
  BY Numbers, JobFields, ListedAre, NoNotes DEF Typed, Archives, Waiting
<1>1. ASSUME BeginBackup PROVE Ordered'
  <2>1. JobNow("send", made', Kinds, Empty, 0, NoSave, NoSave) /\ UNCHANGED <<zip, meta, newest>>
        /\ job.phase = "idle"
    BY <1>1, BeginBackupEffect DEF BeginBackup
  <2>2. job.arrived = 0 /\ job'.phase = "send" /\ DOMAIN job'.save = {}
    BY <1>0, <2>1 DEF Structure, JobNow
  <2> QED
    BY <1>0, <2>1, <2>2, QueueWithoutChange, OrderedQuietly
<1>2. ASSUME BeginRetry PROVE Ordered'
  <2>1. /\ JobNow("retry", 0, {}, Empty, 0, NoSave, [a \in Listed |-> meta[a]])
        /\ meta' = Healed /\ UNCHANGED <<made, local, zip, newest, faults>> /\ job.phase = "idle"
    BY <1>2, BeginRetryEffect DEF BeginRetry
  <2>2. job.arrived = 0
    BY <2>1 DEF Structure
  <2>3. \A a \in Listed : \A k \in Waiting(meta[a]) : newest[k] <= a
    BY <1>0, <2>2 DEF Ordered
  <2>4. job'.phase = "retry" /\ job'.arch = 0 /\ job'.kinds = {} /\ DOMAIN job'.save = {}
        /\ job'.read = [a \in Listed |-> meta[a]]
    BY <1>0, <2>1 DEF JobNow
  <2>5. DOMAIN job'.read = Listed /\ \A a \in Listed : job'.read[a] = meta[a]
    BY <2>4
  <2> QED
    BY <1>0, <2>1, <2>2, <2>3, <2>4, <2>5, QueueHealed, OrderedQuietly
<1>3. ASSUME NEW k \in Kinds, Arrives(k) PROVE Ordered'
  <2>1. /\ JobNow(job.phase, job.arch, job.kinds \ {k}, Without(job.entry, k), k, job.save, job.read)
        /\ newest' = [newest EXCEPT ![k] = IF @ < job.arch THEN job.arch ELSE @]
        /\ UNCHANGED <<made, local, zip, meta, faults>>
    BY <1>3, ArrivesEffect
  <2>2. Listed' = Listed /\ \A a \in Listed : meta'[a] = meta[a]
    BY <2>1, QueueWithoutChange DEF QueueSame
  <2>3. newest'[k] = (IF newest[k] < job.arch THEN job.arch ELSE newest[k])
        /\ \A l \in Kinds : l # k => newest'[l] = newest[l]
    BY <2>1 DEF Typed
  <2>4. job.arrived = 0 /\ DOMAIN job.save = {} /\ k \in job.kinds
    BY <1>3 DEF Arrives, NextKind, Ready
  <2>5. job.entry \in Entry /\ job.kinds \subseteq Kinds
    BY JobFields
  <2>6. job'.phase = job.phase /\ job'.arch = job.arch /\ job'.kinds = job.kinds \ {k}
        /\ job'.save = job.save /\ job'.read = job.read /\ job'.arrived = k
        /\ Waiting(job'.entry) = Waiting(job.entry) \ {k}
    BY <2>1, <2>5, WithoutEntry DEF JobNow
  <2>7. \A a \in Listed : \A l \in Waiting(meta[a]) : newest[l] <= a
    BY <1>0, <2>4 DEF Ordered
  <2>8. \A a \in Listed' : \A l \in Waiting(meta'[a]) : newest'[l] <= a \/ (k = l /\ a < job.arch)
    <3> SUFFICES ASSUME NEW a \in Listed, NEW l \in Waiting(meta[a])
                 PROVE  newest'[l] <= a \/ (k = l /\ a < job.arch)
      BY <2>2
    <3>1. newest[l] <= a /\ a \in Nat /\ l \in Kinds
      BY <1>0, <2>7
    <3> QED
      BY <1>0, <2>3, <3>1
  <2>9. ~Saving'
    BY <2>4, <2>6 DEF Saving
  <2>10. ASSUME job.phase = "retry"
         PROVE  /\ \A l \in job'.kinds : newest'[l] <= job.arch
                /\ \A l \in Waiting(job'.entry) : job.arch # 0 => newest'[l] <= job.arch
                /\ \A a \in DOMAIN job.read : \A l \in Waiting(job.read[a]) : newest'[l] <= a
    <3>1. newest'[k] = job.arch
      BY <1>0, <2>3, <2>4, <2>10 DEF Ordered
    <3>2. \A l \in job'.kinds : newest'[l] <= job.arch
      BY <2>3, <2>5, <2>6, <2>10 DEF Ordered
    <3>3. \A l \in Waiting(job'.entry) : job.arch # 0 => newest'[l] <= job.arch
      BY <1>0, <2>3, <2>6, <2>10 DEF Ordered
    <3>4. \A a \in DOMAIN job.read : a \in Nat /\ job.arch < a
      BY <1>0, <2>10, JobFields, NotesAre DEF Structure
    <3>5. \A a \in DOMAIN job.read : \A l \in Waiting(job.read[a]) : newest'[l] <= a
      <4> SUFFICES ASSUME NEW a \in DOMAIN job.read, NEW l \in Waiting(job.read[a])
                   PROVE  newest'[l] <= a
        OBVIOUS
      <4>1. newest[l] <= a /\ l \in Kinds
        BY <1>0, <2>10 DEF Ordered
      <4> QED
        BY <1>0, <2>3, <3>1, <3>4, <4>1
    <3> QED
      BY <3>2, <3>3, <3>5
  <2> QED
    BY <2>4, <2>6, <2>8, <2>9, <2>10 DEF Ordered
<1>4. ASSUME NEW k \in Kinds, Fails(k) PROVE Ordered'
  <2>1. /\ JobNow(job.phase, job.arch, job.kinds \ {k}, Failed(job.entry, k), job.arrived, job.save, job.read)
        /\ UNCHANGED <<made, local, zip, meta, newest, faults>>
    BY <1>4, FailsEffect
  <2>2. DOMAIN job.save = {} /\ k \in job.kinds /\ job.arrived = 0
    BY <1>4 DEF Fails, NextKind, Ready
  <2>3. job.entry \in Entry
    BY JobFields
  <2>4. job'.phase = job.phase /\ job'.arch = job.arch /\ job'.kinds = job.kinds \ {k}
        /\ job'.save = job.save /\ job'.read = job.read
        /\ Waiting(job'.entry) \subseteq Waiting(job.entry) \cup {k}
    BY <2>1, <2>3, FailedEntry DEF JobNow
  <2>5. job'.phase = "retry" =>
          /\ \A l \in job'.kinds : newest[l] <= job'.arch
          /\ job'.arch # 0 => \A l \in Waiting(job'.entry) : newest[l] <= job'.arch
          /\ \A a \in DOMAIN job'.read : \A l \in Waiting(job'.read[a]) : newest[l] <= a
    BY <2>2, <2>4 DEF Ordered
  <2> QED
    BY <1>0, <2>1, <2>2, <2>4, <2>5, QueueWithoutChange, OrderedQuietly
<1>5. ASSUME NEW k \in Kinds, FailsForGood(k) PROVE Ordered'
  <2>1. job'.phase = "send" /\ DOMAIN job'.save = {} /\ job.arrived = 0 /\ UNCHANGED <<zip, meta, newest>>
    BY <1>5, FailsForGoodEffect DEF FailsForGood, NextKind, Ready, JobNow
  <2> QED
    BY <1>0, <2>1, QueueWithoutChange, OrderedQuietly
<1>6. ASSUME NoteSuccess PROVE Ordered'
  <2> DEFINE older == Superseded(job.arch, job.arrived)
  <2>1. /\ JobNow(job.phase, job.arch, job.kinds, job.entry, IF older = {} THEN 0 ELSE job.arrived,
                  [b \in older |-> Without(meta[b], job.arrived)], job.read)
        /\ meta' = Healed /\ UNCHANGED <<made, local, zip, newest, faults>>
    BY <1>6, NoteSuccessEffect
  <2>2. Listed' = Listed /\ \A a \in Listed : meta'[a] = meta[a]
    BY <2>1, QueueHealed DEF QueueSame
  <2>3. job.arrived \in Kinds /\ DOMAIN job.save = {}
    BY <1>6, JobFields DEF NoteSuccess
  <2>4. \A b : b \in older <=> b \in Listed /\ b < job.arch /\ job.arrived \in Waiting(meta[b])
    BY DEF Superseded
  <2>5. DOMAIN job'.save = older /\ \A b \in older : job'.save[b] = Without(meta[b], job.arrived)
    BY <2>1 DEF JobNow
  <2>6. \A b \in older : Waiting(job'.save[b]) = Waiting(meta[b]) \ {job.arrived}
    BY <2>3, <2>4, <2>5, ListedAre, WithoutEntry
  <2>7. job'.phase = job.phase /\ job'.arch = job.arch /\ job'.kinds = job.kinds /\ job'.read = job.read
        /\ job'.entry = job.entry /\ newest' = newest
        /\ job'.arrived = IF older = {} THEN 0 ELSE job.arrived
    BY <2>1 DEF JobNow
  <2> HIDE DEF older
  <2>8. \A a \in Listed : \A k \in Waiting(meta[a]) :
          \/ newest[k] <= a
          \/ job'.arrived = k /\ a < job.arch /\ a \in older /\ k \notin Waiting(job'.save[a])
    <3> SUFFICES ASSUME NEW a \in Listed, NEW k \in Waiting(meta[a]), ~(newest[k] <= a)
                 PROVE  job'.arrived = k /\ a < job.arch /\ a \in older /\ k \notin Waiting(job'.save[a])
      OBVIOUS
    <3>1. job.arrived = k /\ a < job.arch
      BY DEF Ordered
    <3> QED
      BY <2>4, <2>6, <2>7, <3>1
  <2>9. \A b \in older : \A k \in Waiting(job'.save[b]) : newest[k] <= b
    BY <2>4, <2>6 DEF Ordered
  <2> QED
    BY <2>2, <2>5, <2>7, <2>8, <2>9 DEF Ordered
<1>7. ASSUME Write PROVE Ordered'
  <2>1. \A a \in Listed' : \/ a \in Listed /\ a # NextToSave /\ meta'[a] = meta[a]
                           \/ a = NextToSave /\ meta'[a] = job.save[NextToSave]
    BY <1>0, <1>7, QueueWrite
  <2> QED
    BY <1>7, <2>1, QueueWrite, OrderedSaved
<1>8. ASSUME UnlinkZip PROVE Ordered'
  <2>1. zip' = zip \ {NextToSave} /\ UNCHANGED <<meta, job, newest>>
    BY <1>8 DEF UnlinkZip
  <2> QED
    BY <2>1, QueueLess, OrderedSameJob
<1>9. ASSUME UnlinkMeta PROVE Ordered'
  <2>1. Saving /\ job' = Saved(NextToSave) /\ newest' = newest /\ NextToSave \notin zip
    BY <1>9 DEF UnlinkMeta, Saving
  <2>2. Listed' = Listed /\ \A a \in Listed : meta'[a] = meta[a] /\ a # NextToSave
    BY <1>9, <2>1, QueueUnlinkMeta, ListedAre DEF QueueSame
  <2> QED
    BY <2>1, <2>2, OrderedSaved
<1>10. ASSUME MoveZip PROVE Ordered'
  <2>1. job'.phase = "describe" /\ DOMAIN job'.save = {} /\ job.arrived = 0 /\ newest' = newest
    BY <1>10, MoveZipEffect DEF MoveZip, Sent, Ready, JobNow
  <2> QED
    BY <1>0, <1>10, <2>1, QueueMoveZip, OrderedQuietly
<1>11. ASSUME Describe PROVE Ordered'
  <2>1. job'.phase = "drop" /\ DOMAIN job'.save = {} /\ job.arrived = 0 /\ newest' = newest /\ job.arch = made
    BY <1>11, DescribeEffect DEF Describe, Structure, Saving, JobNow
  <2>2. Listed' = Listed \cup {made} /\ \A a \in Listed : meta'[a] = meta[a]
    BY <1>11, <2>1, QueueDescribe
  <2>3. \A a \in Listed' : \A k \in Waiting(meta'[a]) : newest[k] <= a
    BY <1>0, <2>1, <2>2 DEF Ordered
  <2> QED
    BY <2>1, <2>3 DEF Ordered
<1>12. ASSUME DropOldest PROVE Ordered'
  <2>1. /\ JobNow("clean", job.arch, job.kinds, job.entry, job.arrived, [a \in EntriesToDrop |-> Empty], job.read)
        /\ meta' = Healed /\ UNCHANGED <<made, local, zip, newest, faults>> /\ job.phase = "drop"
    BY <1>12, DropOldestEffect DEF DropOldest
  <2>2. job'.phase = "clean" /\ job.arrived = 0 /\ DOMAIN job'.save = EntriesToDrop
        /\ \A a \in EntriesToDrop : job'.save[a] = Empty
    BY <2>1 DEF JobNow, Structure
  <2> QED
    BY <1>0, <2>1, <2>2, Numbers, QueueHealed, OrderedQuietly
<1>13. ASSUME CleanUp \/ EndRetry PROVE Ordered'
  <2>1. job' = Idle /\ job.arrived = 0 /\ UNCHANGED <<zip, meta, newest>>
    BY <1>13 DEF CleanUp, EndRetry, Sent, Ready, files
  <2>2. job'.phase = "idle" /\ DOMAIN job'.save = {}
    BY <1>0, <2>1, IdleJob DEF JobNow
  <2> QED
    BY <1>0, <2>1, <2>2, QueueWithoutChange, OrderedQuietly
<1>14. ASSUME NEW due \in BOOLEAN, NextEntry(due) PROVE Ordered'
  <2>1. /\ JobNow(job.phase, NextToTry, IF due THEN Waiting(job.read[NextToTry]) ELSE {},
                  job.read[NextToTry], job.arrived, job.save, job'.read)
        /\ DOMAIN job'.read = DOMAIN job.read \ {NextToTry}
        /\ \A b \in DOMAIN job'.read : job'.read[b] = job.read[b]
        /\ UNCHANGED <<made, local, zip, meta, newest, faults>>
    BY <1>14, NextEntryEffect
  <2>2. job.phase = "retry" /\ DOMAIN job.save = {} /\ NextToTry \in DOMAIN job.read /\ job.arrived = 0
    BY <1>14, NextTried DEF NextEntry, Ready
  <2>3. \A l \in Waiting(job.read[NextToTry]) : newest[l] <= NextToTry
    BY <2>2 DEF Ordered
  <2>4. job'.phase = "retry" /\ job'.arch = NextToTry /\ job'.entry = job.read[NextToTry] /\ job'.save = job.save
        /\ job'.kinds \subseteq Waiting(job.read[NextToTry])
    BY <2>1, <2>2 DEF JobNow
  <2>5. \A a \in DOMAIN job'.read : \A k \in Waiting(job'.read[a]) : newest[k] <= a
    BY <2>1, <2>2 DEF Ordered
  <2> QED
    BY <1>0, <2>1, <2>2, <2>3, <2>4, <2>5, QueueWithoutChange, OrderedQuietly
<1>15. ASSUME SaveEntry PROVE Ordered'
  <2>1. /\ JobNow(job.phase, 0, job.kinds, Empty, job.arrived, [a \in {job.arch} |-> job.entry], job.read)
        /\ UNCHANGED <<made, local, zip, meta, newest, faults>>
    BY <1>15, SaveEntryEffect
  <2>2. job.phase = "retry" /\ job.kinds = {} /\ job.arrived = 0 /\ job.arch # 0
    BY <1>15 DEF SaveEntry, Ready
  <2>3. /\ job'.phase = "retry" /\ job'.arch = 0 /\ job'.read = job.read /\ job'.kinds = {}
        /\ DOMAIN job'.save = {job.arch} /\ job'.save[job.arch] = job.entry
    BY <2>1, <2>2 DEF JobNow
  <2>4. \A a \in DOMAIN job'.save : \A k \in Waiting(job'.save[a]) : newest[k] <= a
    BY <2>2, <2>3 DEF Ordered
  <2>5. \A a \in DOMAIN job'.read : \A k \in Waiting(job'.read[a]) : newest[k] <= a
    BY <2>2, <2>3 DEF Ordered
  <2> QED
    BY <1>0, <2>1, <2>2, <2>3, <2>4, <2>5, QueueWithoutChange, OrderedQuietly
<1>16. ASSUME NEW a \in Archives, Discard(a) PROVE Ordered'
  <2>1. zip' = zip \ {a} /\ UNCHANGED <<meta, job, newest>>
    BY <1>16 DEF Discard
  <2> QED
    BY <2>1, QueueLess, OrderedSameJob
<1>17. ASSUME NEW a \in Archives, Heal(a) PROVE Ordered'
  BY <1>17, QueueHeal, OrderedSameJob DEF Heal, QueueSame
<1>18. ~Crash /\ ~NoteFails /\ ~EnqueueFails
  BY <1>0 DEF Crash, NoteFails, EnqueueFails
<1> QED
  BY <1>1, <1>2, <1>3, <1>4, <1>5, <1>6, <1>7, <1>8, <1>9, <1>10, <1>11, <1>12, <1>13, <1>14,
     <1>15, <1>16, <1>17, <1>18 DEF Next, JobStep

-----------------------------------------------------------------------------
(* The theorems.                                                           *)

LEMMA FaultsGrow ==
  ASSUME Next
  PROVE  faults' = faults \/ faults' = faults + 1
  BY DEF Next, JobStep, BeginBackup, BeginRetry, Arrives, Fails, FailsForGood, NoteSuccess, Write, UnlinkZip,
     UnlinkMeta, MoveZip, Describe, DropOldest, CleanUp, NextEntry, SaveEntry, EndRetry, Discard, Heal,
     Crash, NoteFails, EnqueueFails

LEMMA BackupInvInit ==
  ASSUME Init
  PROVE  BackupInv
  BY TypedInit, StructureInit, DiskInit, ReasonsInit, OrderedInit DEF BackupInv

LEMMA BackupInvStep ==
  ASSUME BackupInv, [Next]_vars
  PROVE  BackupInv'
<1>1. CASE Next
  <2>1. Typed' /\ Structure' /\ Disk' /\ Reasons'
    BY <1>1, TypedKept, StructureKept, DiskKept, ReasonsKept DEF BackupInv
  <2>2. ASSUME faults' = 0 PROVE Ordered'
    <3>1. faults = 0
      BY <1>1, <2>2, FaultsGrow DEF BackupInv, Typed
    <3> QED
      BY <1>1, <2>2, <3>1, OrderedKept DEF BackupInv
  <2> QED
    BY <2>1, <2>2 DEF BackupInv
<1>2. CASE UNCHANGED vars
  <2>1. Typed'
    BY <1>2 DEF BackupInv, Typed, vars
  <2>2. Listed' = Listed /\ Saving' = Saving
    BY <1>2 DEF Listed, Saving, vars
  <2>3. Structure'
    BY <1>2, <2>2 DEF BackupInv, Structure, vars
  <2>4. Disk'
    BY <1>2, <2>2 DEF BackupInv, Disk, vars
  <2>5. Reasons'
    BY <1>2, <2>2 DEF BackupInv, Reasons, vars
  <2>6. (faults = 0 => Ordered)'
    BY <1>2, <2>2 DEF BackupInv, Ordered, vars
  <2> QED
    BY <2>1, <2>3, <2>4, <2>5, <2>6 DEF BackupInv
<1> QED
  BY <1>1, <1>2

(* In every state of every behaviour, whatever is refused, discarded or    *)
(* killed, the files and the job fit together as BackupInv says.           *)
THEOREM BackupInvHolds == Spec => []BackupInv
<1>1. Init => BackupInv
  BY BackupInvInit
<1>2. BackupInv /\ [Next]_vars => BackupInv'
  BY BackupInvStep
<1> QED
  BY <1>1, <1>2, PTL DEF Spec

(* The files of the queue and the descriptions in memory stay well formed; *)
(* no kind is ever queued with more attempts than RETRY_DELAYS_MIN has.    *)
THEOREM TypeCorrect == Spec => []TypeOK
<1>1. BackupInv => TypeOK
  BY Numbers, JobFields DEF BackupInv, Typed, TypeOK, Phases
<1> QED
  BY <1>1, BackupInvHolds, PTL

(* The archives on the server's disk never exceed MAX_QUEUED_ARCHIVES, one *)
(* for each fault and the one of the running backup: enqueue and           *)
(* run_scheduled_backup leave nothing behind that is not counted.          *)
THEOREM DiskBoundedHolds == Spec => []DiskBounded
<1>1. ASSUME BackupInv PROVE DiskBounded
  <2>1. Typed /\ Disk
    BY <1>1 DEF BackupInv
  <2> QED
    BY <2>1, Counted DEF Disk, DiskBounded
<1> QED
  BY <1>1, BackupInvHolds, PTL

(* As long as no process died and no file operation was refused, no        *)
(* archive is tried at a destination for which deliver_to has reported a   *)
(* newer one, whether the attempt then succeeds or fails.                  *)
THEOREM NothingOlderSentHolds == Spec => NothingOlderSent
<1> DEFINE A == \A k \in job.kinds \ job'.kinds : faults' = 0 => newest[k] <= job.arch
<1>1. ASSUME BackupInv, [Next]_vars PROVE A
  <2> SUFFICES ASSUME NEW k \in job.kinds, k \notin job'.kinds, faults' = 0
               PROVE  newest[k] <= job.arch
    OBVIOUS
  <2>1. Typed /\ Structure
    BY <1>1 DEF BackupInv
  <2>2. Next /\ k \in Kinds
    BY <1>1, <2>1, JobFields DEF vars
  <2>3. faults = 0 /\ Ordered
    BY <1>1, <2>1, <2>2, FaultsGrow DEF BackupInv, Typed
  <2>4. job.phase = "send" \/ job.phase = "retry"
    BY <2>1, JobFields DEF Structure, Phases
  <2>5. CASE job.phase = "send"
    <3>1. job.arch = made /\ newest[k] \in 0 .. made
      BY <2>1, <2>2, <2>5 DEF Structure, Typed
    <3> QED
      BY <3>1
  <2>6. CASE job.phase = "retry"
    BY <2>3, <2>6 DEF Ordered
  <2> QED
    BY <2>4, <2>5, <2>6
<1>2. NothingOlderSent <=> [][A]_vars
  BY DEF NothingOlderSent
<1> HIDE DEF A
<1> QED
  BY <1>1, <1>2, BackupInvHolds, PTL DEF Spec

(* An entry gives a destination up only when this archive or a newer one   *)
(* was reported as delivered there, when it was tried often enough,        *)
(* discarded by hand or pushed out by newer backups, even when a job works *)
(* with descriptions that it read long before.                             *)
THEOREM LeavesForAReasonHolds == Spec => LeavesForAReason
<1> DEFINE R(a, k) == \/ newest[k] >= a
                      \/ meta[a][k] = MAX_ATTEMPTS /\ job.phase = "retry"
                      \/ Discard(a) /\ ~(a \in DOMAIN job.save /\ Waiting(job.save[a]) = {})
                      \/ job.phase = "clean" /\ job.arch - a >= MAX_QUEUED_ARCHIVES
           A == \A a \in Archives, k \in Kinds : Queued(a, k) /\ ~Queued(a, k)' => R(a, k)
<1>1. ASSUME BackupInv, [Next]_vars PROVE A
  <2> SUFFICES ASSUME NEW a \in Archives, NEW k \in Kinds, Queued(a, k), ~Queued(a, k)'
               PROVE  R(a, k)
    OBVIOUS
  <2>1. Typed /\ Structure /\ Reasons
    BY <1>1 DEF BackupInv
  <2>2. a \in Listed /\ k \in Waiting(meta[a])
    BY DEF Queued
  <2>3. ASSUME a \in Listed', meta'[a] = meta[a] PROVE FALSE
    BY <2>2, <2>3 DEF Queued, Waiting
  <2>4. ~QueueSame
    BY <2>2, <2>3 DEF QueueSame
  <2>5. ASSUME a \in DOMAIN job.save, k \notin Waiting(job.save[a]) PROVE R(a, k)
    BY <2>1, <2>2, <2>5 DEF Reasons
  <2>6. Next
    BY <1>1, <2>1, <2>4, QueueWithoutChange DEF vars
  <2>7. CASE Write
    <3>1. a = NextToSave
      BY <2>1, <2>2, <2>3, <2>7, QueueWrite
    <3>2. a \in Listed' /\ meta'[a] = job.save[a] /\ a \in DOMAIN job.save
      BY <2>1, <2>2, <2>7, <3>1, QueueWrite
    <3>3. k \notin Waiting(job.save[a])
      BY <3>2 DEF Queued, Waiting
    <3> QED
      BY <2>5, <3>2, <3>3
  <2>8. CASE UnlinkZip
    <3>1. zip' = zip \ {NextToSave} /\ meta' = meta /\ Saving /\ Waiting(job.save[NextToSave]) = {}
      BY <2>8 DEF UnlinkZip, Saving
    <3>2. a = NextToSave
      BY <2>1, <2>2, <2>3, <3>1, QueueLess
    <3>3. a \in DOMAIN job.save /\ k \notin Waiting(job.save[a])
      BY <2>1, <3>1, <3>2, NextSaved
    <3> QED
      BY <2>5, <3>3
  <2>9. CASE Describe
    BY <2>1, <2>2, <2>3, <2>9, QueueDescribe
  <2>10. ASSUME NEW b \in Archives, Discard(b) PROVE R(a, k)
    <3>1. zip' = zip \ {b} /\ meta' = meta
      BY <2>10 DEF Discard
    <3>2. a = b
      BY <2>1, <2>2, <2>3, <3>1, QueueLess
    <3>3. CASE a \in DOMAIN job.save /\ Waiting(job.save[a]) = {}
      BY <2>5, <3>3
    <3>4. CASE ~(a \in DOMAIN job.save /\ Waiting(job.save[a]) = {})
      BY <2>10, <3>2, <3>4
    <3> QED
      BY <3>3, <3>4
  <2> HIDE DEF R
  <2>11. ASSUME zip' = zip, meta' = meta PROVE FALSE
    BY <2>1, <2>4, <2>11, QueueWithoutChange
  <2>12. ASSUME zip' = zip, meta' = Healed PROVE FALSE
    BY <2>1, <2>4, <2>12, QueueHealed
  <2>13. ~BeginBackup /\ ~Crash /\ ~NoteFails /\ ~EnqueueFails /\ ~CleanUp /\ ~SaveEntry /\ ~EndRetry
         /\ (\A l \in Kinds : ~Arrives(l) /\ ~Fails(l) /\ ~FailsForGood(l))
         /\ (\A due \in BOOLEAN : ~NextEntry(due))
    BY <2>11 DEF BeginBackup, Crash, NoteFails, EnqueueFails, CleanUp, SaveEntry, EndRetry,
                 Arrives, Fails, FailsForGood, NextEntry, files
  <2>14. ~BeginRetry /\ ~NoteSuccess /\ ~DropOldest
    BY <2>12 DEF BeginRetry, NoteSuccess, DropOldest
  <2>15. ~MoveZip /\ ~UnlinkMeta /\ \A b \in Archives : ~Heal(b)
    BY <2>1, <2>4, QueueMoveZip, QueueUnlinkMeta, QueueHeal
  <2> QED
    BY <2>6, <2>7, <2>8, <2>9, <2>10, <2>13, <2>14, <2>15 DEF Next, JobStep
<1>2. LeavesForAReason <=> [][A]_vars
  BY DEF LeavesForAReason
<1> HIDE DEF A
<1> QED
  BY <1>1, <1>2, BackupInvHolds, PTL DEF Spec
==============================================================================
