-------------------------- MODULE ModelSlotProofs --------------------------
(***************************************************************************)
(* Proofs about ModelSlot for every value of its constants.                *)
(*                                                                         *)
(* Each invariant needs to know more of the job that holds the slot:       *)
(* RecordsInv where it stands while the records name it, LossInv that the  *)
(* settings have moved on once the session lost the GPU.                   *)
(***************************************************************************)
EXTENDS ModelSlot, TLAPS

\* The steps at which a lease may have a record of its own.
Leased == {"running", "rebuilding", "releasing", "ending"}

\* Records that the file agrees with, and that are empty once they ended.
Current(r) ==
  /\ r.written = Activity(r)
  /\ r.ended => r.job = NoModel /\ r.model = NoModel

\* A loaded model's record is that of the session on the GPU.
ModelRecordHasItsSession ==
  records.model # NoModel => slot.gpu /\ slot.model = records.model

SessionIsRecorded ==
  /\ slot.gpu => slot.model \in Model
  /\ slot.gpu /\ ~records.ended => records.model = slot.model

\* What the job that holds the slot has recorded of its work.  Its record ends with
\* the creation or the lease that began it.
JobIsRecorded(j) ==
  /\ records.job # NoModel =>
       \/ At(j) \in {"creating on GPU", "created"}
       \/ At(j) \in Leased /\ job[j].recorded
  /\ slot.gpu /\ records.job # NoModel => records.job = slot.model
  /\ At(j) \in {"placing", "creating on GPU", "creating on CPU"} =>
       ~slot.gpu /\ job[j].model \in Model
  /\ At(j) = "creating on GPU" /\ ~records.ended => records.job = job[j].model
  /\ At(j) \in {"created", "loaded"} => slot.gpu /\ slot.model = job[j].model
  /\ At(j) \in {"running", "rebuilding"} /\ slot.gpu /\ ~records.ended =>
       records.job = slot.model

RecordsInv ==
  /\ ModelRecordHasItsSession /\ SessionIsRecorded
  /\ holder = NoJob => records.job = NoModel
  /\ holder # NoJob => JobIsRecorded(holder)

UsableIn(s) == s.enabled /\ ~s.quarantined

\* Settings that are newer, or no more usable.
Moves(s, t) ==
  \/ s.generation < t.generation
  \/ s.generation = t.generation /\ (UsableIn(t) => UsableIn(s))

\* What was read of generation g is of older settings than s, or knows of a GPU that
\* is usable in s.
Behind(s, g, enabled) ==
  g < s.generation \/ (g = s.generation /\ (UsableIn(s) => enabled))

\* What began on the GPU read that it was usable, if not of older settings.
BegunOnGpu(s, g, enabled) ==
  g < s.generation \/ (g = s.generation /\ enabled)

\* The settings in which a session was begun are not these any more.
Outdated(s, g, enabled) ==
  g < s.generation \/ (g = s.generation /\ enabled /\ ~UsableIn(s))

\* What a job has read of the settings.
JobHasRead(j) ==
  /\ At(j) = "placing" => Behind(setting, job[j].read.generation, job[j].read.enabled)
  /\ At(j) = "creating on GPU" =>
       BegunOnGpu(setting, job[j].read.generation, job[j].read.enabled)

SlotIsBegun == slot.gpu => BegunOnGpu(setting, slot.generation, slot.enabled)
LostIsReleased ==
  slot.lost => /\ holder # NoJob /\ At(holder) = "releasing"
               /\ Outdated(setting, slot.generation, slot.enabled)

LossInv ==
  /\ SlotIsBegun /\ LostIsReleased
  /\ holder # NoJob => JobHasRead(holder)

-----------------------------------------------------------------------------
(* The operators on records. *)

\* What sync writes is what the records say.
LEMMA SyncedIsCurrent ==
  ASSUME NEW r \in RecordStates, r.ended => r.job = NoModel /\ r.model = NoModel
  PROVE  /\ Synced(r) \in RecordStates /\ Current(Synced(r))
         /\ Synced(r).job = r.job /\ Synced(r).model = r.model
         /\ Synced(r).ended = r.ended
  BY DEF Synced, Activity, Current, RecordStates, NoWork

\* A job is named unless the records ended; nothing else changes.
LEMMA BeginJobNames ==
  ASSUME NEW r \in RecordStates, Current(r), NEW m \in Model \cup {NoModel}
  PROVE  /\ BeginJob(r, m) \in RecordStates /\ Current(BeginJob(r, m))
         /\ BeginJob(r, m).job = IF r.ended THEN NoModel ELSE m
         /\ BeginJob(r, m).model = r.model
         /\ BeginJob(r, m).ended = r.ended
<1> DEFINE named == [r EXCEPT !.job = m]
<1>1. CASE r.ended
  BY <1>1 DEF BeginJob, Current
<1>2. CASE ~r.ended
  <2>1. /\ named \in RecordStates /\ named.job = m /\ named.model = r.model
        /\ named.ended = r.ended
    BY <1>2 DEF RecordStates
  <2>2. BeginJob(r, m) = Synced(named)
    BY <1>2 DEF BeginJob
  <2> HIDE DEF named
  <2> QED
    BY <1>2, <2>1, <2>2, SyncedIsCurrent
<1> QED
  BY <1>1, <1>2 DEF RecordStates

\* The job is not named any more; nothing else changes.
LEMMA ForgetJobClears ==
  ASSUME NEW r \in RecordStates, Current(r)
  PROVE  /\ ForgetJob(r) \in RecordStates /\ Current(ForgetJob(r))
         /\ ForgetJob(r).job = NoModel /\ ForgetJob(r).model = r.model
         /\ ForgetJob(r).ended = r.ended
<1> DEFINE cleared == [r EXCEPT !.job = NoModel]
<1>1. /\ cleared \in RecordStates /\ cleared.job = NoModel /\ cleared.model = r.model
      /\ cleared.ended = r.ended
  BY DEF RecordStates
<1>2. ForgetJob(r) = Synced(cleared)
  BY DEF ForgetJob
<1> HIDE DEF cleared
<1> QED
  BY <1>1, <1>2, SyncedIsCurrent DEF Current

\* The model is named unless the records ended.
LEMMA LoadModelNames ==
  ASSUME NEW r \in RecordStates, Current(r), NEW m \in Model \cup {NoModel}
  PROVE  /\ LoadModel(r, m) \in RecordStates /\ Current(LoadModel(r, m))
         /\ LoadModel(r, m).model = IF r.ended THEN NoModel ELSE m
         /\ LoadModel(r, m).job = r.job
         /\ LoadModel(r, m).ended = r.ended
<1> DEFINE named == [r EXCEPT !.model = m]
<1>1. CASE r.ended
  BY <1>1 DEF LoadModel, Current
<1>2. CASE ~r.ended
  <2>1. /\ named \in RecordStates /\ named.model = m /\ named.job = r.job
        /\ named.ended = r.ended
    BY <1>2 DEF RecordStates
  <2>2. LoadModel(r, m) = Synced(named)
    BY <1>2 DEF LoadModel
  <2> HIDE DEF named
  <2> QED
    BY <1>2, <2>1, <2>2, SyncedIsCurrent
<1> QED
  BY <1>1, <1>2 DEF RecordStates

\* The model is not named any more.
LEMMA ForgetModelClears ==
  ASSUME NEW r \in RecordStates, Current(r)
  PROVE  /\ ForgetModel(r) \in RecordStates /\ Current(ForgetModel(r))
         /\ ForgetModel(r).model = NoModel /\ ForgetModel(r).job = r.job
         /\ ForgetModel(r).ended = r.ended
<1> DEFINE cleared == [r EXCEPT !.model = NoModel]
<1>1. /\ cleared \in RecordStates /\ cleared.model = NoModel /\ cleared.job = r.job
      /\ cleared.ended = r.ended
  BY DEF RecordStates
<1>2. ForgetModel(r) = Synced(cleared)
  BY DEF ForgetModel
<1> HIDE DEF cleared
<1> QED
  BY <1>1, <1>2, SyncedIsCurrent DEF Current

\* The records end with nothing named.
LEMMA EndRecordsClears ==
  ASSUME NEW r \in RecordStates
  PROVE  /\ EndRecords(r) \in RecordStates /\ Current(EndRecords(r))
         /\ EndRecords(r).job = NoModel /\ EndRecords(r).model = NoModel
         /\ EndRecords(r).ended = TRUE
<1> DEFINE cleared == [r EXCEPT !.ended = TRUE, !.job = NoModel, !.model = NoModel]
<1>1. /\ cleared \in RecordStates /\ cleared.model = NoModel /\ cleared.job = NoModel
      /\ cleared.ended = TRUE
  BY DEF RecordStates
<1>2. EndRecords(r) = Synced(cleared)
  BY DEF EndRecords
<1> HIDE DEF cleared
<1> QED
  BY <1>1, <1>2, SyncedIsCurrent

-----------------------------------------------------------------------------
(* Types. *)

Ats == Holding \cup {"idle", "released", "locking"}

JobsOK ==
  /\ job \in [Job -> JobStates]
  /\ holder \in Job \cup {NoJob}
  /\ \A j \in Job : holder = j <=> At(j) \in Holding
RecordsOK == records \in RecordStates /\ Current(records)
SettingsOK ==
  /\ setting \in SettingStates
  /\ warm \subseteq Model /\ tools \subseteq Model
  /\ ui \in {"frame", "unloading", "exiting", "ending", "gone"}

Base == TypeOK /\ RecordsOK

\* The parts of the type invariant.
LEMMA BaseParts ==
  /\ Base <=> JobsOK /\ slot \in SlotStates /\ SettingsOK /\ RecordsOK
  /\ Base' <=> JobsOK' /\ slot' \in SlotStates /\ SettingsOK' /\ RecordsOK'
  BY DEF Base, TypeOK, JobsOK, SettingsOK, RecordsOK

\* How a step of a job may change the lock: the job takes it when it enters the
\* steps that hold it, and releases it when it leaves them.
LockFollows(j, at) ==
  \/ holder = NoJob /\ holder' = j /\ at \in Holding
  \/ holder = j /\ holder' = NoJob /\ at \notin Holding
  \/ holder' = holder /\ (at \in Holding <=> At(j) \in Holding)

\* A job that enters a step with its lock keeps the lock in order.
LEMMA JobChanges ==
  ASSUME JobsOK, NEW j \in Job, NEW state \in JobStates,
         job' = [job EXCEPT ![j] = state], LockFollows(j, state.at)
  PROVE  JobsOK'
<1>1. job' \in [Job -> JobStates]
  BY DEF JobsOK
<1>2. \A k \in Job : job'[k] = IF k = j THEN state ELSE job[k]
  BY DEF JobsOK
<1>3. holder' \in Job \cup {NoJob}
  BY DEF JobsOK, LockFollows
<1>4. ASSUME NEW k \in Job PROVE holder' = k <=> job'[k].at \in Holding
  BY <1>2, ModelSlotAssumption DEF JobsOK, LockFollows, At
<1> QED
  BY <1>1, <1>3, <1>4 DEF JobsOK, At

\* A thread that only goes on to another step keeps what it knows.
LEMMA StepKeepsJobs ==
  ASSUME JobsOK, NEW j \in Job, NEW at \in Ats, Step(j, at), LockFollows(j, at)
  PROVE  JobsOK'
<1> DEFINE state == [job[j] EXCEPT !.at = at]
<1>1. state \in JobStates /\ state.at = at
  BY DEF JobsOK, JobStates, Ats
<1>2. job' = [job EXCEPT ![j] = state]
  BY DEF Step
<1> HIDE DEF state
<1> QED
  BY <1>1, <1>2, JobChanges

\* A thread that starts over is idle, or released.
LEMMA IdleIsAJob ==
  /\ Idle \in JobStates /\ Idle.at = "idle"
  /\ [Idle EXCEPT !.at = "released"] \in JobStates
  /\ [Idle EXCEPT !.at = "released"].at = "released"
<1>1. NoReading \in Reads
  BY ModelSlotAssumption DEF NoReading, Reads
<1>2. Idle \in JobStates /\ Idle.at = "idle"
  BY <1>1 DEF Idle, JobStates
<1> QED
  BY <1>2 DEF JobStates

\* What is read of the settings.
LEMMA ReadingIsRead ==
  ASSUME SettingsOK
  PROVE  Reading \in Reads
  BY DEF SettingsOK, Reading, Reads, SettingStates, Usable

\* An unloaded session leaves its record with it.
LEMMA UnloadClears ==
  ASSUME Base, Unload
  PROVE  /\ slot' = EmptySlot /\ slot' \in SlotStates /\ RecordsOK'
         /\ records'.job = records.job /\ records'.ended = records.ended
         /\ records'.model = IF slot.gpu THEN NoModel ELSE records.model
<1>1. slot' = EmptySlot /\ slot' \in SlotStates
  BY ModelSlotAssumption DEF Unload, EmptySlot, SlotStates
<1>2. records \in RecordStates /\ Current(records)
  BY DEF Base, RecordsOK
<1>3. records' = IF slot.gpu THEN ForgetModel(records) ELSE records
  BY DEF Unload, Dropped
<1> QED
  BY <1>1, <1>2, <1>3, ForgetModelClears DEF RecordsOK

\* A reconciliation keeps the session or unloads it.
LEMMA ReconcileChooses ==
  ASSUME NEW reading, Reconcile(reading)
  PROVE  (Retains(reading) /\ UNCHANGED <<slot, records>>) \/ Unload
  BY DEF Reconcile

\* Either way, slot and records keep their types.
LEMMA ReconcileKeeps ==
  ASSUME Base, NEW reading, Reconcile(reading)
  PROVE  slot' \in SlotStates /\ RecordsOK'
<1>1. CASE UNCHANGED <<slot, records>>
  BY <1>1 DEF Base, TypeOK, RecordsOK
<1> QED
  BY <1>1, ReconcileChooses, UnloadClears

\* What a step leaves alone keeps its type.
LEMMA Unchanged ==
  ASSUME Base
  PROVE  /\ UNCHANGED slot => slot' \in SlotStates
         /\ UNCHANGED records => RecordsOK'
         /\ UNCHANGED <<setting, warm, tools, ui>> => SettingsOK'
         /\ UNCHANGED <<holder, job>> => JobsOK'
  BY BaseParts DEF RecordsOK, SettingsOK, JobsOK, At

\* A job that locks the slot.
LEMMA StartKeepsBase ==
  ASSUME Base, NEW j \in Job, Start(j)
  PROVE  Base'
<1> PICK m \in Model, stays \in BOOLEAN : Reuse(j, m, stays) \/ Replace(j, m, stays)
  BY DEF Start
<1>0. JobsOK /\ slot \in SlotStates /\ SettingsOK /\ RecordsOK
  BY BaseParts
<1>1. CASE Reuse(j, m, stays)
  <2>1. RecordsOK'
    BY <1>0, <1>1, BeginJobNames DEF Reuse, RecordsOK
  <2>2. slot' \in SlotStates
    BY <1>0, <1>1 DEF Reuse, SlotStates
  <2>3. JobsOK'
    <3> DEFINE state == [job[j] EXCEPT !.at = "running", !.recorded = slot.gpu]
    <3>1. state \in JobStates /\ state.at = "running"
      BY <1>0 DEF JobsOK, JobStates, SlotStates, Holding
    <3>2. job' = [job EXCEPT ![j] = state] /\ LockFollows(j, "running")
      BY <1>1 DEF Reuse, LockFollows, Holding
    <3> HIDE DEF state
    <3> QED
      BY <1>0, <3>1, <3>2, JobChanges
  <2> QED
    BY <1>1, <2>1, <2>2, <2>3, Unchanged, BaseParts DEF Reuse
<1>2. CASE Replace(j, m, stays)
  <2>1. slot' \in SlotStates /\ RecordsOK'
    BY <1>2, UnloadClears DEF Replace
  <2>2. JobsOK'
    <3> DEFINE state == [Idle EXCEPT !.at = "placing", !.model = m, !.stays = stays,
                                     !.read = Reading]
    <3>1. state \in JobStates /\ state.at = "placing"
      BY <1>0, ReadingIsRead, IdleIsAJob DEF JobStates, Holding
    <3>2. job' = [job EXCEPT ![j] = state] /\ LockFollows(j, "placing")
      BY <1>2 DEF Replace, LockFollows, Holding
    <3> HIDE DEF state
    <3> QED
      BY <1>0, <3>1, <3>2, JobChanges
  <2> QED
    BY <1>2, <2>1, <2>2, Unchanged, BaseParts DEF Replace
<1> QED
  BY <1>1, <1>2

\* A job that goes on, or releases the slot.
LEMMA ContinueKeepsBase ==
  ASSUME Base, NEW j \in Job, Continue(j)
  PROVE  Base'
<1>0. JobsOK /\ slot \in SlotStates /\ SettingsOK /\ RecordsOK
  BY BaseParts
<1>a. job[j] \in JobStates /\ job[j].model \in Model \cup {NoModel} /\ job[j].read \in Reads
  BY <1>0 DEF JobsOK, JobStates
<1>1. CASE Place(j)
  <2>1. PICK at \in {"creating on GPU", "creating on CPU"} : Step(j, at)
    BY <1>1 DEF Place
  <2>2. JobsOK'
    BY <1>0, <1>1, <2>1, StepKeepsJobs DEF Place, LockFollows, At, Ats, Holding
  <2>3. RecordsOK'
    <3>1. records' = BeginJob(records, job[j].model) \/ UNCHANGED records
      BY <1>1 DEF Place
    <3>2. CASE UNCHANGED records
      BY <3>2, Unchanged
    <3>3. CASE records' = BeginJob(records, job[j].model)
      BY <1>0, <1>a, <3>3, BeginJobNames DEF RecordsOK
    <3> QED
      BY <3>1, <3>2, <3>3
  <2> QED
    BY <1>1, <2>2, <2>3, Unchanged, BaseParts DEF Place
<1>2. CASE CreateOnGpu(j) \/ CreateOnCpu(j)
  <2>1. PICK at \in {"created", "running"} : Step(j, at)
    BY <1>2 DEF CreateOnGpu, CreateOnCpu
  <2>2. JobsOK'
    BY <1>0, <1>2, <2>1, StepKeepsJobs
    DEF CreateOnGpu, CreateOnCpu, LockFollows, At, Ats, Holding
  <2>3. RecordsOK'
    <3>1. records' = LoadModel(records, job[j].model) \/ UNCHANGED records
      BY <1>2 DEF CreateOnGpu, CreateOnCpu
    <3> QED
      BY <1>0, <1>a, <3>1, LoadModelNames, Unchanged DEF RecordsOK
  <2>4. slot' \in SlotStates
    <3>1. PICK gpu \in BOOLEAN : slot' = Session(j, gpu)
      BY <1>2 DEF CreateOnGpu, CreateOnCpu
    <3>2. /\ job[j].stays \in BOOLEAN /\ job[j].read.generation \in 0..MaxGeneration
          /\ job[j].read.enabled \in BOOLEAN
      BY <1>a DEF JobStates, Reads
    <3> QED
      BY <1>a, <3>1, <3>2 DEF Session, SlotStates
  <2> QED
    BY <1>2, <2>2, <2>3, <2>4, Unchanged, BaseParts DEF CreateOnGpu, CreateOnCpu
<1>3. CASE EndCreation(j) \/ GpuCreationFails(j)
  <2>1. PICK at \in {"loaded", "placing", "creating on CPU"} : Step(j, at)
    BY <1>3 DEF EndCreation, GpuCreationFails
  <2>2. JobsOK'
    BY <1>0, <1>3, <2>1, StepKeepsJobs
    DEF EndCreation, GpuCreationFails, LockFollows, At, Ats, Holding
  <2>3. RecordsOK'
    BY <1>0, <1>3, ForgetJobClears DEF EndCreation, GpuCreationFails, RecordsOK
  <2> QED
    BY <1>3, <2>2, <2>3, Unchanged, BaseParts DEF EndCreation, GpuCreationFails
<1>4. CASE Lease(j)
  <2>1. RecordsOK'
    BY <1>0, <1>a, <1>4, BeginJobNames DEF Lease, RecordsOK
  <2>2. JobsOK'
    <3> DEFINE state == [job[j] EXCEPT !.at = "running", !.recorded = TRUE]
    <3>1. state \in JobStates /\ state.at = "running"
      BY <1>0 DEF JobsOK, JobStates, Holding
    <3>2. job' = [job EXCEPT ![j] = state] /\ LockFollows(j, "running")
      BY <1>4 DEF Lease, LockFollows, Holding, At
    <3> HIDE DEF state
    <3> QED
      BY <1>0, <3>1, <3>2, JobChanges
  <2> QED
    BY <1>4, <2>1, <2>2, Unchanged, BaseParts DEF Lease
<1>5. CASE CreationFails(j)
  <2>1. LockFollows(j, "idle")
    BY <1>0, <1>5 DEF CreationFails, LockFollows, JobsOK, At, Holding
  <2>2. JobsOK'
    BY <1>0, <1>5, <2>1, IdleIsAJob, JobChanges DEF CreationFails
  <2> QED
    BY <1>5, <2>2, Unchanged, BaseParts DEF CreationFails
<1>6. CASE RunLosesGpu(j) \/ RunFails(j) \/ EndRun(j)
  <2>1. PICK at \in {"releasing", "rebuilding"} : Step(j, at)
    BY <1>6 DEF RunLosesGpu, RunFails, EndRun
  <2>2. JobsOK'
    BY <1>0, <1>6, <2>1, StepKeepsJobs
    DEF RunLosesGpu, RunFails, EndRun, LockFollows, At, Ats, Holding
  <2>3. SettingsOK' /\ slot' \in SlotStates
    BY <1>0, <1>6 DEF RunLosesGpu, RunFails, EndRun, SettingsOK, SettingStates, SlotStates
  <2>4. RecordsOK'
    BY <1>6, Unchanged DEF RunLosesGpu, RunFails, EndRun
  <2> QED
    BY <2>2, <2>3, <2>4, BaseParts
<1>7. CASE Rebuild(j)
  <2>1. PICK at \in {"running", "releasing"} : Step(j, at)
    BY <1>7 DEF Rebuild
  <2>2. JobsOK'
    BY <1>0, <1>7, <2>1, StepKeepsJobs DEF Rebuild, LockFollows, At, Ats, Holding
  <2>3. RecordsOK'
    BY <1>0, <1>7, ForgetModelClears, Unchanged DEF Rebuild, RecordsOK
  <2>4. slot' \in SlotStates
    BY <1>0, <1>7 DEF Rebuild, SlotStates
  <2> QED
    BY <1>7, <2>2, <2>3, <2>4, Unchanged, BaseParts DEF Rebuild
<1>8. CASE Reconciled(j)
  <2>1. slot' \in SlotStates /\ RecordsOK'
    BY <1>8, ReconcileKeeps, UnloadClears DEF Reconciled
  <2>2. JobsOK'
    BY <1>0, <1>8, StepKeepsJobs DEF Reconciled, LockFollows, At, Ats, Holding
  <2> QED
    BY <1>8, <2>1, <2>2, Unchanged, BaseParts DEF Reconciled
<1>9. CASE Release(j)
  <2>1. RecordsOK'
    BY <1>0, <1>9, ForgetJobClears DEF Release, RecordsOK
  <2>2. LockFollows(j, "released")
    BY <1>0, <1>9 DEF Release, LockFollows, JobsOK, At, Holding
  <2>3. JobsOK'
    BY <1>0, <1>9, <2>2, IdleIsAJob, JobChanges DEF Release
  <2> QED
    BY <1>9, <2>1, <2>3, Unchanged, BaseParts DEF Release
<1>10. CASE ReadAgain(j)
  <2>1. JobsOK'
    <3> DEFINE state == [job[j] EXCEPT !.at = "locking", !.read = Reading]
    <3>1. state \in JobStates /\ state.at = "locking"
      BY <1>0, ReadingIsRead DEF JobsOK, JobStates, Holding
    <3>2. job' = [job EXCEPT ![j] = state] /\ LockFollows(j, "locking")
      BY <1>10 DEF ReadAgain, LockFollows, Holding, At
    <3> HIDE DEF state
    <3> QED
      BY <1>0, <3>1, <3>2, JobChanges
  <2> QED
    BY <1>10, <2>1, Unchanged, BaseParts DEF ReadAgain
<1>11. CASE TryLock(j)
  <2>1. CASE holder = NoJob
    BY <1>0, <1>11, <2>1, StepKeepsJobs, Unchanged, BaseParts
    DEF TryLock, LockFollows, Ats, Holding
  <2>2. CASE holder # NoJob
    <3>1. job' = [job EXCEPT ![j] = Idle] /\ LockFollows(j, "idle")
      BY <1>11, <2>2 DEF TryLock, LockFollows, Holding, At
    <3>2. JobsOK'
      BY <1>0, <3>1, IdleIsAJob, JobChanges
    <3> QED
      BY <1>11, <3>2, Unchanged, BaseParts DEF TryLock
  <2> QED
    BY <2>1, <2>2
<1>12. CASE ReconcileAgain(j)
  <2>1. slot' \in SlotStates /\ RecordsOK'
    BY <1>12, ReconcileKeeps DEF ReconcileAgain
  <2>2. LockFollows(j, "idle")
    BY <1>0, <1>12 DEF ReconcileAgain, LockFollows, JobsOK, At, Holding
  <2>3. JobsOK'
    BY <1>0, <1>12, <2>2, IdleIsAJob, JobChanges DEF ReconcileAgain
  <2> QED
    BY <1>12, <2>1, <2>3, Unchanged, BaseParts DEF ReconcileAgain
<1> QED
  BY <1>1, <1>2, <1>3, <1>4, <1>5, <1>6, <1>7, <1>8, <1>9, <1>10, <1>11, <1>12
  DEF Continue

\* The UI thread.
LEMMA UiKeepsBase ==
  ASSUME Base, Frame \/ User
  PROVE  Base'
<1>0. JobsOK /\ slot \in SlotStates /\ SettingsOK /\ RecordsOK
  BY BaseParts
<1>1. CASE SetWarm \/ Exit \/ \E models \in SUBSET Model : PickTools(models)
  <2>1. SettingsOK'
    BY <1>0, <1>1 DEF SetWarm, Exit, PickTools, SettingsOK
  <2> QED
    BY <1>1, <2>1, Unchanged, BaseParts DEF SetWarm, Exit, PickTools
<1>2. CASE UnloadCold
  <2>1. slot' \in SlotStates /\ RecordsOK'
    BY <1>2, ReconcileKeeps, Unchanged DEF UnloadCold
  <2>2. SettingsOK'
    BY <1>0, <1>2 DEF UnloadCold, SettingsOK
  <2> QED
    BY <1>2, <2>1, <2>2, Unchanged, BaseParts DEF UnloadCold
<1>3. CASE SeeLoss \/ \E enabled \in BOOLEAN : SwitchGpu(enabled)
  <2>1. SettingsOK'
    <3>1. CASE SeeLoss
      <4>1. CASE setting.enabled
        <5>1. /\ setting' = [setting EXCEPT !.lost = FALSE, !.enabled = FALSE,
                                           !.generation = @ + 1]
              /\ setting'.generation <= MaxGeneration
          BY <3>1, <4>1 DEF SeeLoss
        <5>2. setting' \in SettingStates
          <6>1. setting.generation + 1 \in 0..MaxGeneration
            BY <1>0, <5>1, ModelSlotAssumption DEF SettingsOK, SettingStates
          <6> QED
            BY <1>0, <5>1, <6>1 DEF SettingsOK, SettingStates
        <5>3. ui' \in {"frame", "unloading", "exiting", "ending", "gone"}
          BY <3>1, <4>1 DEF SeeLoss
        <5>4. warm' \subseteq Model /\ tools' \subseteq Model
          BY <1>0, <3>1 DEF SeeLoss, SettingsOK
        <5> QED
          BY <5>2, <5>3, <5>4 DEF SettingsOK
      <4>2. CASE ~setting.enabled
        BY <1>0, <3>1, <4>2 DEF SeeLoss, SettingsOK, SettingStates
      <4> QED
        BY <4>1, <4>2
    <3>2. CASE \E enabled \in BOOLEAN : SwitchGpu(enabled)
      <4>1. setting.generation + 1 \in 0..MaxGeneration
        BY <1>0, <3>2, ModelSlotAssumption DEF SwitchGpu, SettingsOK, SettingStates
      <4> QED
        BY <1>0, <3>2, <4>1 DEF SwitchGpu, Switch, SettingsOK, SettingStates
    <3> QED
      BY <1>3, <3>1, <3>2
  <2> QED
    BY <1>3, <2>1, Unchanged, BaseParts DEF SeeLoss, SwitchGpu
<1>4. CASE EditorOutOfMemory
  <2>1. CASE Switch(FALSE) /\ UNCHANGED <<slot, records>> /\ setting.generation < MaxGeneration
    <3>1. SettingsOK'
      BY <1>0, <1>4, <2>1, ModelSlotAssumption
      DEF EditorOutOfMemory, Switch, SettingsOK, SettingStates
    <3> QED
      BY <1>4, <2>1, <3>1, Unchanged, BaseParts DEF EditorOutOfMemory
  <2>2. CASE Unload /\ UNCHANGED <<setting, ui>>
    BY <1>4, <2>2, UnloadClears, Unchanged, BaseParts DEF EditorOutOfMemory
  <2> QED
    BY <1>4, <2>1, <2>2 DEF EditorOutOfMemory
<1>5. CASE EndGpuJobRecords
  <2>1. RecordsOK'
    BY <1>0, <1>5, EndRecordsClears DEF EndGpuJobRecords, RecordsOK
  <2>2. SettingsOK'
    BY <1>0, <1>5 DEF EndGpuJobRecords, SettingsOK
  <2> QED
    BY <1>5, <2>1, <2>2, Unchanged, BaseParts DEF EndGpuJobRecords
<1> QED
  BY <1>1, <1>2, <1>3, <1>4, <1>5 DEF Frame, User

\* The types and the file's agreement with the records hold in every behaviour.
LEMMA BaseHolds == Spec => []Base
<1>1. Init => Base
  <2> SUFFICES ASSUME Init PROVE Base
    OBVIOUS
  <2>1. slot \in SlotStates /\ SettingsOK
    BY ModelSlotAssumption DEF Init, EmptySlot, SlotStates, SettingsOK, SettingStates
  <2>2. JobsOK
    BY IdleIsAJob, ModelSlotAssumption DEF Init, JobsOK, At, Holding
  <2>3. RecordsOK
    BY DEF Init, RecordsOK, RecordStates, Current, Activity, NoWork
  <2> QED
    BY <2>1, <2>2, <2>3, BaseParts
<1>2. Base /\ [Next]_vars => Base'
  <2>1. CASE UNCHANGED vars
    BY <2>1, Unchanged, BaseParts DEF vars
  <2> QED
    BY <2>1, StartKeepsBase, ContinueKeepsBase, UiKeepsBase DEF Next
<1> QED
  BY <1>1, <1>2, PTL DEF Spec

\* Every part of the slot, its jobs, the settings and the records keeps its type, and
\* only one job holds the lock, for any models, jobs and changes of the setting.
THEOREM TypeCorrect == Spec => []TypeOK
<1>1. Base => TypeOK
  BY DEF Base
<1> QED
  BY <1>1, BaseHolds, PTL

-----------------------------------------------------------------------------
(* The records. *)

\* What is left of a job's state when it goes on to another step.
LEMMA StepIs ==
  ASSUME JobsOK, NEW j \in Job, NEW at, Step(j, at)
  PROVE  /\ job'[j].at = at /\ job'[j].model = job[j].model
         /\ job'[j].recorded = job[j].recorded /\ job'[j].read = job[j].read
  BY DEF JobsOK, Step, JobStates

\* The job whose step needs the lock holds it.
LEMMA HolderIs ==
  ASSUME Base, NEW j \in Job, At(j) \in Holding
  PROVE  holder = j /\ holder # NoJob
  BY ModelSlotAssumption DEF Base, TypeOK

\* The records of a session that is unloaded.
LEMMA UnloadKeepsRecords ==
  ASSUME Base, RecordsInv, Unload
  PROVE  /\ ModelRecordHasItsSession' /\ SessionIsRecorded'
         /\ records'.job = records.job /\ ~slot'.gpu
  BY UnloadClears DEF RecordsInv, ModelRecordHasItsSession, SessionIsRecorded, EmptySlot

\* Whether a reconciliation keeps the session or not.
LEMMA ReconcileKeepsRecords ==
  ASSUME Base, RecordsInv, NEW reading, Reconcile(reading)
  PROVE  /\ ModelRecordHasItsSession' /\ SessionIsRecorded'
         /\ records'.job = records.job
         /\ slot'.gpu => slot' = slot /\ records' = records
<1>1. CASE UNCHANGED <<slot, records>>
  BY <1>1 DEF RecordsInv, ModelRecordHasItsSession, SessionIsRecorded
<1> QED
  BY <1>1, ReconcileChooses, UnloadKeepsRecords

\* A job that locks the slot finds no record of a job, and begins its own.
LEMMA StartKeepsRecords ==
  ASSUME Base, RecordsInv, NEW j \in Job, Start(j)
  PROVE  RecordsInv'
<1> PICK m \in Model, stays \in BOOLEAN : Reuse(j, m, stays) \/ Replace(j, m, stays)
  BY DEF Start
<1>0. JobsOK /\ slot \in SlotStates /\ SettingsOK /\ RecordsOK
  BY BaseParts
<1>1. CASE Reuse(j, m, stays)
  <2>1. /\ holder = NoJob /\ holder' = j /\ records.job = NoModel /\ slot.model = m
        /\ m # NoModel /\ j # NoJob
    BY <1>1, ModelSlotAssumption DEF Reuse, RecordsInv
  <2>2. slot'.gpu = slot.gpu /\ slot'.model = slot.model
    BY <1>0, <1>1 DEF Reuse, SlotStates
  <2>3. job'[j].at = "running" /\ job'[j].recorded = slot.gpu
    BY <1>0, <1>1 DEF Reuse, JobsOK, JobStates
  <2>4. /\ records'.ended = records.ended /\ records'.model = records.model
        /\ records'.job = IF slot.gpu /\ ~records.ended THEN m ELSE NoModel
    BY <1>0, <1>1, <2>1, BeginJobNames DEF Reuse, RecordsOK
  <2> QED
    BY <2>1, <2>2, <2>3, <2>4
    DEF RecordsInv, ModelRecordHasItsSession, SessionIsRecorded, JobIsRecorded, At, Leased
<1>2. CASE Replace(j, m, stays)
  <2>1. holder = NoJob /\ holder' = j /\ records.job = NoModel /\ j # NoJob
    BY <1>2, ModelSlotAssumption DEF Replace, RecordsInv
  <2>2. job'[j].at = "placing" /\ job'[j].model = m
    BY <1>0, <1>2 DEF Replace, JobsOK, JobStates, Idle
  <2>3. /\ ModelRecordHasItsSession' /\ SessionIsRecorded'
        /\ records'.job = NoModel /\ ~slot'.gpu
    BY <1>2, <2>1, UnloadKeepsRecords DEF Replace
  <2> QED
    BY <2>1, <2>2, <2>3 DEF RecordsInv, JobIsRecorded, At, Leased
<1> QED
  BY <1>1, <1>2

\* A job that goes on, or releases the slot.
LEMMA ContinueKeepsRecords ==
  ASSUME Base, RecordsInv, NEW j \in Job, Continue(j)
  PROVE  RecordsInv'
<1>0. JobsOK /\ slot \in SlotStates /\ SettingsOK /\ RecordsOK
  BY BaseParts
<1>a. job[j] \in JobStates /\ job[j].model \in Model \cup {NoModel} /\ j # NoJob
  BY <1>0, ModelSlotAssumption DEF JobsOK, JobStates
<1>b. records \in RecordStates /\ Current(records)
  BY <1>0 DEF RecordsOK
<1>c. At(j) \in Holding => holder = j /\ JobIsRecorded(j)
  BY HolderIs DEF RecordsInv
<1> USE DEF At, Leased
<1>1. CASE Place(j)
  <2>1. holder' = j /\ slot' = slot /\ JobIsRecorded(j) /\ At(j) = "placing"
    BY <1>1, <1>c DEF Place, Holding
  <2>2. CASE Step(j, "creating on GPU") /\ records' = BeginJob(records, job[j].model)
    <3>1. job'[j].at = "creating on GPU" /\ job'[j].model = job[j].model
      BY <1>0, <2>2, StepIs
    <3>2. /\ records'.job = IF records.ended THEN NoModel ELSE job[j].model
          /\ records'.model = records.model /\ records'.ended = records.ended
      BY <1>a, <1>b, <2>2, BeginJobNames
    <3> QED
      BY <1>a, <2>1, <3>1, <3>2
         DEF RecordsInv, ModelRecordHasItsSession, SessionIsRecorded, JobIsRecorded
  <2>3. CASE Step(j, "creating on CPU") /\ UNCHANGED records
    <3>1. job'[j].at = "creating on CPU" /\ job'[j].model = job[j].model
      BY <1>0, <2>3, StepIs
    <3> QED
      BY <1>a, <2>1, <2>3, <3>1
         DEF RecordsInv, ModelRecordHasItsSession, SessionIsRecorded, JobIsRecorded
  <2> QED
    BY <1>1, <2>2, <2>3 DEF Place
<1>2. CASE CreateOnGpu(j)
  <2>1. holder' = j /\ JobIsRecorded(j) /\ At(j) = "creating on GPU" /\ Step(j, "created")
    BY <1>2, <1>c DEF CreateOnGpu, Holding
  <2>2. slot'.gpu /\ slot'.model = job[j].model
    BY <1>2 DEF CreateOnGpu, Session
  <2>3. /\ records'.model = IF records.ended THEN NoModel ELSE job[j].model
        /\ records'.job = records.job /\ records'.ended = records.ended
    BY <1>2, <1>a, <1>b, LoadModelNames DEF CreateOnGpu
  <2>4. job[j].model \in Model /\ (records.ended => records.job = NoModel)
    BY <2>1, <1>b DEF JobIsRecorded, Current
  <2> QED
    BY <1>0, <1>a, <2>1, <2>2, <2>3, <2>4, StepIs
    DEF RecordsInv, ModelRecordHasItsSession, SessionIsRecorded, JobIsRecorded
<1>3. CASE EndCreation(j)
  <2>1. holder' = j /\ slot' = slot /\ JobIsRecorded(j) /\ At(j) = "created" /\ Step(j, "loaded")
    BY <1>3, <1>c DEF EndCreation, Holding
  <2> QED
    <3>1. job'[j].at = "loaded" /\ job'[j].model = job[j].model
      BY <1>0, <2>1, StepIs
    <3>2. /\ records'.job = NoModel
          /\ records'.model = records.model /\ records'.ended = records.ended
      BY <1>b, <1>3, ForgetJobClears DEF EndCreation
    <3> QED
      BY <1>a, <2>1, <3>1, <3>2
         DEF RecordsInv, ModelRecordHasItsSession, SessionIsRecorded, JobIsRecorded
<1>4. CASE Lease(j)
  <2>1. holder' = j /\ slot' = slot /\ JobIsRecorded(j) /\ At(j) = "loaded"
    BY <1>4, <1>c DEF Lease, Holding
  <2>2. job'[j].at = "running" /\ job'[j].recorded
    BY <1>0, <1>4 DEF Lease, JobsOK, JobStates
  <2>3. /\ records'.job = IF records.ended THEN NoModel ELSE job[j].model
        /\ records'.model = records.model /\ records'.ended = records.ended
    BY <1>4, <1>a, <1>b, BeginJobNames DEF Lease
  <2> QED
    BY <1>a, <2>1, <2>2, <2>3
    DEF RecordsInv, ModelRecordHasItsSession, SessionIsRecorded, JobIsRecorded
<1>5. CASE GpuCreationFails(j)
  <2>1. /\ holder' = j /\ slot' = slot /\ JobIsRecorded(j) /\ At(j) = "creating on GPU"
        /\ records' = ForgetJob(records)
    BY <1>5, <1>c DEF GpuCreationFails, Holding
  <2>2. PICK at \in {"placing", "creating on CPU"} : Step(j, at)
    BY <1>5 DEF GpuCreationFails
  <2> QED
    BY <1>0, <1>a, <1>b, <2>1, <2>2, StepIs, ForgetJobClears
    DEF RecordsInv, ModelRecordHasItsSession, SessionIsRecorded, JobIsRecorded
<1>6. CASE CreateOnCpu(j)
  <2>1. /\ holder' = j /\ records' = records /\ JobIsRecorded(j) /\ At(j) = "creating on CPU"
        /\ Step(j, "running") /\ ~slot'.gpu
    BY <1>6, <1>c DEF CreateOnCpu, Session, Holding
  <2>2. job'[j].at = "running"
    BY <1>0, <2>1, StepIs
  <2> QED
    BY <1>a, <2>1, <2>2 DEF RecordsInv, ModelRecordHasItsSession, SessionIsRecorded, JobIsRecorded
<1>7. CASE CreationFails(j)
  <2>1. /\ holder' = NoJob /\ JobIsRecorded(j) /\ At(j) = "creating on CPU"
        /\ slot' = slot /\ records' = records
    BY <1>7, <1>c DEF CreationFails, Holding
  <2> QED
    BY <2>1 DEF RecordsInv, ModelRecordHasItsSession, SessionIsRecorded, JobIsRecorded
<1>8. CASE RunLosesGpu(j) \/ RunFails(j) \/ EndRun(j)
  <2>1. /\ holder' = j /\ records' = records /\ JobIsRecorded(j) /\ At(j) = "running"
    BY <1>8, <1>c DEF RunLosesGpu, RunFails, EndRun, Holding
  <2>2. slot'.gpu = slot.gpu /\ slot'.model = slot.model
    BY <1>0, <1>8 DEF RunLosesGpu, RunFails, EndRun, SlotStates
  <2>3. PICK at \in {"releasing", "rebuilding"} : Step(j, at)
    BY <1>8 DEF RunLosesGpu, RunFails, EndRun
  <2> QED
    BY <1>0, <1>a, <2>1, <2>2, <2>3, StepIs
    DEF RecordsInv, ModelRecordHasItsSession, SessionIsRecorded, JobIsRecorded
<1>9. CASE Rebuild(j)
  <2>1. holder' = j /\ JobIsRecorded(j) /\ At(j) = "rebuilding"
    BY <1>9, <1>c DEF Rebuild, Holding
  <2>2. CASE /\ slot' = [slot EXCEPT !.gpu = FALSE]
             /\ records' = ForgetModel(records) /\ Step(j, "running")
    <3>1. ~slot'.gpu /\ slot'.model = slot.model
      BY <1>0, <2>2 DEF SlotStates
    <3>2. job'[j].at = "running" /\ job'[j].recorded = job[j].recorded
      BY <1>0, <2>2, StepIs
    <3>3. records'.model = NoModel /\ records'.job = records.job
      BY <1>b, <2>2, ForgetModelClears
    <3> QED
      BY <1>a, <2>1, <3>1, <3>2, <3>3
         DEF RecordsInv, ModelRecordHasItsSession, SessionIsRecorded, JobIsRecorded
  <2>3. CASE Step(j, "releasing") /\ UNCHANGED <<slot, records>>
    <3>1. job'[j].at = "releasing" /\ job'[j].recorded = job[j].recorded
      BY <1>0, <2>3, StepIs
    <3> QED
      BY <1>a, <2>1, <2>3, <3>1
         DEF RecordsInv, ModelRecordHasItsSession, SessionIsRecorded, JobIsRecorded
  <2> QED
    BY <1>9, <2>2, <2>3 DEF Rebuild
<1>10. CASE Reconciled(j)
  <2>1. holder' = j /\ JobIsRecorded(j) /\ At(j) = "releasing" /\ Step(j, "ending")
    BY <1>10, <1>c DEF Reconciled, Holding
  <2>2. /\ ModelRecordHasItsSession' /\ SessionIsRecorded' /\ records'.job = records.job
        /\ slot'.gpu => slot' = slot /\ records' = records
    BY <1>10, ReconcileKeepsRecords, UnloadKeepsRecords DEF Reconciled
  <2>3. job'[j].at = "ending" /\ job'[j].recorded = job[j].recorded
    BY <1>0, <2>1, StepIs
  <2> QED
    BY <1>a, <2>1, <2>2, <2>3 DEF RecordsInv, JobIsRecorded
<1>11. CASE Release(j)
  <2>1. holder' = NoJob /\ slot' = slot /\ JobIsRecorded(j) /\ At(j) = "ending"
    BY <1>11, <1>c DEF Release, Holding
  <2>2. CASE job[j].recorded
    <3>1. records' = ForgetJob(records)
      BY <1>11, <2>2 DEF Release
    <3> QED
      BY <1>b, <2>1, <3>1, ForgetJobClears
      DEF RecordsInv, ModelRecordHasItsSession, SessionIsRecorded
  <2>3. CASE ~job[j].recorded
    <3>1. records' = records
      BY <1>11, <2>3 DEF Release
    <3> QED
      BY <2>1, <2>3, <3>1
      DEF RecordsInv, ModelRecordHasItsSession, SessionIsRecorded, JobIsRecorded
  <2> QED
    BY <2>2, <2>3
<1>12. CASE ReadAgain(j) \/ (TryLock(j) /\ holder # NoJob)
  <2>1. At(j) \notin Holding /\ holder' = holder /\ slot' = slot /\ records' = records
    BY <1>12 DEF ReadAgain, TryLock, Holding
  <2>2. holder # NoJob => job'[holder] = job[holder]
    BY <1>0, <1>12, <2>1 DEF ReadAgain, TryLock, JobsOK
  <2> QED
    BY <2>1, <2>2
    DEF RecordsInv, ModelRecordHasItsSession, SessionIsRecorded, JobIsRecorded
<1>13. CASE TryLock(j) /\ holder = NoJob
  <2>1. holder' = j /\ Step(j, "reconciling") /\ slot' = slot /\ records' = records
    BY <1>13 DEF TryLock
  <2>2. job'[j].at = "reconciling"
    BY <1>0, <2>1, StepIs
  <2> QED
    BY <1>a, <1>13, <2>1, <2>2
       DEF RecordsInv, ModelRecordHasItsSession, SessionIsRecorded, JobIsRecorded
<1>14. CASE ReconcileAgain(j)
  <2>1. holder' = NoJob /\ JobIsRecorded(j) /\ At(j) = "reconciling"
    BY <1>14, <1>c DEF ReconcileAgain, Holding
  <2>2. ModelRecordHasItsSession' /\ SessionIsRecorded' /\ records'.job = records.job
    BY <1>14, ReconcileKeepsRecords DEF ReconcileAgain
  <2> QED
    BY <2>1, <2>2 DEF RecordsInv, JobIsRecorded
<1> QED
  BY <1>1, <1>2, <1>3, <1>4, <1>5, <1>6, <1>7, <1>8, <1>9, <1>10, <1>11, <1>12, <1>13,
     <1>14 DEF Continue

\* The UI thread unloads a session only while no job holds it, and ends the records
\* at any time.
LEMMA UiKeepsRecords ==
  ASSUME Base, RecordsInv, Frame \/ User
  PROVE  RecordsInv'
<1>0. RecordsOK
  BY BaseParts
<1>1. holder' = holder /\ job' = job
  BY DEF Frame, User, SetWarm, UnloadCold, SeeLoss, PickTools, SwitchGpu, EditorOutOfMemory,
         Exit, EndGpuJobRecords
<1>2. CASE UNCHANGED <<slot, records>>
  BY <1>1, <1>2
  DEF RecordsInv, ModelRecordHasItsSession, SessionIsRecorded, JobIsRecorded, At
<1>3. CASE holder = NoJob /\ (Unload \/ Reconcile(Reading))
  <2>1. ModelRecordHasItsSession' /\ SessionIsRecorded' /\ records'.job = records.job
    BY <1>3, ReconcileKeepsRecords, UnloadKeepsRecords
  <2> QED
    BY <1>1, <1>3, <2>1 DEF RecordsInv
<1>4. CASE EndGpuJobRecords
  <2>1. slot' = slot /\ records' = EndRecords(records)
    BY <1>4 DEF EndGpuJobRecords
  <2>2. records'.job = NoModel /\ records'.model = NoModel /\ records'.ended
    BY <1>0, <2>1, EndRecordsClears DEF RecordsOK
  <2> QED
    BY <1>1, <2>1, <2>2
    DEF RecordsInv, ModelRecordHasItsSession, SessionIsRecorded, JobIsRecorded, At
<1> QED
  BY <1>2, <1>3, <1>4
  DEF Frame, User, SetWarm, UnloadCold, SeeLoss, PickTools, SwitchGpu, EditorOutOfMemory, Exit

-----------------------------------------------------------------------------
(* The loss of the GPU. *)

\* Settings that move on leave behind what was read of older ones.
LEMMA MovesKeeps ==
  ASSUME NEW s \in SettingStates, NEW t \in SettingStates, Moves(s, t),
         NEW g \in 0..MaxGeneration, NEW enabled \in BOOLEAN
  PROVE  /\ Behind(s, g, enabled) => Behind(t, g, enabled)
         /\ BegunOnGpu(s, g, enabled) => BegunOnGpu(t, g, enabled)
         /\ Outdated(s, g, enabled) => Outdated(t, g, enabled)
<1>1. s.generation \in Int /\ t.generation \in Int /\ g \in Int
  BY ModelSlotAssumption DEF SettingStates
<1>2. CASE s.generation < t.generation
  <2>1. g < s.generation \/ g = s.generation => g < t.generation
    BY <1>1, <1>2
  <2> QED
    BY <2>1 DEF Behind, BegunOnGpu, Outdated
<1>3. CASE s.generation = t.generation /\ (UsableIn(t) => UsableIn(s))
  BY <1>3 DEF Behind, BegunOnGpu, Outdated
<1> QED
  BY <1>2, <1>3 DEF Moves

\* Settings that stay move on trivially.
LEMMA StaysMoves ==
  ASSUME NEW s \in SettingStates
  PROVE  Moves(s, s)
  BY DEF Moves

\* A GPU that can be used is lost, or the setting is changed.
LEMMA SettingMoves ==
  ASSUME Base, Frame \/ User \/ \E j \in Job : Start(j) \/ Continue(j)
  PROVE  Moves(setting, setting')
<1>0. setting \in SettingStates
  BY DEF Base, TypeOK
<1>1. CASE UNCHANGED setting
  BY <1>0, <1>1, StaysMoves
<1>2. ASSUME NEW enabled \in BOOLEAN, Switch(enabled)
      PROVE  Moves(setting, setting')
  BY <1>0, <1>2, ModelSlotAssumption DEF Switch, Moves, SettingStates
<1>3. CASE SeeLoss
  <2>1. CASE setting.enabled
    <3>1. setting'.generation = setting.generation + 1
      BY <1>0, <1>3, <2>1 DEF SeeLoss, SettingStates
    <3> QED
      BY <1>0, <3>1, ModelSlotAssumption DEF Moves, SettingStates
  <2>2. CASE ~setting.enabled
    BY <1>0, <1>3, <2>2 DEF SeeLoss, Moves, UsableIn, SettingStates
  <2> QED
    BY <2>1, <2>2
<1>4. CASE \E j \in Job : RunLosesGpu(j)
  BY <1>0, <1>4 DEF RunLosesGpu, Moves, UsableIn, SettingStates
<1> QED
  <2>1. CASE Frame \/ User
    BY <1>1, <1>2, <1>3, <2>1
    DEF Frame, User, SetWarm, UnloadCold, PickTools, SwitchGpu, EditorOutOfMemory, Exit,
        EndGpuJobRecords
  <2>2. CASE \E j \in Job : Start(j)
    BY <1>1, <2>2 DEF Start, Reuse, Replace
  <2>3. CASE \E j \in Job : Continue(j)
    BY <1>1, <1>4, <2>3
    DEF Continue, Place, CreateOnGpu, EndCreation, Lease, GpuCreationFails, CreateOnCpu,
        CreationFails, RunFails, Rebuild, EndRun, Reconciled, Release, ReadAgain, TryLock,
        ReconcileAgain
  <2> QED
    BY <2>1, <2>2, <2>3

\* An empty slot has lost no GPU.
LEMMA UnloadedIsNotLost ==
  ASSUME Unload
  PROVE  SlotIsBegun' /\ LostIsReleased'
  BY DEF Unload, EmptySlot, SlotIsBegun, LostIsReleased

\* A session that stays begun while the settings move on.
LEMMA SlotStaysBegun ==
  ASSUME Base, Base', Moves(setting, setting'), SlotIsBegun,
         slot'.gpu => slot.gpu,
         slot'.generation = slot.generation, slot'.enabled = slot.enabled
  PROVE  SlotIsBegun'
<1>1. /\ setting \in SettingStates /\ setting' \in SettingStates
      /\ slot.generation \in 0..MaxGeneration /\ slot.enabled \in BOOLEAN
  BY DEF Base, TypeOK, SlotStates
<1> QED
  BY <1>1, MovesKeeps DEF SlotIsBegun

\* A lost session that waits for its release while the settings move on.
LEMMA LostStaysReleased ==
  ASSUME Base, Base', Moves(setting, setting'), LostIsReleased,
         slot' = slot, holder' = holder, holder # NoJob => job'[holder] = job[holder]
  PROVE  LostIsReleased'
<1>1. /\ setting \in SettingStates /\ setting' \in SettingStates
      /\ slot.generation \in 0..MaxGeneration /\ slot.enabled \in BOOLEAN
  BY DEF Base, TypeOK, SlotStates
<1> QED
  BY <1>1, MovesKeeps DEF LostIsReleased, At

\* What a job has read, while the settings move on.
LEMMA ReadStaysBehind ==
  ASSUME Base, Base', Moves(setting, setting'), NEW j \in Job, JobHasRead(j),
         job'[j] = job[j]
  PROVE  JobHasRead(j)'
<1>1. /\ setting \in SettingStates /\ setting' \in SettingStates
      /\ job[j].read.generation \in 0..MaxGeneration /\ job[j].read.enabled \in BOOLEAN
  BY DEF Base, TypeOK, JobStates, Reads
<1> DEFINE read == job[j].read
<1>2. /\ Behind(setting, read.generation, read.enabled) =>
           Behind(setting', read.generation, read.enabled)
      /\ BegunOnGpu(setting, read.generation, read.enabled) =>
           BegunOnGpu(setting', read.generation, read.enabled)
  BY <1>1, MovesKeeps
<1>3. At(j)' = At(j) /\ job'[j].read = read
  BY DEF At
<1> QED
  BY <1>2, <1>3 DEF JobHasRead

\* A session that no job releases is not lost.
LEMMA NotLost ==
  ASSUME LossInv, holder = NoJob \/ At(holder) # "releasing"
  PROVE  ~slot.lost
  BY DEF LossInv, LostIsReleased

\* A job that locks the slot reads the settings.
LEMMA StartKeepsLoss ==
  ASSUME Base, Base', LossInv, NEW j \in Job, Start(j)
  PROVE  LossInv'
<1> PICK m \in Model, stays \in BOOLEAN : Reuse(j, m, stays) \/ Replace(j, m, stays)
  BY DEF Start
<1>0. setting' = setting /\ setting \in SettingStates /\ slot \in SlotStates /\ JobsOK
  BY BaseParts DEF Base, TypeOK, Reuse, Replace
<1>1. CASE Reuse(j, m, stays)
  <2>1. /\ slot'.gpu = slot.gpu /\ slot'.generation = slot.generation
        /\ slot'.enabled = slot.enabled /\ slot'.lost = slot.lost
    BY <1>0, <1>1 DEF Reuse, SlotStates
  <2>2. ~slot.lost /\ holder' = j /\ job'[j].at = "running"
    BY <1>0, <1>1, NotLost DEF Reuse, JobsOK, JobStates
  <2> QED
    BY <1>0, <2>1, <2>2 DEF LossInv, SlotIsBegun, LostIsReleased, JobHasRead, At
<1>2. CASE Replace(j, m, stays)
  <2>1. holder' = j /\ job'[j].at = "placing" /\ job'[j].read = Reading
    BY <1>0, <1>2 DEF Replace, JobsOK, JobStates, Idle
  <2>2. Behind(setting, Reading.generation, Reading.enabled)
    BY <1>0 DEF Behind, Reading, Usable, UsableIn, SettingStates
  <2>3. SlotIsBegun' /\ LostIsReleased'
    BY <1>2, UnloadedIsNotLost DEF Replace
  <2> QED
    BY <1>0, <2>1, <2>2, <2>3 DEF LossInv, JobHasRead, At
<1> QED
  BY <1>1, <1>2

\* A job that goes on: the session it creates is as the settings were when it locked
\* the slot, and it releases a lost one.
LEMMA ContinueKeepsLoss ==
  ASSUME Base, Base', LossInv, NEW j \in Job, Continue(j)
  PROVE  LossInv'
<1>0. setting \in SettingStates /\ slot \in SlotStates /\ JobsOK /\ j # NoJob
  BY BaseParts, ModelSlotAssumption DEF Base, TypeOK
<1>m. Moves(setting, setting')
  BY SettingMoves
<1>c. At(j) \in Holding => holder = j /\ JobHasRead(j)
  BY HolderIs DEF LossInv
<1>n. At(j) \in Holding \ {"releasing"} => ~slot.lost
  BY <1>c, NotLost
<1>1. CASE Place(j)
  <2>1. /\ holder' = j /\ slot' = slot /\ setting' = setting /\ JobHasRead(j)
        /\ At(j) = "placing" /\ ~slot.lost
    BY <1>1, <1>c, <1>n DEF Place, Holding
  <2>2. CASE Step(j, "creating on GPU") /\ Usable
    <3>1. job'[j].at = "creating on GPU" /\ job'[j].read = job[j].read
      BY <1>0, <2>2, StepIs
    <3> QED
      BY <2>1, <2>2, <3>1
      DEF LossInv, SlotIsBegun, LostIsReleased, JobHasRead, At, Behind, BegunOnGpu, Usable,
          UsableIn
  <2>3. CASE Step(j, "creating on CPU")
    <3>1. job'[j].at = "creating on CPU"
      BY <1>0, <2>3, StepIs
    <3> QED
      BY <2>1, <3>1 DEF LossInv, SlotIsBegun, LostIsReleased, JobHasRead, At
  <2> QED
    BY <1>1, <2>2, <2>3 DEF Place
<1>2. CASE CreateOnGpu(j)
  <2>1. /\ holder' = j /\ setting' = setting /\ JobHasRead(j)
        /\ At(j) = "creating on GPU" /\ Step(j, "created")
    BY <1>2, <1>c DEF CreateOnGpu, Holding
  <2>2. job'[j].at = "created"
    BY <1>0, <2>1, StepIs
  <2>3. /\ slot'.generation = job[j].read.generation
        /\ slot'.enabled = job[j].read.enabled /\ ~slot'.lost
    BY <1>2 DEF CreateOnGpu, Session
  <2> QED
    BY <2>1, <2>2, <2>3 DEF LossInv, SlotIsBegun, LostIsReleased, JobHasRead, At
<1>3. CASE EndCreation(j) \/ Lease(j) \/ RunFails(j) \/ EndRun(j)
  <2>1. holder' = j /\ slot' = slot /\ setting' = setting /\ ~slot.lost
    BY <1>3, <1>c, <1>n DEF EndCreation, Lease, RunFails, EndRun, Holding
  <2>2. job'[j].at \in {"loaded", "running", "rebuilding", "releasing"}
    BY <1>0, <1>3, StepIs DEF EndCreation, Lease, RunFails, EndRun, JobsOK, JobStates
  <2> QED
    BY <2>1, <2>2 DEF LossInv, SlotIsBegun, LostIsReleased, JobHasRead, At
<1>4. CASE GpuCreationFails(j)
  <2>1. /\ holder' = j /\ slot' = slot /\ setting' = setting /\ JobHasRead(j)
        /\ At(j) = "creating on GPU" /\ ~slot.lost
    BY <1>4, <1>c, <1>n DEF GpuCreationFails, Holding
  <2>2. PICK at \in {"placing", "creating on CPU"} : Step(j, at)
    BY <1>4 DEF GpuCreationFails
  <2>3. job'[j].at = at /\ job'[j].read = job[j].read
    BY <1>0, <2>2, StepIs
  <2> QED
    BY <2>1, <2>2, <2>3
    DEF LossInv, SlotIsBegun, LostIsReleased, JobHasRead, At, Behind, BegunOnGpu
<1>5. CASE CreateOnCpu(j)
  <2>1. holder' = j /\ ~slot'.lost /\ ~slot'.gpu /\ Step(j, "running")
    BY <1>5, <1>c DEF CreateOnCpu, Session, Holding
  <2>2. job'[j].at = "running"
    BY <1>0, <2>1, StepIs
  <2> QED
    BY <2>1, <2>2 DEF LossInv, SlotIsBegun, LostIsReleased, JobHasRead, At
<1>6. CASE CreationFails(j)
  BY <1>6, <1>n DEF CreationFails, Holding, LossInv, SlotIsBegun, LostIsReleased
<1>7. CASE RunLosesGpu(j)
  <2>1. /\ holder' = j /\ slot.gpu /\ Step(j, "releasing")
        /\ setting' = [setting EXCEPT !.quarantined = TRUE, !.lost = TRUE]
        /\ slot' = [slot EXCEPT !.lost = TRUE]
    BY <1>7, <1>c DEF RunLosesGpu, Holding
  <2>2. /\ slot'.gpu /\ slot'.generation = slot.generation /\ slot'.enabled = slot.enabled
        /\ setting'.generation = setting.generation /\ ~UsableIn(setting')
    BY <1>0, <2>1 DEF SlotStates, SettingStates, UsableIn
  <2>3. job'[j].at = "releasing"
    BY <1>0, <2>1, StepIs
  <2>4. BegunOnGpu(setting, slot.generation, slot.enabled)
    BY <2>1 DEF LossInv, SlotIsBegun
  <2> QED
    BY <1>0, <2>1, <2>2, <2>3, <2>4
    DEF LossInv, SlotIsBegun, LostIsReleased, JobHasRead, At, BegunOnGpu, Outdated
<1>8. CASE Rebuild(j)
  <2>1. holder' = j /\ ~slot.lost /\ setting' = setting
    BY <1>8, <1>c, <1>n DEF Rebuild, Holding
  <2>2. /\ slot'.gpu => slot.gpu
        /\ slot'.generation = slot.generation /\ slot'.enabled = slot.enabled
        /\ slot'.lost = slot.lost
    BY <1>0, <1>8 DEF Rebuild, SlotStates
  <2>3. PICK at \in {"running", "releasing"} : Step(j, at)
    BY <1>8 DEF Rebuild
  <2>4. job'[j].at = at
    BY <1>0, <2>3, StepIs
  <2> QED
    BY <2>1, <2>2, <2>3, <2>4 DEF LossInv, SlotIsBegun, LostIsReleased, JobHasRead, At
<1>9. CASE Reconciled(j)
  <2>1. /\ holder' = j /\ setting' = setting /\ Step(j, "ending")
        /\ Reconcile(Reading) \/ Unload
    BY <1>9, <1>c DEF Reconciled, Holding
  <2>2. job'[j].at = "ending"
    BY <1>0, <2>1, StepIs
  <2>3. SlotIsBegun' /\ LostIsReleased'
    <3>1. CASE Retains(Reading) /\ slot' = slot
      <4>1. ~slot.lost
        BY <1>0, <3>1, ModelSlotAssumption
        DEF Retains, Reading, Usable, UsableIn, LossInv, LostIsReleased, Outdated, SettingStates,
            SlotStates
      <4> QED
        BY <2>1, <3>1, <4>1 DEF LossInv, SlotIsBegun, LostIsReleased
    <3> QED
      BY <2>1, <3>1, UnloadedIsNotLost, ReconcileChooses
  <2> QED
    BY <2>1, <2>2, <2>3 DEF LossInv, JobHasRead, At
<1>10. CASE Release(j)
  BY <1>10, <1>n DEF Release, Holding, LossInv, SlotIsBegun, LostIsReleased
<1>11. CASE ReadAgain(j) \/ (TryLock(j) /\ holder # NoJob)
  <2>1. At(j) \notin Holding /\ holder' = holder /\ slot' = slot /\ setting' = setting
    BY <1>11 DEF ReadAgain, TryLock, Holding
  <2>2. holder # NoJob => job'[holder] = job[holder]
    BY <1>0, <1>11, <2>1 DEF ReadAgain, TryLock, JobsOK
  <2> QED
    BY <2>1, <2>2 DEF LossInv, SlotIsBegun, LostIsReleased, JobHasRead, At
<1>12. CASE TryLock(j) /\ holder = NoJob
  <2>1. holder' = j /\ Step(j, "reconciling") /\ slot' = slot /\ setting' = setting
    BY <1>12 DEF TryLock
  <2>2. job'[j].at = "reconciling" /\ ~slot.lost
    BY <1>0, <1>12, <2>1, StepIs, NotLost
  <2> QED
    BY <2>1, <2>2 DEF LossInv, SlotIsBegun, LostIsReleased, JobHasRead, At
<1>13. CASE ReconcileAgain(j)
  <2>1. /\ holder' = NoJob /\ setting' = setting /\ ~slot.lost
        /\ Unload \/ slot' = slot
    BY <1>13, <1>n, ReconcileChooses DEF ReconcileAgain, Holding
  <2> QED
    BY <2>1, UnloadedIsNotLost DEF LossInv, SlotIsBegun, LostIsReleased
<1> QED
  BY <1>1, <1>2, <1>3, <1>4, <1>5, <1>6, <1>7, <1>8, <1>9, <1>10, <1>11, <1>12, <1>13
  DEF Continue

\* The UI thread only moves the settings on, or unloads a session no job holds.
LEMMA UiKeepsLoss ==
  ASSUME Base, Base', LossInv, Frame \/ User
  PROVE  LossInv'
<1>m. Moves(setting, setting')
  BY SettingMoves
<1>1. holder' = holder /\ job' = job /\ holder \in Job \cup {NoJob}
  BY DEF Frame, User, SetWarm, UnloadCold, SeeLoss, PickTools, SwitchGpu, EditorOutOfMemory,
         Exit, EndGpuJobRecords, Base, TypeOK
<1>2. holder' # NoJob => JobHasRead(holder)'
  BY <1>m, <1>1, ReadStaysBehind DEF LossInv
<1>3. CASE slot' = slot
  <2>1. SlotIsBegun' /\ LostIsReleased'
    BY <1>m, <1>1, <1>3, SlotStaysBegun, LostStaysReleased DEF LossInv
  <2> QED
    BY <1>2, <2>1 DEF LossInv
<1>4. CASE Unload
  BY <1>2, <1>4, UnloadedIsNotLost DEF LossInv
<1> QED
  BY <1>3, <1>4, ReconcileChooses
  DEF Frame, User, SetWarm, UnloadCold, SeeLoss, PickTools, SwitchGpu, EditorOutOfMemory,
      Exit, EndGpuJobRecords

-----------------------------------------------------------------------------
(* The theorems. *)

IInv == Base /\ RecordsInv /\ LossInv

\* The inductive invariant holds in every behaviour.
THEOREM Invariance == Spec => []IInv
<1>1. Init => RecordsInv /\ LossInv
  BY DEF Init, EmptySlot, RecordsInv, ModelRecordHasItsSession, SessionIsRecorded, LossInv,
         SlotIsBegun, LostIsReleased
<1>2. Base /\ Base' /\ RecordsInv /\ LossInv /\ [Next]_vars => RecordsInv' /\ LossInv'
  <2>1. CASE UNCHANGED vars
    BY <2>1 DEF vars, RecordsInv, ModelRecordHasItsSession, SessionIsRecorded, JobIsRecorded,
                LossInv, SlotIsBegun, LostIsReleased, JobHasRead, At
  <2> QED
    BY <2>1, StartKeepsRecords, ContinueKeepsRecords, UiKeepsRecords,
       StartKeepsLoss, ContinueKeepsLoss, UiKeepsLoss DEF Next
<1>3. IInv <=> Base /\ RecordsInv /\ LossInv
  BY DEF IInv
<1> QED
  BY <1>1, <1>2, <1>3, BaseHolds, PTL DEF Spec

\* Whatever models, jobs and settings there are, the file names the work on the GPU
\* from before it begins until it has ended, or the editor's orderly exit.
THEOREM GpuWorkStaysRecorded == Spec => []GpuWorkIsRecorded
<1>1. IInv => GpuWorkIsRecorded
  <2> SUFFICES ASSUME IInv, ~records.ended PROVE GpuWorkIsRecorded
    BY DEF GpuWorkIsRecorded
  <2>1. records.written = Activity(records) /\ JobsOK
    BY BaseParts DEF IInv, RecordsOK, Current
  <2>2. ASSUME NEW j \in Job, OnGpu(j) PROVE records.written.kind = "job"
    <3>1. holder = j /\ JobIsRecorded(j) /\ SessionIsRecorded
      BY <2>2, HolderIs DEF OnGpu, Holding, IInv, RecordsInv
    <3>2. records.job \in Model
      BY <2>2, <3>1 DEF OnGpu, JobIsRecorded, SessionIsRecorded
    <3> QED
      BY <2>1, <3>2, ModelSlotAssumption DEF Activity
  <2>3. ASSUME slot.gpu PROVE records.written.model = slot.model
    <3>1. records.model = slot.model /\ slot.model \in Model
      BY <2>3 DEF IInv, RecordsInv, SessionIsRecorded
    <3>2. records.job \in {NoModel, slot.model}
      BY <2>3 DEF IInv, RecordsInv, JobIsRecorded
    <3> QED
      BY <2>1, <3>1, <3>2, ModelSlotAssumption DEF Activity
  <2> QED
    BY <2>2, <2>3 DEF GpuWorkIsRecorded
<1> QED
  BY <1>1, Invariance, PTL

\* No record outlives the job or the session it names, on any path through failing
\* providers, fallbacks and reconciliations, and an orderly exit leaves nothing to be
\* blamed at the next start.
THEOREM RecordsAlwaysEnd == Spec => []RecordsEnd
<1>1. IInv => RecordsHaveTheirWork
  BY DEF IInv, RecordsInv, ModelRecordHasItsSession, RecordsHaveTheirWork
<1>2. IInv => ExitLeavesNoRecord
  BY BaseParts DEF IInv, RecordsOK, Current, Activity, ExitLeavesNoRecord
<1> QED
  BY <1>1, <1>2, Invariance, PTL DEF RecordsEnd

\* The release of a lost session unloads it, however the user changes the setting
\* meanwhile.
THEOREM LostSessionsAlwaysLeave == Spec => []LostSessionsLeave
<1>1. IInv => LostSessionsLeave
  BY DEF IInv, LossInv, LostIsReleased, LostSessionsLeave
<1> QED
  BY <1>1, Invariance, PTL
=============================================================================
