----------------------------- MODULE ModelSlot -----------------------------
(***************************************************************************)
(* The one loaded AI model session (calibraw-ai slot.rs), where it runs    *)
(* (placement/session.rs, placement/mod.rs, failure.rs), the file that     *)
(* names the AI work on the GPU (placement/job_record.rs), and the UI      *)
(* thread that keeps models warm, switches the GPU on and off and ends the *)
(* records (calibraw-ui app/ai/tasks.rs, app/eframe_impl.rs).              *)
(*                                                                         *)
(* A model stands for its feature.  How much GPU memory is free is left    *)
(* out: a session may or may not fit, and may or may not stay.             *)
(***************************************************************************)
EXTENDS Integers

CONSTANTS
  Model,
  NoModel,        \* no model: in an empty slot, in a record of no work
  Job,            \* the threads that run AI jobs
  NoJob,          \* the holder of a free slot
  MaxGeneration   \* bound: changes of the GPU AI setting

ASSUME ModelSlotAssumption ==
  /\ NoModel \notin Model /\ NoJob \notin Job
  /\ MaxGeneration \in Nat \ {0}

VARIABLES
  slot,      \* RuntimeSlot: the loaded session
  holder,    \* the job that holds the slot's lock
  job,       \* job[j]: where the thread is, and what its lease asks for
  setting,   \* the GPU AI setting, its generation, and a lost GPU
  warm,      \* WARM_FEATURES
  tools,     \* the models whose tools are on screen
  records,   \* RECORDS, with what the file says
  ui         \* what the UI thread is in the middle of

vars == <<slot, holder, job, setting, warm, tools, records, ui>>

\* lost: the GPU was lost while the session ran.
EmptySlot == [model |-> NoModel, gpu |-> FALSE, stays |-> FALSE, lost |-> FALSE,
              generation |-> 0, enabled |-> FALSE]
NoWork == [kind |-> "none", model |-> NoModel]
NoReading == [warm |-> {}, generation |-> 0, enabled |-> FALSE]
Idle == [at |-> "idle", model |-> NoModel, stays |-> FALSE, recorded |-> FALSE,
         read |-> NoReading]

\* Mutant of Usable: a lost GPU is forgotten.
UsableWhenLost == setting.enabled

\* ai_acceleration_enabled
Usable == setting.enabled /\ ~setting.quarantined

\* What acquire_model_session and the reconciliations read.
Reading == [warm |-> warm, generation |-> setting.generation, enabled |-> Usable]

At(j) == job[j].at
Step(j, at) == job' = [job EXCEPT ![j].at = at]

-----------------------------------------------------------------------------
(* Records *)

\* activity: a running job before a loaded model.
Activity(r) ==
  IF r.job # NoModel THEN [kind |-> "job", model |-> r.job]
  ELSE IF r.model # NoModel THEN [kind |-> "idle", model |-> r.model]
  ELSE NoWork

\* sync
Synced(r) == [r EXCEPT !.written = Activity(r)]

\* Mutant of BeginJob: jobs are recorded after the records ended.
BeginJobAlways(r, m) == Synced([r EXCEPT !.job = m])

BeginJob(r, m) == IF r.ended THEN r ELSE Synced([r EXCEPT !.job = m])

ForgetJob(r) == Synced([r EXCEPT !.job = NoModel])
LoadModel(r, m) == IF r.ended THEN r ELSE Synced([r EXCEPT !.model = m])
ForgetModel(r) == Synced([r EXCEPT !.model = NoModel])
EndRecords(r) == Synced([r EXCEPT !.ended = TRUE, !.job = NoModel, !.model = NoModel])

-----------------------------------------------------------------------------
(* RuntimeSlot *)

\* What is left of records r once the loaded session was dropped.
Dropped(r) == IF slot.gpu THEN ForgetModel(r) ELSE r

Unload ==
  /\ slot' = EmptySlot
  /\ records' = Dropped(records)

\* Mutant of Retains: cold sessions stay.
RetainsCold(reading) ==
  /\ slot.model # NoModel /\ slot.stays
  /\ slot.generation = reading.generation
  /\ slot.enabled = reading.enabled

\* reconcile: whether the loaded session may stay.
Retains(reading) ==
  /\ slot.model # NoModel /\ slot.stays
  /\ slot.generation = reading.generation
  /\ slot.enabled = reading.enabled
  /\ slot.model \in reading.warm

Reconcile(reading) ==
  IF Retains(reading) THEN UNCHANGED <<slot, records>> ELSE Unload

-----------------------------------------------------------------------------
(* A job's lease. *)

\* ensure_model of the loaded session, unless it is on the CPU for lack of
\* memory and the GPU has room now (gpu_now_fits), and record_gpu_job.
Reuse(j, m, stays) ==
  /\ At(j) = "idle" /\ holder = NoJob
  /\ slot.model = m
  /\ slot.generation = setting.generation /\ slot.enabled = Usable
  /\ holder' = j
  /\ slot' = [slot EXCEPT !.stays = stays]
  /\ records' = IF slot.gpu THEN BeginJob(records, m) ELSE records
  /\ job' = [job EXCEPT ![j].at = "running", ![j].recorded = slot.gpu]
  /\ UNCHANGED <<setting, warm, tools, ui>>

\* ensure_model drops another session first.
Replace(j, m, stays) ==
  /\ At(j) = "idle" /\ holder = NoJob
  /\ \/ slot.model # m
     \/ slot.generation # setting.generation
     \/ slot.enabled # Usable
     \/ ~slot.gpu /\ Usable
  /\ holder' = j
  /\ Unload
  /\ job' = [job EXCEPT ![j] =
       [Idle EXCEPT !.at = "placing", !.model = m, !.stays = stays, !.read = Reading]]
  /\ UNCHANGED <<setting, warm, tools, ui>>

\* place; try_gpu_session records the creation as a job.
Place(j) ==
  /\ At(j) = "placing"
  /\ \/ /\ Usable
        /\ Step(j, "creating on GPU")
        /\ records' = BeginJob(records, job[j].model)
     \/ /\ Step(j, "creating on CPU")
        /\ UNCHANGED records
  /\ UNCHANGED <<slot, holder, setting, warm, tools, ui>>

\* The session a lease creates, with the settings it read when it locked.
Session(j, gpu) ==
  [model |-> job[j].model, gpu |-> gpu, stays |-> job[j].stays, lost |-> FALSE,
   generation |-> job[j].read.generation, enabled |-> job[j].read.enabled]

\* The GPU session is recorded as loaded.
CreateOnGpu(j) ==
  /\ At(j) = "creating on GPU"
  /\ slot' = Session(j, TRUE)
  /\ records' = LoadModel(records, job[j].model)
  /\ Step(j, "created")
  /\ UNCHANGED <<holder, setting, warm, tools, ui>>

\* The record of its creation ends.
EndCreation(j) ==
  /\ At(j) = "created"
  /\ records' = ForgetJob(records)
  /\ Step(j, "loaded")
  /\ UNCHANGED <<slot, holder, setting, warm, tools, ui>>

\* record_gpu_job
Lease(j) ==
  /\ At(j) = "loaded"
  /\ records' = BeginJob(records, job[j].model)
  /\ job' = [job EXCEPT ![j].at = "running", ![j].recorded = TRUE]
  /\ UNCHANGED <<slot, holder, setting, warm, tools, ui>>

\* The provider cannot create the session: the next one is tried, or the CPU used.
GpuCreationFails(j) ==
  /\ At(j) = "creating on GPU"
  /\ records' = ForgetJob(records)
  /\ \E at \in {"placing", "creating on CPU"} : Step(j, at)
  /\ UNCHANGED <<slot, holder, setting, warm, tools, ui>>

CreateOnCpu(j) ==
  /\ At(j) = "creating on CPU"
  /\ slot' = Session(j, FALSE)
  /\ Step(j, "running")
  /\ UNCHANGED <<holder, setting, warm, tools, records, ui>>

\* Mutant of CreationFails: the lock is not released.
CreationFailsLocked(j) ==
  /\ At(j) = "creating on CPU"
  /\ job' = [job EXCEPT ![j] = Idle]
  /\ UNCHANGED <<slot, holder, setting, warm, tools, records, ui>>

CreationFails(j) ==
  /\ At(j) = "creating on CPU"
  /\ holder' = NoJob
  /\ job' = [job EXCEPT ![j] = Idle]
  /\ UNCHANGED <<slot, setting, warm, tools, records, ui>>

\* run_with_fallback: the device is lost; the job is stopped.
RunLosesGpu(j) ==
  /\ At(j) = "running" /\ slot.gpu
  /\ setting' = [setting EXCEPT !.quarantined = TRUE, !.lost = TRUE]
  /\ slot' = [slot EXCEPT !.lost = TRUE]
  /\ Step(j, "releasing")
  /\ UNCHANGED <<holder, warm, tools, records, ui>>

\* run_with_fallback: any other GPU failure.
RunFails(j) ==
  /\ At(j) = "running" /\ slot.gpu
  /\ Step(j, "rebuilding")
  /\ UNCHANGED <<slot, holder, setting, warm, tools, records, ui>>

\* The session becomes one on the CPU, unless that fails.
Rebuild(j) ==
  /\ At(j) = "rebuilding"
  /\ \/ /\ slot' = [slot EXCEPT !.gpu = FALSE]
        /\ records' = ForgetModel(records)
        /\ Step(j, "running")
     \/ /\ Step(j, "releasing")
        /\ UNCHANGED <<slot, records>>
  /\ UNCHANGED <<holder, setting, warm, tools, ui>>

EndRun(j) ==
  /\ At(j) = "running"
  /\ Step(j, "releasing")
  /\ UNCHANGED <<slot, holder, setting, warm, tools, records, ui>>

\* Mutant of Reconciled: the lock is released before the record of the job ends.
ReconciledUnlocked(j) ==
  /\ At(j) = "releasing"
  /\ Reconcile(Reading)
  /\ holder' = NoJob
  /\ Step(j, "ending")
  /\ UNCHANGED <<setting, warm, tools, ui>>

\* Drop of ModelSessionGuard: the session leaves unless it may stay, for good
\* or (may_stay_loaded) for the room the editor needs.
Reconciled(j) ==
  /\ At(j) = "releasing"
  /\ Reconcile(Reading) \/ (slot.gpu /\ Unload)
  /\ Step(j, "ending")
  /\ UNCHANGED <<holder, setting, warm, tools, ui>>

\* The lease's record ends, then the lock is released.
Release(j) ==
  /\ At(j) = "ending"
  /\ records' = IF job[j].recorded THEN ForgetJob(records) ELSE records
  /\ holder' = NoJob
  /\ job' = [job EXCEPT ![j] = [Idle EXCEPT !.at = "released"]]
  /\ UNCHANGED <<slot, setting, warm, tools, ui>>

\* The second reconciliation: what it goes by is read before it tries the lock.
ReadAgain(j) ==
  /\ At(j) = "released"
  /\ job' = [job EXCEPT ![j].at = "locking", ![j].read = Reading]
  /\ UNCHANGED <<slot, holder, setting, warm, tools, records, ui>>

TryLock(j) ==
  /\ At(j) = "locking"
  /\ IF holder = NoJob
     THEN holder' = j /\ Step(j, "reconciling")
     ELSE job' = [job EXCEPT ![j] = Idle] /\ UNCHANGED holder
  /\ UNCHANGED <<slot, setting, warm, tools, records, ui>>

ReconcileAgain(j) ==
  /\ At(j) = "reconciling"
  /\ Reconcile(job[j].read)
  /\ holder' = NoJob
  /\ job' = [job EXCEPT ![j] = Idle]
  /\ UNCHANGED <<setting, warm, tools, ui>>

-----------------------------------------------------------------------------
(* The UI thread. *)

\* The user opens another tab, or leaves Develop.
PickTools(models) ==
  /\ ui = "frame" /\ tools # models
  /\ tools' = models
  /\ UNCHANGED <<slot, holder, job, setting, warm, records, ui>>

\* set_warm_ai_features, in every frame.
SetWarm ==
  /\ ui = "frame"
  /\ warm' = tools
  /\ ui' = "unloading"
  /\ UNCHANGED <<slot, holder, job, setting, tools, records>>

\* unload_cold_session; what it reads only the UI thread changes, but for the
\* loss of the GPU.
UnloadCold ==
  /\ ui \in {"unloading", "exiting"}
  /\ IF holder = NoJob THEN Reconcile(Reading) ELSE UNCHANGED <<slot, records>>
  /\ ui' = IF ui = "exiting" THEN "ending" ELSE "frame"
  /\ UNCHANGED <<holder, job, setting, warm, tools>>

\* set_ai_acceleration_enabled
Switch(enabled) ==
  /\ setting' = [enabled |-> enabled, generation |-> setting.generation + 1,
                 quarantined |-> setting.quarantined /\ ~enabled,
                 lost |-> setting.lost /\ ~enabled]
  /\ ui' = "unloading"

SwitchGpu(enabled) ==
  /\ ui = "frame" /\ setting.enabled # enabled
  /\ setting.generation < MaxGeneration
  /\ Switch(enabled)
  /\ UNCHANGED <<slot, holder, job, warm, tools, records>>

\* handle_gpu_failures: the loss of the GPU switches the setting off.
SeeLoss ==
  /\ ui = "frame" /\ setting.lost
  /\ IF setting.enabled
     THEN setting' = [setting EXCEPT !.lost = FALSE, !.enabled = FALSE,
                                     !.generation = @ + 1]
          /\ ui' = "unloading"
     ELSE setting' = [setting EXCEPT !.lost = FALSE] /\ UNCHANGED ui
  /\ setting'.generation <= MaxGeneration
  /\ UNCHANGED <<slot, holder, job, warm, tools, records>>

\* handle_gpu_out_of_memory: the recorded job is blamed, else an idle session
\* on the GPU is released.
EditorOutOfMemory ==
  /\ ui = "frame"
  /\ \/ /\ records.job # NoModel /\ setting.enabled
        /\ setting.generation < MaxGeneration
        /\ Switch(FALSE)
        /\ UNCHANGED <<slot, records>>
     \/ /\ records.job = NoModel /\ slot.gpu /\ holder = NoJob
        /\ Unload
        /\ UNCHANGED <<setting, ui>>
  /\ UNCHANGED <<holder, job, warm, tools>>

\* on_exit: nothing is warm, and the records end.
Exit ==
  /\ ui = "frame"
  /\ warm' = {}
  /\ ui' = "exiting"
  /\ UNCHANGED <<slot, holder, job, setting, tools, records>>

EndGpuJobRecords ==
  /\ ui = "ending"
  /\ records' = EndRecords(records)
  /\ ui' = "gone"
  /\ UNCHANGED <<slot, holder, job, setting, warm, tools>>

-----------------------------------------------------------------------------
Init ==
  /\ slot = EmptySlot
  /\ holder = NoJob
  /\ job = [j \in Job |-> Idle]
  /\ setting = [enabled |-> TRUE, quarantined |-> FALSE, lost |-> FALSE, generation |-> 0]
  /\ warm = {} /\ tools = {}
  /\ records = [job |-> NoModel, model |-> NoModel, written |-> NoWork, ended |-> FALSE]
  /\ ui = "frame"

Start(j) == \E m \in Model, stays \in BOOLEAN : Reuse(j, m, stays) \/ Replace(j, m, stays)

Continue(j) ==
  \/ Place(j) \/ CreateOnGpu(j) \/ EndCreation(j) \/ Lease(j) \/ GpuCreationFails(j)
  \/ CreateOnCpu(j) \/ CreationFails(j) \/ RunLosesGpu(j) \/ RunFails(j) \/ Rebuild(j)
  \/ EndRun(j) \/ Reconciled(j) \/ Release(j) \/ ReadAgain(j) \/ TryLock(j)
  \/ ReconcileAgain(j)

Frame == SetWarm \/ UnloadCold \/ SeeLoss

User ==
  \/ \E models \in SUBSET Model : PickTools(models)
  \/ \E enabled \in BOOLEAN : SwitchGpu(enabled)
  \/ EditorOutOfMemory \/ Exit \/ EndGpuJobRecords

Next == Frame \/ User \/ \E j \in Job : Start(j) \/ Continue(j)

Spec == Init /\ [][Next]_vars

\* Jobs that hold a lease go on and end; frames are drawn, each of which sets
\* the warm features.
FairSpec ==
  /\ Spec
  /\ WF_vars(UnloadCold) /\ SF_vars(SetWarm)
  /\ \A j \in Job : WF_vars(Continue(j))

-----------------------------------------------------------------------------
\* The steps at which a job holds the slot's lock.
Holding == {"placing", "creating on GPU", "creating on CPU", "created", "loaded",
            "running", "rebuilding", "releasing", "ending", "reconciling"}
Reads == [warm : SUBSET Model, generation : 0..MaxGeneration, enabled : BOOLEAN]

SlotStates == [model : Model \cup {NoModel}, gpu : BOOLEAN, stays : BOOLEAN,
               lost : BOOLEAN, generation : 0..MaxGeneration, enabled : BOOLEAN]
JobStates == [at : Holding \cup {"idle", "released", "locking"},
              model : Model \cup {NoModel}, stays : BOOLEAN,
              recorded : BOOLEAN, read : Reads]
SettingStates == [enabled : BOOLEAN, quarantined : BOOLEAN, lost : BOOLEAN,
                  generation : 0..MaxGeneration]
RecordStates == [job : Model \cup {NoModel}, model : Model \cup {NoModel},
                 written : [kind : {"none", "job", "idle"}, model : Model \cup {NoModel}],
                 ended : BOOLEAN]

TypeOK ==
  /\ slot \in SlotStates
  /\ job \in [Job -> JobStates]
  /\ holder \in Job \cup {NoJob}
  /\ \A j \in Job : holder = j <=> At(j) \in Holding
  /\ setting \in SettingStates
  /\ warm \subseteq Model /\ tools \subseteq Model
  /\ records \in RecordStates
  /\ ui \in {"frame", "unloading", "exiting", "ending", "gone"}

\* The jobs that do GPU work of their own: they create a session there or run it.
OnGpu(j) == At(j) = "creating on GPU" \/ (At(j) \in {"running", "rebuilding"} /\ slot.gpu)

\* Until an orderly exit the file names the job that works on the GPU, or at
\* least the model that is loaded there: whenever the process dies, the next
\* start finds what it died of.
GpuWorkIsRecorded ==
  ~records.ended =>
    /\ \A j \in Job : OnGpu(j) => records.written.kind = "job"
    /\ slot.gpu => records.written.model = slot.model

\* No record outlives its work: a job is only named while a lease is held, and a
\* model only while its session is loaded on the GPU.
RecordsHaveTheirWork ==
  /\ records.job # NoModel => holder # NoJob
  /\ records.model # NoModel => slot.gpu /\ slot.model = records.model

\* After an orderly exit the next start finds no record, whatever the jobs that
\* still run do until the process ends.
ExitLeavesNoRecord == records.ended => records.written = NoWork

\* A record ends with its work or with the process: nothing that did not take the system
\* down is blamed at the next start.
RecordsEnd == RecordsHaveTheirWork /\ ExitLeavesNoRecord

\* A session that lost the GPU is never left to the next job.
LostSessionsLeave == holder = NoJob => ~slot.lost

\* A session that is cold, or of older settings, does not stay loaded while the
\* editor runs: its job's release, or a later frame, unloads it.
Unwanted ==
  /\ ui \in {"frame", "unloading"}
  /\ slot.model # NoModel
  /\ \/ slot.model \notin warm
     \/ slot.generation # setting.generation
     \/ slot.enabled # Usable
UnwantedSessionsLeave == Unwanted ~> ~Unwanted
=============================================================================
