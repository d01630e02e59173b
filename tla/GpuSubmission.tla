--------------------------- MODULE GpuSubmission ---------------------------
(***************************************************************************)
(* One queue of the emulated GPU (GraphicsRun.cpp): the ring that takes    *)
(* the guest's batches, its worker, the command processor that submits     *)
(* command buffers to the host's queue and publishes the finished ones,    *)
(* the deferred deletion of the objects they use, and the admission gate   *)
(* that a guest's teardown keeps closed while it drains the queue.         *)
(*                                                                         *)
(* Submissions are numbered from 1; the buffers are used in turn, so the   *)
(* slot of a submission is its number modulo SlotCount.  A step is a       *)
(* critical section of one of the locks, or one turn of a loop inside      *)
(* m_mutex.                                                                *)
(***************************************************************************)
EXTENDS Naturals, Sequences, FiniteSets

CONSTANTS Kind,           \* "graphics": a GraphicsRing, "compute": a ComputeRing
          Submitters, Quiescers, \* guest threads
          SlotCount,      \* command buffers (CommandProcessorSubmissionSlots::SlotCount)
          MaxFlushes,     \* bound: buffers submitted in a behaviour
          MaxPeerCalls,   \* bound: calls from another queue's worker
          MaxLabels,      \* bound: submissions with a label
          MaxObjects,     \* bound: deletions scheduled
          RingWorker, Peer, NoThread

ASSUME GpuAssumption ==
  /\ Kind \in {"graphics", "compute"} /\ IsFiniteSet(Submitters) /\ IsFiniteSet(Quiescers)
  /\ SlotCount \in Nat \ {0, 1} /\ MaxFlushes \in Nat /\ MaxPeerCalls \in Nat
  /\ MaxLabels \in Nat /\ MaxObjects \in Nat
  /\ RingWorker # Peer /\ NoThread \notin {RingWorker, Peer}
  /\ {RingWorker, Peer, NoThread} \cap (Submitters \cup Quiescers) = {}

VARIABLES
  gate,               \* holder of GpuSubmissionAdmissionGate::m_mutex
  batches,            \* batches of the ring: who waits for their decoding, or NoThread
  batch,              \* the one being decoded
  idle,               \* m_idle
  completionPending,  \* m_async_completion_pending, m_completion_pending
  lock,               \* holder of CommandProcessor::m_mutex
  tracker,            \* state of each submission in GpuSubmissionTracker
  labelled,           \* submissions with an end-of-pipe label
  fifo,               \* m_submitted_fifo
  signalled,          \* submissions whose fence has signalled
  entries,            \* GpuSubmissionPublicationGate::m_entries
  published,          \* m_published_sequence
  publisher,          \* m_publisher_thread
  fired,              \* history: the submissions whose labels were fired, in order
  objects,            \* deletion queue: the last submission that uses each object
  completed,          \* m_completed of the deletion queue
  deleting,           \* m_draining
  destroyed,          \* history: the last uses of the objects destroyed
  stage, op, goal, latest, until, back, \* per thread: its call and its locals
  flushes, peerCalls, scheduled \* what the bounds still allow

ring == <<gate, batches, batch, idle, completionPending>>
slots == <<tracker, labelled, fifo, signalled>>
publication == <<entries, published, publisher, fired>>
deletion == <<objects, completed, deleting, destroyed>>
locals == <<op, goal, latest, until, back>>
bounds == <<flushes, peerCalls, scheduled>>
gpuVars == <<ring, lock, slots, publication, deletion, stage, locals, bounds>>

GpuGuests == Submitters \cup Quiescers
GpuThreads == GpuGuests \cup {RingWorker, Peer}
Ids == 1..MaxFlushes + 1
NoId == 0
TrackerStates == {"None", "Recording", "Submitted", "Completed", "Retired"}
EntryStates == {"Submitted", "FenceComplete", "Publishing"}
Ops == {"none", "flush", "queue", "device", "wait", "drain", "pump", "enqueue"}
ProcessorPcs == {"lock", "sweep", "submit", "reuse", "through", "begin", "unlock",
                 "acquire", "complete", "mark", "retire", "await"}
DrainPcs == {"ready", "task"}
WorkerPcs == {"get", "nap", "sleep", "decode", "flushed", "pumped", "ended"}
GuestPcs == {"idle", "admit", "decoding", "admitted", "waitIdle", "flushing", "quiesced"}

Resumes == WorkerPcs \cup GuestPcs
Stages == ProcessorPcs \cup DrainPcs \cup Resumes

GpuTypeOK ==
  /\ gate \in GpuGuests \cup {NoThread} /\ batches \in Seq(GpuGuests \cup {NoThread})
  /\ batch \in GpuGuests \cup {NoThread} /\ idle \in BOOLEAN /\ completionPending \in BOOLEAN
  /\ lock \in GpuThreads \cup {NoThread} /\ tracker \in [Ids -> TrackerStates]
  /\ labelled \in SUBSET Ids /\ fifo \in Seq(Ids) /\ signalled \in SUBSET Ids
  /\ entries \in Seq([id: Ids, state: EntryStates])
  /\ published \in Ids \cup {NoId} /\ publisher \in GpuThreads \cup {NoThread}
  /\ fired \in Seq(Ids) /\ objects \in Seq(Ids) /\ completed \in Ids \cup {NoId}
  /\ deleting \in BOOLEAN /\ destroyed \in SUBSET Ids
  /\ stage \in [GpuThreads -> Stages]
  /\ op \in [GpuThreads -> Ops] /\ back \in [GpuThreads -> Resumes]
  /\ goal \in [GpuThreads -> Ids \cup {NoId}] /\ latest \in [GpuThreads -> Ids \cup {NoId}]
  /\ until \in [GpuThreads -> Ids \cup {NoId}]
  /\ flushes \in 0..MaxFlushes /\ peerCalls \in 0..MaxPeerCalls /\ scheduled \in 0..MaxObjects

(* The queue after its first BufferInit.                                   *)
GpuInit ==
  /\ gate = NoThread /\ batches = <<>> /\ batch = NoThread
  /\ idle = TRUE /\ completionPending = FALSE
  /\ lock = NoThread /\ tracker = [s \in Ids |-> IF s = 1 THEN "Recording" ELSE "None"]
  /\ labelled = {} /\ fifo = <<>> /\ signalled = {}
  /\ entries = <<>> /\ published = NoId /\ publisher = NoThread /\ fired = <<>>
  /\ objects = <<>> /\ completed = NoId /\ deleting = FALSE /\ destroyed = {}
  /\ stage = [t \in GpuThreads |-> IF t = RingWorker THEN "get" ELSE "idle"]
  /\ op = [t \in GpuThreads |-> "none"] /\ back = [t \in GpuThreads |-> "idle"]
  /\ goal = [t \in GpuThreads |-> NoId] /\ latest = [t \in GpuThreads |-> NoId]
  /\ until = [t \in GpuThreads |-> NoId]
  /\ flushes = 0 /\ peerCalls = 0 /\ scheduled = 0

Proceeds(t, place) == stage' = [stage EXCEPT ![t] = place]

----------------------------------------------------------------------------
(* Calls of the command processor.  `back` is where the caller goes on.    *)

Recording == {s \in Ids : tracker[s] = "Recording"}

(* Bound: a call that submits uses up one flush when it starts.            *)
MayFlush == flushes < MaxFlushes

Begin(t, name, target, returnTo) ==
  /\ Proceeds(t, "lock")
  /\ op' = [op EXCEPT ![t] = name]
  /\ goal' = [goal EXCEPT ![t] = target]
  /\ latest' = [latest EXCEPT ![t] = NoId]
  /\ until' = [until EXCEPT ![t] = NoId]
  /\ back' = [back EXCEPT ![t] = returnTo]

Return(t) ==
  /\ Proceeds(t, back[t])
  /\ op' = [op EXCEPT ![t] = "none"]
  /\ goal' = [goal EXCEPT ![t] = NoId]
  /\ latest' = [latest EXCEPT ![t] = NoId]
  /\ until' = [until EXCEPT ![t] = NoId]
  /\ back' = [back EXCEPT ![t] = "idle"]

(* Where a call starts inside m_mutex: SubmitCurrentLocked for the ones    *)
(* that submit; WaitSubmission and SubmitForDeviceWait look up their goal. *)
Submits(t) ==
  op[t] \in {"flush", "queue"} \/ (op[t] \in {"wait", "device"} /\ goal[t] \in Recording)

Lock(t) ==
  /\ stage[t] = "lock" /\ lock = NoThread
  /\ lock' = t
  /\ \/ (Submits(t) \/ op[t] = "pump") /\ Proceeds(t, "sweep") /\ UNCHANGED until
     \/ /\ op[t] = "wait" /\ tracker[goal[t]] = "Submitted"
        /\ until' = [until EXCEPT ![t] = goal[t]]
        /\ Proceeds(t, "through")
     \/ /\ op[t] = "drain" /\ fifo # <<>>
        /\ until' = [until EXCEPT ![t] = fifo[Len(fifo)]]
        /\ Proceeds(t, "through")
     \/ /\ \/ op[t] = "drain" /\ fifo = <<>>
           \/ op[t] = "device" /\ goal[t] \notin Recording
           \/ op[t] = "wait" /\ tracker[goal[t]] \in {"Completed", "Retired"}
        /\ Proceeds(t, "unlock") /\ UNCHANGED until
  /\ UNCHANGED <<ring, slots, publication, deletion, op, goal, latest, back, bounds>>

(* A fence seen signalled: MarkFenceCompleted, then MarkFenceComplete.     *)
FrontSignalled == fifo # <<>> /\ Head(fifo) \in signalled

CompleteFront(t) ==
  /\ tracker' = [tracker EXCEPT ![Head(fifo)] = "Completed"]
  /\ entries' = [i \in DOMAIN entries |->
                   IF entries[i].id = Head(fifo) THEN [entries[i] EXCEPT !.state = "FenceComplete"]
                                                 ELSE entries[i]]
  /\ fifo' = Tail(fifo)
  /\ latest' = [latest EXCEPT ![t] = Head(fifo)]
  /\ UNCHANGED <<labelled, signalled, published, publisher, fired>>

(* TryCompleteSubmittedLocked, before the submission and after it.         *)
Sweep(t) ==
  /\ stage[t] \in {"sweep", "reuse"} /\ FrontSignalled
  /\ CompleteFront(t)
  /\ UNCHANGED <<ring, lock, deletion, stage, op, goal, until, back, bounds>>

(* A submission still executing in the slot to record in next.  Mutant:    *)
(* the slot is taken for free.                                             *)
SlotFree(s) == {}
SlotOwner(s) == {x \in Ids : x < s /\ x % SlotCount = s % SlotCount /\ tracker[x] = "Submitted"}

NextId == CHOOSE s \in Ids : tracker[s] = "None" /\ \A x \in Ids : tracker[x] = "None" => s <= x

Swept(t) ==
  /\ stage[t] \in {"sweep", "reuse"} /\ ~FrontSignalled
  /\ \/ stage[t] = "sweep" /\ Proceeds(t, IF op[t] = "pump" THEN "unlock" ELSE "submit") /\ UNCHANGED until
     \/ stage[t] = "reuse" /\ SlotOwner(NextId) = {} /\ Proceeds(t, "begin") /\ UNCHANGED until
     \/ /\ stage[t] = "reuse"
        /\ \E s \in SlotOwner(NextId) : until' = [until EXCEPT ![t] = s] /\ Proceeds(t, "through")
  /\ UNCHANGED <<ring, lock, slots, publication, deletion, op, goal, latest, back, bounds>>

(* Execute, MarkSubmitted, RegisterSubmitted.                              *)
Submit(t) ==
  /\ stage[t] = "submit"
  /\ \E s \in Recording :
       /\ tracker' = [tracker EXCEPT ![s] = "Submitted"]
       /\ fifo' = Append(fifo, s)
       /\ entries' = Append(entries, [id |-> s, state |-> "Submitted"])
  /\ Proceeds(t, "reuse")
  /\ UNCHANGED <<ring, lock, labelled, signalled, published, publisher, fired, deletion,
                 locals, bounds>>

(* CompleteSubmittedThroughLocked waits for the fences inside m_mutex.     *)
Through(t) ==
  /\ stage[t] = "through" /\ FrontSignalled
  /\ CompleteFront(t)
  /\ IF Head(fifo) = until[t] THEN Proceeds(t, IF Recording = {} THEN "begin" ELSE "unlock")
                              ELSE UNCHANGED stage
  /\ UNCHANGED <<ring, lock, deletion, op, goal, until, back, bounds>>

(* BeginRecording; WaitSubmission looks its goal up again.                 *)
SlotBusy(s) ==
  \E x \in Ids : x # s /\ x % SlotCount = s % SlotCount /\ tracker[x] \in {"Recording", "Submitted"}

BeginRecording(t) ==
  /\ stage[t] = "begin" /\ ~SlotBusy(NextId)
  /\ tracker' = [tracker EXCEPT ![NextId] = "Recording"]
  /\ IF op[t] = "wait" /\ tracker[goal[t]] = "Submitted"
     THEN until' = [until EXCEPT ![t] = goal[t]] /\ Proceeds(t, "through")
     ELSE Proceeds(t, "unlock") /\ UNCHANGED until
  /\ UNCHANGED <<ring, lock, labelled, fifo, signalled, publication, deletion, op, goal,
                 latest, back, bounds>>

(* SubmitForDeviceWait publishes nothing; the pump reports what is left.   *)
Unlock(t) ==
  /\ stage[t] = "unlock"
  /\ lock' = NoThread
  /\ completionPending' = IF op[t] = "pump" THEN fifo # <<>> ELSE completionPending
  /\ IF op[t] = "device" THEN Return(t) ELSE Proceeds(t, "acquire") /\ UNCHANGED locals
  /\ UNCHANGED <<gate, batches, batch, idle, slots, publication, deletion, bounds>>

----------------------------------------------------------------------------
(* PublishCompletedSubmissions, outside m_mutex.                           *)

(* Mutant: an entry being published is taken again.                        *)
FrontNotSubmitted == entries # <<>> /\ Head(entries).state # "Submitted"
FrontReady == entries # <<>> /\ Head(entries).state = "FenceComplete"

(* LabelCompleteSubmission follows: it fires what the labels hold.         *)
Acquire(t) ==
  /\ stage[t] = "acquire" /\ FrontReady
  /\ entries' = <<[Head(entries) EXCEPT !.state = "Publishing"]>> \o Tail(entries)
  /\ publisher' = t
  /\ until' = [until EXCEPT ![t] = Head(entries).id]
  /\ fired' = Append(fired, Head(entries).id)
  /\ Proceeds(t, "complete")
  /\ UNCHANGED <<ring, lock, slots, published, deletion, op, goal, latest, back, bounds>>

(* NotReady: the calls that wait for a publication go on to it.            *)
Awaited(t) == CASE op[t] = "wait" -> goal[t]
                [] op[t] \in {"flush", "drain"} -> latest[t]
                [] OTHER -> NoId

AcquireNone(t) ==
  /\ stage[t] = "acquire" /\ ~FrontReady
  /\ IF Awaited(t) = NoId THEN Return(t) ELSE Proceeds(t, "await") /\ UNCHANGED locals
  /\ UNCHANGED <<ring, lock, slots, publication, deletion, bounds>>

(* GpuMemoryCompleteSubmission, then DrainReady.  Mutant: no drain.        *)
SkipDrain == "mark"
ThenDrain == "ready"

Complete(t) ==
  /\ stage[t] = "complete"
  /\ completed' = IF until[t] > completed THEN until[t] ELSE completed
  /\ Proceeds(t, ThenDrain)
  /\ UNCHANGED <<ring, lock, slots, publication, objects, deleting, destroyed, locals, bounds>>

(* DrainReady, of CompleteSubmission and of Enqueue: one thread drains.    *)
AfterDrain(t) == IF op[t] = "enqueue" THEN Return(t) ELSE Proceeds(t, "mark") /\ UNCHANGED locals

StartDrain(t) ==
  /\ stage[t] = "ready"
  /\ IF deleting THEN AfterDrain(t) /\ UNCHANGED deleting
                 ELSE deleting' = TRUE /\ Proceeds(t, "task") /\ UNCHANGED locals
  /\ UNCHANGED <<ring, lock, slots, publication, objects, completed, destroyed, bounds>>

(* IsReady of the object at the head.                                      *)
HeadReady == objects # <<>> /\ Head(objects) <= completed

RunTask(t) ==
  /\ stage[t] = "task" /\ HeadReady
  /\ destroyed' = destroyed \cup {Head(objects)}
  /\ objects' = Tail(objects)
  /\ UNCHANGED <<ring, lock, slots, publication, completed, deleting, stage, locals, bounds>>

EndDrain(t) ==
  /\ stage[t] = "task" /\ ~HeadReady
  /\ deleting' = FALSE
  /\ AfterDrain(t)
  /\ UNCHANGED <<ring, lock, slots, publication, objects, completed, destroyed, bounds>>

MarkPublished(t) ==
  /\ stage[t] = "mark"
  /\ entries # <<>> /\ Head(entries) = [id |-> until[t], state |-> "Publishing"]
  /\ published' = until[t]
  /\ entries' = Tail(entries)
  /\ publisher' = NoThread
  /\ Proceeds(t, "retire")
  /\ UNCHANGED <<ring, lock, slots, fired, deletion, locals, bounds>>

Retire(t) ==
  /\ stage[t] = "retire" /\ tracker[until[t]] = "Completed"
  /\ tracker' = [tracker EXCEPT ![until[t]] = "Retired"]
  /\ until' = [until EXCEPT ![t] = NoId]
  /\ Proceeds(t, "acquire")
  /\ UNCHANGED <<ring, lock, labelled, fifo, signalled, publication, deletion, op, goal,
                 latest, back, bounds>>

(* WaitUntilPublished.  No callback of this code calls a command processor *)
(* back, so no waiter is the thread that publishes.                        *)
AwaitPublished(t) ==
  /\ stage[t] = "await" /\ Awaited(t) <= published
  /\ Return(t)
  /\ UNCHANGED <<ring, lock, slots, publication, deletion, bounds>>

ProcessorStep(t) ==
  \/ Lock(t) \/ Sweep(t) \/ Swept(t) \/ Submit(t) \/ Through(t) \/ BeginRecording(t) \/ Unlock(t)
  \/ Acquire(t) \/ AcquireNone(t) \/ Complete(t) \/ StartDrain(t) \/ RunTask(t)
  \/ EndDrain(t) \/ MarkPublished(t) \/ Retire(t) \/ AwaitPublished(t)

----------------------------------------------------------------------------
(* The host's queue.  External.                                            *)
Signal(s) ==
  /\ tracker[s] = "Submitted" /\ s \notin signalled
  /\ signalled' = signalled \cup {s}
  /\ UNCHANGED <<ring, lock, tracker, labelled, fifo, publication, deletion, stage, locals, bounds>>

HostQueue == \E s \in Ids : Signal(s)

----------------------------------------------------------------------------
(* The ring's worker.  WaitFor between two pumps is timed.                 *)

(* A ComputeRing takes all its doorbells rang at once.                     *)
TakeBatch ==
  /\ stage[RingWorker] = "get" /\ batches # <<>>
  /\ idle' = FALSE
  /\ IF Kind = "graphics" THEN batch' = Head(batches) /\ batches' = Tail(batches)
                          ELSE batches' = <<>> /\ UNCHANGED batch
  /\ Proceeds(RingWorker, "decode")
  /\ UNCHANGED <<gate, completionPending, lock, slots, publication, deletion, locals, bounds>>

IdlePump ==
  /\ stage[RingWorker] = "get" /\ batches = <<>> /\ completionPending
  /\ Begin(RingWorker, "pump", NoId, "get")
  /\ UNCHANGED <<ring, lock, slots, publication, deletion, bounds>>

AtRest == TRUE

GoIdle ==
  /\ stage[RingWorker] = "get" /\ batches = <<>> /\ ~completionPending
  /\ idle' = AtRest
  /\ Proceeds(RingWorker, "sleep")
  /\ UNCHANGED <<gate, batches, batch, completionPending, lock, slots, publication,
                 deletion, locals, bounds>>

WakeUp ==
  /\ stage[RingWorker] = "sleep" /\ batches # <<>>
  /\ Proceeds(RingWorker, "get")
  /\ UNCHANGED <<ring, lock, slots, publication, deletion, locals, bounds>>

(* What decoding does: a label, then submissions and deletions of what was *)
(* used so far.                                                            *)
RecordLabel ==
  /\ stage[RingWorker] = "decode" /\ lock = NoThread /\ ~(Recording \subseteq labelled)
  /\ Cardinality(labelled) < MaxLabels
  /\ labelled' = labelled \cup Recording
  /\ UNCHANGED <<ring, lock, tracker, fifo, signalled, publication, deletion, stage, locals,
                 bounds>>

SubmitRecorded ==
  /\ stage[RingWorker] = "decode" /\ Recording \subseteq labelled /\ MayFlush
  /\ flushes' = flushes + 1
  /\ Begin(RingWorker, "queue", NoId, "decode")
  /\ UNCHANGED <<ring, lock, slots, publication, deletion, peerCalls, scheduled>>

(* ScheduleDestructors: Enqueue, then DrainReady.                          *)
Schedule(t, lastUse, returnTo) ==
  /\ scheduled < MaxObjects
  /\ scheduled' = scheduled + 1
  /\ objects' = Append(objects, lastUse)
  /\ Proceeds(t, "ready")
  /\ op' = [op EXCEPT ![t] = "enqueue"]
  /\ back' = [back EXCEPT ![t] = returnTo]
  /\ UNCHANGED <<ring, lock, slots, publication, completed, deleting, destroyed,
                 goal, latest, until, flushes, peerCalls>>

ScheduleUsed ==
  /\ stage[RingWorker] = "decode" /\ Recording \subseteq labelled
  /\ \E s \in Recording : \E lastUse \in {s, s - 1} \cap Ids : Schedule(RingWorker, lastUse, "decode")

(* Its flush was counted when the batch was submitted.                     *)
EndBatch ==
  /\ stage[RingWorker] = "decode"
  /\ Begin(RingWorker, "flush", NoId, "flushed")
  /\ UNCHANGED <<ring, lock, slots, publication, deletion, bounds>>

(* DecodeCompletion::Signal; then the batch may wait for its submission.   *)
Flushed ==
  /\ stage[RingWorker] = "flushed"
  /\ batch' = NoThread
  /\ LET told == IF batch = NoThread THEN stage ELSE [stage EXCEPT ![batch] = "admitted"]
     IN  \/ stage' = [told EXCEPT ![RingWorker] = "ended"] /\ UNCHANGED locals
         \/ \E s \in Recording :
              /\ Kind = "graphics"
              /\ stage' = [told EXCEPT ![RingWorker] = "lock"]
              /\ op' = [op EXCEPT ![RingWorker] = "wait"]
              /\ goal' = [goal EXCEPT ![RingWorker] = s - 1]
              /\ back' = [back EXCEPT ![RingWorker] = "ended"]
              /\ UNCHANGED <<latest, until>>
  /\ UNCHANGED <<gate, batches, idle, completionPending, lock, slots, publication, deletion,
                 bounds>>

(* Mutant: nobody pumps what the batch left unfinished.                    *)
NotPending == FALSE
LeftPending == TRUE

Ended ==
  /\ stage[RingWorker] = "ended"
  /\ completionPending' = LeftPending
  /\ Proceeds(RingWorker, "get")
  /\ UNCHANGED <<gate, batches, batch, idle, lock, slots, publication, deletion, locals, bounds>>

DecodeBatch == RecordLabel \/ SubmitRecorded \/ ScheduleUsed \/ EndBatch
Work ==
  \/ TakeBatch \/ IdlePump \/ GoIdle \/ WakeUp \/ DecodeBatch \/ Flushed \/ Ended
  \/ ProcessorStep(RingWorker)

----------------------------------------------------------------------------
(* Guest threads.                                                          *)

(* m_idle after a submission: DingDong does not touch it.  Mutant: neither *)
(* does Submit.                                                            *)
IdleKept == idle
IdleAfterSubmit == IF Kind = "graphics" THEN FALSE ELSE idle

(* Submit and DingDong.  A batch with a decode completion keeps its        *)
(* submitter, and with it the gate, until it is decoded.                   *)
SubmitBatch(g) ==
  /\ stage[g] = "idle" /\ gate = NoThread /\ MayFlush
  /\ flushes' = flushes + 1
  /\ idle' = IdleAfterSubmit
  /\ \/ batches' = Append(batches, NoThread) /\ UNCHANGED <<gate, stage>>
     \/ /\ Kind = "graphics"
        /\ batches' = Append(batches, g)
        /\ gate' = g
        /\ Proceeds(g, "decoding")
  /\ UNCHANGED <<batch, completionPending, lock, slots, publication, deletion, locals,
                 peerCalls, scheduled>>

(* RunQuiesced: WaitLocked, then the action.                               *)
Quiesce(g) ==
  /\ stage[g] = "idle" /\ gate = NoThread /\ MayFlush
  /\ flushes' = flushes + 1
  /\ gate' = g
  /\ Proceeds(g, "waitIdle")
  /\ UNCHANGED <<batches, batch, idle, completionPending, lock, slots, publication,
                 deletion, locals, peerCalls, scheduled>>

SubmitAndWait(g) ==
  /\ \/ stage[g] = "waitIdle" /\ idle /\ Begin(g, "flush", NoId, "flushing")
     \/ stage[g] = "flushing" /\ Begin(g, "drain", NoId, "quiesced")
  /\ UNCHANGED <<ring, lock, slots, publication, deletion, bounds>>

(* The action deletes what the queue has used.                             *)
FreeUsed(g) ==
  /\ stage[g] = "quiesced"
  /\ \E lastUse \in Ids : tracker[lastUse] \in {"Completed", "Retired"} /\ Schedule(g, lastUse, "quiesced")

LeaveGate(g) ==
  /\ stage[g] \in {"admitted", "quiesced"}
  /\ gate' = NoThread
  /\ Proceeds(g, "idle")
  /\ UNCHANGED <<batches, batch, idle, completionPending, lock, slots, publication,
                 deletion, locals, bounds>>

(* Another queue's worker waits, on the host or the device, for a producer *)
(* that FindPendingProducer has found.                                     *)
PeerCall ==
  /\ stage[Peer] = "idle" /\ peerCalls < MaxPeerCalls
  /\ peerCalls' = peerCalls + 1
  /\ \E s \in {x \in labelled : tracker[x] # "Retired"}, name \in {"wait", "device"} :
       /\ IF s \in Recording THEN MayFlush /\ flushes' = flushes + 1 ELSE UNCHANGED flushes
       /\ Begin(Peer, name, s, "idle")
  /\ UNCHANGED <<ring, lock, slots, publication, deletion, scheduled>>

Proceed(g) == SubmitAndWait(g) \/ LeaveGate(g) \/ ProcessorStep(g)

GpuNext ==
  \/ HostQueue
  \/ Work
  \/ \E g \in Submitters : SubmitBatch(g)
  \/ \E g \in Quiescers : Quiesce(g) \/ FreeUsed(g)
  \/ \E g \in GpuGuests : Proceed(g)
  \/ PeerCall \/ ProcessorStep(Peer)

GpuSpec == GpuInit /\ [][GpuNext]_gpuVars

(* Fences signal, threads run.  Nothing makes a guest or the peer call.    *)
GpuFairSpec ==
  /\ GpuSpec
  /\ WF_gpuVars(HostQueue)
  /\ WF_gpuVars(Work)
  /\ \A g \in GpuGuests : WF_gpuVars(Proceed(g))
  /\ WF_gpuVars(ProcessorStep(Peer))

----------------------------------------------------------------------------
(* Every require_submission_success and require_publication_success holds: *)
(* the process exits otherwise.  A slot is free when it is recorded in, a  *)
(* publisher still has its entry, its submission is there to retire, and   *)
(* what a call waits for is published or known to the gate                 *)
(* (GraphicsRun.cpp, GpuSubmissionPublicationGate.cpp).                    *)
SubmissionRequirements ==
  /\ GpuTypeOK
  /\ \A t \in GpuThreads :
       /\ stage[t] = "begin" => ~SlotBusy(NextId)
       /\ stage[t] = "through" => \E i \in DOMAIN fifo : fifo[i] = until[t]
       /\ stage[t] = "mark" =>
             entries # <<>> /\ Head(entries) = [id |-> until[t], state |-> "Publishing"]
       /\ stage[t] = "retire" => tracker[until[t]] = "Completed"
       /\ stage[t] = "await" =>
             Awaited(t) <= published \/ \E i \in DOMAIN entries : entries[i].id = Awaited(t)

(* The labels of a submission are fired once, after its fence, in the      *)
(* order of submission, whoever publishes; and an object is destroyed only *)
(* after the labels of its last use (PublishCompletedSubmissions).         *)
FiredInOrder ==
  /\ \A i \in DOMAIN fired : fired[i] = i /\ i \in signalled
  /\ \A s \in destroyed : s <= Len(fired)

(* No object that is ready at the head of the deletion queue is left there *)
(* without a thread that is about to drain, although a thread that finds   *)
(* another draining returns at once (GpuDeferredDeletionQueue::DrainReady) *)
NoObjectStranded ==
  HeadReady /\ ~deleting => \E t \in GpuThreads : stage[t] = "ready"

AtPc(place) == \E g \in GpuGuests : stage[g] = place

(* While a quiesced action runs, the queue has nothing left: no batch, no  *)
(* decoding, no label recorded or unpublished (Gpu::WaitLocked; "Releasing *)
(* or invalidating a GPU mapping first drains every command processor").   *)
QuiescedMeansDrained ==
  AtPc("quiesced") =>
    /\ batches = <<>> /\ stage[RingWorker] \in {"get", "sleep"}
    /\ fifo = <<>> /\ entries = <<>>
    /\ Recording \cap labelled = {}

(* What was submitted is published, although SubmitForDeviceWait and the   *)
(* mid-batch submissions leave it to a later pump (GetCmdBatch), and a     *)
(* quiesce gets through its drain.                                         *)
SubmissionsEnd ==
  /\ entries # <<>> ~> entries = <<>>
  /\ AtPc("waitIdle") ~> AtPc("quiesced")
=============================================================================
