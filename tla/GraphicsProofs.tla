--------------------------- MODULE GraphicsProofs ---------------------------
(***************************************************************************)
(* Proofs about GpuSubmission, for any guests, any number of slots and any *)
(* bounds: submissions are published in order, their labels are fired in   *)
(* that order, no object is stranded, and a quiesce of a graphics ring     *)
(* leaves it drained.                                                      *)
(***************************************************************************)
EXTENDS GpuSubmission, FiniteSetTheorems, TLAPS

----------------------------------------------------------------------------
(* Submissions: the invariant                                              *)

(* The submissions made so far, and of those the ones whose fence has been *)
(* seen.                                                                   *)
Submitted == published + Len(entries)
Finished == Submitted - Len(fifo)

Publishing == entries # <<>> /\ Head(entries).state = "Publishing"

(* Submissions are numbered in the order in which they are made, finished  *)
(* and published; the three lists and the tracker say the same.            *)
OrderInv ==
  /\ Len(fifo) <= Len(entries)
  /\ \A i \in DOMAIN entries :
       /\ entries[i].id = published + i
       /\ entries[i].state = "Submitted" <=> published + i > Finished
       /\ entries[i].state = "Publishing" => i = 1
  /\ \A i \in DOMAIN fifo : fifo[i] = Finished + i

TrackerInv ==
  \A s \in Ids :
    /\ tracker[s] = "Submitted" <=> Finished < s /\ s <= Submitted
    /\ tracker[s] \in {"Completed", "Retired"} <=> s <= Finished
    /\ tracker[s] = "Recording" => s = Submitted + 1
    /\ tracker[s] = "Retired" => s <= published
    /\ s <= Finished => s \in signalled
    /\ s \in signalled => s <= Submitted

FiredInv ==
  /\ \A i \in DOMAIN fired : fired[i] = i
  /\ Len(fired) = IF Publishing THEN published + 1 ELSE published
  /\ completed <= Len(fired)
  /\ \A s \in destroyed : s <= completed

(* Places inside m_mutex.                                                  *)
Inside == {"sweep", "submit", "reuse", "through", "begin", "unlock"}

HeldInv(t) ==
  /\ stage[t] \in {"sweep", "submit", "unlock"} => Recording # {}
  /\ stage[t] \in {"reuse", "begin"} => Recording = {}
  /\ stage[t] = "begin" => Len(fifo) < SlotCount
  /\ stage[t] = "through" => Finished < until[t] /\ until[t] <= Submitted
  /\ stage[t] = "through" /\ op[t] = "drain" => Recording # {}

LockInv ==
  /\ \A t \in GpuThreads : stage[t] \in Inside <=> lock = t
  /\ lock = NoThread => Recording # {}
  /\ \A t \in GpuThreads : HeldInv(t)
  /\ Len(fifo) <= SlotCount
  /\ Recording # {} => Len(fifo) < SlotCount

(* What each call does, and for whom.                                      *)
CallInv(t) ==
  /\ stage[t] \in ProcessorPcs \cup DrainPcs <=> op[t] # "none"
  /\ op[t] = "enqueue" => stage[t] \in DrainPcs
  /\ op[t] = "pump" => stage[t] \notin {"submit", "reuse", "through", "begin", "await"}
  /\ op[t] = "drain" => stage[t] \notin {"sweep", "submit", "reuse", "begin"}
  /\ op[t] = "device" => stage[t] \in Inside \cup {"lock"}
  /\ latest[t] <= Finished
  /\ op[t] \in {"wait", "device"} =>
       /\ goal[t] \in Ids /\ goal[t] <= Submitted + 1
       /\ stage[t] \in {"sweep", "submit"} => goal[t] = Submitted + 1
       /\ stage[t] \notin {"lock", "sweep", "submit"} => goal[t] <= Submitted

WorkerRole ==
  /\ stage[RingWorker] \in WorkerPcs \cup ProcessorPcs \cup DrainPcs
  /\ <<op[RingWorker], back[RingWorker]>> \in
       {<<"none", "idle">>, <<"queue", "decode">>, <<"pump", "get">>, <<"flush", "flushed">>,
        <<"wait", "ended">>, <<"enqueue", "decode">>}
  /\ op[RingWorker] = "wait" => goal[RingWorker] <= Submitted
  /\ stage[RingWorker] = "flushed" => Submitted > 0
  /\ op[RingWorker] = "flush" /\ stage[RingWorker] \notin {"lock", "sweep", "submit"} => Submitted > 0

PeerRole ==
  /\ stage[Peer] \in {"idle"} \cup ProcessorPcs \cup DrainPcs
  /\ op[Peer] \in {"none", "wait", "device"} /\ back[Peer] = "idle"

GuestRole(g) ==
  /\ stage[g] \in GuestPcs \cup ProcessorPcs \cup DrainPcs
  /\ <<op[g], back[g]>> \in
       {<<"none", "idle">>, <<"flush", "flushing">>, <<"drain", "quiesced">>, <<"enqueue", "quiesced">>}

RoleInv ==
  /\ \A t \in GpuThreads : CallInv(t)
  /\ WorkerRole /\ PeerRole /\ \A g \in GpuGuests : GuestRole(g)
  /\ \A s \in labelled : s <= Submitted \/ s \in Recording

(* One thread publishes, and what others have published they still have to *)
(* retire.                                                                 *)
Publishes(t) ==
  stage[t] \in {"complete", "mark"} \/ (stage[t] \in DrainPcs /\ op[t] # "enqueue")

PublisherInv ==
  /\ \A t \in GpuThreads : Publishes(t) <=> publisher = t
  /\ publisher # NoThread <=> Publishing
  /\ \A t \in GpuThreads : Publishes(t) => until[t] = published + 1
  /\ \A t \in GpuThreads : stage[t] = "retire" =>
       until[t] \in Ids /\ until[t] <= published /\ tracker[until[t]] = "Completed"
  /\ \A t, u \in GpuThreads : stage[t] = "retire" /\ stage[u] = "retire" /\ until[t] = until[u] => t = u

(* Every submission still to be made was allowed for when its call began.  *)
OwesSubmission(t) ==
  \/ stage[t] = "waitIdle"
  \/ stage[t] = "lock" /\ (op[t] \in {"flush", "queue"} \/ (op[t] \in {"wait", "device"} /\ goal[t] > Submitted))
  \/ stage[t] \in {"sweep", "submit"} /\ op[t] # "pump"

Owing == {t \in GpuThreads : OwesSubmission(t)}
BatchOwed == IF stage[RingWorker] = "decode" \/ back[RingWorker] = "decode" THEN 1 ELSE 0

BoundInv == Submitted + Cardinality(Owing) + BatchOwed + Len(batches) <= flushes

(* One thread drains the deletion queue.                                   *)
DrainInv ==
  /\ NoObjectStranded
  /\ \A t \in GpuThreads : stage[t] = "task" => deleting
  /\ \A t, u \in GpuThreads : stage[t] = "task" /\ stage[u] = "task" => t = u

(* The admission gate, and who waits behind it for a batch to be decoded.  *)
GateInv ==
  /\ \A g \in GpuGuests : stage[g] # "idle" <=> gate = g
  /\ batch # NoThread => stage[batch] = "decoding"
  /\ \A i \in DOMAIN batches : batches[i] # NoThread =>
       /\ stage[batches[i]] = "decoding" /\ batch # batches[i]
       /\ \A j \in DOMAIN batches : batches[j] = batches[i] => i = j

SubmissionInv ==
  /\ GpuTypeOK /\ OrderInv /\ TrackerInv /\ FiredInv /\ LockInv /\ RoleInv /\ PublisherInv
  /\ BoundInv /\ DrainInv /\ GateInv

----------------------------------------------------------------------------
(* Submissions: types and names                                            *)

RingTypes ==
  /\ gate \in GpuGuests \cup {NoThread} /\ batches \in Seq(GpuGuests \cup {NoThread})
  /\ batch \in GpuGuests \cup {NoThread} /\ idle \in BOOLEAN
ListTypes ==
  /\ tracker \in [Ids -> TrackerStates] /\ fifo \in Seq(Ids) /\ signalled \in SUBSET Ids
  /\ entries \in Seq([id : Ids, state : EntryStates])
  /\ published \in Ids \cup {NoId} /\ publisher \in GpuThreads \cup {NoThread} /\ fired \in Seq(Ids)
DeletionTypes ==
  /\ objects \in Seq(Ids) /\ completed \in Ids \cup {NoId}
  /\ deleting \in BOOLEAN /\ destroyed \in SUBSET Ids
CallTypes ==
  /\ stage \in [GpuThreads -> Stages]
  /\ op \in [GpuThreads -> Ops] /\ back \in [GpuThreads -> Resumes]
LocalTypes ==
  /\ goal \in [GpuThreads -> Ids \cup {NoId}] /\ latest \in [GpuThreads -> Ids \cup {NoId}]
  /\ until \in [GpuThreads -> Ids \cup {NoId}]
CountTypes ==
  /\ completionPending \in BOOLEAN /\ lock \in GpuThreads \cup {NoThread} /\ labelled \in SUBSET Ids
  /\ flushes \in 0..MaxFlushes /\ peerCalls \in 0..MaxPeerCalls /\ scheduled \in 0..MaxObjects

(* The threads and their roles.                                            *)
LEMMA GpuNames ==
  /\ RingWorker \in GpuThreads /\ Peer \in GpuThreads /\ RingWorker # Peer
  /\ NoThread \notin GpuThreads
  /\ GpuGuests \subseteq GpuThreads /\ RingWorker \notin GpuGuests /\ Peer \notin GpuGuests
  /\ Submitters \subseteq GpuGuests /\ Quiescers \subseteq GpuGuests
  /\ IsFiniteSet(GpuThreads)
<1>1. IsFiniteSet(GpuGuests)
  BY GpuAssumption, FS_Union DEF GpuGuests
<1>2. IsFiniteSet({RingWorker, Peer})
  <2>1. IsFiniteSet({RingWorker})
    BY FS_Singleton
  <2>2. {RingWorker, Peer} = {RingWorker} \cup {Peer}
    OBVIOUS
  <2>3. QED
    BY <2>1, <2>2, FS_AddElement
<1>3. IsFiniteSet(GpuThreads)
  BY <1>1, <1>2, FS_Union DEF GpuThreads
<1>4. QED
  BY <1>3, GpuAssumption DEF GpuThreads, GpuGuests

(* Places that an action names.                                            *)
LEMMA GpuPlaces ==
  /\ Resumes \subseteq Stages
  /\ "idle" \in Resumes /\ "decoding" \in Resumes /\ "admitted" \in Resumes
  /\ "waitIdle" \in Resumes /\ "flushing" \in Resumes /\ "quiesced" \in Resumes
  /\ "get" \in Resumes /\ "sleep" \in Resumes /\ "decode" \in Resumes
  /\ "flushed" \in Resumes /\ "ended" \in Resumes
  /\ "ready" \in Stages /\ "task" \in Stages
  /\ "lock" \in Stages /\ "sweep" \in Stages /\ "submit" \in Stages
  /\ "reuse" \in Stages /\ "through" \in Stages /\ "begin" \in Stages
  /\ "unlock" \in Stages /\ "acquire" \in Stages /\ "complete" \in Stages
  /\ "mark" \in Stages /\ "retire" \in Stages /\ "await" \in Stages
BY DEF Stages, Resumes, GuestPcs, WorkerPcs, DrainPcs, ProcessorPcs

(* Calls that an action names.                                             *)
LEMMA GpuOps ==
  /\ "none" \in Ops /\ "flush" \in Ops /\ "queue" \in Ops /\ "device" \in Ops
  /\ "wait" \in Ops /\ "drain" \in Ops /\ "pump" \in Ops /\ "enqueue" \in Ops
BY DEF Ops

(* Elements of a list.                                                     *)
LEMMA ListElements ==
  ASSUME NEW S, NEW q \in Seq(S)
  PROVE  /\ Len(q) \in Nat /\ DOMAIN q = 1 .. Len(q)
         /\ \A i \in 1 .. Len(q) : q[i] \in S
         /\ q # <<>> => /\ Len(q) > 0 /\ Head(q) \in S /\ Head(q) = q[1] /\ q[Len(q)] \in S
                        /\ Tail(q) \in Seq(S) /\ Len(Tail(q)) = Len(q) - 1
                        /\ \A i \in 1 .. Len(q) - 1 : Tail(q)[i] = q[i + 1]
         /\ q = <<>> <=> Len(q) = 0
         /\ \A x \in S : /\ Append(q, x) \in Seq(S) /\ Len(Append(q, x)) = Len(q) + 1
                          /\ Append(q, x)[Len(q) + 1] = x
                          /\ \A i \in 1 .. Len(q) : Append(q, x)[i] = q[i]
OBVIOUS

(* Heads, tails and extensions of the lists keep their types.              *)
LEMMA GpuLists ==
  ASSUME GpuTypeOK
  PROVE  /\ batches # <<>> => Head(batches) \in GpuGuests \cup {NoThread}
                               /\ Tail(batches) \in Seq(GpuGuests \cup {NoThread})
         /\ \A x \in GpuGuests \cup {NoThread} : Append(batches, x) \in Seq(GpuGuests \cup {NoThread})
         /\ <<>> \in Seq(GpuGuests \cup {NoThread})
         /\ fifo # <<>> => Head(fifo) \in Ids /\ fifo[Len(fifo)] \in Ids /\ Tail(fifo) \in Seq(Ids)
         /\ entries # <<>> => Head(entries) \in [id : Ids, state : EntryStates]
                              /\ Tail(entries) \in Seq([id : Ids, state : EntryStates])
         /\ \A x \in Ids : Append(fired, x) \in Seq(Ids) /\ Append(objects, x) \in Seq(Ids)
         /\ objects # <<>> => Head(objects) \in Ids /\ Tail(objects) \in Seq(Ids)
<1> USE DEF GpuTypeOK
<1>1. batches \in Seq(GpuGuests \cup {NoThread}) /\ fifo \in Seq(Ids) /\ fired \in Seq(Ids)
      /\ entries \in Seq([id : Ids, state : EntryStates])
  OBVIOUS
<1>2. objects \in Seq(Ids)
  OBVIOUS
<1>3. \A q \in Seq(Ids) : /\ \A x \in Ids : Append(q, x) \in Seq(Ids)
                          /\ q # <<>> => Head(q) \in Ids /\ q[Len(q)] \in Ids /\ Tail(q) \in Seq(Ids)
  BY ONLY ListElements
<1>4. /\ batches # <<>> => Head(batches) \in GpuGuests \cup {NoThread}
                        /\ Tail(batches) \in Seq(GpuGuests \cup {NoThread})
      /\ \A x \in GpuGuests \cup {NoThread} : Append(batches, x) \in Seq(GpuGuests \cup {NoThread})
      /\ <<>> \in Seq(GpuGuests \cup {NoThread})
  BY ONLY <1>1, ListElements
<1>5. entries # <<>> => /\ Head(entries) \in [id : Ids, state : EntryStates]
                       /\ Tail(entries) \in Seq([id : Ids, state : EntryStates])
  BY ONLY <1>1, ListElements
<1>6. QED
  BY ONLY <1>1, <1>2, <1>3, <1>4, <1>5

(* One entry more in the publication.                                      *)
LEMMA EntriesTaken ==
  ASSUME GpuTypeOK, NEW t \in GpuThreads, Acquire(t)
  PROVE  /\ Head(entries).id \in Ids
         /\ entries' \in Seq([id : Ids, state : EntryStates])
         /\ Len(entries') = Len(entries) /\ Len(entries) > 0
         /\ entries'[1] = [id |-> Head(entries).id, state |-> "Publishing"]
         /\ \A i \in 2 .. Len(entries) : entries'[i] = entries[i]
<1>1. entries # <<>> /\ entries' = <<[Head(entries) EXCEPT !.state = "Publishing"]>> \o Tail(entries)
  BY DEF Acquire, FrontReady
<1>2. Head(entries) \in [id : Ids, state : EntryStates] /\ entries \in Seq([id : Ids, state : EntryStates])
  BY <1>1, GpuLists DEF GpuTypeOK
<1>3. [Head(entries) EXCEPT !.state = "Publishing"] \in [id : Ids, state : EntryStates]
      /\ [Head(entries) EXCEPT !.state = "Publishing"] = [id |-> Head(entries).id, state |-> "Publishing"]
  BY <1>2 DEF EntryStates
<1>4. \A x \in [id : Ids, state : EntryStates], q \in Seq([id : Ids, state : EntryStates]) :
        q # <<>> => /\ <<x>> \o Tail(q) \in Seq([id : Ids, state : EntryStates])
                    /\ Len(<<x>> \o Tail(q)) = Len(q) /\ Len(q) > 0
                    /\ (<<x>> \o Tail(q))[1] = x
                    /\ \A i \in 2 .. Len(q) : (<<x>> \o Tail(q))[i] = q[i]
  OBVIOUS
<1>5. QED
  BY ONLY <1>1, <1>2, <1>3, <1>4

(* The lists keep their types when the fence at the head has been seen.    *)
LEMMA FrontTypes ==
  ASSUME GpuTypeOK, NEW t \in GpuThreads, FrontSignalled, CompleteFront(t)
  PROVE  /\ Head(fifo) \in Ids /\ fifo' \in Seq(Ids)
         /\ entries' \in Seq([id : Ids, state : EntryStates])
         /\ tracker' \in [Ids -> TrackerStates]
         /\ latest' \in [GpuThreads -> Ids \cup {NoId}]
<1> USE DEF GpuTypeOK, FrontSignalled, CompleteFront
<1>1. fifo # <<>> /\ fifo \in Seq(Ids)
  OBVIOUS
<1>2. Head(fifo) \in Ids /\ Tail(fifo) \in Seq(Ids)
  BY ONLY <1>1
<1>3. entries' \in Seq([id : Ids, state : EntryStates])
  <2>1. "FenceComplete" \in EntryStates
    BY DEF EntryStates
  <2>2. DOMAIN entries = 1 .. Len(entries) /\ Len(entries) \in Nat
    OBVIOUS
  <2>3. ASSUME NEW i \in 1 .. Len(entries)
        PROVE  entries'[i] \in [id : Ids, state : EntryStates]
    <3>1. entries[i] \in [id : Ids, state : EntryStates]
      <4>1. entries \in Seq([id : Ids, state : EntryStates])
        OBVIOUS
      <4>2. QED
        BY <4>1, <2>2, ListElements
    <3>2. QED
      BY <2>1, <2>2, <3>1
  <2>4. entries' = [i \in 1 .. Len(entries) |-> entries'[i]]
    BY <2>2
  <2>5. QED
    <3>1. \A f : f = [i \in 1 .. Len(entries) |-> f[i]]
                 /\ (\A i \in 1 .. Len(entries) : f[i] \in [id : Ids, state : EntryStates])
                 => f \in Seq([id : Ids, state : EntryStates])
      BY ONLY <2>2
    <3>2. QED
      BY <2>3, <2>4, <3>1
<1>4. "Completed" \in TrackerStates
  BY DEF TrackerStates
<1>5. QED
  BY <1>2, <1>3, <1>4

(* Which steps change what.                                                *)
LEMMA GateFrame ==
  ASSUME GpuNext
  PROVE  \/ UNCHANGED <<gate, batches, batch, idle>>
         \/ TakeBatch
         \/ GoIdle
         \/ Flushed
         \/ \E g \in GpuGuests : SubmitBatch(g)
         \/ \E g \in GpuGuests : Quiesce(g)
         \/ \E g \in GpuGuests : LeaveGate(g)
<1> USE DEF ring, slots, publication, deletion, locals, bounds
<1>1. ASSUME NEW t \in GpuThreads, Lock(t) PROVE UNCHANGED <<gate, batches, batch, idle>>
  BY <1>1 DEF Lock
<1>2. ASSUME NEW t \in GpuThreads, Sweep(t) PROVE UNCHANGED <<gate, batches, batch, idle>>
  BY <1>2 DEF Sweep, CompleteFront
<1>3. ASSUME NEW t \in GpuThreads, Swept(t) PROVE UNCHANGED <<gate, batches, batch, idle>>
  BY <1>3 DEF Swept
<1>4. ASSUME NEW t \in GpuThreads, Submit(t) PROVE UNCHANGED <<gate, batches, batch, idle>>
  BY <1>4 DEF Submit
<1>5. ASSUME NEW t \in GpuThreads, Through(t) PROVE UNCHANGED <<gate, batches, batch, idle>>
  BY <1>5 DEF Through, CompleteFront
<1>6. ASSUME NEW t \in GpuThreads, BeginRecording(t) PROVE UNCHANGED <<gate, batches, batch, idle>>
  BY <1>6 DEF BeginRecording
<1>7. ASSUME NEW t \in GpuThreads, Unlock(t) PROVE UNCHANGED <<gate, batches, batch, idle>>
  BY <1>7 DEF Unlock, Return
<1>8. ASSUME NEW t \in GpuThreads, Acquire(t) PROVE UNCHANGED <<gate, batches, batch, idle>>
  BY <1>8 DEF Acquire
<1>9. ASSUME NEW t \in GpuThreads, AcquireNone(t) PROVE UNCHANGED <<gate, batches, batch, idle>>
  BY <1>9 DEF AcquireNone, Return
<1>10. ASSUME NEW t \in GpuThreads, Complete(t) PROVE UNCHANGED <<gate, batches, batch, idle>>
  BY <1>10 DEF Complete
<1>11. ASSUME NEW t \in GpuThreads, StartDrain(t) PROVE UNCHANGED <<gate, batches, batch, idle>>
  BY <1>11 DEF StartDrain, AfterDrain, Return
<1>12. ASSUME NEW t \in GpuThreads, RunTask(t) PROVE UNCHANGED <<gate, batches, batch, idle>>
  BY <1>12 DEF RunTask
<1>13. ASSUME NEW t \in GpuThreads, EndDrain(t) PROVE UNCHANGED <<gate, batches, batch, idle>>
  BY <1>13 DEF EndDrain, AfterDrain, Return
<1>14. ASSUME NEW t \in GpuThreads, MarkPublished(t) PROVE UNCHANGED <<gate, batches, batch, idle>>
  BY <1>14 DEF MarkPublished
<1>15. ASSUME NEW t \in GpuThreads, Retire(t) PROVE UNCHANGED <<gate, batches, batch, idle>>
  BY <1>15 DEF Retire
<1>16. ASSUME NEW t \in GpuThreads, AwaitPublished(t) PROVE UNCHANGED <<gate, batches, batch, idle>>
  BY <1>16 DEF AwaitPublished, Return
<1>17. ASSUME HostQueue PROVE UNCHANGED <<gate, batches, batch, idle>>
  BY <1>17 DEF HostQueue, Signal
<1>18. ASSUME IdlePump PROVE UNCHANGED <<gate, batches, batch, idle>>
  BY <1>18 DEF IdlePump, Begin
<1>19. ASSUME WakeUp PROVE UNCHANGED <<gate, batches, batch, idle>>
  BY <1>19 DEF WakeUp
<1>20. ASSUME RecordLabel PROVE UNCHANGED <<gate, batches, batch, idle>>
  BY <1>20 DEF RecordLabel
<1>21. ASSUME SubmitRecorded PROVE UNCHANGED <<gate, batches, batch, idle>>
  BY <1>21 DEF SubmitRecorded, Begin
<1>22. ASSUME ScheduleUsed PROVE UNCHANGED <<gate, batches, batch, idle>>
  BY <1>22 DEF ScheduleUsed, Schedule
<1>23. ASSUME EndBatch PROVE UNCHANGED <<gate, batches, batch, idle>>
  BY <1>23 DEF EndBatch, Begin
<1>24. ASSUME Ended PROVE UNCHANGED <<gate, batches, batch, idle>>
  BY <1>24 DEF Ended
<1>25. ASSUME PeerCall PROVE UNCHANGED <<gate, batches, batch, idle>>
  BY <1>25 DEF PeerCall, Begin
<1>26. ASSUME NEW g \in GpuGuests, FreeUsed(g) PROVE UNCHANGED <<gate, batches, batch, idle>>
  BY <1>26 DEF FreeUsed, Schedule
<1>27. ASSUME NEW g \in GpuGuests, SubmitAndWait(g) PROVE UNCHANGED <<gate, batches, batch, idle>>
  BY <1>27 DEF SubmitAndWait, Begin
<1>28. QED
  BY ONLY GpuNames, GpuNext, <1>1, <1>2, <1>3, <1>4, <1>5, <1>6, <1>7, <1>8, <1>9, <1>10, <1>11, <1>12, <1>13, <1>14, <1>15, <1>16, <1>17, <1>18, <1>19, <1>20, <1>21, <1>22, <1>23, <1>24, <1>25, <1>26, <1>27
     DEF GpuNext, Work, DecodeBatch, Proceed, ProcessorStep

(* The actions that change the submissions or their publication.           *)
LEMMA ListFrame ==
  ASSUME GpuNext
  PROVE  \/ UNCHANGED <<tracker, fifo, signalled, entries, published, publisher, fired>>
         \/ \E t \in GpuThreads : Sweep(t)
         \/ \E t \in GpuThreads : Submit(t)
         \/ \E t \in GpuThreads : Through(t)
         \/ \E t \in GpuThreads : BeginRecording(t)
         \/ \E t \in GpuThreads : Acquire(t)
         \/ \E t \in GpuThreads : MarkPublished(t)
         \/ \E t \in GpuThreads : Retire(t)
         \/ HostQueue
<1> USE DEF ring, slots, publication, deletion, locals, bounds
<1>1. ASSUME NEW t \in GpuThreads, Lock(t) PROVE UNCHANGED <<tracker, fifo, signalled, entries, published, publisher, fired>>
  BY <1>1 DEF Lock
<1>2. ASSUME NEW t \in GpuThreads, Swept(t) PROVE UNCHANGED <<tracker, fifo, signalled, entries, published, publisher, fired>>
  BY <1>2 DEF Swept
<1>3. ASSUME NEW t \in GpuThreads, Unlock(t) PROVE UNCHANGED <<tracker, fifo, signalled, entries, published, publisher, fired>>
  BY <1>3 DEF Unlock, Return
<1>4. ASSUME NEW t \in GpuThreads, AcquireNone(t) PROVE UNCHANGED <<tracker, fifo, signalled, entries, published, publisher, fired>>
  BY <1>4 DEF AcquireNone, Return
<1>5. ASSUME NEW t \in GpuThreads, Complete(t) PROVE UNCHANGED <<tracker, fifo, signalled, entries, published, publisher, fired>>
  BY <1>5 DEF Complete
<1>6. ASSUME NEW t \in GpuThreads, StartDrain(t) PROVE UNCHANGED <<tracker, fifo, signalled, entries, published, publisher, fired>>
  BY <1>6 DEF StartDrain, AfterDrain, Return
<1>7. ASSUME NEW t \in GpuThreads, RunTask(t) PROVE UNCHANGED <<tracker, fifo, signalled, entries, published, publisher, fired>>
  BY <1>7 DEF RunTask
<1>8. ASSUME NEW t \in GpuThreads, EndDrain(t) PROVE UNCHANGED <<tracker, fifo, signalled, entries, published, publisher, fired>>
  BY <1>8 DEF EndDrain, AfterDrain, Return
<1>9. ASSUME NEW t \in GpuThreads, AwaitPublished(t) PROVE UNCHANGED <<tracker, fifo, signalled, entries, published, publisher, fired>>
  BY <1>9 DEF AwaitPublished, Return
<1>10. ASSUME TakeBatch PROVE UNCHANGED <<tracker, fifo, signalled, entries, published, publisher, fired>>
  BY <1>10 DEF TakeBatch
<1>11. ASSUME IdlePump PROVE UNCHANGED <<tracker, fifo, signalled, entries, published, publisher, fired>>
  BY <1>11 DEF IdlePump, Begin
<1>12. ASSUME GoIdle PROVE UNCHANGED <<tracker, fifo, signalled, entries, published, publisher, fired>>
  BY <1>12 DEF GoIdle
<1>13. ASSUME WakeUp PROVE UNCHANGED <<tracker, fifo, signalled, entries, published, publisher, fired>>
  BY <1>13 DEF WakeUp
<1>14. ASSUME RecordLabel PROVE UNCHANGED <<tracker, fifo, signalled, entries, published, publisher, fired>>
  BY <1>14 DEF RecordLabel
<1>15. ASSUME SubmitRecorded PROVE UNCHANGED <<tracker, fifo, signalled, entries, published, publisher, fired>>
  BY <1>15 DEF SubmitRecorded, Begin
<1>16. ASSUME ScheduleUsed PROVE UNCHANGED <<tracker, fifo, signalled, entries, published, publisher, fired>>
  BY <1>16 DEF ScheduleUsed, Schedule
<1>17. ASSUME EndBatch PROVE UNCHANGED <<tracker, fifo, signalled, entries, published, publisher, fired>>
  BY <1>17 DEF EndBatch, Begin
<1>18. ASSUME Flushed PROVE UNCHANGED <<tracker, fifo, signalled, entries, published, publisher, fired>>
  BY <1>18 DEF Flushed
<1>19. ASSUME Ended PROVE UNCHANGED <<tracker, fifo, signalled, entries, published, publisher, fired>>
  BY <1>19 DEF Ended
<1>20. ASSUME PeerCall PROVE UNCHANGED <<tracker, fifo, signalled, entries, published, publisher, fired>>
  BY <1>20 DEF PeerCall, Begin
<1>21. ASSUME NEW g \in GpuGuests, SubmitBatch(g) PROVE UNCHANGED <<tracker, fifo, signalled, entries, published, publisher, fired>>
  BY <1>21 DEF SubmitBatch
<1>22. ASSUME NEW g \in GpuGuests, Quiesce(g) PROVE UNCHANGED <<tracker, fifo, signalled, entries, published, publisher, fired>>
  BY <1>22 DEF Quiesce
<1>23. ASSUME NEW g \in GpuGuests, FreeUsed(g) PROVE UNCHANGED <<tracker, fifo, signalled, entries, published, publisher, fired>>
  BY <1>23 DEF FreeUsed, Schedule
<1>24. ASSUME NEW g \in GpuGuests, SubmitAndWait(g) PROVE UNCHANGED <<tracker, fifo, signalled, entries, published, publisher, fired>>
  BY <1>24 DEF SubmitAndWait, Begin
<1>25. ASSUME NEW g \in GpuGuests, LeaveGate(g) PROVE UNCHANGED <<tracker, fifo, signalled, entries, published, publisher, fired>>
  BY <1>25 DEF LeaveGate
<1>26. QED
  BY ONLY GpuNames, GpuNext, <1>1, <1>2, <1>3, <1>4, <1>5, <1>6, <1>7, <1>8, <1>9, <1>10, <1>11, <1>12, <1>13, <1>14, <1>15, <1>16, <1>17, <1>18, <1>19, <1>20, <1>21, <1>22, <1>23, <1>24, <1>25
     DEF GpuNext, Work, DecodeBatch, Proceed, ProcessorStep

(* The actions that change the deletion queue.                             *)
LEMMA DeletionFrame ==
  ASSUME GpuNext
  PROVE  \/ UNCHANGED <<objects, completed, deleting, destroyed>>
         \/ \E t \in GpuThreads : Complete(t)
         \/ \E t \in GpuThreads : StartDrain(t)
         \/ \E t \in GpuThreads : RunTask(t)
         \/ \E t \in GpuThreads : EndDrain(t)
         \/ ScheduleUsed
         \/ \E g \in GpuGuests : FreeUsed(g)
<1> USE DEF ring, slots, publication, deletion, locals, bounds
<1>1. ASSUME NEW t \in GpuThreads, Lock(t) PROVE UNCHANGED <<objects, completed, deleting, destroyed>>
  BY <1>1 DEF Lock
<1>2. ASSUME NEW t \in GpuThreads, Sweep(t) PROVE UNCHANGED <<objects, completed, deleting, destroyed>>
  BY <1>2 DEF Sweep, CompleteFront
<1>3. ASSUME NEW t \in GpuThreads, Swept(t) PROVE UNCHANGED <<objects, completed, deleting, destroyed>>
  BY <1>3 DEF Swept
<1>4. ASSUME NEW t \in GpuThreads, Submit(t) PROVE UNCHANGED <<objects, completed, deleting, destroyed>>
  BY <1>4 DEF Submit
<1>5. ASSUME NEW t \in GpuThreads, Through(t) PROVE UNCHANGED <<objects, completed, deleting, destroyed>>
  BY <1>5 DEF Through, CompleteFront
<1>6. ASSUME NEW t \in GpuThreads, BeginRecording(t) PROVE UNCHANGED <<objects, completed, deleting, destroyed>>
  BY <1>6 DEF BeginRecording
<1>7. ASSUME NEW t \in GpuThreads, Unlock(t) PROVE UNCHANGED <<objects, completed, deleting, destroyed>>
  BY <1>7 DEF Unlock, Return
<1>8. ASSUME NEW t \in GpuThreads, Acquire(t) PROVE UNCHANGED <<objects, completed, deleting, destroyed>>
  BY <1>8 DEF Acquire
<1>9. ASSUME NEW t \in GpuThreads, AcquireNone(t) PROVE UNCHANGED <<objects, completed, deleting, destroyed>>
  BY <1>9 DEF AcquireNone, Return
<1>10. ASSUME NEW t \in GpuThreads, MarkPublished(t) PROVE UNCHANGED <<objects, completed, deleting, destroyed>>
  BY <1>10 DEF MarkPublished
<1>11. ASSUME NEW t \in GpuThreads, Retire(t) PROVE UNCHANGED <<objects, completed, deleting, destroyed>>
  BY <1>11 DEF Retire
<1>12. ASSUME NEW t \in GpuThreads, AwaitPublished(t) PROVE UNCHANGED <<objects, completed, deleting, destroyed>>
  BY <1>12 DEF AwaitPublished, Return
<1>13. ASSUME HostQueue PROVE UNCHANGED <<objects, completed, deleting, destroyed>>
  BY <1>13 DEF HostQueue, Signal
<1>14. ASSUME TakeBatch PROVE UNCHANGED <<objects, completed, deleting, destroyed>>
  BY <1>14 DEF TakeBatch
<1>15. ASSUME IdlePump PROVE UNCHANGED <<objects, completed, deleting, destroyed>>
  BY <1>15 DEF IdlePump, Begin
<1>16. ASSUME GoIdle PROVE UNCHANGED <<objects, completed, deleting, destroyed>>
  BY <1>16 DEF GoIdle
<1>17. ASSUME WakeUp PROVE UNCHANGED <<objects, completed, deleting, destroyed>>
  BY <1>17 DEF WakeUp
<1>18. ASSUME RecordLabel PROVE UNCHANGED <<objects, completed, deleting, destroyed>>
  BY <1>18 DEF RecordLabel
<1>19. ASSUME SubmitRecorded PROVE UNCHANGED <<objects, completed, deleting, destroyed>>
  BY <1>19 DEF SubmitRecorded, Begin
<1>20. ASSUME EndBatch PROVE UNCHANGED <<objects, completed, deleting, destroyed>>
  BY <1>20 DEF EndBatch, Begin
<1>21. ASSUME Flushed PROVE UNCHANGED <<objects, completed, deleting, destroyed>>
  BY <1>21 DEF Flushed
<1>22. ASSUME Ended PROVE UNCHANGED <<objects, completed, deleting, destroyed>>
  BY <1>22 DEF Ended
<1>23. ASSUME PeerCall PROVE UNCHANGED <<objects, completed, deleting, destroyed>>
  BY <1>23 DEF PeerCall, Begin
<1>24. ASSUME NEW g \in GpuGuests, SubmitBatch(g) PROVE UNCHANGED <<objects, completed, deleting, destroyed>>
  BY <1>24 DEF SubmitBatch
<1>25. ASSUME NEW g \in GpuGuests, Quiesce(g) PROVE UNCHANGED <<objects, completed, deleting, destroyed>>
  BY <1>25 DEF Quiesce
<1>26. ASSUME NEW g \in GpuGuests, SubmitAndWait(g) PROVE UNCHANGED <<objects, completed, deleting, destroyed>>
  BY <1>26 DEF SubmitAndWait, Begin
<1>27. ASSUME NEW g \in GpuGuests, LeaveGate(g) PROVE UNCHANGED <<objects, completed, deleting, destroyed>>
  BY <1>27 DEF LeaveGate
<1>28. QED
  BY ONLY GpuNames, GpuNext, <1>1, <1>2, <1>3, <1>4, <1>5, <1>6, <1>7, <1>8, <1>9, <1>10, <1>11, <1>12, <1>13, <1>14, <1>15, <1>16, <1>17, <1>18, <1>19, <1>20, <1>21, <1>22, <1>23, <1>24, <1>25, <1>26, <1>27
     DEF GpuNext, Work, DecodeBatch, Proceed, ProcessorStep

(* Types of the ring.                                                      *)
LEMMA RingTypeStep ==
  ASSUME GpuTypeOK, GpuNext
  PROVE  RingTypes'
<1> USE GpuNames
    DEF GpuTypeOK, RingTypes, ring, slots, publication, deletion, locals, bounds
<1> DEFINE Goal == RingTypes'
<1>1. ASSUME TakeBatch PROVE Goal
  BY <1>1, GpuLists DEF TakeBatch
<1>2. ASSUME GoIdle PROVE Goal
  BY <1>2 DEF GoIdle, AtRest
<1>3. ASSUME Flushed PROVE Goal
  BY <1>3 DEF Flushed
<1>4. ASSUME NEW g \in GpuGuests, SubmitBatch(g) PROVE Goal
  <2>1. gate' \in GpuGuests \cup {NoThread} /\ batch' = batch /\ idle' \in BOOLEAN
    BY <1>4 DEF SubmitBatch, IdleAfterSubmit
  <2>2. batches' = Append(batches, NoThread) \/ batches' = Append(batches, g)
    BY <1>4 DEF SubmitBatch
  <2>3. \A x \in GpuGuests \cup {NoThread} : Append(batches, x) \in Seq(GpuGuests \cup {NoThread})
    BY GpuLists
  <2>4. batches' \in Seq(GpuGuests \cup {NoThread})
    BY ONLY <2>2, <2>3
  <2>5. QED
    BY <2>1, <2>4
<1>5. ASSUME NEW g \in GpuGuests, Quiesce(g) PROVE Goal
  BY <1>5 DEF Quiesce
<1>6. ASSUME NEW g \in GpuGuests, LeaveGate(g) PROVE Goal
  BY <1>6 DEF LeaveGate
<1>7. QED
  BY <1>1, <1>2, <1>3, <1>4, <1>5, <1>6, GateFrame

(* Types of the submissions and of their publication.                      *)
LEMMA ListTypeStep ==
  ASSUME GpuTypeOK, GpuNext
  PROVE  ListTypes'
<1> USE GpuNames
    DEF GpuTypeOK, ListTypes, NoId, ring, slots, publication, deletion, locals, bounds
<1> DEFINE Goal == ListTypes'
<1>1. ASSUME NEW t \in GpuThreads, Sweep(t) PROVE Goal
  BY <1>1, FrontTypes DEF Sweep, CompleteFront
<1>2. ASSUME NEW t \in GpuThreads, Submit(t) PROVE Goal
  BY <1>2, GpuLists DEF Submit, Recording, TrackerStates, EntryStates
<1>3. ASSUME NEW t \in GpuThreads, Through(t) PROVE Goal
  BY <1>3, FrontTypes DEF Through, CompleteFront
<1>4. ASSUME NEW t \in GpuThreads, BeginRecording(t) PROVE Goal
  BY <1>4 DEF BeginRecording, TrackerStates
<1>5. ASSUME NEW t \in GpuThreads, Acquire(t) PROVE Goal
  <2>1. fired' = Append(fired, Head(entries).id) /\ publisher' = t
        /\ UNCHANGED <<tracker, fifo, signalled, published>>
    BY <1>5 DEF Acquire
  <2>2. fired' \in Seq(Ids) /\ entries' \in Seq([id : Ids, state : EntryStates])
    BY <1>5, <2>1, EntriesTaken, GpuLists
  <2>3. QED
    BY <2>1, <2>2
<1>6. ASSUME NEW t \in GpuThreads, MarkPublished(t) PROVE Goal
  BY <1>6, GpuLists DEF MarkPublished
<1>7. ASSUME NEW t \in GpuThreads, Retire(t) PROVE Goal
  BY <1>7 DEF Retire, TrackerStates
<1>8. ASSUME HostQueue PROVE Goal
  BY <1>8 DEF HostQueue, Signal
<1>9. QED
  BY <1>1, <1>2, <1>3, <1>4, <1>5, <1>6, <1>7, <1>8, ListFrame

(* Types of the deletion queue.                                            *)
LEMMA DeletionTypeStep ==
  ASSUME GpuTypeOK, GpuNext
  PROVE  DeletionTypes'
<1> USE GpuNames
    DEF GpuTypeOK, DeletionTypes, NoId, Ids, ring, slots, publication, deletion, locals, bounds
<1> DEFINE Goal == DeletionTypes'
<1>1. ASSUME NEW t \in GpuThreads, Complete(t) PROVE Goal
  BY <1>1 DEF Complete, ThenDrain
<1>2. ASSUME NEW t \in GpuThreads, StartDrain(t) PROVE Goal
  BY <1>2 DEF StartDrain, AfterDrain
<1>3. ASSUME NEW t \in GpuThreads, RunTask(t) PROVE Goal
  <2>1. objects # <<>> /\ objects' = Tail(objects) /\ destroyed' = destroyed \cup {Head(objects)}
        /\ UNCHANGED <<completed, deleting>>
    BY <1>3 DEF RunTask, HeadReady
  <2>2. Head(objects) \in Ids /\ Tail(objects) \in Seq(Ids)
    BY <2>1, GpuLists
  <2>3. QED
    BY <2>1, <2>2
<1>4. ASSUME NEW t \in GpuThreads, EndDrain(t) PROVE Goal
  BY <1>4 DEF EndDrain, AfterDrain
<1>5. ASSUME ScheduleUsed PROVE Goal
  BY <1>5, GpuLists DEF ScheduleUsed, Schedule, Recording
<1>6. ASSUME NEW g \in GpuGuests, FreeUsed(g) PROVE Goal
  BY <1>6, GpuLists DEF FreeUsed, Schedule
<1>7. QED
  BY <1>1, <1>2, <1>3, <1>4, <1>5, <1>6, DeletionFrame

(* Types of the places and calls of the threads.                           *)
LEMMA CallTypeStep ==
  ASSUME CallTypes, GpuNext
  PROVE  CallTypes'
<1> USE GpuNames, GpuPlaces, GpuOps
    DEF CallTypes, Proceeds, ring, slots, publication, deletion, locals, bounds
<1> DEFINE Goal == CallTypes'
<1>1. ASSUME NEW t \in GpuThreads, Lock(t) PROVE Goal
  BY <1>1 DEF Lock
<1>2. ASSUME NEW t \in GpuThreads, Sweep(t) PROVE Goal
  BY <1>2 DEF Sweep, CompleteFront
<1>3. ASSUME NEW t \in GpuThreads, Swept(t) PROVE Goal
  BY <1>3 DEF Swept
<1>4. ASSUME NEW t \in GpuThreads, Submit(t) PROVE Goal
  BY <1>4 DEF Submit
<1>5. ASSUME NEW t \in GpuThreads, Through(t) PROVE Goal
  BY <1>5 DEF Through, CompleteFront
<1>6. ASSUME NEW t \in GpuThreads, BeginRecording(t) PROVE Goal
  BY <1>6 DEF BeginRecording
<1>7. ASSUME NEW t \in GpuThreads, Unlock(t) PROVE Goal
  BY <1>7 DEF Unlock, Return
<1>8. ASSUME NEW t \in GpuThreads, Acquire(t) PROVE Goal
  BY <1>8 DEF Acquire
<1>9. ASSUME NEW t \in GpuThreads, AcquireNone(t) PROVE Goal
  BY <1>9 DEF AcquireNone, Return
<1>10. ASSUME NEW t \in GpuThreads, Complete(t) PROVE Goal
  BY <1>10 DEF Complete, ThenDrain
<1>11. ASSUME NEW t \in GpuThreads, StartDrain(t) PROVE Goal
  BY <1>11 DEF StartDrain, AfterDrain, Return
<1>12. ASSUME NEW t \in GpuThreads, RunTask(t) PROVE Goal
  BY <1>12 DEF RunTask
<1>13. ASSUME NEW t \in GpuThreads, EndDrain(t) PROVE Goal
  BY <1>13 DEF EndDrain, AfterDrain, Return
<1>14. ASSUME NEW t \in GpuThreads, MarkPublished(t) PROVE Goal
  BY <1>14 DEF MarkPublished
<1>15. ASSUME NEW t \in GpuThreads, Retire(t) PROVE Goal
  BY <1>15 DEF Retire
<1>16. ASSUME NEW t \in GpuThreads, AwaitPublished(t) PROVE Goal
  BY <1>16 DEF AwaitPublished, Return
<1>17. ASSUME HostQueue PROVE Goal
  BY <1>17 DEF HostQueue, Signal
<1>18. ASSUME TakeBatch PROVE Goal
  BY <1>18 DEF TakeBatch
<1>19. ASSUME IdlePump PROVE Goal
  BY <1>19 DEF IdlePump, Begin
<1>20. ASSUME GoIdle PROVE Goal
  BY <1>20 DEF GoIdle
<1>21. ASSUME WakeUp PROVE Goal
  BY <1>21 DEF WakeUp
<1>22. ASSUME RecordLabel PROVE Goal
  BY <1>22 DEF RecordLabel
<1>23. ASSUME SubmitRecorded PROVE Goal
  BY <1>23 DEF SubmitRecorded, Begin
<1>24. ASSUME ScheduleUsed PROVE Goal
  BY <1>24 DEF ScheduleUsed, Schedule
<1>25. ASSUME EndBatch PROVE Goal
  BY <1>25 DEF EndBatch, Begin
<1>26. ASSUME Flushed PROVE Goal
  BY <1>26 DEF Flushed
<1>27. ASSUME Ended PROVE Goal
  BY <1>27 DEF Ended
<1>28. ASSUME PeerCall PROVE Goal
  BY <1>28 DEF PeerCall, Begin
<1>29. ASSUME NEW g \in GpuGuests, SubmitBatch(g) PROVE Goal
  BY <1>29 DEF SubmitBatch
<1>30. ASSUME NEW g \in GpuGuests, Quiesce(g) PROVE Goal
  BY <1>30 DEF Quiesce
<1>31. ASSUME NEW g \in GpuGuests, FreeUsed(g) PROVE Goal
  BY <1>31 DEF FreeUsed, Schedule
<1>32. ASSUME NEW g \in GpuGuests, SubmitAndWait(g) PROVE Goal
  BY <1>32 DEF SubmitAndWait, Begin
<1>33. ASSUME NEW g \in GpuGuests, LeaveGate(g) PROVE Goal
  BY <1>33 DEF LeaveGate
<1>34. QED
  BY ONLY GpuNames, GpuNext, <1>1, <1>2, <1>3, <1>4, <1>5, <1>6, <1>7, <1>8, <1>9, <1>10, <1>11, <1>12, <1>13, <1>14, <1>15, <1>16, <1>17, <1>18, <1>19, <1>20, <1>21, <1>22, <1>23, <1>24, <1>25, <1>26, <1>27, <1>28, <1>29, <1>30, <1>31, <1>32, <1>33
     DEF GpuNext, Work, DecodeBatch, Proceed, ProcessorStep

(* Types of what the calls keep.                                           *)
LEMMA LocalTypeStep ==
  ASSUME GpuTypeOK, GpuNext
  PROVE  LocalTypes'
<1> USE GpuNames
    DEF GpuTypeOK, LocalTypes, NoId, ring, slots, publication, deletion, locals, bounds
<1> DEFINE Goal == LocalTypes'
<1>1. ASSUME NEW t \in GpuThreads, Lock(t) PROVE Goal
  BY <1>1, GpuLists DEF Lock
<1>2. ASSUME NEW t \in GpuThreads, Sweep(t) PROVE Goal
  BY <1>2, FrontTypes DEF Sweep, CompleteFront
<1>3. ASSUME NEW t \in GpuThreads, Swept(t) PROVE Goal
  BY <1>3 DEF Swept, SlotOwner
<1>4. ASSUME NEW t \in GpuThreads, Submit(t) PROVE Goal
  BY <1>4 DEF Submit
<1>5. ASSUME NEW t \in GpuThreads, Through(t) PROVE Goal
  BY <1>5, FrontTypes DEF Through, CompleteFront
<1>6. ASSUME NEW t \in GpuThreads, BeginRecording(t) PROVE Goal
  BY <1>6 DEF BeginRecording
<1>7. ASSUME NEW t \in GpuThreads, Unlock(t) PROVE Goal
  BY <1>7 DEF Unlock, Return
<1>8. ASSUME NEW t \in GpuThreads, Acquire(t) PROVE Goal
  BY <1>8, EntriesTaken DEF Acquire, FrontReady
<1>9. ASSUME NEW t \in GpuThreads, AcquireNone(t) PROVE Goal
  BY <1>9 DEF AcquireNone, Return
<1>10. ASSUME NEW t \in GpuThreads, Complete(t) PROVE Goal
  BY <1>10 DEF Complete
<1>11. ASSUME NEW t \in GpuThreads, StartDrain(t) PROVE Goal
  BY <1>11 DEF StartDrain, AfterDrain, Return
<1>12. ASSUME NEW t \in GpuThreads, RunTask(t) PROVE Goal
  BY <1>12 DEF RunTask
<1>13. ASSUME NEW t \in GpuThreads, EndDrain(t) PROVE Goal
  BY <1>13 DEF EndDrain, AfterDrain, Return
<1>14. ASSUME NEW t \in GpuThreads, MarkPublished(t) PROVE Goal
  BY <1>14 DEF MarkPublished
<1>15. ASSUME NEW t \in GpuThreads, Retire(t) PROVE Goal
  BY <1>15 DEF Retire
<1>16. ASSUME NEW t \in GpuThreads, AwaitPublished(t) PROVE Goal
  BY <1>16 DEF AwaitPublished, Return
<1>17. ASSUME HostQueue PROVE Goal
  BY <1>17 DEF HostQueue, Signal
<1>18. ASSUME TakeBatch PROVE Goal
  BY <1>18 DEF TakeBatch
<1>19. ASSUME IdlePump PROVE Goal
  BY <1>19 DEF IdlePump, Begin
<1>20. ASSUME GoIdle PROVE Goal
  BY <1>20 DEF GoIdle
<1>21. ASSUME WakeUp PROVE Goal
  BY <1>21 DEF WakeUp
<1>22. ASSUME RecordLabel PROVE Goal
  BY <1>22 DEF RecordLabel
<1>23. ASSUME SubmitRecorded PROVE Goal
  BY <1>23 DEF SubmitRecorded, Begin
<1>24. ASSUME ScheduleUsed PROVE Goal
  BY <1>24 DEF ScheduleUsed, Schedule
<1>25. ASSUME EndBatch PROVE Goal
  BY <1>25 DEF EndBatch, Begin
<1>26. ASSUME Flushed PROVE Goal
  <2>1. UNCHANGED <<latest, until>>
        /\ (goal' = goal \/ \E s \in Ids : goal' = [goal EXCEPT ![RingWorker] = s - 1])
    BY <1>26 DEF Flushed, Recording
  <2>2. \A s \in Ids : s - 1 \in Ids \cup {NoId}
    BY GpuAssumption DEF Ids
  <2>3. QED
    BY <2>1, <2>2
<1>27. ASSUME Ended PROVE Goal
  BY <1>27 DEF Ended
<1>28. ASSUME PeerCall PROVE Goal
  BY <1>28 DEF PeerCall, Begin
<1>29. ASSUME NEW g \in GpuGuests, SubmitBatch(g) PROVE Goal
  BY <1>29 DEF SubmitBatch
<1>30. ASSUME NEW g \in GpuGuests, Quiesce(g) PROVE Goal
  BY <1>30 DEF Quiesce
<1>31. ASSUME NEW g \in GpuGuests, FreeUsed(g) PROVE Goal
  BY <1>31 DEF FreeUsed, Schedule
<1>32. ASSUME NEW g \in GpuGuests, SubmitAndWait(g) PROVE Goal
  BY <1>32 DEF SubmitAndWait, Begin
<1>33. ASSUME NEW g \in GpuGuests, LeaveGate(g) PROVE Goal
  BY <1>33 DEF LeaveGate
<1>34. QED
  BY ONLY GpuNames, GpuNext, <1>1, <1>2, <1>3, <1>4, <1>5, <1>6, <1>7, <1>8, <1>9, <1>10, <1>11, <1>12, <1>13, <1>14, <1>15, <1>16, <1>17, <1>18, <1>19, <1>20, <1>21, <1>22, <1>23, <1>24, <1>25, <1>26, <1>27, <1>28, <1>29, <1>30, <1>31, <1>32, <1>33
     DEF GpuNext, Work, DecodeBatch, Proceed, ProcessorStep

(* Types of the counts that the bounds keep.                               *)
LEMMA CountTypeStep ==
  ASSUME CountTypes, GpuNext
  PROVE  CountTypes'
<1> USE GpuNames, GpuAssumption
    DEF CountTypes, ring, slots, publication, deletion, locals, bounds
<1> DEFINE Goal == CountTypes'
<1>1. ASSUME NEW t \in GpuThreads, Lock(t) PROVE Goal
  BY <1>1 DEF Lock
<1>2. ASSUME NEW t \in GpuThreads, Sweep(t) PROVE Goal
  BY <1>2 DEF Sweep, CompleteFront
<1>3. ASSUME NEW t \in GpuThreads, Swept(t) PROVE Goal
  BY <1>3 DEF Swept
<1>4. ASSUME NEW t \in GpuThreads, Submit(t) PROVE Goal
  BY <1>4 DEF Submit
<1>5. ASSUME NEW t \in GpuThreads, Through(t) PROVE Goal
  BY <1>5 DEF Through, CompleteFront
<1>6. ASSUME NEW t \in GpuThreads, BeginRecording(t) PROVE Goal
  BY <1>6 DEF BeginRecording
<1>7. ASSUME NEW t \in GpuThreads, Unlock(t) PROVE Goal
  BY <1>7 DEF Unlock, Return
<1>8. ASSUME NEW t \in GpuThreads, Acquire(t) PROVE Goal
  BY <1>8 DEF Acquire
<1>9. ASSUME NEW t \in GpuThreads, AcquireNone(t) PROVE Goal
  BY <1>9 DEF AcquireNone, Return
<1>10. ASSUME NEW t \in GpuThreads, Complete(t) PROVE Goal
  BY <1>10 DEF Complete
<1>11. ASSUME NEW t \in GpuThreads, StartDrain(t) PROVE Goal
  BY <1>11 DEF StartDrain, AfterDrain, Return
<1>12. ASSUME NEW t \in GpuThreads, RunTask(t) PROVE Goal
  BY <1>12 DEF RunTask
<1>13. ASSUME NEW t \in GpuThreads, EndDrain(t) PROVE Goal
  BY <1>13 DEF EndDrain, AfterDrain, Return
<1>14. ASSUME NEW t \in GpuThreads, MarkPublished(t) PROVE Goal
  BY <1>14 DEF MarkPublished
<1>15. ASSUME NEW t \in GpuThreads, Retire(t) PROVE Goal
  BY <1>15 DEF Retire
<1>16. ASSUME NEW t \in GpuThreads, AwaitPublished(t) PROVE Goal
  BY <1>16 DEF AwaitPublished, Return
<1>17. ASSUME HostQueue PROVE Goal
  BY <1>17 DEF HostQueue, Signal
<1>18. ASSUME TakeBatch PROVE Goal
  BY <1>18 DEF TakeBatch
<1>19. ASSUME IdlePump PROVE Goal
  BY <1>19 DEF IdlePump, Begin
<1>20. ASSUME GoIdle PROVE Goal
  BY <1>20 DEF GoIdle
<1>21. ASSUME WakeUp PROVE Goal
  BY <1>21 DEF WakeUp
<1>22. ASSUME RecordLabel PROVE Goal
  BY <1>22 DEF RecordLabel, Recording
<1>23. ASSUME SubmitRecorded PROVE Goal
  BY <1>23 DEF SubmitRecorded, Begin, MayFlush
<1>24. ASSUME ScheduleUsed PROVE Goal
  BY <1>24 DEF ScheduleUsed, Schedule
<1>25. ASSUME EndBatch PROVE Goal
  BY <1>25 DEF EndBatch, Begin
<1>26. ASSUME Flushed PROVE Goal
  BY <1>26 DEF Flushed
<1>27. ASSUME Ended PROVE Goal
  BY <1>27 DEF Ended, LeftPending
<1>28. ASSUME PeerCall PROVE Goal
  BY <1>28 DEF PeerCall, Begin, MayFlush
<1>29. ASSUME NEW g \in GpuGuests, SubmitBatch(g) PROVE Goal
  BY <1>29 DEF SubmitBatch, MayFlush
<1>30. ASSUME NEW g \in GpuGuests, Quiesce(g) PROVE Goal
  BY <1>30 DEF Quiesce, MayFlush
<1>31. ASSUME NEW g \in GpuGuests, FreeUsed(g) PROVE Goal
  BY <1>31 DEF FreeUsed, Schedule
<1>32. ASSUME NEW g \in GpuGuests, SubmitAndWait(g) PROVE Goal
  BY <1>32 DEF SubmitAndWait, Begin
<1>33. ASSUME NEW g \in GpuGuests, LeaveGate(g) PROVE Goal
  BY <1>33 DEF LeaveGate
<1>34. QED
  BY ONLY GpuNames, GpuNext, <1>1, <1>2, <1>3, <1>4, <1>5, <1>6, <1>7, <1>8, <1>9, <1>10, <1>11, <1>12, <1>13, <1>14, <1>15, <1>16, <1>17, <1>18, <1>19, <1>20, <1>21, <1>22, <1>23, <1>24, <1>25, <1>26, <1>27, <1>28, <1>29, <1>30, <1>31, <1>32, <1>33
     DEF GpuNext, Work, DecodeBatch, Proceed, ProcessorStep

(* Every step keeps the types.                                             *)
LEMMA GpuTypeStep ==
  ASSUME GpuTypeOK, GpuNext
  PROVE  GpuTypeOK'
BY RingTypeStep, ListTypeStep, DeletionTypeStep, CallTypeStep, LocalTypeStep, CountTypeStep
   DEF GpuTypeOK, RingTypes, ListTypes, DeletionTypes, CallTypes, LocalTypes, CountTypes

----------------------------------------------------------------------------
(* Submissions: the numbers                                                *)

LEMMA Numbers ==
  ASSUME GpuTypeOK, OrderInv
  PROVE  /\ published \in Nat /\ Len(entries) \in Nat /\ Len(fifo) \in Nat
         /\ Submitted \in Nat /\ Finished \in Nat
         /\ published <= Finished /\ Finished <= Submitted /\ Finished + Len(fifo) = Submitted
         /\ Publishing => published + 1 <= Finished
         /\ entries # <<>> <=> published < Submitted
         /\ fifo # <<>> <=> Finished < Submitted
<1>1. published \in Nat /\ entries \in Seq([id : Ids, state : EntryStates]) /\ fifo \in Seq(Ids)
  BY GpuAssumption DEF GpuTypeOK, Ids, NoId
<1>2. Len(entries) \in Nat /\ Len(fifo) \in Nat /\ (entries # <<>> <=> Len(entries) # 0)
      /\ (fifo # <<>> <=> Len(fifo) # 0) /\ (entries # <<>> => Head(entries) = entries[1] /\ 1 \in DOMAIN entries)
  BY ONLY <1>1, ListElements
<1>3. Submitted \in Nat /\ Finished \in Nat
      /\ published <= Finished /\ Finished <= Submitted /\ Finished + Len(fifo) = Submitted
  BY <1>1, <1>2 DEF OrderInv, Submitted, Finished
<1>4. Publishing => published + 1 <= Finished
  BY <1>1, <1>2, <1>3 DEF OrderInv, Publishing
<1>5. entries # <<>> <=> published < Submitted
  BY <1>1, <1>2 DEF Submitted
<1>6. fifo # <<>> <=> Finished < Submitted
  BY <1>1, <1>2, <1>3
<1>7. QED
  BY <1>1, <1>2, <1>3, <1>4, <1>5, <1>6

(* What is recorded is the next submission.                                *)
LEMMA RecordingIsNext ==
  ASSUME GpuTypeOK, OrderInv, TrackerInv
  PROVE  Recording = {} \/ (Recording = {Submitted + 1} /\ Submitted + 1 \in Ids)
<1>1. \A s \in Recording : s = Submitted + 1 /\ s \in Ids
  BY DEF Recording, TrackerInv
<1>2. QED
  BY ONLY <1>1

(* The fence of the first unfinished submission has been seen.             *)
LEMMA FrontFinished ==
  ASSUME GpuTypeOK, OrderInv, TrackerInv, NEW t \in GpuThreads, FrontSignalled, CompleteFront(t)
  PROVE  /\ Head(fifo) = Finished + 1 /\ Finished + 1 \in Ids /\ Finished < Submitted
         /\ Submitted' = Submitted /\ Finished' = Finished + 1 /\ Len(fifo') = Len(fifo) - 1
         /\ published' = published /\ Publishing' = Publishing /\ Recording' = Recording
         /\ fired' = fired /\ publisher' = publisher /\ Len(entries') = Len(entries)
         /\ \A s \in Ids : s # Finished + 1 => tracker'[s] = tracker[s]
         /\ latest' = [latest EXCEPT ![t] = Finished + 1]
         /\ OrderInv' /\ TrackerInv'
<1> USE Numbers
<1>1. fifo # <<>> /\ fifo' = Tail(fifo) /\ fifo \in Seq(Ids) /\ Head(fifo) \in signalled
  BY DEF FrontSignalled, CompleteFront, GpuTypeOK
<1>2. Head(fifo) = fifo[1] /\ 1 \in DOMAIN fifo /\ Len(fifo') = Len(fifo) - 1 /\ Len(fifo) > 0 /\ fifo[1] \in Ids
      /\ DOMAIN fifo' = 1 .. Len(fifo) - 1 /\ \A i \in 1 .. Len(fifo) - 1 : fifo'[i] = fifo[i + 1]
      /\ DOMAIN fifo = 1 .. Len(fifo)
  <2>1. fifo' \in Seq(Ids)
    BY <1>1, ListElements
  <2>2. QED
    BY ONLY <1>1, <2>1, ListElements
<1>3. Head(fifo) = Finished + 1 /\ Finished + 1 \in Ids /\ Finished < Submitted
  BY <1>2 DEF OrderInv
<1>4. /\ entries' = [i \in DOMAIN entries |->
                       IF entries[i].id = Finished + 1 THEN [entries[i] EXCEPT !.state = "FenceComplete"]
                                                       ELSE entries[i]]
      /\ tracker' = [tracker EXCEPT ![Finished + 1] = "Completed"]
      /\ latest' = [latest EXCEPT ![t] = Finished + 1]
      /\ UNCHANGED <<labelled, signalled, published, publisher, fired>>
  BY <1>3 DEF CompleteFront
<1>5. entries \in Seq([id : Ids, state : EntryStates]) /\ DOMAIN entries = 1 .. Len(entries)
      /\ \A i \in 1 .. Len(entries) : entries[i] \in [id : Ids, state : EntryStates]
  <2>1. entries \in Seq([id : Ids, state : EntryStates])
    BY DEF GpuTypeOK
  <2>2. QED
    BY ONLY <2>1, ListElements
<1>6. entries' \in Seq([id : Ids, state : EntryStates])
  BY FrontTypes
<1>7. DOMAIN entries' = 1 .. Len(entries) /\ DOMAIN entries' = 1 .. Len(entries') /\ Len(entries') \in Nat
  BY ONLY <1>4, <1>5, <1>6, ListElements
<1>8. Len(entries') = Len(entries)
  BY <1>7
<1>9. Submitted' = Submitted /\ Finished' = Finished + 1
  BY <1>2, <1>4, <1>8 DEF Submitted, Finished
<1>10. \A i \in DOMAIN entries :
         /\ entries'[i].id = entries[i].id
         /\ entries'[i].state = IF published + i = Finished + 1 THEN "FenceComplete" ELSE entries[i].state
  BY <1>4, <1>5 DEF OrderInv
<1>11. Publishing' = Publishing
  <2>1. (entries' # <<>> <=> entries # <<>>) /\ (entries # <<>> => Head(entries) = entries[1] /\ Head(entries') = entries'[1]
                                                               /\ 1 \in DOMAIN entries)
    BY ONLY <1>5, <1>6, <1>8, ListElements
  <2>2. entries # <<>> /\ published + 1 = Finished + 1 => entries[1].state # "Publishing"
    BY <1>3, <2>1 DEF OrderInv
  <2>3. QED
    BY <1>10, <2>1, <2>2 DEF Publishing
<1>12. OrderInv'
  <2>1. Len(fifo') <= Len(entries')
    BY <1>2, <1>8 DEF OrderInv
  <2>2. ASSUME NEW i \in DOMAIN fifo' PROVE fifo'[i] = Finished' + i
    <3>1. i + 1 \in DOMAIN fifo /\ i \in Nat /\ fifo'[i] = fifo[i + 1]
      BY <1>2
    <3>2. fifo[i + 1] = Finished + (i + 1)
      BY <3>1 DEF OrderInv
    <3>3. QED
      BY <1>9, <3>1, <3>2
  <2>3. ASSUME NEW i \in 1 .. Len(entries)
        PROVE  /\ entries'[i].id = published + i
               /\ entries'[i].state = "Submitted" <=> published + i > Finished + 1
               /\ entries'[i].state = "Publishing" => i = 1
    <3>1. /\ entries[i].id = published + i
          /\ entries[i].state = "Submitted" <=> published + i > Finished
          /\ entries[i].state = "Publishing" => i = 1
      BY <1>5 DEF OrderInv
    <3>2. /\ entries'[i].id = entries[i].id
          /\ entries'[i].state = IF published + i = Finished + 1 THEN "FenceComplete" ELSE entries[i].state
      BY <1>5, <1>10
    <3>3. published \in Nat /\ Finished \in Nat /\ i \in Nat
      OBVIOUS
    <3>4. CASE published + i = Finished + 1
      <4>1. entries'[i].state = "FenceComplete" /\ ~(published + i > Finished + 1)
        BY ONLY <3>2, <3>3, <3>4
      <4>2. QED
        BY ONLY <3>1, <3>2, <4>1
    <3>5. CASE published + i # Finished + 1
      <4>1. entries'[i].state = entries[i].state
        BY ONLY <3>2, <3>5
      <4>2. published + i > Finished <=> published + i > Finished + 1
        BY ONLY <3>3, <3>5
      <4>3. QED
        BY ONLY <3>1, <3>2, <4>1, <4>2
    <3>6. QED
      BY ONLY <3>4, <3>5
  <2>4. QED
    BY <1>4, <1>7, <1>8, <1>9, <2>1, <2>2, <2>3 DEF OrderInv
<1>13. tracker \in [Ids -> TrackerStates] /\ \A s \in Ids : s \in Nat
  BY DEF GpuTypeOK, Ids
<1>14. TrackerInv'
  BY <1>1, <1>3, <1>4, <1>9, <1>13 DEF TrackerInv
<1>15. Recording' = Recording
  <2>1. tracker[Finished + 1] = "Submitted"
    BY <1>3, <1>13 DEF TrackerInv
  <2>2. QED
    BY <1>4, <1>13, <2>1 DEF Recording
<1>16. QED
  BY <1>2, <1>3, <1>4, <1>8, <1>9, <1>11, <1>12, <1>13, <1>14, <1>15

(* A submission is made.                                                   *)
LEMMA SubmissionMade ==
  ASSUME GpuTypeOK, OrderInv, TrackerInv, NEW t \in GpuThreads, Submit(t)
  PROVE  /\ Recording = {Submitted + 1} /\ Submitted + 1 \in Ids
         /\ Submitted' = Submitted + 1 /\ Finished' = Finished /\ Len(fifo') = Len(fifo) + 1
         /\ published' = published /\ Publishing' = Publishing /\ Recording' = {}
         /\ fired' = fired /\ publisher' = publisher
         /\ \A s \in Ids : s # Submitted + 1 => tracker'[s] = tracker[s]
         /\ OrderInv' /\ TrackerInv'
<1> USE Numbers
<1>1. Recording = {Submitted + 1} /\ Submitted + 1 \in Ids
  BY RecordingIsNext DEF Submit
<1>2. /\ tracker' = [tracker EXCEPT ![Submitted + 1] = "Submitted"]
      /\ fifo' = Append(fifo, Submitted + 1)
      /\ entries' = Append(entries, [id |-> Submitted + 1, state |-> "Submitted"])
      /\ UNCHANGED <<signalled, published, publisher, fired>>
  BY <1>1 DEF Submit
<1>3. tracker \in [Ids -> TrackerStates] /\ fifo \in Seq(Ids) /\ entries \in Seq([id : Ids, state : EntryStates])
  BY DEF GpuTypeOK
<1>4. [id |-> Submitted + 1, state |-> "Submitted"] \in [id : Ids, state : EntryStates]
  BY <1>1 DEF EntryStates
<1>5. /\ Len(fifo') = Len(fifo) + 1 /\ DOMAIN fifo' = 1 .. Len(fifo) + 1 /\ DOMAIN fifo = 1 .. Len(fifo)
      /\ fifo'[Len(fifo) + 1] = Submitted + 1 /\ \A i \in 1 .. Len(fifo) : fifo'[i] = fifo[i]
  BY ONLY <1>1, <1>2, <1>3, ListElements
<1>6. /\ Len(entries') = Len(entries) + 1 /\ DOMAIN entries' = 1 .. Len(entries) + 1
      /\ DOMAIN entries = 1 .. Len(entries)
      /\ entries'[Len(entries) + 1] = [id |-> Submitted + 1, state |-> "Submitted"]
      /\ \A i \in 1 .. Len(entries) : entries'[i] = entries[i]
      /\ Head(entries') = entries'[1] /\ entries' # <<>> /\ (entries # <<>> => Head(entries) = entries[1])
      /\ (entries # <<>> <=> Len(entries) > 0)
  BY ONLY <1>2, <1>3, <1>4, ListElements
<1>7. Submitted' = Submitted + 1 /\ Finished' = Finished
  <2>1. published' = published /\ Len(entries') = Len(entries) + 1 /\ Len(fifo') = Len(fifo) + 1
        /\ published \in Nat /\ Len(entries) \in Nat /\ Len(fifo) \in Nat
    BY <1>2, <1>5, <1>6
  <2>2. QED
    BY ONLY <2>1 DEF Submitted, Finished
<1>8. Publishing' = Publishing
  BY <1>6 DEF Publishing
<1>9. OrderInv'
  <2>1. Len(fifo') <= Len(entries')
    BY <1>5, <1>6 DEF OrderInv
  <2>2. ASSUME NEW i \in 1 .. Len(fifo) + 1
        PROVE  fifo'[i] = Finished + i
    <3>1. CASE i = Len(fifo) + 1
      BY <1>5, <3>1
    <3>2. CASE i # Len(fifo) + 1
      <4>1. i \in 1 .. Len(fifo)
        BY <3>2
      <4>2. QED
        BY <1>5, <4>1 DEF OrderInv
    <3>3. QED
      BY <3>1, <3>2
  <2>3. ASSUME NEW i \in 1 .. Len(entries) + 1
        PROVE  /\ entries'[i].id = published + i
               /\ entries'[i].state = "Submitted" <=> published + i > Finished
               /\ entries'[i].state = "Publishing" => i = 1
    <3>1. CASE i = Len(entries) + 1
      BY <1>6, <3>1 DEF Submitted
    <3>2. CASE i # Len(entries) + 1
      <4>1. i \in 1 .. Len(entries)
        BY <3>2
      <4>2. QED
        BY <1>6, <4>1 DEF OrderInv
    <3>3. QED
      BY <3>1, <3>2
  <2>4. QED
    BY <1>2, <1>5, <1>6, <1>7, <2>1, <2>2, <2>3 DEF OrderInv
<1>10. \A s \in Ids : s \in Nat
  BY DEF Ids
<1>11. Recording' = {}
  BY <1>1, <1>2, <1>3 DEF Recording
<1>12. TrackerInv'
  <2>1. ASSUME NEW s \in Ids, s # Submitted + 1
        PROVE  /\ tracker'[s] = "Submitted" <=> Finished < s /\ s <= Submitted
               /\ tracker'[s] \in {"Completed", "Retired"} <=> s <= Finished
               /\ tracker'[s] # "Recording"
               /\ tracker'[s] = "Retired" => s <= published
    BY <1>1, <1>2, <1>3, <2>1 DEF TrackerInv, Recording
  <2>2. tracker'[Submitted + 1] = "Submitted"
    BY <1>1, <1>2, <1>3
  <2>3. \A s \in Ids : (s <= Finished => s \in signalled) /\ (s \in signalled => s <= Submitted)
    BY DEF TrackerInv
  <2>4. Finished < Submitted + 1 /\ Finished \in Nat /\ Submitted \in Nat /\ published \in Nat
    OBVIOUS
  <2>5. QED
    BY ONLY <1>2, <1>7, <1>10, <2>1, <2>2, <2>3, <2>4 DEF TrackerInv
<1>13. QED
  BY <1>1, <1>2, <1>3, <1>5, <1>7, <1>8, <1>9, <1>11, <1>12

(* The next submission is the first one the tracker does not know.         *)
LEMMA NextIdIsNext ==
  ASSUME GpuTypeOK, OrderInv, TrackerInv, Recording = {}, Submitted <= MaxFlushes
  PROVE  NextId = Submitted + 1 /\ Submitted + 1 \in Ids
<1> USE Numbers
<1>1. Submitted + 1 \in Ids
  BY GpuAssumption DEF Ids
<1>2. \A s \in Ids : tracker[s] = "None" <=> s > Submitted
  <2>1. ASSUME NEW s \in Ids PROVE tracker[s] = "None" <=> s > Submitted
    <3>1. s \in Nat /\ tracker[s] \in TrackerStates
      <4>1. tracker \in [Ids -> TrackerStates]
        BY DEF GpuTypeOK
      <4>2. QED
        BY <4>1 DEF Ids
    <3>2. tracker[s] # "Recording"
      BY DEF Recording
    <3>3. QED
      BY <3>1, <3>2 DEF TrackerInv, TrackerStates
  <2>2. QED
    BY <2>1
<1>3. \A s \in Ids : s \in Nat
  BY DEF Ids
<1>4. \A s \in Ids : (tracker[s] = "None" /\ \A x \in Ids : tracker[x] = "None" => s <= x) <=> s = Submitted + 1
  BY <1>1, <1>2, <1>3
<1>5. QED
  BY ONLY <1>1, <1>4 DEF NextId

(* BeginRecording opens the submission after the last one.                 *)
LEMMA RecordingBegun ==
  ASSUME GpuTypeOK, OrderInv, TrackerInv, Recording = {}, Submitted <= MaxFlushes,
         NEW t \in GpuThreads, BeginRecording(t)
  PROVE  /\ Submitted' = Submitted /\ Finished' = Finished /\ Len(fifo') = Len(fifo)
         /\ published' = published /\ Publishing' = Publishing /\ Recording' = {Submitted + 1}
         /\ fired' = fired /\ publisher' = publisher
         /\ \A s \in Ids : s # Submitted + 1 => tracker'[s] = tracker[s]
         /\ OrderInv' /\ TrackerInv'
<1> USE Numbers
<1>1. Submitted + 1 \in Ids /\ tracker' = [tracker EXCEPT ![Submitted + 1] = "Recording"]
      /\ UNCHANGED <<fifo, signalled, entries, published, publisher, fired>>
  BY NextIdIsNext DEF BeginRecording, publication
<1>2. Submitted' = Submitted /\ Finished' = Finished /\ Len(fifo') = Len(fifo) /\ Publishing' = Publishing
  BY <1>1 DEF Submitted, Finished, Publishing
<1>3. OrderInv'
  BY <1>1, <1>2 DEF OrderInv
<1>4. tracker \in [Ids -> TrackerStates]
  BY DEF GpuTypeOK
<1>5. Recording' = {Submitted + 1}
  BY <1>1, <1>4 DEF Recording
<1>6. TrackerInv'
  <2>1. \A s \in Ids : s \in Nat
    BY DEF Ids
  <2>2. Submitted \in Nat /\ Finished \in Nat /\ Finished <= Submitted
    OBVIOUS
  <2>3. tracker'[Submitted + 1] = "Recording" /\ \A s \in Ids : s # Submitted + 1 => tracker'[s] = tracker[s]
    BY <1>1, <1>4
  <2>4. QED
    BY ONLY TrackerInv, <1>1, <1>2, <2>1, <2>2, <2>3 DEF TrackerInv
<1>7. QED
  BY <1>1, <1>2, <1>3, <1>4, <1>5, <1>6

(* A publisher takes the first entry, and takes it out when it is done.    *)
LEMMA EntryTaken ==
  ASSUME GpuTypeOK, OrderInv, TrackerInv, NEW t \in GpuThreads, Acquire(t)
  PROVE  /\ Head(entries).id = published + 1 /\ published + 1 \in Ids
         /\ Submitted' = Submitted /\ Finished' = Finished /\ Len(fifo') = Len(fifo)
         /\ published' = published /\ ~Publishing /\ Publishing' /\ Recording' = Recording
         /\ tracker' = tracker
         /\ OrderInv' /\ TrackerInv'
<1> USE Numbers
<1>1. /\ UNCHANGED <<tracker, fifo, signalled, published>>
      /\ entries # <<>> /\ Head(entries).state = "FenceComplete"
  BY DEF Acquire, slots, FrontReady
<1>2. /\ Head(entries) = entries[1] /\ DOMAIN entries = 1 .. Len(entries) /\ Len(entries) > 0
      /\ entries \in Seq([id : Ids, state : EntryStates])
  <2>1. entries \in Seq([id : Ids, state : EntryStates])
    BY DEF GpuTypeOK
  <2>2. QED
    BY ONLY <1>1, <2>1, ListElements
<1>3. /\ Len(entries') = Len(entries) /\ DOMAIN entries' = 1 .. Len(entries) /\ Head(entries') = entries'[1]
      /\ entries' # <<>> /\ entries'[1] = [id |-> Head(entries).id, state |-> "Publishing"]
      /\ \A i \in 2 .. Len(entries) : entries'[i] = entries[i]
  <2>1. /\ entries' \in Seq([id : Ids, state : EntryStates])
        /\ Len(entries') = Len(entries) /\ Len(entries) > 0
        /\ entries'[1] = [id |-> Head(entries).id, state |-> "Publishing"]
        /\ \A i \in 2 .. Len(entries) : entries'[i] = entries[i]
    BY EntriesTaken
  <2>2. QED
    BY ONLY <2>1, ListElements
<1>4. Head(entries).id = published + 1 /\ published + 1 \in Ids /\ published + 1 <= Finished
  <2>1. 1 \in DOMAIN entries
    BY <1>2
  <2>2. QED
    BY <1>1, <1>2, <2>1, EntriesTaken DEF OrderInv
<1>5. Submitted' = Submitted /\ Finished' = Finished /\ Len(fifo') = Len(fifo)
  BY <1>1, <1>3 DEF Submitted, Finished
<1>6. ~Publishing /\ Publishing'
  BY <1>1, <1>3 DEF Publishing
<1>7. OrderInv'
  <2>1. ASSUME NEW i \in 1 .. Len(entries)
        PROVE  /\ entries'[i].id = published + i
               /\ entries'[i].state = "Submitted" <=> published + i > Finished
               /\ entries'[i].state = "Publishing" => i = 1
    <3>1. CASE i = 1
      BY <1>3, <1>4, <3>1
    <3>2. CASE i # 1
      <4>1. i \in 2 .. Len(entries) /\ entries'[i] = entries[i]
        BY <1>3, <3>2
      <4>2. QED
        BY <1>2, <4>1 DEF OrderInv
    <3>3. QED
      BY <3>1, <3>2
  <2>2. QED
    BY <1>1, <1>3, <1>5, <2>1 DEF OrderInv
<1>8. TrackerInv' /\ Recording' = Recording
  BY <1>1, <1>5 DEF TrackerInv, Recording
<1>9. QED
  BY <1>1, <1>4, <1>5, <1>6, <1>7, <1>8

(* MarkPublished publishes the next submission in order.                   *)
LEMMA EntryPublished ==
  ASSUME GpuTypeOK, OrderInv, TrackerInv, NEW t \in GpuThreads, MarkPublished(t)
  PROVE  /\ until[t] = published + 1 /\ published + 1 \in Ids
         /\ tracker[published + 1] = "Completed"
         /\ Submitted' = Submitted /\ Finished' = Finished /\ Len(fifo') = Len(fifo)
         /\ published' = published + 1 /\ Publishing /\ ~Publishing' /\ Recording' = Recording
         /\ tracker' = tracker /\ fired' = fired
         /\ OrderInv' /\ TrackerInv'
<1> USE Numbers
<1>1. /\ UNCHANGED <<tracker, fifo, signalled, fired>>
      /\ entries # <<>> /\ Head(entries) = [id |-> until[t], state |-> "Publishing"]
      /\ published' = until[t] /\ entries' = Tail(entries)
  BY DEF MarkPublished, slots
<1>2. /\ Head(entries) = entries[1] /\ DOMAIN entries = 1 .. Len(entries) /\ Len(entries) > 0
      /\ Head(entries) \in [id : Ids, state : EntryStates]
      /\ Len(entries') = Len(entries) - 1 /\ DOMAIN entries' = 1 .. Len(entries) - 1
      /\ \A i \in 1 .. Len(entries) - 1 : entries'[i] = entries[i + 1]
      /\ (entries' # <<>> => Head(entries') = entries'[1] /\ 1 \in DOMAIN entries')
  <2>1. entries \in Seq([id : Ids, state : EntryStates])
    BY DEF GpuTypeOK
  <2>2. entries' \in Seq([id : Ids, state : EntryStates])
    BY ONLY <1>1, <2>1, ListElements
  <2>3. QED
    BY ONLY <1>1, <2>1, <2>2, ListElements
<1>3. Publishing
  BY <1>1 DEF Publishing
<1>4. until[t] = published + 1 /\ published + 1 \in Ids /\ published + 1 <= Finished
  <2>1. 1 \in DOMAIN entries
    BY <1>2
  <2>2. QED
    BY <1>1, <1>2, <1>3, <2>1 DEF OrderInv
<1>5. Submitted' = Submitted /\ Finished' = Finished /\ Len(fifo') = Len(fifo) /\ published' = published + 1
  BY <1>1, <1>2, <1>4 DEF Submitted, Finished
<1>6. ASSUME NEW i \in 1 .. Len(entries) - 1
      PROVE  /\ entries'[i].id = published + 1 + i
             /\ entries'[i].state = "Submitted" <=> published + 1 + i > Finished
             /\ entries'[i].state # "Publishing"
  <2>1. i + 1 \in DOMAIN entries /\ i \in Nat /\ i # 0 /\ entries'[i] = entries[i + 1]
    BY <1>2
  <2>2. /\ entries[i + 1].id = published + (i + 1)
        /\ entries[i + 1].state = "Submitted" <=> published + (i + 1) > Finished
        /\ entries[i + 1].state = "Publishing" => i + 1 = 1
    BY <2>1 DEF OrderInv
  <2>3. QED
    BY <2>1, <2>2
<1>7. ~Publishing'
  BY <1>2, <1>6 DEF Publishing
<1>8. OrderInv'
  <2>1. Len(fifo') <= Len(entries')
    BY <1>2, <1>4, <1>5 DEF Submitted
  <2>2. \A i \in DOMAIN fifo' : fifo'[i] = Finished' + i
    BY <1>1, <1>5 DEF OrderInv
  <2>3. QED
    BY <1>2, <1>5, <1>6, <2>1, <2>2 DEF OrderInv
<1>9. \A s \in Ids : s \in Nat
  BY DEF Ids
<1>10. TrackerInv' /\ Recording' = Recording
  BY <1>1, <1>5, <1>9 DEF TrackerInv, Recording
<1>11. tracker[published + 1] = "Completed"
  BY <1>4 DEF TrackerInv
<1>12. QED
  BY <1>1, <1>3, <1>4, <1>5, <1>7, <1>8, <1>10, <1>11

(* What is published is retired, and the host signals what is submitted.   *)
LEMMA SubmissionRetired ==
  ASSUME GpuTypeOK, OrderInv, TrackerInv, NEW t \in GpuThreads, Retire(t),
         until[t] \in Ids, until[t] <= published
  PROVE  /\ Submitted' = Submitted /\ Finished' = Finished /\ Len(fifo') = Len(fifo)
         /\ published' = published /\ Publishing' = Publishing /\ Recording' = Recording
         /\ fired' = fired /\ publisher' = publisher /\ tracker[until[t]] = "Completed"
         /\ \A s \in Ids : s # until[t] => tracker'[s] = tracker[s]
         /\ OrderInv' /\ TrackerInv'
<1> USE Numbers
<1>1. /\ tracker' = [tracker EXCEPT ![until[t]] = "Retired"] /\ tracker[until[t]] = "Completed"
      /\ UNCHANGED <<fifo, signalled, entries, published, publisher, fired>>
  BY DEF Retire, publication
<1>2. Submitted' = Submitted /\ Finished' = Finished /\ Len(fifo') = Len(fifo) /\ Publishing' = Publishing
  BY <1>1 DEF Submitted, Finished, Publishing
<1>3. OrderInv'
  BY <1>1, <1>2 DEF OrderInv
<1>4. tracker \in [Ids -> TrackerStates]
  BY DEF GpuTypeOK
<1>5. Recording' = Recording
  BY <1>1, <1>4 DEF Recording
<1>6. TrackerInv'
  BY <1>1, <1>2, <1>4 DEF TrackerInv
<1>7. QED
  BY <1>1, <1>2, <1>3, <1>4, <1>5, <1>6

(* A fence changes neither order nor states.                               *)
LEMMA FenceSignalled ==
  ASSUME GpuTypeOK, OrderInv, TrackerInv, HostQueue
  PROVE  /\ Submitted' = Submitted /\ Finished' = Finished /\ Len(fifo') = Len(fifo)
         /\ published' = published /\ Publishing' = Publishing /\ Recording' = Recording
         /\ fired' = fired /\ publisher' = publisher /\ tracker' = tracker
         /\ OrderInv' /\ TrackerInv'
<1>1. PICK s \in Ids : Signal(s)
  BY DEF HostQueue
<1>2. /\ tracker[s] = "Submitted" /\ signalled' = signalled \cup {s}
      /\ UNCHANGED <<tracker, fifo, entries, published, publisher, fired>>
  BY <1>1 DEF Signal, publication
<1>3. Submitted' = Submitted /\ Finished' = Finished /\ Len(fifo') = Len(fifo) /\ Publishing' = Publishing
      /\ Recording' = Recording
  BY <1>2 DEF Submitted, Finished, Publishing, Recording
<1>4. OrderInv'
  BY <1>2, <1>3 DEF OrderInv
<1>5. TrackerInv'
  BY <1>2, <1>3 DEF TrackerInv
<1>6. QED
  BY <1>2, <1>3, <1>4, <1>5

(* What the other steps leave.                                             *)
LEMMA ListsKept ==
  ASSUME UNCHANGED <<tracker, fifo, signalled, entries, published, publisher, fired>>
  PROVE  /\ Submitted' = Submitted /\ Finished' = Finished /\ Len(fifo') = Len(fifo)
         /\ published' = published /\ Publishing' = Publishing /\ Recording' = Recording
         /\ fired' = fired /\ publisher' = publisher /\ tracker' = tracker
         /\ OrderInv' = OrderInv /\ TrackerInv' = TrackerInv
BY DEF Submitted, Finished, Publishing, Recording, OrderInv, TrackerInv

(* Everything submitted was allowed for.                                   *)
LEMMA WithinBounds ==
  ASSUME GpuTypeOK, OrderInv, BoundInv
  PROVE  /\ Submitted <= MaxFlushes /\ IsFiniteSet(Owing) /\ Cardinality(Owing) \in Nat
         /\ flushes \in Nat /\ Len(batches) \in Nat /\ BatchOwed \in {0, 1}
<1>1. IsFiniteSet(Owing) /\ Cardinality(Owing) \in Nat
  BY GpuNames, FS_Subset, FS_CardinalityType DEF Owing
<1>2. flushes \in Nat /\ flushes <= MaxFlushes /\ Submitted \in Nat
  BY Numbers, GpuAssumption DEF GpuTypeOK
<1>3. batches \in Seq(GpuGuests \cup {NoThread})
  BY DEF GpuTypeOK
<1>4. Len(batches) \in Nat
  BY ONLY <1>3
<1>5. BatchOwed \in {0, 1}
  BY DEF BatchOwed
<1>6. Submitted <= MaxFlushes
  <2>1. Submitted + Cardinality(Owing) + BatchOwed + Len(batches) <= flushes
    BY DEF BoundInv
  <2>2. MaxFlushes \in Nat
    BY GpuAssumption
  <2>3. QED
    BY ONLY <1>1, <1>2, <1>4, <1>5, <2>1, <2>2
<1>7. QED
  BY <1>1, <1>2, <1>4, <1>5, <1>6

(* Numbers, lists and tracker agree after every step.                      *)
LEMMA OrderStep ==
  ASSUME SubmissionInv, GpuNext
  PROVE  OrderInv' /\ TrackerInv'
<1> USE DEF SubmissionInv
<1>1. ASSUME NEW t \in GpuThreads, Sweep(t) \/ Through(t) PROVE OrderInv' /\ TrackerInv'
  BY <1>1, FrontFinished DEF Sweep, Through
<1>2. ASSUME NEW t \in GpuThreads, BeginRecording(t) PROVE OrderInv' /\ TrackerInv'
  <2>1. Recording = {} /\ Submitted <= MaxFlushes
    BY <1>2, WithinBounds DEF BeginRecording, LockInv, HeldInv
  <2>2. QED
    BY <1>2, <2>1, RecordingBegun
<1>3. ASSUME NEW t \in GpuThreads, Retire(t) PROVE OrderInv' /\ TrackerInv'
  <2>1. until[t] \in Ids /\ until[t] <= published
    BY <1>3 DEF Retire, PublisherInv
  <2>2. QED
    BY <1>3, <2>1, SubmissionRetired
<1>4. QED
  BY <1>1, <1>2, <1>3, ListFrame, ListsKept, SubmissionMade, EntryTaken, EntryPublished, FenceSignalled

(* Only the publication changes what is published and fired.               *)
LEMMA PublicationKept ==
  ASSUME SubmissionInv, GpuNext
  PROVE  \/ \E t \in GpuThreads : Acquire(t)
         \/ \E t \in GpuThreads : MarkPublished(t)
         \/ published' = published /\ Publishing' = Publishing /\ fired' = fired /\ publisher' = publisher
<1> USE DEF SubmissionInv
<1>1. ASSUME NEW t \in GpuThreads, Sweep(t) \/ Through(t)
      PROVE  published' = published /\ Publishing' = Publishing /\ fired' = fired /\ publisher' = publisher
  BY <1>1, FrontFinished DEF Sweep, Through
<1>2. ASSUME NEW t \in GpuThreads, BeginRecording(t)
      PROVE  published' = published /\ Publishing' = Publishing /\ fired' = fired /\ publisher' = publisher
  BY <1>2 DEF BeginRecording, publication, Publishing
<1>3. ASSUME NEW t \in GpuThreads, Retire(t)
      PROVE  published' = published /\ Publishing' = Publishing /\ fired' = fired /\ publisher' = publisher
  BY <1>3 DEF Retire, publication, Publishing
<1>4. QED
  BY <1>1, <1>2, <1>3, ListFrame, ListsKept, SubmissionMade, FenceSignalled

(* Labels are fired in order, and objects destroyed after them.            *)
LEMMA FiredStep ==
  ASSUME SubmissionInv, GpuNext
  PROVE  FiredInv'
<1> USE Numbers DEF SubmissionInv
<1>1. published \in Nat /\ fired \in Seq(Ids) /\ completed \in Nat /\ destroyed \subseteq Nat
  BY GpuAssumption DEF GpuTypeOK, Ids, NoId
<1>2. Len(fired) \in Nat /\ DOMAIN fired = 1 .. Len(fired)
  BY ONLY <1>1, ListElements
<1>3. \/ completed' = completed /\ destroyed' = destroyed
      \/ Publishing /\ completed' = published + 1 /\ destroyed' = destroyed
      \/ completed' = completed /\ \E s \in Nat : s <= completed /\ destroyed' = destroyed \cup {s}
  <2>1. ASSUME NEW t \in GpuThreads, Complete(t)
        PROVE  /\ Publishing /\ destroyed' = destroyed
               /\ completed' = completed \/ completed' = published + 1
    <3>1. Publishes(t) /\ (completed' = completed \/ completed' = until[t]) /\ destroyed' = destroyed
      BY ONLY <2>1 DEF Complete, Publishes
    <3>2. until[t] = published + 1 /\ Publishing
      BY <3>1, GpuNames DEF PublisherInv
    <3>3. QED
      BY ONLY <3>1, <3>2
  <2>2. ASSUME NEW t \in GpuThreads, RunTask(t)
        PROVE  completed' = completed /\ \E s \in Nat : s <= completed /\ destroyed' = destroyed \cup {s}
    <3>1. objects # <<>> /\ Head(objects) <= completed /\ destroyed' = destroyed \cup {Head(objects)}
          /\ completed' = completed
      BY <2>2 DEF RunTask, HeadReady
    <3>2. Head(objects) \in Ids
      BY <3>1, GpuLists
    <3>3. QED
      BY <3>1, <3>2 DEF Ids
  <2>3. ASSUME NEW t \in GpuThreads, StartDrain(t) \/ EndDrain(t)
        PROVE  completed' = completed /\ destroyed' = destroyed
    BY <2>3 DEF StartDrain, EndDrain
  <2>4. ASSUME ScheduleUsed \/ \E g \in GpuGuests : FreeUsed(g)
        PROVE  completed' = completed /\ destroyed' = destroyed
    BY <2>4 DEF ScheduleUsed, FreeUsed, Schedule
  <2>5. QED
    BY <2>1, <2>2, <2>3, <2>4, DeletionFrame
<1>4. CASE \E t \in GpuThreads : Acquire(t)
  <2>1. PICK t \in GpuThreads : Acquire(t)
    BY <1>4
  <2>2. /\ Head(entries).id = published + 1 /\ published + 1 \in Ids
        /\ published' = published /\ ~Publishing /\ Publishing'
    BY <2>1, EntryTaken
  <2>3. fired' = Append(fired, published + 1) /\ completed' = completed /\ destroyed' = destroyed
    BY <2>1, <2>2 DEF Acquire, deletion
  <2>4. Len(fired) = published /\ \A i \in 1 .. Len(fired) : fired[i] = i
    BY <2>2, <1>2 DEF FiredInv
  <2>5. /\ Len(fired') = published + 1 /\ DOMAIN fired' = 1 .. published + 1
        /\ fired'[published + 1] = published + 1 /\ \A i \in 1 .. published : fired'[i] = fired[i]
    BY ONLY <1>1, <2>2, <2>3, <2>4, ListElements
  <2>6. \A i \in 1 .. published + 1 : i = published + 1 \/ i \in 1 .. published
    BY <1>1
  <2>7. \A i \in DOMAIN fired' : fired'[i] = i
    BY <2>4, <2>5, <2>6
  <2>8. QED
    BY <1>1, <2>2, <2>3, <2>4, <2>5, <2>7 DEF FiredInv
<1>5. CASE \E t \in GpuThreads : MarkPublished(t)
  <2>1. PICK t \in GpuThreads : MarkPublished(t)
    BY <1>5
  <2>2. published' = published + 1 /\ Publishing /\ ~Publishing' /\ fired' = fired
        /\ completed' = completed /\ destroyed' = destroyed
    BY <2>1, EntryPublished DEF MarkPublished, deletion
  <2>3. QED
    BY <1>1, <1>2, <2>2 DEF FiredInv
<1>6. CASE published' = published /\ Publishing' = Publishing /\ fired' = fired /\ publisher' = publisher
  <2>1. (\A i \in DOMAIN fired' : fired'[i] = i)
        /\ Len(fired') = IF Publishing' THEN published' + 1 ELSE published'
    BY <1>6 DEF FiredInv
  <2>2. completed' <= Len(fired') /\ \A s \in destroyed' : s <= completed'
    <3>1. completed <= Len(fired) /\ (\A s \in destroyed : s <= completed) /\ fired' = fired
          /\ (Publishing => Len(fired) = published + 1)
      BY <1>6 DEF FiredInv
    <3>2. CASE completed' = completed /\ destroyed' = destroyed
      BY ONLY <3>1, <3>2
    <3>3. CASE Publishing /\ completed' = published + 1 /\ destroyed' = destroyed
      <4>1. completed' = Len(fired) /\ completed <= completed' /\ destroyed' = destroyed
        BY ONLY <3>1, <3>3
      <4>2. \A s \in Nat : s <= completed => s <= completed'
        BY ONLY <1>1, <1>2, <4>1
      <4>3. QED
        <5>1. ASSUME NEW s \in destroyed' PROVE s <= completed'
          BY ONLY <1>1, <3>1, <4>1, <4>2, <5>1
        <5>2. completed' <= Len(fired')
          BY ONLY <1>2, <3>1, <4>1
        <5>3. QED
          BY <5>1, <5>2
    <3>4. CASE completed' = completed /\ \E s \in Nat : s <= completed /\ destroyed' = destroyed \cup {s}
      BY ONLY <3>1, <3>4
    <3>5. QED
      BY <1>3, <3>2, <3>3, <3>4
  <2>3. QED
    BY <2>1, <2>2 DEF FiredInv
<1>7. QED
  BY <1>4, <1>5, <1>6, PublicationKept

----------------------------------------------------------------------------
(* Submissions: inside m_mutex                                             *)

(* Nothing of a thread inside m_mutex is touched.                          *)
InsideKept ==
  /\ lock' = lock
  /\ \A u \in GpuThreads : stage[u] \in Inside \/ stage'[u] \in Inside =>
       /\ stage'[u] = stage[u] /\ until'[u] = until[u] /\ op'[u] = op[u] /\ goal'[u] = goal[u]

(* Where a call resumes, waits or publishes it does not hold m_mutex.      *)
LEMMA ResumesOutside ==
  /\ \A place \in Resumes : place \notin Inside
  /\ "lock" \notin Inside /\ "acquire" \notin Inside /\ "complete" \notin Inside
  /\ "mark" \notin Inside /\ "retire" \notin Inside /\ "await" \notin Inside
  /\ "ready" \notin Inside /\ "task" \notin Inside
BY DEF Resumes, GuestPcs, WorkerPcs, Inside

(* Whoever enters or leaves m_mutex does it in a step of its own.          *)
LEMMA OutsideSteps ==
  ASSUME GpuTypeOK, RoleInv, GateInv, GpuNext
  PROVE  \/ \E t \in GpuThreads : Lock(t) \/ Sweep(t) \/ Swept(t) \/ Submit(t) \/ Through(t)
                                 \/ BeginRecording(t) \/ Unlock(t)
         \/ InsideKept
<1>1. CallTypes
  BY DEF GpuTypeOK, CallTypes
<1>2. stage \in [GpuThreads -> Stages] /\ op \in [GpuThreads -> Ops] /\ back \in [GpuThreads -> Resumes]
      /\ goal \in [GpuThreads -> Ids \cup {NoId}] /\ latest \in [GpuThreads -> Ids \cup {NoId}]
      /\ until \in [GpuThreads -> Ids \cup {NoId}]
  BY DEF GpuTypeOK
<1>3. batch # NoThread => batch \in GpuGuests /\ stage[batch] = "decoding"
  BY DEF GpuTypeOK, GateInv
<1>4. ASSUME NEW t \in GpuThreads, Acquire(t) PROVE InsideKept
  BY ONLY <1>4, <1>2, GpuNames, GpuPlaces, ResumesOutside
     DEF InsideKept, Proceeds, ring, locals, bounds, Acquire
<1>5. ASSUME NEW t \in GpuThreads, AcquireNone(t) PROVE InsideKept
  BY ONLY <1>5, <1>2, GpuNames, GpuPlaces, ResumesOutside
     DEF InsideKept, Proceeds, ring, locals, bounds, AcquireNone, Return
<1>6. ASSUME NEW t \in GpuThreads, Complete(t) PROVE InsideKept
  BY ONLY <1>6, <1>2, GpuNames, GpuPlaces, ResumesOutside
     DEF InsideKept, Proceeds, ring, locals, bounds, Complete, ThenDrain
<1>7. ASSUME NEW t \in GpuThreads, StartDrain(t) PROVE InsideKept
  BY ONLY <1>7, <1>2, GpuNames, GpuPlaces, ResumesOutside
     DEF InsideKept, Proceeds, ring, locals, bounds, StartDrain, AfterDrain, Return
<1>8. ASSUME NEW t \in GpuThreads, RunTask(t) PROVE InsideKept
  BY ONLY <1>8, <1>2, GpuNames, GpuPlaces, ResumesOutside
     DEF InsideKept, Proceeds, ring, locals, bounds, RunTask
<1>9. ASSUME NEW t \in GpuThreads, EndDrain(t) PROVE InsideKept
  BY ONLY <1>9, <1>2, GpuNames, GpuPlaces, ResumesOutside
     DEF InsideKept, Proceeds, ring, locals, bounds, EndDrain, AfterDrain, Return
<1>10. ASSUME NEW t \in GpuThreads, MarkPublished(t) PROVE InsideKept
  BY ONLY <1>10, <1>2, GpuNames, GpuPlaces, ResumesOutside
     DEF InsideKept, Proceeds, ring, locals, bounds, MarkPublished
<1>11. ASSUME NEW t \in GpuThreads, Retire(t) PROVE InsideKept
  BY ONLY <1>11, <1>2, GpuNames, GpuPlaces, ResumesOutside
     DEF InsideKept, Proceeds, ring, locals, bounds, Retire
<1>12. ASSUME NEW t \in GpuThreads, AwaitPublished(t) PROVE InsideKept
  BY ONLY <1>12, <1>2, GpuNames, GpuPlaces, ResumesOutside
     DEF InsideKept, Proceeds, ring, locals, bounds, AwaitPublished, Return
<1>13. ASSUME HostQueue PROVE InsideKept
  BY ONLY <1>13, <1>2, GpuNames, GpuPlaces, ResumesOutside
     DEF InsideKept, Proceeds, ring, locals, bounds, HostQueue, Signal
<1>14. ASSUME TakeBatch PROVE InsideKept
  BY ONLY <1>14, <1>2, GpuNames, GpuPlaces, ResumesOutside
     DEF InsideKept, Proceeds, ring, locals, bounds, TakeBatch
<1>15. ASSUME IdlePump PROVE InsideKept
  BY ONLY <1>15, <1>2, GpuNames, GpuPlaces, ResumesOutside
     DEF InsideKept, Proceeds, ring, locals, bounds, IdlePump, Begin
<1>16. ASSUME GoIdle PROVE InsideKept
  BY ONLY <1>16, <1>2, GpuNames, GpuPlaces, ResumesOutside
     DEF InsideKept, Proceeds, ring, locals, bounds, GoIdle
<1>17. ASSUME WakeUp PROVE InsideKept
  BY ONLY <1>17, <1>2, GpuNames, GpuPlaces, ResumesOutside
     DEF InsideKept, Proceeds, ring, locals, bounds, WakeUp
<1>18. ASSUME RecordLabel PROVE InsideKept
  BY ONLY <1>18, <1>2, GpuNames, GpuPlaces, ResumesOutside
     DEF InsideKept, Proceeds, ring, locals, bounds, RecordLabel
<1>19. ASSUME SubmitRecorded PROVE InsideKept
  BY ONLY <1>19, <1>2, GpuNames, GpuPlaces, ResumesOutside
     DEF InsideKept, Proceeds, ring, locals, bounds, SubmitRecorded, Begin
<1>20. ASSUME ScheduleUsed PROVE InsideKept
  BY ONLY <1>20, <1>2, GpuNames, GpuPlaces, ResumesOutside
     DEF InsideKept, Proceeds, ring, locals, bounds, ScheduleUsed, Schedule
<1>21. ASSUME EndBatch PROVE InsideKept
  BY ONLY <1>21, <1>2, GpuNames, GpuPlaces, ResumesOutside
     DEF InsideKept, Proceeds, ring, locals, bounds, EndBatch, Begin
<1>22. ASSUME Flushed PROVE InsideKept
  BY ONLY <1>22, <1>2, GpuNames, GpuPlaces, ResumesOutside, <1>3
     DEF InsideKept, Proceeds, ring, locals, bounds, Flushed, Resumes, GuestPcs, WorkerPcs
<1>23. ASSUME Ended PROVE InsideKept
  BY ONLY <1>23, <1>2, GpuNames, GpuPlaces, ResumesOutside
     DEF InsideKept, Proceeds, ring, locals, bounds, Ended
<1>24. ASSUME PeerCall PROVE InsideKept
  BY ONLY <1>24, <1>2, GpuNames, GpuPlaces, ResumesOutside
     DEF InsideKept, Proceeds, ring, locals, bounds, PeerCall, Begin
<1>25. ASSUME NEW g \in GpuGuests, SubmitBatch(g) PROVE InsideKept
  BY ONLY <1>25, <1>2, GpuNames, GpuPlaces, ResumesOutside
     DEF InsideKept, Proceeds, ring, locals, bounds, SubmitBatch
<1>26. ASSUME NEW g \in GpuGuests, Quiesce(g) PROVE InsideKept
  BY ONLY <1>26, <1>2, GpuNames, GpuPlaces, ResumesOutside
     DEF InsideKept, Proceeds, ring, locals, bounds, Quiesce
<1>27. ASSUME NEW g \in GpuGuests, FreeUsed(g) PROVE InsideKept
  BY ONLY <1>27, <1>2, GpuNames, GpuPlaces, ResumesOutside
     DEF InsideKept, Proceeds, ring, locals, bounds, FreeUsed, Schedule
<1>28. ASSUME NEW g \in GpuGuests, SubmitAndWait(g) PROVE InsideKept
  BY ONLY <1>28, <1>2, GpuNames, GpuPlaces, ResumesOutside
     DEF InsideKept, Proceeds, ring, locals, bounds, SubmitAndWait, Begin
<1>29. ASSUME NEW g \in GpuGuests, LeaveGate(g) PROVE InsideKept
  BY ONLY <1>29, <1>2, GpuNames, GpuPlaces, ResumesOutside
     DEF InsideKept, Proceeds, ring, locals, bounds, LeaveGate
<1>30. QED
  BY ONLY GpuNames, GpuNext, <1>4, <1>5, <1>6, <1>7, <1>8, <1>9, <1>10, <1>11, <1>12, <1>13, <1>14, <1>15, <1>16, <1>17, <1>18, <1>19, <1>20, <1>21, <1>22, <1>23, <1>24, <1>25, <1>26, <1>27, <1>28, <1>29
     DEF GpuNext, Work, DecodeBatch, Proceed, ProcessorStep

(* The counts change inside m_mutex only.                                  *)
CountsKept ==
  /\ Submitted' = Submitted /\ Finished' = Finished /\ Len(fifo') = Len(fifo) /\ Recording' = Recording

(* The steps that change how much is recorded, submitted or finished.      *)
LEMMA CountSteps ==
  ASSUME SubmissionInv, GpuNext
  PROVE  \/ \E t \in GpuThreads : Sweep(t) \/ Submit(t) \/ Through(t) \/ BeginRecording(t)
         \/ CountsKept
<1> USE DEF SubmissionInv
<1>1. ASSUME NEW t \in GpuThreads, Retire(t) PROVE CountsKept
  <2>1. until[t] \in Ids /\ until[t] <= published
    BY <1>1 DEF Retire, PublisherInv
  <2>2. QED
    BY <1>1, <2>1, SubmissionRetired DEF CountsKept
<1>2. QED
  BY <1>1, ListFrame, ListsKept, EntryTaken, EntryPublished, FenceSignalled DEF CountsKept

(* A slot is taken again only when its last submission is finished.        *)
LEMMA RemainderGap ==
  ASSUME NEW n \in Nat \ {0}, NEW x \in Nat, NEW y \in Nat, x < y, x % n = y % n
  PROVE  y - x >= n
<1> DEFINE a == x \div n
           b == y \div n
<1>1. x = n * a + (x % n) /\ y = n * b + (y % n) /\ a \in Int /\ b \in Int /\ x % n \in Int
  OBVIOUS
<1> HIDE DEF a, b
<1>2. a \in Int /\ b \in Int /\ y - x = n * b - n * a
  BY <1>1
<1>3. n * b - n * a = n * (b - a)
  BY <1>2
<1>4. b - a >= 1
  <2>1. CASE b <= a
    <3>1. n * (b - a) <= 0
      BY <1>2, <2>1
    <3>2. QED
      BY <1>2, <1>3, <3>1
  <2>2. QED
    BY <1>2, <2>1
<1>5. n * (b - a) >= n
  BY <1>2, <1>4
<1>6. QED
  BY <1>2, <1>3, <1>5

(* A slot comes round again after n submissions.                           *)
LEMMA RemainderAgain ==
  ASSUME NEW n \in Nat \ {0}, NEW x \in Nat
  PROVE  (x + n) % n = x % n
<1> DEFINE a == x \div n
           b == (x + n) \div n
           r == x % n
           q == (x + n) % n
<1>1. x = n * a + r /\ x + n = n * b + q
  OBVIOUS
<1>2. a \in Int /\ b \in Int /\ r \in 0 .. n - 1 /\ q \in 0 .. n - 1
  OBVIOUS
<1> HIDE DEF a, b, r, q
<1>3. n * (b - a) = n + r - q
  BY <1>1, <1>2
<1>4. b - a = 1
  <2>1. CASE b - a <= 0
    <3>1. n * (b - a) <= 0
      BY <1>2, <2>1
    <3>2. QED
      BY <1>2, <1>3, <3>1
  <2>2. CASE b - a >= 2
    <3>1. n * (b - a) >= n + n
      BY <1>2, <2>2
    <3>2. QED
      BY <1>2, <1>3, <3>1
  <2>3. QED
    BY <1>2, <2>1, <2>2
<1>5. r = q
  BY <1>2, <1>3, <1>4
<1>6. QED
  BY <1>5 DEF r, q

(* A slot is free for the next submission as soon as its owner is swept.   *)
LEMMA SlotReuse ==
  ASSUME GpuTypeOK, OrderInv, TrackerInv, BoundInv, Recording = {}
  PROVE  /\ NextId = Submitted + 1 /\ Submitted + 1 \in Ids
         /\ Len(fifo) < SlotCount => ~SlotBusy(NextId)
         /\ SlotOwner(NextId) = {} => Len(fifo) # SlotCount
         /\ \A s \in SlotOwner(NextId) : s \in Ids /\ Finished < s /\ s <= Submitted
<1> USE Numbers
<1>1. NextId = Submitted + 1 /\ Submitted + 1 \in Ids
  BY WithinBounds, NextIdIsNext
<1>2. SlotCount \in Nat \ {0} /\ Ids \subseteq Nat \ {0} /\ Submitted \in Nat /\ Finished \in Nat
      /\ Finished + Len(fifo) = Submitted /\ Len(fifo) \in Nat
      /\ (\A s \in Ids : s <= Submitted => s \in Ids)
  BY GpuAssumption DEF Ids
<1>3. Len(fifo) < SlotCount => ~SlotBusy(NextId)
  <2>1. SUFFICES ASSUME Len(fifo) < SlotCount, NEW x \in Ids, x # Submitted + 1,
                        x % SlotCount = (Submitted + 1) % SlotCount, tracker[x] \in {"Recording", "Submitted"}
                 PROVE  FALSE
    BY <1>1 DEF SlotBusy
  <2>2. tracker[x] = "Submitted"
    BY <2>1 DEF Recording
  <2>3. Finished < x /\ x <= Submitted
    BY <2>2 DEF TrackerInv
  <2>4. Submitted + 1 - x >= SlotCount
    <3>1. ASSUME NEW y \in Nat, y = Submitted + 1
          PROVE  y - x >= SlotCount
      <4>1. x \in Nat /\ x < y /\ x % SlotCount = y % SlotCount
        BY <1>2, <2>1, <2>3, <3>1
      <4>2. SlotCount \in Nat \ {0}
        BY <1>2
      <4>3. QED
        BY ONLY <4>1, <4>2, RemainderGap
    <3>2. QED
      BY <1>2, <3>1
  <2>5. QED
    BY <1>2, <2>1, <2>3, <2>4
<1>4. SlotOwner(NextId) = {} => Len(fifo) # SlotCount
  <2>1. SUFFICES ASSUME Len(fifo) = SlotCount PROVE Finished + 1 \in SlotOwner(NextId)
    OBVIOUS
  <2>2. Finished + 1 + SlotCount = Submitted + 1 /\ Finished + 1 <= Submitted
    BY <1>2, <2>1
  <2>3. (Finished + 1) % SlotCount = (Submitted + 1) % SlotCount
    <3>1. \A n \in Nat \ {0}, z \in Nat : (z + n) % n = z % n
      BY RemainderAgain
    <3>2. Finished + 1 \in Nat
      BY <1>2
    <3>3. (Finished + 1 + SlotCount) % SlotCount = (Finished + 1) % SlotCount
      BY ONLY <1>2, <3>1, <3>2
    <3>4. QED
      BY <2>2, <3>3
  <2>4. Finished + 1 \in Ids
    BY <1>1, <1>2, <2>2, GpuAssumption DEF Ids
  <2>5. tracker[Finished + 1] = "Submitted"
    BY <1>2, <2>2, <2>4 DEF TrackerInv
  <2>6. QED
    BY <1>1, <1>2, <2>2, <2>3, <2>4, <2>5 DEF SlotOwner
<1>5. \A s \in SlotOwner(NextId) : s \in Ids /\ Finished < s /\ s <= Submitted
  BY DEF SlotOwner, TrackerInv
<1>6. QED
  BY <1>1, <1>3, <1>4, <1>5

(* A step inside m_mutex finds no other thread there.                      *)
LEMMA AloneInside ==
  ASSUME GpuTypeOK, LockInv, NEW t \in GpuThreads,
         Lock(t) \/ Sweep(t) \/ Swept(t) \/ Submit(t) \/ Through(t) \/ BeginRecording(t) \/ Unlock(t)
  PROVE  \A u \in GpuThreads : u # t => stage[u] \notin Inside /\ stage'[u] = stage[u]
<1>1. lock = NoThread \/ lock = t
  <2>1. (stage[t] = "lock" /\ lock = NoThread) \/ stage[t] \in Inside
    BY DEF Lock, Sweep, Swept, Submit, Through, BeginRecording, Unlock, Inside
  <2>2. QED
    BY <2>1 DEF LockInv
<1>2. \A u \in GpuThreads : u # t => stage[u] \notin Inside
  BY <1>1, GpuNames DEF LockInv
<1>3. stage \in [GpuThreads -> Stages]
  BY DEF GpuTypeOK
<1>4. \A u \in GpuThreads : u # t => stage'[u] = stage[u]
  BY <1>3 DEF Lock, Sweep, Swept, Submit, Through, BeginRecording, Unlock, Proceeds, Return
<1>5. QED
  BY <1>2, <1>4

(* The buffers: at most SlotCount in flight, and one free when one is to   *)
(* be recorded.                                                            *)
LEMMA LockStep ==
  ASSUME SubmissionInv, GpuNext, GpuTypeOK', OrderInv', TrackerInv'
  PROVE  LockInv'
<1> DEFINE Others(t) == \A u \in GpuThreads : u # t => stage[u] \notin Inside /\ stage'[u] = stage[u]
           Buffers == Len(fifo') <= SlotCount /\ (Recording' # {} => Len(fifo') < SlotCount)
<1> USE DEF SubmissionInv
<1>1. /\ stage \in [GpuThreads -> Stages] /\ until \in [GpuThreads -> Ids \cup {NoId}]
      /\ SlotCount \in Nat \ {0, 1} /\ Len(fifo) \in Nat /\ Submitted \in Nat /\ Finished \in Nat
      /\ Finished + Len(fifo) = Submitted
  BY GpuAssumption, Numbers DEF GpuTypeOK
<1>2. ASSUME NEW t \in GpuThreads, Others(t), HeldInv(t)', Buffers,
             \/ lock' = t /\ stage'[t] \in Inside
             \/ lock' = NoThread /\ stage'[t] \notin Inside /\ Recording' # {}
      PROVE  LockInv'
  <2>1. ASSUME NEW u \in GpuThreads, u # t PROVE HeldInv(u)'
    <3>1. stage'[u] \notin Inside
      BY <1>2, <2>1
    <3>2. QED
      BY ONLY <3>1 DEF HeldInv, Inside
  <2>2. \A u \in GpuThreads : HeldInv(u)'
    BY <1>2, <2>1
  <2>3. QED
    BY ONLY <1>2, <2>2, GpuNames DEF LockInv
<1>3. ASSUME NEW t \in GpuThreads, Lock(t) PROVE LockInv'
  <2>1. Others(t) /\ CountsKept
    BY <1>3, AloneInside DEF Lock, slots, publication, CountsKept, Submitted, Finished, Recording
  <2>2. Recording # {} /\ Buffers
    BY <1>3, <2>1 DEF LockInv, Lock, CountsKept
  <2>3. HeldInv(t)' /\ lock' = t /\ stage'[t] \in Inside
    <3>1. CASE Proceeds(t, "sweep") \/ Proceeds(t, "unlock")
      BY ONLY <1>1, <1>3, <2>1, <2>2, <3>1 DEF Lock, Proceeds, HeldInv, CountsKept, Inside
    <3>2. CASE Proceeds(t, "through") /\ op[t] = "wait" /\ tracker[goal[t]] = "Submitted"
               /\ until' = [until EXCEPT ![t] = goal[t]]
      <4>1. goal[t] \in Ids
        BY <3>2, <1>3 DEF RoleInv, CallInv, Lock, ProcessorPcs
      <4>2. Finished < goal[t] /\ goal[t] <= Submitted
        BY <3>2, <4>1 DEF TrackerInv
      <4>3. QED
        BY ONLY <1>1, <1>3, <2>1, <2>2, <3>2, <4>2 DEF Lock, Proceeds, HeldInv, CountsKept, Inside
    <3>3. CASE Proceeds(t, "through") /\ fifo # <<>> /\ until' = [until EXCEPT ![t] = fifo[Len(fifo)]]
      <4>1. fifo[Len(fifo)] = Finished + Len(fifo) /\ Finished < Submitted
        <5>1. fifo \in Seq(Ids)
          BY DEF GpuTypeOK
        <5>2. Len(fifo) \in DOMAIN fifo
          BY ONLY <3>3, <5>1, ListElements
        <5>3. QED
          BY <3>3, <5>2, Numbers DEF OrderInv
      <4>2. QED
        BY ONLY <1>1, <1>3, <2>1, <2>2, <3>3, <4>1 DEF Lock, Proceeds, HeldInv, CountsKept, Inside
    <3>4. QED
      BY <1>3, <3>1, <3>2, <3>3 DEF Lock
  <2>4. QED
    BY <1>2, <2>1, <2>2, <2>3
<1>4. ASSUME NEW t \in GpuThreads, Sweep(t) PROVE LockInv'
  <2>1. Others(t) /\ FrontSignalled /\ CompleteFront(t)
    BY <1>4, AloneInside DEF Sweep
  <2>2. Recording' = Recording /\ Len(fifo') = Len(fifo) - 1
    BY <2>1, FrontFinished
  <2>3. stage' = stage /\ stage[t] \in {"sweep", "reuse"} /\ lock' = lock /\ lock = t
    BY <1>4 DEF Sweep, LockInv, Inside
  <2>4. HeldInv(t) /\ Len(fifo) <= SlotCount
    BY DEF LockInv
  <2>5. HeldInv(t)' /\ Buffers
    BY ONLY <1>1, <2>2, <2>3, <2>4 DEF HeldInv
  <2>6. QED
    BY <1>2, <2>1, <2>3, <2>5 DEF Inside
<1>5. ASSUME NEW t \in GpuThreads, Swept(t) PROVE LockInv'
  <2>1. Others(t) /\ CountsKept
    BY <1>5, AloneInside DEF Swept, slots, publication, CountsKept, Submitted, Finished, Recording
  <2>2. HeldInv(t) /\ lock = t /\ lock' = t /\ stage[t] \in {"sweep", "reuse"} /\ Buffers
    BY <1>5, <2>1 DEF LockInv, Swept, CountsKept, Inside
  <2>3. HeldInv(t)' /\ stage'[t] \in Inside
    <3>1. CASE stage[t] = "sweep"
      BY ONLY <1>1, <1>5, <2>1, <2>2, <3>1 DEF Swept, Proceeds, HeldInv, CountsKept, Inside
    <3>2. CASE stage[t] = "reuse" /\ SlotOwner(NextId) = {} /\ Proceeds(t, "begin")
      <4>1. Len(fifo) # SlotCount /\ Len(fifo) <= SlotCount /\ Recording = {}
        BY <2>2, <3>2, SlotReuse DEF HeldInv, LockInv
      <4>2. QED
        BY ONLY <1>1, <2>1, <3>2, <4>1 DEF Proceeds, HeldInv, CountsKept, Inside
    <3>3. CASE stage[t] = "reuse" /\ Proceeds(t, "through")
               /\ \E s \in SlotOwner(NextId) : until' = [until EXCEPT ![t] = s]
      <4>1. op[t] # "drain" /\ Recording = {}
        BY <2>2, <3>3 DEF RoleInv, CallInv, HeldInv
      <4>2. PICK s \in SlotOwner(NextId) : until' = [until EXCEPT ![t] = s]
        BY <3>3
      <4>3. s \in Ids /\ Finished < s /\ s <= Submitted
        BY <4>1, <4>2, SlotReuse
      <4>4. op' = op
        BY <1>5 DEF Swept
      <4>5. QED
        BY ONLY <1>1, <2>1, <3>3, <4>1, <4>2, <4>3, <4>4 DEF Proceeds, HeldInv, CountsKept, Inside
    <3>4. QED
      BY <1>5, <3>1, <3>2, <3>3 DEF Swept
  <2>4. QED
    BY <1>2, <2>1, <2>2, <2>3
<1>6. ASSUME NEW t \in GpuThreads, Submit(t) PROVE LockInv'
  <2>1. Others(t) /\ Recording # {} /\ Recording' = {} /\ Len(fifo') = Len(fifo) + 1
    BY <1>6, AloneInside, SubmissionMade
  <2>2. lock' = t /\ stage'[t] = "reuse" /\ Len(fifo) < SlotCount
    BY <1>1, <1>6, <2>1 DEF Submit, Proceeds, LockInv, Inside
  <2>3. HeldInv(t)' /\ Buffers
    BY ONLY <1>1, <2>1, <2>2 DEF HeldInv
  <2>4. QED
    BY <1>2, <2>1, <2>2, <2>3 DEF Inside
<1>7. ASSUME NEW t \in GpuThreads, Through(t) PROVE LockInv'
  <2>1. Others(t) /\ FrontSignalled /\ CompleteFront(t)
    BY <1>7, AloneInside DEF Through
  <2>2. /\ Recording' = Recording /\ Len(fifo') = Len(fifo) - 1 /\ Head(fifo) = Finished + 1
        /\ Finished' = Finished + 1 /\ Submitted' = Submitted
    BY <2>1, FrontFinished
  <2>3. stage[t] = "through" /\ lock' = t /\ UNCHANGED <<op, until>>
    BY <1>7 DEF Through, LockInv, Inside
  <2>4. HeldInv(t) /\ Len(fifo) <= SlotCount /\ until[t] \in Nat
    BY <1>1 DEF LockInv, Ids, NoId
  <2>5. stage'[t] = IF Finished + 1 = until[t] THEN (IF Recording = {} THEN "begin" ELSE "unlock") ELSE "through"
    BY <1>1, <1>7, <2>2 DEF Through, Proceeds
  <2>6. Buffers /\ HeldInv(t)' /\ stage'[t] \in Inside
    BY ONLY <1>1, <2>2, <2>3, <2>4, <2>5 DEF HeldInv, Inside
  <2>7. QED
    BY <1>2, <2>1, <2>3, <2>6
<1>8. ASSUME NEW t \in GpuThreads, BeginRecording(t) PROVE LockInv'
  <2>1. Others(t) /\ HeldInv(t) /\ stage[t] = "begin" /\ lock' = t
    BY <1>8, AloneInside DEF BeginRecording, LockInv, Inside
  <2>2. Recording = {} /\ Len(fifo) < SlotCount
    BY <2>1 DEF HeldInv
  <2>3. /\ Submitted' = Submitted /\ Finished' = Finished /\ Len(fifo') = Len(fifo)
        /\ Recording' = {Submitted + 1}
    BY <1>8, <2>2, WithinBounds, RecordingBegun
  <2>4. HeldInv(t)' /\ stage'[t] \in Inside
    <3>1. CASE Proceeds(t, "unlock")
      BY ONLY <1>1, <2>3, <3>1 DEF Proceeds, HeldInv, Inside
    <3>2. CASE Proceeds(t, "through") /\ until' = [until EXCEPT ![t] = goal[t]]
               /\ op[t] = "wait" /\ tracker[goal[t]] = "Submitted"
      <4>1. goal[t] \in Ids
        BY <3>2 DEF RoleInv, CallInv
      <4>2. Finished < goal[t] /\ goal[t] <= Submitted
        BY <3>2, <4>1 DEF TrackerInv
      <4>3. QED
        BY ONLY <1>1, <2>3, <3>2, <4>2 DEF Proceeds, HeldInv, Inside
    <3>3. QED
      BY <1>8, <3>1, <3>2 DEF BeginRecording
  <2>5. QED
    BY <1>1, <1>2, <2>1, <2>2, <2>3, <2>4
<1>9. ASSUME NEW t \in GpuThreads, Unlock(t) PROVE LockInv'
  <2>1. Others(t) /\ CountsKept
    BY <1>9, AloneInside DEF Unlock, slots, publication, CountsKept, Submitted, Finished, Recording
  <2>2. Recording # {} /\ Buffers /\ lock' = NoThread
    BY <1>9, <2>1 DEF Unlock, LockInv, HeldInv, CountsKept
  <2>3. stage'[t] \notin Inside
    <3>1. back[t] \in Resumes
      BY DEF GpuTypeOK
    <3>2. QED
      BY <1>1, <1>9, <3>1, ResumesOutside DEF Unlock, Return, Proceeds
  <2>4. HeldInv(t)'
    BY ONLY <2>3 DEF HeldInv, Inside
  <2>5. QED
    BY <1>2, <2>1, <2>2, <2>3, <2>4 DEF CountsKept
<1>10. CASE InsideKept /\ CountsKept
  <2>1. ASSUME NEW u \in GpuThreads PROVE HeldInv(u)' /\ (stage'[u] \in Inside <=> lock' = u)
    <3>1. HeldInv(u) /\ (stage[u] \in Inside <=> lock = u)
      BY DEF LockInv
    <3>2. CASE stage[u] \in Inside \/ stage'[u] \in Inside
      BY ONLY <1>10, <3>1, <3>2 DEF InsideKept, CountsKept, HeldInv
    <3>3. CASE stage[u] \notin Inside /\ stage'[u] \notin Inside
      BY ONLY <1>10, <3>1, <3>3 DEF InsideKept, HeldInv, Inside
    <3>4. QED
      BY <3>2, <3>3
  <2>2. QED
    BY <1>10, <2>1 DEF LockInv, InsideKept, CountsKept
<1>11. QED
  BY <1>3, <1>4, <1>5, <1>6, <1>7, <1>8, <1>9, <1>10, OutsideSteps, CountSteps

----------------------------------------------------------------------------
(* Submissions: calls                                                      *)

(* A step moves one thread; a batch that is decoded also moves the guest   *)
(* that waits for it.                                                      *)
Keeps(u) ==
  /\ stage'[u] = stage[u] /\ op'[u] = op[u] /\ goal'[u] = goal[u]
  /\ latest'[u] = latest[u] /\ until'[u] = until[u] /\ back'[u] = back[u]

OnlyMoves(t) == \A u \in GpuThreads : u # t => Keeps(u)

(* A step of a call goes on with the call or returns from it.              *)
GoesOn(t) ==
  /\ stage[t] \in ProcessorPcs \cup DrainPcs /\ stage'[t] \in ProcessorPcs \cup DrainPcs
  /\ op'[t] = op[t] /\ back'[t] = back[t] /\ goal'[t] = goal[t]

Returns(t) ==
  /\ stage[t] \in ProcessorPcs \cup DrainPcs /\ stage[t] \notin {"lock", "sweep", "submit"}
  /\ stage'[t] = back[t] /\ op'[t] = "none" /\ back'[t] = "idle" /\ goal'[t] = NoId
  /\ latest'[t] = NoId /\ until'[t] = NoId

(* A step of a call goes on in the call or returns where it was made.      *)
LEMMA CallSteps ==
  ASSUME GpuTypeOK, NEW t \in GpuThreads, ProcessorStep(t)
  PROVE  OnlyMoves(t) /\ (GoesOn(t) \/ Returns(t))
<1>1. /\ stage \in [GpuThreads -> Stages] /\ op \in [GpuThreads -> Ops] /\ back \in [GpuThreads -> Resumes]
      /\ goal \in [GpuThreads -> Ids \cup {NoId}] /\ latest \in [GpuThreads -> Ids \cup {NoId}]
      /\ until \in [GpuThreads -> Ids \cup {NoId}]
  BY DEF GpuTypeOK
<1> DEFINE Goal == OnlyMoves(t) /\ (GoesOn(t) \/ Returns(t))
<1>2. ASSUME Lock(t) PROVE Goal
  BY ONLY <1>1, <1>2 DEF OnlyMoves, Keeps, GoesOn, Returns, ProcessorPcs, DrainPcs, Proceeds, locals,
     Lock
<1>3. ASSUME Sweep(t) PROVE Goal
  BY ONLY <1>1, <1>3 DEF OnlyMoves, Keeps, GoesOn, Returns, ProcessorPcs, DrainPcs, Proceeds, locals,
     Sweep, CompleteFront
<1>4. ASSUME Swept(t) PROVE Goal
  BY ONLY <1>1, <1>4 DEF OnlyMoves, Keeps, GoesOn, Returns, ProcessorPcs, DrainPcs, Proceeds, locals,
     Swept
<1>5. ASSUME Submit(t) PROVE Goal
  BY ONLY <1>1, <1>5 DEF OnlyMoves, Keeps, GoesOn, Returns, ProcessorPcs, DrainPcs, Proceeds, locals,
     Submit
<1>6. ASSUME Through(t) PROVE Goal
  BY ONLY <1>1, <1>6 DEF OnlyMoves, Keeps, GoesOn, Returns, ProcessorPcs, DrainPcs, Proceeds, locals,
     Through, CompleteFront
<1>7. ASSUME BeginRecording(t) PROVE Goal
  BY ONLY <1>1, <1>7 DEF OnlyMoves, Keeps, GoesOn, Returns, ProcessorPcs, DrainPcs, Proceeds, locals,
     BeginRecording
<1>8. ASSUME Unlock(t) PROVE Goal
  BY ONLY <1>1, <1>8 DEF OnlyMoves, Keeps, GoesOn, Returns, ProcessorPcs, DrainPcs, Proceeds, locals,
     Unlock, Return
<1>9. ASSUME Acquire(t) PROVE Goal
  BY ONLY <1>1, <1>9 DEF OnlyMoves, Keeps, GoesOn, Returns, ProcessorPcs, DrainPcs, Proceeds, locals,
     Acquire
<1>10. ASSUME AcquireNone(t) PROVE Goal
  BY ONLY <1>1, <1>10 DEF OnlyMoves, Keeps, GoesOn, Returns, ProcessorPcs, DrainPcs, Proceeds, locals,
     AcquireNone, Return
<1>11. ASSUME Complete(t) PROVE Goal
  BY ONLY <1>1, <1>11 DEF OnlyMoves, Keeps, GoesOn, Returns, ProcessorPcs, DrainPcs, Proceeds, locals,
     Complete, ThenDrain
<1>12. ASSUME StartDrain(t) PROVE Goal
  BY ONLY <1>1, <1>12 DEF OnlyMoves, Keeps, GoesOn, Returns, ProcessorPcs, DrainPcs, Proceeds, locals,
     StartDrain, AfterDrain, Return
<1>13. ASSUME RunTask(t) PROVE Goal
  BY ONLY <1>1, <1>13 DEF OnlyMoves, Keeps, GoesOn, Returns, ProcessorPcs, DrainPcs, Proceeds, locals,
     RunTask
<1>14. ASSUME EndDrain(t) PROVE Goal
  BY ONLY <1>1, <1>14 DEF OnlyMoves, Keeps, GoesOn, Returns, ProcessorPcs, DrainPcs, Proceeds, locals,
     EndDrain, AfterDrain, Return
<1>15. ASSUME MarkPublished(t) PROVE Goal
  BY ONLY <1>1, <1>15 DEF OnlyMoves, Keeps, GoesOn, Returns, ProcessorPcs, DrainPcs, Proceeds, locals,
     MarkPublished
<1>16. ASSUME Retire(t) PROVE Goal
  BY ONLY <1>1, <1>16 DEF OnlyMoves, Keeps, GoesOn, Returns, ProcessorPcs, DrainPcs, Proceeds, locals,
     Retire
<1>17. ASSUME AwaitPublished(t) PROVE Goal
  BY ONLY <1>1, <1>17 DEF OnlyMoves, Keeps, GoesOn, Returns, ProcessorPcs, DrainPcs, Proceeds, locals,
     AwaitPublished, Return
<1>18. QED
  BY <1>2, <1>3, <1>4, <1>5, <1>6, <1>7, <1>8, <1>9, <1>10, <1>11, <1>12, <1>13, <1>14, <1>15, <1>16, <1>17 DEF ProcessorStep

(* Submissions are only made, fences only seen.                            *)
LEMMA Monotone ==
  ASSUME SubmissionInv, GpuNext
  PROVE  /\ Submitted \in Nat /\ Finished \in Nat /\ Finished <= Submitted
         /\ Submitted' \in Nat /\ Submitted <= Submitted' /\ Finished' \in Nat /\ Finished <= Finished'
         /\ Submitted' # Submitted => \E t \in GpuThreads : Submit(t)
<1> USE Numbers DEF SubmissionInv
<1>1. ASSUME NEW t \in GpuThreads, Sweep(t) \/ Through(t)
      PROVE  Submitted' = Submitted /\ Finished' = Finished + 1
  BY <1>1, FrontFinished DEF Sweep, Through
<1>2. ASSUME NEW t \in GpuThreads, Submit(t)
      PROVE  Submitted' = Submitted + 1 /\ Finished' = Finished
  BY <1>2, SubmissionMade
<1>3. ASSUME NEW t \in GpuThreads, BeginRecording(t)
      PROVE  Submitted' = Submitted /\ Finished' = Finished
  BY <1>3 DEF BeginRecording, publication, Submitted, Finished
<1>4. Submitted \in Nat /\ Finished \in Nat /\ Finished <= Submitted
  OBVIOUS
<1>5. QED
  BY <1>1, <1>2, <1>3, <1>4, CountSteps DEF CountsKept

(* A call keeps the role of its thread.                                    *)
LEMMA RoleKept ==
  ASSUME RoleInv, NEW t \in GpuThreads, GoesOn(t) \/ Returns(t),
         Submitted \in Nat, Submitted' \in Nat, Submitted <= Submitted',
         op[t] = "flush" /\ stage[t] \in {"lock", "sweep", "submit"}
           /\ stage'[t] \notin {"lock", "sweep", "submit"} => Submitted' > 0
  PROVE  /\ t = RingWorker => WorkerRole'
         /\ t = Peer => PeerRole'
         /\ t \in GpuGuests => GuestRole(t)'
<1>1. op[t] # "none" /\ (op[t] = "wait" => goal[t] \in Nat)
  BY DEF RoleInv, CallInv, GoesOn, Returns, Ids
<1>2. CASE t = RingWorker
  <2> SUFFICES WorkerRole'
    BY <1>2, GpuNames
  <2>1. WorkerRole
    BY DEF RoleInv
  <2>2. CASE GoesOn(t)
    <3>1. op[t] = "wait" => goal'[t] <= Submitted'
      BY ONLY <1>1, <1>2, <2>1, <2>2, Submitted \in Nat, Submitted' \in Nat, Submitted <= Submitted'
         DEF WorkerRole, GoesOn
    <3>2. Submitted > 0 => Submitted' > 0
      OBVIOUS
    <3>3. stage'[t] # "flushed"
      BY ONLY <2>2 DEF GoesOn, ProcessorPcs, DrainPcs
    <3>4. QED
      BY <1>1, <1>2, <2>1, <2>2, <3>1, <3>2, <3>3, GpuNames DEF WorkerRole, GoesOn
  <2>3. CASE Returns(t)
    <3>1. Submitted > 0 => Submitted' > 0
      OBVIOUS
    <3>2. <<op[t], back[t]>> \in {<<"queue", "decode">>, <<"pump", "get">>, <<"flush", "flushed">>,
             <<"wait", "ended">>, <<"enqueue", "decode">>}
      BY ONLY <1>1, <1>2, <2>1 DEF WorkerRole
    <3>3. back[t] \in WorkerPcs /\ (back[t] = "flushed" => op[t] = "flush")
      BY ONLY <3>2 DEF WorkerPcs
    <3>4. back[t] = "flushed" => Submitted > 0
      BY ONLY <1>2, <2>1, <2>3, <3>3 DEF WorkerRole, Returns
    <3>5. QED
      BY ONLY <1>2, <2>3, <3>1, <3>3, <3>4 DEF WorkerRole, Returns
  <2>4. QED
    BY <2>2, <2>3
<1>3. CASE t = Peer
  BY <1>1, <1>3, GpuNames DEF RoleInv, PeerRole, GoesOn, Returns
<1>4. CASE t \in GpuGuests
  <2> SUFFICES GuestRole(t)'
    BY <1>4, GpuNames
  <2>1. GuestRole(t)
    BY <1>4 DEF RoleInv
  <2>2. CASE GoesOn(t)
    BY ONLY <2>1, <2>2 DEF GuestRole, GoesOn
  <2>3. CASE Returns(t)
    BY ONLY <1>1, <2>1, <2>3 DEF GuestRole, Returns, GuestPcs
  <2>4. QED
    BY <2>2, <2>3
<1>5. QED
  BY <1>2, <1>3, <1>4

(* The call of the thread that takes the step.                             *)
LEMMA OwnCall ==
  ASSUME SubmissionInv, GpuNext, NEW t \in GpuThreads, ProcessorStep(t)
  PROVE  CallInv(t)'
<1> USE DEF SubmissionInv
<1>1. /\ stage \in [GpuThreads -> Stages] /\ op \in [GpuThreads -> Ops] /\ back \in [GpuThreads -> Resumes]
      /\ goal \in [GpuThreads -> Ids \cup {NoId}] /\ latest \in [GpuThreads -> Ids \cup {NoId}]
      /\ until \in [GpuThreads -> Ids \cup {NoId}]
  BY DEF GpuTypeOK
<1>2. /\ Submitted \in Nat /\ Finished \in Nat /\ Finished <= Submitted
      /\ Submitted' \in Nat /\ Submitted <= Submitted' /\ Finished' \in Nat /\ Finished <= Finished'
  BY Monotone
<1>3. CallInv(t) /\ HeldInv(t)
  BY DEF RoleInv, LockInv
<1>4. goal[t] \in Nat /\ latest[t] \in Nat
  BY <1>1 DEF Ids, NoId
<1>5. GoesOn(t) \/ Returns(t)
  BY CallSteps
<1>6. ASSUME Returns(t) PROVE CallInv(t)'
  <2>1. back[t] \in Resumes
    BY <1>1
  <2>2. back[t] \notin ProcessorPcs \cup DrainPcs
    BY ONLY <2>1 DEF Resumes, WorkerPcs, GuestPcs, ProcessorPcs, DrainPcs
  <2>3. QED
    BY ONLY <1>2, <1>6, <2>2 DEF CallInv, Returns, NoId
<1>7. ASSUME GoesOn(t), latest'[t] = latest[t],
             stage[t] \in {"lock", "sweep", "submit"} <=> stage'[t] \in {"lock", "sweep", "submit"},
             stage'[t] \in {"sweep", "submit"} => Submitted' = Submitted /\ stage[t] = "sweep",
             \/ stage'[t] = stage[t]
             \/ op[t] = "enqueue" => stage'[t] \in DrainPcs,
             op[t] = "pump" => stage'[t] \notin {"submit", "reuse", "through", "begin", "await"},
             op[t] = "drain" => stage'[t] \notin {"sweep", "submit", "reuse", "begin"},
             op[t] = "device" => stage'[t] \in Inside \cup {"lock"}
      PROVE  CallInv(t)'
  BY ONLY <1>2, <1>3, <1>4, <1>7 DEF CallInv, GoesOn
<1>0. ASSUME Return(t), stage[t] \in ProcessorPcs \cup DrainPcs PROVE CallInv(t)'
  <2>1. op'[t] = "none" /\ op[t] # "none"
    BY ONLY <1>0, <1>1, <1>3 DEF Return, CallInv
  <2>2. QED
    BY <1>5, <1>6, <2>1 DEF GoesOn
<1>8. ASSUME Lock(t) PROVE CallInv(t)'
  <2>1. Submitted' = Submitted /\ Finished' = Finished
    BY <1>8 DEF Lock, publication, slots, Submitted, Finished
  <2>2. GoesOn(t) /\ latest' = latest /\ stage[t] = "lock"
    <3>1. stage[t] = "lock" /\ stage'[t] \in {"sweep", "through", "unlock"} /\ op' = op /\ back' = back
          /\ goal' = goal /\ latest' = latest
      BY ONLY <1>1, <1>8 DEF Lock, Proceeds
    <3>2. QED
      BY ONLY <3>1 DEF GoesOn, ProcessorPcs
  <2>3. stage'[t] \in {"sweep", "through", "unlock"} /\ (stage'[t] = "through" => op[t] \in {"wait", "drain"})
        /\ (stage'[t] = "sweep" => op[t] = "pump" \/ Submits(t))
    BY ONLY <1>1, <1>8 DEF Lock, Proceeds
  <2>4. op[t] # "enqueue"
    BY ONLY <1>3, <2>2 DEF CallInv, DrainPcs
  <2>5. ASSUME op[t] \in {"wait", "device"}, stage'[t] = "sweep" PROVE goal[t] = Submitted + 1
    BY <1>1, <2>3, <2>5, RecordingIsNext DEF Submits
  <2>6. ASSUME op[t] \in {"wait", "device"}, stage'[t] # "sweep" PROVE goal[t] <= Submitted
    <3>1. goal[t] \in Ids /\ goal[t] <= Submitted + 1
      BY <1>3, <2>6 DEF CallInv
    <3>2. CASE tracker[goal[t]] \in {"Submitted", "Completed", "Retired"}
      BY <1>2, <1>4, <3>1, <3>2 DEF TrackerInv
    <3>3. CASE goal[t] \notin Recording
      <4>1. Recording = {Submitted + 1}
        BY <1>8, RecordingIsNext DEF LockInv, Lock
      <4>2. QED
        BY ONLY <1>2, <1>4, <3>1, <3>3, <4>1
    <3>4. QED
      BY ONLY <1>1, <1>8, <2>6, <3>2, <3>3 DEF Lock, Proceeds, Submits
  <2>7. QED
    BY ONLY <1>2, <1>3, <1>4, <2>1, <2>2, <2>3, <2>4, <2>5, <2>6 DEF CallInv, GoesOn, Inside, Submits
<1>9. ASSUME Sweep(t) \/ Through(t) PROVE CallInv(t)'
  <2>1. FrontSignalled /\ CompleteFront(t) /\ UNCHANGED <<op, goal, back>>
    BY <1>9 DEF Sweep, Through
  <2>2. Submitted' = Submitted /\ Finished' = Finished + 1 /\ latest' = [latest EXCEPT ![t] = Finished + 1]
    BY <2>1, FrontFinished
  <2>3. GoesOn(t) /\ op' = op
    BY ONLY <1>1, <1>9, <2>1 DEF Sweep, Through, GoesOn, Proceeds, ProcessorPcs
  <2>4. stage'[t] = stage[t] \/ (stage[t] = "through" /\ stage'[t] = "unlock")
        \/ (stage[t] = "through" /\ stage'[t] = "begin" /\ Recording = {})
    BY ONLY <1>1, <1>9 DEF Sweep, Through, Proceeds
  <2>5. op[t] # "enqueue"
    <3>1. stage[t] \in {"sweep", "reuse", "through"}
      BY <1>9 DEF Sweep, Through
    <3>2. QED
      BY ONLY <1>3, <3>1 DEF CallInv, DrainPcs
  <2>6. QED
    BY ONLY <1>1, <1>2, <1>3, <1>4, <2>2, <2>3, <2>4, <2>5 DEF CallInv, HeldInv, GoesOn, Inside
<1>10. ASSUME Submit(t) PROVE CallInv(t)'
  <2>1. Submitted' = Submitted + 1 /\ Finished' = Finished
    BY <1>10, SubmissionMade
  <2>2. stage[t] = "submit" /\ stage'[t] = "reuse" /\ op' = op /\ latest' = latest /\ goal' = goal /\ back' = back
    BY <1>1, <1>10 DEF Submit, Proceeds, locals
  <2>3. QED
    BY ONLY <1>2, <1>3, <1>4, <2>1, <2>2 DEF CallInv, Inside, ProcessorPcs, DrainPcs
<1>11. ASSUME Swept(t) PROVE CallInv(t)'
  <2>1. Submitted' = Submitted
    BY <1>11 DEF Swept, publication, slots, Submitted, Finished
  <2>2. latest' = latest /\ op' = op /\ goal' = goal /\ back' = back
        /\ \/ stage[t] = "sweep" /\ stage'[t] = IF op[t] = "pump" THEN "unlock" ELSE "submit"
           \/ stage[t] = "reuse" /\ stage'[t] \in {"begin", "through"}
    BY ONLY <1>1, <1>11 DEF Swept, Proceeds
  <2>3. QED
    BY ONLY <1>2, <1>3, <1>4, <2>1, <2>2 DEF CallInv, Inside, ProcessorPcs, DrainPcs
<1>12. ASSUME BeginRecording(t) PROVE CallInv(t)'
  BY ONLY <1>1, <1>3, <1>5, <1>6, <1>7, <1>12
     DEF CallInv, Inside, GoesOn, Proceeds, locals, ProcessorPcs, DrainPcs, NoId, BeginRecording
<1>13. ASSUME Unlock(t) PROVE CallInv(t)'
  <2>1. CASE Return(t)
    BY ONLY <1>0, <1>13, <2>1 DEF Unlock, ProcessorPcs, DrainPcs
  <2>2. CASE ~Return(t)
    <3>1. GoesOn(t)
      BY ONLY <1>1, <1>13, <2>2 DEF CallInv, Inside, GoesOn, Proceeds, locals, ProcessorPcs, DrainPcs, NoId, Unlock
    <3>2. QED
      BY ONLY <1>1, <1>3, <1>7, <1>13, <2>2, <3>1
         DEF CallInv, Inside, GoesOn, Proceeds, locals, ProcessorPcs, DrainPcs, NoId, Unlock
  <2>3. QED
    BY <2>1, <2>2
<1>14. ASSUME Acquire(t) PROVE CallInv(t)'
  BY ONLY <1>1, <1>3, <1>5, <1>6, <1>7, <1>14
     DEF CallInv, Inside, GoesOn, Proceeds, locals, ProcessorPcs, DrainPcs, NoId, Acquire
<1>15. ASSUME AcquireNone(t) PROVE CallInv(t)'
  <2>1. CASE Return(t)
    BY ONLY <1>0, <1>15, <2>1 DEF AcquireNone, ProcessorPcs, DrainPcs
  <2>2. CASE ~Return(t)
    <3>1. GoesOn(t)
      BY ONLY <1>1, <1>15, <2>2 DEF CallInv, Inside, GoesOn, Proceeds, locals, ProcessorPcs, DrainPcs, NoId, AcquireNone, Awaited
    <3>2. QED
      BY ONLY <1>1, <1>3, <1>7, <1>15, <2>2, <3>1
         DEF CallInv, Inside, GoesOn, Proceeds, locals, ProcessorPcs, DrainPcs, NoId, AcquireNone, Awaited
  <2>3. QED
    BY <2>1, <2>2
<1>16. ASSUME Complete(t) PROVE CallInv(t)'
  BY ONLY <1>1, <1>3, <1>5, <1>6, <1>7, <1>16
     DEF CallInv, Inside, GoesOn, Proceeds, locals, ProcessorPcs, DrainPcs, NoId, Complete, ThenDrain
<1>17. ASSUME StartDrain(t) PROVE CallInv(t)'
  <2>1. CASE Return(t)
    BY ONLY <1>0, <1>17, <2>1 DEF StartDrain, ProcessorPcs, DrainPcs
  <2>2. CASE ~Return(t)
    <3>1. GoesOn(t)
      BY ONLY <1>1, <1>17, <2>2 DEF CallInv, Inside, GoesOn, Proceeds, locals, ProcessorPcs, DrainPcs, NoId, StartDrain, AfterDrain
    <3>2. QED
      BY ONLY <1>1, <1>3, <1>7, <1>17, <2>2, <3>1
         DEF CallInv, Inside, GoesOn, Proceeds, locals, ProcessorPcs, DrainPcs, NoId, StartDrain, AfterDrain
  <2>3. QED
    BY <2>1, <2>2
<1>18. ASSUME RunTask(t) PROVE CallInv(t)'
  BY ONLY <1>1, <1>3, <1>5, <1>6, <1>7, <1>18
     DEF CallInv, Inside, GoesOn, Proceeds, locals, ProcessorPcs, DrainPcs, NoId, RunTask
<1>19. ASSUME EndDrain(t) PROVE CallInv(t)'
  <2>1. CASE Return(t)
    BY ONLY <1>0, <1>19, <2>1 DEF EndDrain, ProcessorPcs, DrainPcs
  <2>2. CASE ~Return(t)
    <3>1. GoesOn(t)
      BY ONLY <1>1, <1>19, <2>2 DEF CallInv, Inside, GoesOn, Proceeds, locals, ProcessorPcs, DrainPcs, NoId, EndDrain, AfterDrain
    <3>2. QED
      BY ONLY <1>1, <1>3, <1>7, <1>19, <2>2, <3>1
         DEF CallInv, Inside, GoesOn, Proceeds, locals, ProcessorPcs, DrainPcs, NoId, EndDrain, AfterDrain
  <2>3. QED
    BY <2>1, <2>2
<1>20. ASSUME MarkPublished(t) PROVE CallInv(t)'
  BY ONLY <1>1, <1>3, <1>5, <1>6, <1>7, <1>20
     DEF CallInv, Inside, GoesOn, Proceeds, locals, ProcessorPcs, DrainPcs, NoId, MarkPublished
<1>21. ASSUME Retire(t) PROVE CallInv(t)'
  BY ONLY <1>1, <1>3, <1>5, <1>6, <1>7, <1>21
     DEF CallInv, Inside, GoesOn, Proceeds, locals, ProcessorPcs, DrainPcs, NoId, Retire
<1>22. ASSUME AwaitPublished(t) PROVE CallInv(t)'
  <2>1. CASE Return(t)
    BY ONLY <1>0, <1>22, <2>1 DEF AwaitPublished, ProcessorPcs, DrainPcs
  <2>2. CASE ~Return(t)
    <3>1. GoesOn(t)
      BY ONLY <1>1, <1>22, <2>2 DEF CallInv, Inside, GoesOn, Proceeds, locals, ProcessorPcs, DrainPcs, NoId, AwaitPublished
    <3>2. QED
      BY ONLY <1>1, <1>3, <1>7, <1>22, <2>2, <3>1
         DEF CallInv, Inside, GoesOn, Proceeds, locals, ProcessorPcs, DrainPcs, NoId, AwaitPublished
  <2>3. QED
    BY <2>1, <2>2
<1>23. QED
  BY <1>8, <1>9, <1>10, <1>11, <1>12, <1>13, <1>14, <1>15, <1>16, <1>17, <1>18, <1>19, <1>20, <1>21, <1>22 DEF ProcessorStep

(* Decoding alone records labels.                                          *)
LEMMA LabelFrame ==
  ASSUME GpuNext
  PROVE  \/ UNCHANGED labelled
         \/ RecordLabel
<1> USE DEF ring, slots, publication, deletion, locals, bounds
<1>1. ASSUME NEW t \in GpuThreads, Lock(t) PROVE UNCHANGED labelled
  BY <1>1 DEF Lock
<1>2. ASSUME NEW t \in GpuThreads, Sweep(t) PROVE UNCHANGED labelled
  BY <1>2 DEF Sweep, CompleteFront
<1>3. ASSUME NEW t \in GpuThreads, Swept(t) PROVE UNCHANGED labelled
  BY <1>3 DEF Swept
<1>4. ASSUME NEW t \in GpuThreads, Submit(t) PROVE UNCHANGED labelled
  BY <1>4 DEF Submit
<1>5. ASSUME NEW t \in GpuThreads, Through(t) PROVE UNCHANGED labelled
  BY <1>5 DEF Through, CompleteFront
<1>6. ASSUME NEW t \in GpuThreads, BeginRecording(t) PROVE UNCHANGED labelled
  BY <1>6 DEF BeginRecording
<1>7. ASSUME NEW t \in GpuThreads, Unlock(t) PROVE UNCHANGED labelled
  BY <1>7 DEF Unlock, Return
<1>8. ASSUME NEW t \in GpuThreads, Acquire(t) PROVE UNCHANGED labelled
  BY <1>8 DEF Acquire
<1>9. ASSUME NEW t \in GpuThreads, AcquireNone(t) PROVE UNCHANGED labelled
  BY <1>9 DEF AcquireNone, Return
<1>10. ASSUME NEW t \in GpuThreads, Complete(t) PROVE UNCHANGED labelled
  BY <1>10 DEF Complete
<1>11. ASSUME NEW t \in GpuThreads, StartDrain(t) PROVE UNCHANGED labelled
  BY <1>11 DEF StartDrain, AfterDrain, Return
<1>12. ASSUME NEW t \in GpuThreads, RunTask(t) PROVE UNCHANGED labelled
  BY <1>12 DEF RunTask
<1>13. ASSUME NEW t \in GpuThreads, EndDrain(t) PROVE UNCHANGED labelled
  BY <1>13 DEF EndDrain, AfterDrain, Return
<1>14. ASSUME NEW t \in GpuThreads, MarkPublished(t) PROVE UNCHANGED labelled
  BY <1>14 DEF MarkPublished
<1>15. ASSUME NEW t \in GpuThreads, Retire(t) PROVE UNCHANGED labelled
  BY <1>15 DEF Retire
<1>16. ASSUME NEW t \in GpuThreads, AwaitPublished(t) PROVE UNCHANGED labelled
  BY <1>16 DEF AwaitPublished, Return
<1>17. ASSUME HostQueue PROVE UNCHANGED labelled
  BY <1>17 DEF HostQueue, Signal
<1>18. ASSUME TakeBatch PROVE UNCHANGED labelled
  BY <1>18 DEF TakeBatch
<1>19. ASSUME IdlePump PROVE UNCHANGED labelled
  BY <1>19 DEF IdlePump, Begin
<1>20. ASSUME GoIdle PROVE UNCHANGED labelled
  BY <1>20 DEF GoIdle
<1>21. ASSUME WakeUp PROVE UNCHANGED labelled
  BY <1>21 DEF WakeUp
<1>22. ASSUME SubmitRecorded PROVE UNCHANGED labelled
  BY <1>22 DEF SubmitRecorded, Begin
<1>23. ASSUME ScheduleUsed PROVE UNCHANGED labelled
  BY <1>23 DEF ScheduleUsed, Schedule
<1>24. ASSUME EndBatch PROVE UNCHANGED labelled
  BY <1>24 DEF EndBatch, Begin
<1>25. ASSUME Flushed PROVE UNCHANGED labelled
  BY <1>25 DEF Flushed
<1>26. ASSUME Ended PROVE UNCHANGED labelled
  BY <1>26 DEF Ended
<1>27. ASSUME PeerCall PROVE UNCHANGED labelled
  BY <1>27 DEF PeerCall, Begin
<1>28. ASSUME NEW g \in GpuGuests, SubmitBatch(g) PROVE UNCHANGED labelled
  BY <1>28 DEF SubmitBatch
<1>29. ASSUME NEW g \in GpuGuests, Quiesce(g) PROVE UNCHANGED labelled
  BY <1>29 DEF Quiesce
<1>30. ASSUME NEW g \in GpuGuests, FreeUsed(g) PROVE UNCHANGED labelled
  BY <1>30 DEF FreeUsed, Schedule
<1>31. ASSUME NEW g \in GpuGuests, SubmitAndWait(g) PROVE UNCHANGED labelled
  BY <1>31 DEF SubmitAndWait, Begin
<1>32. ASSUME NEW g \in GpuGuests, LeaveGate(g) PROVE UNCHANGED labelled
  BY <1>32 DEF LeaveGate
<1>33. QED
  BY ONLY GpuNames, GpuNext, <1>1, <1>2, <1>3, <1>4, <1>5, <1>6, <1>7, <1>8, <1>9, <1>10, <1>11, <1>12, <1>13, <1>14, <1>15, <1>16, <1>17, <1>18, <1>19, <1>20, <1>21, <1>22, <1>23, <1>24, <1>25, <1>26, <1>27, <1>28, <1>29, <1>30, <1>31, <1>32
     DEF GpuNext, Work, DecodeBatch, Proceed, ProcessorStep

(* What a thread is doing, for every thread alike.                         *)
RoleOf(u) ==
  /\ CallInv(u)
  /\ u = RingWorker => WorkerRole
  /\ u = Peer => PeerRole
  /\ u \in GpuGuests => GuestRole(u)

(* A thread that keeps its place, call and goal keeps its role.            *)
LEMMA KeptRole ==
  ASSUME SubmissionInv, GpuNext, NEW u \in GpuThreads, Keeps(u)
  PROVE  RoleOf(u)'
<1>1. /\ Submitted \in Nat /\ Finished \in Nat /\ Finished <= Submitted
      /\ Submitted' \in Nat /\ Submitted <= Submitted' /\ Finished' \in Nat /\ Finished <= Finished'
      /\ (Submitted' # Submitted => \E t \in GpuThreads : Submit(t))
  BY Monotone
<1>2. RoleOf(u)
  BY DEF SubmissionInv, RoleInv, RoleOf
<1>3. goal[u] \in Nat /\ latest[u] \in Nat
  BY DEF SubmissionInv, GpuTypeOK, Ids, NoId
<1>4. stage[u] \in {"sweep", "submit"} => Submitted' = Submitted
  <2>1. SUFFICES ASSUME stage[u] \in {"sweep", "submit"}, NEW t \in GpuThreads, Submit(t)
                 PROVE  FALSE
    BY <1>1
  <2>2. stage[t] = "submit" /\ stage'[t] = "reuse"
    BY <2>1 DEF Submit, Proceeds, SubmissionInv, GpuTypeOK
  <2>3. t = u
    BY <2>1, <2>2 DEF SubmissionInv, LockInv, Inside
  <2>4. QED
    BY ONLY <2>2, <2>3, Keeps(u) DEF Keeps
<1>5. CallInv(u)'
  BY ONLY <1>1, <1>2, <1>3, <1>4, Keeps(u) DEF Keeps, RoleOf, CallInv
<1>6. u = RingWorker => WorkerRole'
  BY ONLY <1>1, <1>2, <1>3, Keeps(u) DEF Keeps, RoleOf, WorkerRole
<1>7. u = Peer => PeerRole'
  BY ONLY <1>2, Keeps(u) DEF Keeps, RoleOf, PeerRole
<1>8. u \in GpuGuests => GuestRole(u)'
  BY ONLY <1>2, Keeps(u) DEF Keeps, RoleOf, GuestRole
<1>9. QED
  BY <1>5, <1>6, <1>7, <1>8 DEF RoleOf

(* A step of its own call leaves a thread in its role.                     *)
LEMMA OwnRole ==
  ASSUME SubmissionInv, GpuNext, NEW t \in GpuThreads, ProcessorStep(t)
  PROVE  RoleOf(t)'
<1>1. /\ Submitted \in Nat /\ Submitted' \in Nat /\ Submitted <= Submitted'
      /\ stage \in [GpuThreads -> Stages]
  BY Monotone DEF SubmissionInv, GpuTypeOK
<1>2. ASSUME op[t] = "flush", stage[t] \in {"lock", "sweep", "submit"}, stage'[t] \notin {"lock", "sweep", "submit"}
      PROVE  Submitted' > 0
  <2>1. CASE Submit(t)
    BY <1>1, <2>1, SubmissionMade DEF SubmissionInv
  <2>2. CASE ~Submit(t)
    BY ONLY <1>1, <1>2, <2>2, ProcessorStep(t)
       DEF ProcessorStep, Lock, Sweep, Swept, Through, BeginRecording, Unlock, Acquire, AcquireNone,
           Complete, StartDrain, RunTask, EndDrain, MarkPublished, Retire, AwaitPublished, Submits, Proceeds
  <2>3. QED
    BY <2>1, <2>2
<1>3. GoesOn(t) \/ Returns(t)
  BY CallSteps DEF SubmissionInv
<1>4. QED
  BY <1>1, <1>2, <1>3, RoleKept, OwnCall DEF RoleOf, SubmissionInv

(* Every step keeps the roles.                                             *)
LEMMA RoleStep ==
  ASSUME SubmissionInv, GpuNext
  PROVE  RoleInv'
<1> DEFINE All == \A u \in GpuThreads : RoleOf(u)'
<1>1. /\ stage \in [GpuThreads -> Stages] /\ op \in [GpuThreads -> Ops] /\ back \in [GpuThreads -> Resumes]
      /\ goal \in [GpuThreads -> Ids \cup {NoId}] /\ latest \in [GpuThreads -> Ids \cup {NoId}]
      /\ until \in [GpuThreads -> Ids \cup {NoId}] /\ labelled \subseteq Ids
  BY DEF SubmissionInv, GpuTypeOK
<1>2. /\ Submitted \in Nat /\ Finished \in Nat /\ Finished <= Submitted
      /\ Submitted' \in Nat /\ Submitted <= Submitted' /\ Finished' \in Nat /\ Finished <= Finished'
      /\ Ids \subseteq Nat \ {0} /\ \A u \in GpuThreads : latest[u] \in Nat
  <2>1. /\ Ids \subseteq Nat \ {0} /\ \A u \in GpuThreads : latest[u] \in Nat
    BY <1>1 DEF Ids, NoId
  <2>2. QED
    BY <2>1, Monotone
<1>3. \A u \in GpuThreads : RoleOf(u)
  BY DEF SubmissionInv, RoleInv, RoleOf
<1>4. \A u \in GpuThreads : Keeps(u) => RoleOf(u)'
  BY KeptRole
<1>5. ASSUME NEW t \in GpuThreads, ProcessorStep(t) PROVE All
  BY <1>4, <1>5, CallSteps, OwnRole DEF OnlyMoves, SubmissionInv
<1>6. ASSUME HostQueue PROVE All
  BY <1>4, <1>6 DEF HostQueue, Signal, Keeps, locals
<1>7. ASSUME TakeBatch PROVE All
  <2>1. \A u \in GpuThreads : u # RingWorker => Keeps(u)
    BY ONLY <1>1, <1>7, GpuNames DEF Keeps, Proceeds, locals, ring, TakeBatch
  <2>2. RoleOf(RingWorker)'
    <3>1. RoleOf(RingWorker) /\ RingWorker \in GpuThreads /\ latest[RingWorker] \in Nat
      BY <1>2, <1>3, GpuNames
    <3>2. QED
      BY ONLY <1>1, <1>2, <1>7, <3>1, GpuNames
         DEF Proceeds, locals, RoleOf, CallInv, WorkerRole, PeerRole, GuestRole, ProcessorPcs, DrainPcs, WorkerPcs, GuestPcs, Inside, NoId,
             TakeBatch
  <2>3. QED
    BY <1>4, <2>1, <2>2
<1>8. ASSUME IdlePump PROVE All
  <2>1. \A u \in GpuThreads : u # RingWorker => Keeps(u)
    BY ONLY <1>1, <1>8, GpuNames DEF Keeps, Proceeds, locals, ring, IdlePump, Begin
  <2>2. RoleOf(RingWorker)'
    <3>1. RoleOf(RingWorker) /\ RingWorker \in GpuThreads /\ latest[RingWorker] \in Nat
      BY <1>2, <1>3, GpuNames
    <3>2. QED
      BY ONLY <1>1, <1>2, <1>8, <3>1, GpuNames
         DEF Proceeds, locals, RoleOf, CallInv, WorkerRole, PeerRole, GuestRole, ProcessorPcs, DrainPcs, WorkerPcs, GuestPcs, Inside, NoId,
             IdlePump, Begin
  <2>3. QED
    BY <1>4, <2>1, <2>2
<1>9. ASSUME GoIdle PROVE All
  <2>1. \A u \in GpuThreads : u # RingWorker => Keeps(u)
    BY ONLY <1>1, <1>9, GpuNames DEF Keeps, Proceeds, locals, ring, GoIdle
  <2>2. RoleOf(RingWorker)'
    <3>1. RoleOf(RingWorker) /\ RingWorker \in GpuThreads /\ latest[RingWorker] \in Nat
      BY <1>2, <1>3, GpuNames
    <3>2. QED
      BY ONLY <1>1, <1>2, <1>9, <3>1, GpuNames
         DEF Proceeds, locals, RoleOf, CallInv, WorkerRole, PeerRole, GuestRole, ProcessorPcs, DrainPcs, WorkerPcs, GuestPcs, Inside, NoId,
             GoIdle
  <2>3. QED
    BY <1>4, <2>1, <2>2
<1>10. ASSUME WakeUp PROVE All
  <2>1. \A u \in GpuThreads : u # RingWorker => Keeps(u)
    BY ONLY <1>1, <1>10, GpuNames DEF Keeps, Proceeds, locals, ring, WakeUp
  <2>2. RoleOf(RingWorker)'
    <3>1. RoleOf(RingWorker) /\ RingWorker \in GpuThreads /\ latest[RingWorker] \in Nat
      BY <1>2, <1>3, GpuNames
    <3>2. QED
      BY ONLY <1>1, <1>2, <1>10, <3>1, GpuNames
         DEF Proceeds, locals, RoleOf, CallInv, WorkerRole, PeerRole, GuestRole, ProcessorPcs, DrainPcs, WorkerPcs, GuestPcs, Inside, NoId,
             WakeUp
  <2>3. QED
    BY <1>4, <2>1, <2>2
<1>11. ASSUME RecordLabel PROVE All
  <2>1. \A u \in GpuThreads : u # RingWorker => Keeps(u)
    BY ONLY <1>1, <1>11, GpuNames DEF Keeps, Proceeds, locals, ring, RecordLabel
  <2>2. RoleOf(RingWorker)'
    <3>1. RoleOf(RingWorker) /\ RingWorker \in GpuThreads /\ latest[RingWorker] \in Nat
      BY <1>2, <1>3, GpuNames
    <3>2. QED
      BY ONLY <1>1, <1>2, <1>11, <3>1, GpuNames
         DEF Proceeds, locals, RoleOf, CallInv, WorkerRole, PeerRole, GuestRole, ProcessorPcs, DrainPcs, WorkerPcs, GuestPcs, Inside, NoId,
             RecordLabel
  <2>3. QED
    BY <1>4, <2>1, <2>2
<1>12. ASSUME SubmitRecorded PROVE All
  <2>1. \A u \in GpuThreads : u # RingWorker => Keeps(u)
    BY ONLY <1>1, <1>12, GpuNames DEF Keeps, Proceeds, locals, ring, SubmitRecorded, Begin
  <2>2. RoleOf(RingWorker)'
    <3>1. RoleOf(RingWorker) /\ RingWorker \in GpuThreads /\ latest[RingWorker] \in Nat
      BY <1>2, <1>3, GpuNames
    <3>2. QED
      BY ONLY <1>1, <1>2, <1>12, <3>1, GpuNames
         DEF Proceeds, locals, RoleOf, CallInv, WorkerRole, PeerRole, GuestRole, ProcessorPcs, DrainPcs, WorkerPcs, GuestPcs, Inside, NoId,
             SubmitRecorded, Begin
  <2>3. QED
    BY <1>4, <2>1, <2>2
<1>13. ASSUME ScheduleUsed PROVE All
  <2>1. \A u \in GpuThreads : u # RingWorker => Keeps(u)
    BY ONLY <1>1, <1>13, GpuNames DEF Keeps, Proceeds, locals, ring, ScheduleUsed, Schedule
  <2>2. RoleOf(RingWorker)'
    <3>1. RoleOf(RingWorker) /\ RingWorker \in GpuThreads /\ latest[RingWorker] \in Nat
      BY <1>2, <1>3, GpuNames
    <3>2. QED
      BY ONLY <1>1, <1>2, <1>13, <3>1, GpuNames
         DEF Proceeds, locals, RoleOf, CallInv, WorkerRole, PeerRole, GuestRole, ProcessorPcs, DrainPcs, WorkerPcs, GuestPcs, Inside, NoId,
             ScheduleUsed, Schedule
  <2>3. QED
    BY <1>4, <2>1, <2>2
<1>14. ASSUME EndBatch PROVE All
  <2>1. \A u \in GpuThreads : u # RingWorker => Keeps(u)
    BY ONLY <1>1, <1>14, GpuNames DEF Keeps, Proceeds, locals, ring, EndBatch, Begin
  <2>2. RoleOf(RingWorker)'
    <3>1. RoleOf(RingWorker) /\ RingWorker \in GpuThreads /\ latest[RingWorker] \in Nat
      BY <1>2, <1>3, GpuNames
    <3>2. QED
      BY ONLY <1>1, <1>2, <1>14, <3>1, GpuNames
         DEF Proceeds, locals, RoleOf, CallInv, WorkerRole, PeerRole, GuestRole, ProcessorPcs, DrainPcs, WorkerPcs, GuestPcs, Inside, NoId,
             EndBatch, Begin
  <2>3. QED
    BY <1>4, <2>1, <2>2
<1>15. ASSUME Flushed PROVE All
  <2>1. batch # NoThread => batch \in GpuGuests /\ stage[batch] = "decoding"
    BY DEF SubmissionInv, GpuTypeOK, GateInv
  <2>2. \A u \in GpuThreads : u # RingWorker /\ u # batch => Keeps(u)
    BY ONLY <1>1, <1>15 DEF Flushed, Keeps, locals
  <2>3. stage[RingWorker] = "flushed" /\ RoleOf(RingWorker) /\ Submitted > 0 /\ op[RingWorker] = "none"
    BY ONLY <1>3, <1>15, GpuNames DEF Flushed, RoleOf, WorkerRole, CallInv, ProcessorPcs, DrainPcs
  <2>4. CASE stage'[RingWorker] = "ended" /\ UNCHANGED locals
    <3>1. RoleOf(RingWorker)'
      BY ONLY <1>2, <2>3, <2>4, GpuNames DEF locals, RoleOf, CallInv, WorkerRole, WorkerPcs, ProcessorPcs, DrainPcs
    <3>2. ASSUME NEW b \in GpuGuests, batch = b PROVE RoleOf(b)'
      <4>1. stage'[b] = "admitted" /\ RoleOf(b) /\ op[b] = "none" /\ latest[b] \in Nat
        BY ONLY <1>1, <1>2, <1>3, <1>15, <2>1, <3>2, GpuNames
           DEF Flushed, RoleOf, CallInv, ProcessorPcs, DrainPcs
      <4>2. QED
        BY ONLY <1>2, <2>1, <2>4, <3>2, <4>1, GpuNames
           DEF locals, RoleOf, CallInv, GuestRole, GuestPcs, ProcessorPcs, DrainPcs
    <3>3. QED
      BY ONLY <1>4, <2>1, <2>2, <3>1, <3>2, GpuNames
  <2>5. CASE \E s \in Recording : /\ stage'[RingWorker] = "lock" /\ UNCHANGED <<latest, until>>
                                  /\ op' = [op EXCEPT ![RingWorker] = "wait"]
                                  /\ goal' = [goal EXCEPT ![RingWorker] = s - 1]
                                  /\ back' = [back EXCEPT ![RingWorker] = "ended"]
    <3>1. /\ stage'[RingWorker] = "lock" /\ UNCHANGED <<latest, until>>
          /\ op' = [op EXCEPT ![RingWorker] = "wait"]
          /\ goal' = [goal EXCEPT ![RingWorker] = Submitted]
          /\ back' = [back EXCEPT ![RingWorker] = "ended"]
          /\ Submitted + 1 \in Ids
      <4>1. PICK s \in Recording : /\ stage'[RingWorker] = "lock" /\ UNCHANGED <<latest, until>>
                                  /\ op' = [op EXCEPT ![RingWorker] = "wait"]
                                  /\ goal' = [goal EXCEPT ![RingWorker] = s - 1]
                                  /\ back' = [back EXCEPT ![RingWorker] = "ended"]
        BY <2>5
      <4>2. s = Submitted + 1 /\ Submitted + 1 \in Ids
        BY <4>1, RecordingIsNext DEF SubmissionInv
      <4>3. s - 1 = Submitted
        BY ONLY <1>2, <4>2
      <4>4. QED
        BY <4>1, <4>2, <4>3
    <3>2. Submitted \in Ids
      BY ONLY <1>2, <2>3, <3>1, GpuAssumption DEF Ids
    <3>3. RoleOf(RingWorker)'
      <4>1. /\ stage'[RingWorker] = "lock" /\ op'[RingWorker] = "wait" /\ back'[RingWorker] = "ended"
            /\ goal'[RingWorker] = Submitted /\ latest'[RingWorker] = latest[RingWorker]
        BY ONLY <1>1, <3>1, GpuNames
      <4>2. CallInv(RingWorker)'
        <5>1. latest'[RingWorker] <= Finished'
          <6>1. latest[RingWorker] \in Nat /\ latest[RingWorker] <= Finished
            BY ONLY <1>2, <2>3, GpuNames DEF RoleOf, CallInv
          <6>2. QED
            BY ONLY <1>2, <4>1, <6>1
        <5>2. Submitted <= Submitted' + 1
          <6>1. Submitted \in Nat /\ Submitted' \in Nat /\ Submitted <= Submitted'
            BY Monotone
          <6>2. \A a, b \in Nat : a <= b => a <= b + 1
            OBVIOUS
          <6>3. QED
            BY ONLY <6>1, <6>2
        <5>3. QED
          BY ONLY <3>2, <4>1, <5>1, <5>2 DEF CallInv, ProcessorPcs, DrainPcs, Inside
      <4>3. WorkerRole'
        BY ONLY <1>2, <4>1 DEF WorkerRole, ProcessorPcs
      <4>4. QED
        BY ONLY <4>2, <4>3, GpuNames DEF RoleOf
    <3>4. ASSUME NEW b \in GpuGuests, batch = b PROVE RoleOf(b)'
      <4>1. stage'[b] = "admitted" /\ RoleOf(b) /\ op[b] = "none" /\ latest[b] \in Nat
        BY ONLY <1>1, <1>2, <1>3, <1>15, <2>1, <3>4, GpuNames
           DEF Flushed, RoleOf, CallInv, ProcessorPcs, DrainPcs
      <4>2. QED
        BY ONLY <1>1, <1>2, <2>1, <3>1, <3>4, <4>1, GpuNames
           DEF RoleOf, CallInv, GuestRole, GuestPcs, ProcessorPcs, DrainPcs
    <3>5. QED
      BY ONLY <1>4, <2>1, <2>2, <3>3, <3>4, GpuNames
  <2>6. QED
    BY <1>1, <1>15, <2>1, <2>4, <2>5, GpuNames DEF Flushed
<1>16. ASSUME Ended PROVE All
  <2>1. \A u \in GpuThreads : u # RingWorker => Keeps(u)
    BY ONLY <1>1, <1>16, GpuNames DEF Keeps, Proceeds, locals, ring, Ended
  <2>2. RoleOf(RingWorker)'
    <3>1. RoleOf(RingWorker) /\ RingWorker \in GpuThreads /\ latest[RingWorker] \in Nat
      BY <1>2, <1>3, GpuNames
    <3>2. QED
      BY ONLY <1>1, <1>2, <1>16, <3>1, GpuNames
         DEF Proceeds, locals, RoleOf, CallInv, WorkerRole, PeerRole, GuestRole, ProcessorPcs, DrainPcs, WorkerPcs, GuestPcs, Inside, NoId,
             Ended
  <2>3. QED
    BY <1>4, <2>1, <2>2
<1>17. ASSUME PeerCall PROVE All
  <2>1. \A u \in GpuThreads : u # Peer => Keeps(u)
    BY ONLY <1>1, <1>17, GpuNames DEF Keeps, Proceeds, locals, ring, PeerCall, Begin
  <2>2. RoleOf(Peer)'
    <3>1. PICK s \in Ids, name \in {"wait", "device"} :
            (s \in Recording \/ s \notin Recording) /\ s \in labelled /\ Begin(Peer, name, s, "idle")
      BY <1>1, <1>17 DEF PeerCall
    <3>2. s <= Submitted + 1
      BY <1>2, <3>1, RecordingIsNext DEF SubmissionInv, RoleInv
    <3>3. RoleOf(Peer) /\ Peer \in GpuThreads
      BY <1>3, GpuNames
    <3>4. stage[Peer] = "idle" /\ Submitted' = Submitted
      BY <1>17 DEF PeerCall, publication, Submitted
    <3>5. QED
      BY ONLY <1>1, <1>2, <3>1, <3>2, <3>3, <3>4, GpuNames
         DEF Begin, Proceeds, RoleOf, CallInv, WorkerRole, PeerRole, GuestRole, ProcessorPcs, DrainPcs, WorkerPcs, GuestPcs, Inside, NoId
  <2>3. QED
    BY <1>4, <2>1, <2>2
<1>18. ASSUME NEW g \in GpuGuests, SubmitBatch(g) PROVE All
  <2>1. \A u \in GpuThreads : u # g => Keeps(u)
    BY ONLY <1>1, <1>18, GpuNames DEF Keeps, Proceeds, locals, ring, SubmitBatch
  <2>2. RoleOf(g)'
    <3>1. RoleOf(g) /\ g \in GpuThreads /\ latest[g] \in Nat
      BY <1>2, <1>3, GpuNames
    <3>2. QED
      BY ONLY <1>1, <1>2, <1>18, <3>1, GpuNames
         DEF Proceeds, locals, RoleOf, CallInv, WorkerRole, PeerRole, GuestRole, ProcessorPcs, DrainPcs, WorkerPcs, GuestPcs, Inside, NoId,
             SubmitBatch
  <2>3. QED
    BY <1>4, <2>1, <2>2
<1>19. ASSUME NEW g \in GpuGuests, Quiesce(g) PROVE All
  <2>1. \A u \in GpuThreads : u # g => Keeps(u)
    BY ONLY <1>1, <1>19, GpuNames DEF Keeps, Proceeds, locals, ring, Quiesce
  <2>2. RoleOf(g)'
    <3>1. RoleOf(g) /\ g \in GpuThreads /\ latest[g] \in Nat
      BY <1>2, <1>3, GpuNames
    <3>2. QED
      BY ONLY <1>1, <1>2, <1>19, <3>1, GpuNames
         DEF Proceeds, locals, RoleOf, CallInv, WorkerRole, PeerRole, GuestRole, ProcessorPcs, DrainPcs, WorkerPcs, GuestPcs, Inside, NoId,
             Quiesce
  <2>3. QED
    BY <1>4, <2>1, <2>2
<1>20. ASSUME NEW g \in GpuGuests, FreeUsed(g) PROVE All
  <2>1. \A u \in GpuThreads : u # g => Keeps(u)
    BY ONLY <1>1, <1>20, GpuNames DEF Keeps, Proceeds, locals, ring, FreeUsed, Schedule
  <2>2. RoleOf(g)'
    <3>1. RoleOf(g) /\ g \in GpuThreads /\ latest[g] \in Nat
      BY <1>2, <1>3, GpuNames
    <3>2. QED
      BY ONLY <1>1, <1>2, <1>20, <3>1, GpuNames
         DEF Proceeds, locals, RoleOf, CallInv, WorkerRole, PeerRole, GuestRole, ProcessorPcs, DrainPcs, WorkerPcs, GuestPcs, Inside, NoId,
             FreeUsed, Schedule
  <2>3. QED
    BY <1>4, <2>1, <2>2
<1>21. ASSUME NEW g \in GpuGuests, SubmitAndWait(g) PROVE All
  <2>1. \A u \in GpuThreads : u # g => Keeps(u)
    BY ONLY <1>1, <1>21, GpuNames DEF Keeps, Proceeds, locals, ring, SubmitAndWait, Begin
  <2>2. RoleOf(g)'
    <3>1. RoleOf(g) /\ g \in GpuThreads /\ latest[g] \in Nat
      BY <1>2, <1>3, GpuNames
    <3>2. QED
      BY ONLY <1>1, <1>2, <1>21, <3>1, GpuNames
         DEF Proceeds, locals, RoleOf, CallInv, WorkerRole, PeerRole, GuestRole, ProcessorPcs, DrainPcs, WorkerPcs, GuestPcs, Inside, NoId,
             SubmitAndWait, Begin
  <2>3. QED
    BY <1>4, <2>1, <2>2
<1>22. ASSUME NEW g \in GpuGuests, LeaveGate(g) PROVE All
  <2>1. \A u \in GpuThreads : u # g => Keeps(u)
    BY ONLY <1>1, <1>22, GpuNames DEF Keeps, Proceeds, locals, ring, LeaveGate
  <2>2. RoleOf(g)'
    <3>1. RoleOf(g) /\ g \in GpuThreads /\ latest[g] \in Nat
      BY <1>2, <1>3, GpuNames
    <3>2. QED
      BY ONLY <1>1, <1>2, <1>22, <3>1, GpuNames
         DEF Proceeds, locals, RoleOf, CallInv, WorkerRole, PeerRole, GuestRole, ProcessorPcs, DrainPcs, WorkerPcs, GuestPcs, Inside, NoId,
             LeaveGate
  <2>3. QED
    BY <1>4, <2>1, <2>2
<1>23. All
  BY ONLY GpuNames, GpuNext, <1>5, <1>6, <1>7, <1>8, <1>9, <1>10, <1>11, <1>12, <1>13, <1>14, <1>15, <1>16, <1>17, <1>18, <1>19, <1>20, <1>21, <1>22
     DEF GpuNext, Work, DecodeBatch, Proceed
<1>24. \A s \in labelled' : s <= Submitted' \/ s \in Recording'
  <2>1. labelled' = labelled \/ (labelled' = labelled \cup Recording /\ Recording' = Recording)
    BY LabelFrame DEF RecordLabel, Recording
  <2>2. \A s \in labelled : s <= Submitted \/ s \in Recording
    BY DEF SubmissionInv, RoleInv
  <2>3. \A s \in Recording : s \in Recording' \/ s <= Submitted'
    <3>1. CASE CountsKept
      BY <3>1 DEF CountsKept
    <3>2. ASSUME NEW t \in GpuThreads, Sweep(t) \/ Through(t) PROVE Recording' = Recording
      BY <3>2, FrontFinished DEF Sweep, Through, SubmissionInv
    <3>3. ASSUME NEW t \in GpuThreads, Submit(t) PROVE \A s \in Recording : s <= Submitted'
      BY <1>2, <3>3, SubmissionMade DEF SubmissionInv
    <3>4. ASSUME NEW t \in GpuThreads, BeginRecording(t) PROVE Recording = {}
      BY <3>4 DEF SubmissionInv, LockInv, HeldInv, BeginRecording
    <3>5. QED
      BY <3>1, <3>2, <3>3, <3>4, CountSteps
  <2>4. \A s \in labelled : s <= Submitted => s <= Submitted'
    BY ONLY <1>1, <1>2
  <2>5. QED
    BY ONLY <2>1, <2>2, <2>3, <2>4
<1>25. QED
  BY <1>23, <1>24, GpuNames DEF RoleInv, RoleOf

----------------------------------------------------------------------------
(* Submissions: publishing and draining                                    *)

(* Whether a thread publishes, or has still to retire, and what.           *)
PublicationOf(u) ==
  /\ Publishes(u)' <=> Publishes(u)
  /\ stage'[u] = "retire" <=> stage[u] = "retire"
  /\ Publishes(u) \/ stage[u] = "retire" => until'[u] = until[u]

(* The steps that change who publishes what.                               *)
LEMMA PublisherSteps ==
  ASSUME GpuTypeOK, RoleInv, GateInv, GpuNext
  PROVE  \/ \E t \in GpuThreads : Acquire(t) \/ MarkPublished(t) \/ Retire(t)
         \/ \A u \in GpuThreads : PublicationOf(u)
<1> DEFINE Goal == \A u \in GpuThreads : PublicationOf(u)
<1>1. /\ stage \in [GpuThreads -> Stages] /\ op \in [GpuThreads -> Ops] /\ back \in [GpuThreads -> Resumes]
      /\ goal \in [GpuThreads -> Ids \cup {NoId}] /\ latest \in [GpuThreads -> Ids \cup {NoId}]
      /\ until \in [GpuThreads -> Ids \cup {NoId}]
  BY DEF GpuTypeOK
<1>2. \A u \in GpuThreads : CallInv(u)
  BY DEF RoleInv
<1>3. batch # NoThread => batch \in GpuGuests /\ stage[batch] = "decoding"
  BY DEF GpuTypeOK, GateInv
<1>4. \A place \in Resumes : place \notin {"complete", "mark", "retire"} \cup DrainPcs
  BY DEF Resumes, WorkerPcs, GuestPcs, DrainPcs
<1>5. ASSUME NEW t \in GpuThreads, ProcessorStep(t), PublicationOf(t) PROVE Goal
  <2>1. \A u \in GpuThreads : u # t => Keeps(u)
    BY <1>5, CallSteps DEF OnlyMoves
  <2>2. \A u \in GpuThreads : Keeps(u) => PublicationOf(u)
    BY ONLY DEF Keeps, PublicationOf, Publishes
  <2>3. QED
    BY ONLY <1>5, <2>1, <2>2
<1>6. ASSUME NEW t \in GpuThreads, Lock(t) PROVE Goal
  <2>1. PublicationOf(t)
    BY ONLY <1>1, <1>2, <1>4, <1>6
       DEF PublicationOf, Publishes, CallInv, DrainPcs, Inside, Proceeds, locals, Lock
  <2>2. QED
    BY <1>5, <1>6, <2>1 DEF ProcessorStep
<1>7. ASSUME NEW t \in GpuThreads, Sweep(t) PROVE Goal
  <2>1. PublicationOf(t)
    BY ONLY <1>1, <1>2, <1>4, <1>7
       DEF PublicationOf, Publishes, CallInv, DrainPcs, Inside, Proceeds, locals, Sweep, CompleteFront
  <2>2. QED
    BY <1>5, <1>7, <2>1 DEF ProcessorStep
<1>8. ASSUME NEW t \in GpuThreads, Swept(t) PROVE Goal
  <2>1. PublicationOf(t)
    BY ONLY <1>1, <1>2, <1>4, <1>8
       DEF PublicationOf, Publishes, CallInv, DrainPcs, Inside, Proceeds, locals, Swept
  <2>2. QED
    BY <1>5, <1>8, <2>1 DEF ProcessorStep
<1>9. ASSUME NEW t \in GpuThreads, Submit(t) PROVE Goal
  <2>1. PublicationOf(t)
    BY ONLY <1>1, <1>2, <1>4, <1>9
       DEF PublicationOf, Publishes, CallInv, DrainPcs, Inside, Proceeds, locals, Submit
  <2>2. QED
    BY <1>5, <1>9, <2>1 DEF ProcessorStep
<1>10. ASSUME NEW t \in GpuThreads, Through(t) PROVE Goal
  <2>1. PublicationOf(t)
    BY ONLY <1>1, <1>2, <1>4, <1>10
       DEF PublicationOf, Publishes, CallInv, DrainPcs, Inside, Proceeds, locals, Through, CompleteFront
  <2>2. QED
    BY <1>5, <1>10, <2>1 DEF ProcessorStep
<1>11. ASSUME NEW t \in GpuThreads, BeginRecording(t) PROVE Goal
  <2>1. PublicationOf(t)
    BY ONLY <1>1, <1>2, <1>4, <1>11
       DEF PublicationOf, Publishes, CallInv, DrainPcs, Inside, Proceeds, locals, BeginRecording
  <2>2. QED
    BY <1>5, <1>11, <2>1 DEF ProcessorStep
<1>12. ASSUME NEW t \in GpuThreads, Unlock(t) PROVE Goal
  <2>1. PublicationOf(t)
    BY ONLY <1>1, <1>2, <1>4, <1>12
       DEF PublicationOf, Publishes, CallInv, DrainPcs, Inside, Proceeds, locals, Unlock, Return
  <2>2. QED
    BY <1>5, <1>12, <2>1 DEF ProcessorStep
<1>13. ASSUME NEW t \in GpuThreads, AcquireNone(t) PROVE Goal
  <2>1. PublicationOf(t)
    BY ONLY <1>1, <1>2, <1>4, <1>13
       DEF PublicationOf, Publishes, CallInv, DrainPcs, Inside, Proceeds, locals, AcquireNone, Return
  <2>2. QED
    BY <1>5, <1>13, <2>1 DEF ProcessorStep
<1>14. ASSUME NEW t \in GpuThreads, Complete(t) PROVE Goal
  <2>1. PublicationOf(t)
    BY ONLY <1>1, <1>2, <1>4, <1>14
       DEF PublicationOf, Publishes, CallInv, DrainPcs, Inside, Proceeds, locals, Complete, ThenDrain
  <2>2. QED
    BY <1>5, <1>14, <2>1 DEF ProcessorStep
<1>15. ASSUME NEW t \in GpuThreads, StartDrain(t) PROVE Goal
  <2>1. PublicationOf(t)
    BY ONLY <1>1, <1>2, <1>4, <1>15
       DEF PublicationOf, Publishes, CallInv, DrainPcs, Inside, Proceeds, locals, StartDrain, AfterDrain, Return
  <2>2. QED
    BY <1>5, <1>15, <2>1 DEF ProcessorStep
<1>16. ASSUME NEW t \in GpuThreads, RunTask(t) PROVE Goal
  <2>1. PublicationOf(t)
    BY ONLY <1>1, <1>2, <1>4, <1>16
       DEF PublicationOf, Publishes, CallInv, DrainPcs, Inside, Proceeds, locals, RunTask
  <2>2. QED
    BY <1>5, <1>16, <2>1 DEF ProcessorStep
<1>17. ASSUME NEW t \in GpuThreads, EndDrain(t) PROVE Goal
  <2>1. PublicationOf(t)
    BY ONLY <1>1, <1>2, <1>4, <1>17
       DEF PublicationOf, Publishes, CallInv, DrainPcs, Inside, Proceeds, locals, EndDrain, AfterDrain, Return
  <2>2. QED
    BY <1>5, <1>17, <2>1 DEF ProcessorStep
<1>18. ASSUME NEW t \in GpuThreads, AwaitPublished(t) PROVE Goal
  <2>1. PublicationOf(t)
    BY ONLY <1>1, <1>2, <1>4, <1>18
       DEF PublicationOf, Publishes, CallInv, DrainPcs, Inside, Proceeds, locals, AwaitPublished, Return
  <2>2. QED
    BY <1>5, <1>18, <2>1 DEF ProcessorStep
<1>19. ASSUME HostQueue PROVE Goal
  BY ONLY <1>1, <1>19, GpuNames
     DEF PublicationOf, Publishes, DrainPcs, Proceeds, locals, ring, HostQueue, Signal
<1>20. ASSUME TakeBatch PROVE Goal
  BY ONLY <1>1, <1>20, GpuNames
     DEF PublicationOf, Publishes, DrainPcs, Proceeds, locals, ring, TakeBatch
<1>21. ASSUME IdlePump PROVE Goal
  BY ONLY <1>1, <1>21, GpuNames
     DEF PublicationOf, Publishes, DrainPcs, Proceeds, locals, ring, IdlePump, Begin
<1>22. ASSUME GoIdle PROVE Goal
  BY ONLY <1>1, <1>22, GpuNames
     DEF PublicationOf, Publishes, DrainPcs, Proceeds, locals, ring, GoIdle
<1>23. ASSUME WakeUp PROVE Goal
  BY ONLY <1>1, <1>23, GpuNames
     DEF PublicationOf, Publishes, DrainPcs, Proceeds, locals, ring, WakeUp
<1>24. ASSUME RecordLabel PROVE Goal
  BY ONLY <1>1, <1>24, GpuNames
     DEF PublicationOf, Publishes, DrainPcs, Proceeds, locals, ring, RecordLabel
<1>25. ASSUME SubmitRecorded PROVE Goal
  BY ONLY <1>1, <1>25, GpuNames
     DEF PublicationOf, Publishes, DrainPcs, Proceeds, locals, ring, SubmitRecorded, Begin
<1>26. ASSUME ScheduleUsed PROVE Goal
  BY ONLY <1>1, <1>26, GpuNames
     DEF PublicationOf, Publishes, DrainPcs, Proceeds, locals, ring, ScheduleUsed, Schedule
<1>27. ASSUME EndBatch PROVE Goal
  BY ONLY <1>1, <1>27, GpuNames
     DEF PublicationOf, Publishes, DrainPcs, Proceeds, locals, ring, EndBatch, Begin
<1>28. ASSUME Flushed PROVE Goal
  BY ONLY <1>1, <1>28, GpuNames, <1>3
     DEF PublicationOf, Publishes, DrainPcs, Proceeds, locals, ring, Flushed
<1>29. ASSUME Ended PROVE Goal
  BY ONLY <1>1, <1>29, GpuNames
     DEF PublicationOf, Publishes, DrainPcs, Proceeds, locals, ring, Ended
<1>30. ASSUME PeerCall PROVE Goal
  BY ONLY <1>1, <1>30, GpuNames
     DEF PublicationOf, Publishes, DrainPcs, Proceeds, locals, ring, PeerCall, Begin
<1>31. ASSUME NEW g \in GpuGuests, SubmitBatch(g) PROVE Goal
  BY ONLY <1>1, <1>31, GpuNames
     DEF PublicationOf, Publishes, DrainPcs, Proceeds, locals, ring, SubmitBatch
<1>32. ASSUME NEW g \in GpuGuests, Quiesce(g) PROVE Goal
  BY ONLY <1>1, <1>32, GpuNames
     DEF PublicationOf, Publishes, DrainPcs, Proceeds, locals, ring, Quiesce
<1>33. ASSUME NEW g \in GpuGuests, FreeUsed(g) PROVE Goal
  BY ONLY <1>1, <1>33, GpuNames
     DEF PublicationOf, Publishes, DrainPcs, Proceeds, locals, ring, FreeUsed, Schedule
<1>34. ASSUME NEW g \in GpuGuests, SubmitAndWait(g) PROVE Goal
  BY ONLY <1>1, <1>34, GpuNames
     DEF PublicationOf, Publishes, DrainPcs, Proceeds, locals, ring, SubmitAndWait, Begin
<1>35. ASSUME NEW g \in GpuGuests, LeaveGate(g) PROVE Goal
  BY ONLY <1>1, <1>35, GpuNames
     DEF PublicationOf, Publishes, DrainPcs, Proceeds, locals, ring, LeaveGate
<1>36. QED
  BY ONLY GpuNames, GpuNext, <1>6, <1>7, <1>8, <1>9, <1>10, <1>11, <1>12, <1>13, <1>14, <1>15, <1>16, <1>17, <1>18, <1>19, <1>20, <1>21, <1>22, <1>23, <1>24, <1>25, <1>26, <1>27, <1>28, <1>29, <1>30, <1>31, <1>32, <1>33, <1>34, <1>35
     DEF GpuNext, Work, DecodeBatch, Proceed, ProcessorStep

(* There is one publisher, and it publishes the entry it acquired.         *)
LEMMA PublisherStep ==
  ASSUME SubmissionInv, GpuNext
  PROVE  PublisherInv'
<1> USE DEF SubmissionInv
<1>1. /\ stage \in [GpuThreads -> Stages] /\ until \in [GpuThreads -> Ids \cup {NoId}]
      /\ published \in Nat /\ Finished \in Nat /\ published <= Finished
      /\ publisher \in GpuThreads \cup {NoThread}
  BY Numbers DEF GpuTypeOK
<1>2. /\ \A t \in GpuThreads : Publishes(t) <=> publisher = t
      /\ publisher # NoThread <=> Publishing
      /\ \A t \in GpuThreads : Publishes(t) => until[t] = published + 1
      /\ \A t \in GpuThreads : stage[t] = "retire" =>
           until[t] \in Ids /\ until[t] <= published /\ tracker[until[t]] = "Completed"
      /\ \A t, u \in GpuThreads : stage[t] = "retire" /\ stage[u] = "retire" /\ until[t] = until[u] => t = u
  BY DEF PublisherInv
<1>3. ASSUME NEW t \in GpuThreads, Acquire(t) PROVE PublisherInv'
  <2>1. /\ Head(entries).id = published + 1 /\ published' = published /\ ~Publishing /\ Publishing'
        /\ tracker' = tracker
    BY <1>3, EntryTaken
  <2>2. stage[t] = "acquire" /\ stage' = [stage EXCEPT ![t] = "complete"] /\ op' = op /\ publisher' = t
        /\ until' = [until EXCEPT ![t] = published + 1]
    BY ONLY <1>3, <2>1 DEF Acquire, Proceeds
  <2>3. \A u \in GpuThreads : ~Publishes(u)
    BY ONLY <1>2, <2>1, GpuNames
  <2>4. \A u \in GpuThreads : Publishes(u)' <=> u = t
    BY ONLY <1>1, <2>2, <2>3 DEF Publishes, DrainPcs
  <2>5. \A u \in GpuThreads : stage'[u] = "retire" <=> (stage[u] = "retire" /\ u # t)
    BY ONLY <1>1, <2>2
  <2>6. until'[t] = published + 1 /\ \A u \in GpuThreads : u # t => until'[u] = until[u]
    BY ONLY <1>1, <2>2
  <2>7. QED
    BY ONLY <1>2, <2>1, <2>2, <2>4, <2>5, <2>6, GpuNames DEF PublisherInv
<1>4. ASSUME NEW t \in GpuThreads, MarkPublished(t) PROVE PublisherInv'
  <2>1. /\ until[t] = published + 1 /\ published + 1 \in Ids /\ tracker[published + 1] = "Completed"
        /\ published' = published + 1 /\ ~Publishing' /\ tracker' = tracker
    BY <1>4, EntryPublished
  <2>2. stage[t] = "mark" /\ stage' = [stage EXCEPT ![t] = "retire"] /\ op' = op /\ publisher' = NoThread
        /\ until' = until
    BY ONLY <1>4 DEF MarkPublished, Proceeds, locals
  <2>3. Publishes(t) /\ \A u \in GpuThreads : Publishes(u) => u = t
    BY ONLY <1>2, <2>2 DEF Publishes
  <2>4. \A u \in GpuThreads : ~Publishes(u)'
    BY ONLY <1>1, <2>2, <2>3 DEF Publishes, DrainPcs
  <2>5. \A u \in GpuThreads : stage'[u] = "retire" <=> (stage[u] = "retire" \/ u = t)
    BY ONLY <1>1, <2>2
  <2>6. \A u \in GpuThreads : stage[u] = "retire" => until[u] <= published + 1 /\ until[u] # published + 1
    <3>1. \A x \in Ids : x <= published => x <= published + 1 /\ x # published + 1
      BY ONLY <1>1 DEF Ids
    <3>2. QED
      BY ONLY <1>2, <3>1
  <2>7. published + 1 <= published + 1
    BY ONLY <1>1
  <2>8. QED
    BY ONLY <1>2, <2>1, <2>2, <2>4, <2>5, <2>6, <2>7, GpuNames DEF PublisherInv
<1>5. ASSUME NEW t \in GpuThreads, Retire(t) PROVE PublisherInv'
  <2>1. /\ stage[t] = "retire" /\ until[t] \in Ids /\ until[t] <= published
    BY <1>2, <1>5 DEF Retire
  <2>2. /\ published' = published /\ Publishing' = Publishing /\ publisher' = publisher
        /\ \A s \in Ids : s # until[t] => tracker'[s] = tracker[s]
    BY <1>5, <2>1, SubmissionRetired
  <2>3. stage' = [stage EXCEPT ![t] = "acquire"] /\ op' = op /\ until' = [until EXCEPT ![t] = NoId]
    BY ONLY <1>5 DEF Retire, Proceeds
  <2>4. \A u \in GpuThreads : Publishes(u)' <=> Publishes(u)
    BY ONLY <1>1, <2>1, <2>3 DEF Publishes, DrainPcs
  <2>5. \A u \in GpuThreads : stage'[u] = "retire" <=> (stage[u] = "retire" /\ u # t)
    BY ONLY <1>1, <2>3
  <2>6. ~Publishes(t) /\ \A u \in GpuThreads : u # t => until'[u] = until[u]
    BY ONLY <1>1, <2>1, <2>3 DEF Publishes, DrainPcs
  <2>7. QED
    BY ONLY <1>2, <2>1, <2>2, <2>4, <2>5, <2>6 DEF PublisherInv
<1>6. ASSUME \A u \in GpuThreads : PublicationOf(u), published' = published, Publishing' = Publishing,
             publisher' = publisher,
             \A s \in Ids : s <= published /\ tracker[s] = "Completed" => tracker'[s] = "Completed"
      PROVE  PublisherInv'
  BY ONLY <1>2, <1>6 DEF PublicationOf, PublisherInv
<1>7. \/ \E t \in GpuThreads : Retire(t)
      \/ \A s \in Ids : s <= published /\ tracker[s] = "Completed" => tracker'[s] = "Completed"
  <2> DEFINE Same == \A s \in Ids : s <= published /\ tracker[s] = "Completed" => tracker'[s] = "Completed"
  <2>1. \A s \in Ids : s <= published => s # Finished + 1 /\ s # Submitted + 1
    BY Numbers DEF Ids
  <2>2. ASSUME NEW t \in GpuThreads, Sweep(t) \/ Through(t) PROVE Same
    BY <2>1, <2>2, FrontFinished DEF Sweep, Through
  <2>3. ASSUME NEW t \in GpuThreads, Submit(t) PROVE Same
    BY <2>1, <2>3, SubmissionMade
  <2>4. ASSUME NEW t \in GpuThreads, BeginRecording(t) PROVE Same
    <3>1. Recording = {}
      BY <2>4 DEF LockInv, HeldInv, BeginRecording
    <3>2. QED
      BY <2>1, <2>4, <3>1, WithinBounds, RecordingBegun
  <2>5. ASSUME tracker' = tracker PROVE Same
    BY <2>5
  <2>6. QED
    BY <2>2, <2>3, <2>4, <2>5, ListFrame, EntryTaken, EntryPublished, FenceSignalled
<1>8. QED
  BY <1>3, <1>4, <1>5, <1>6, <1>7, PublisherSteps, PublicationKept

(* Only a drain, and what may make an object ready, moves to a drain.      *)
DrainKept ==
  /\ UNCHANGED <<objects, completed, deleting>>
  /\ \A u \in GpuThreads : /\ stage'[u] = "ready" <=> stage[u] = "ready"
                           /\ stage'[u] = "task" <=> stage[u] = "task"

(* The steps that change the deletion queue or who drains it.              *)
LEMMA DrainSteps ==
  ASSUME GpuTypeOK, GateInv, GpuNext
  PROVE  \/ \E t \in GpuThreads : Complete(t) \/ StartDrain(t) \/ RunTask(t) \/ EndDrain(t)
         \/ ScheduleUsed \/ \E g \in GpuGuests : FreeUsed(g)
         \/ DrainKept
<1>1. /\ stage \in [GpuThreads -> Stages] /\ op \in [GpuThreads -> Ops] /\ back \in [GpuThreads -> Resumes]
      /\ goal \in [GpuThreads -> Ids \cup {NoId}] /\ latest \in [GpuThreads -> Ids \cup {NoId}]
      /\ until \in [GpuThreads -> Ids \cup {NoId}]
  BY DEF GpuTypeOK
<1>2. batch # NoThread => batch \in GpuGuests /\ stage[batch] = "decoding"
  BY DEF GpuTypeOK, GateInv
<1>3. \A place \in Resumes : place \notin {"ready", "task"}
  BY DEF Resumes, WorkerPcs, GuestPcs
<1>4. ASSUME NEW t \in GpuThreads, Lock(t) PROVE DrainKept
  BY ONLY <1>1, <1>4, GpuNames
     DEF DrainKept, Proceeds, locals, deletion, ring, Lock
<1>5. ASSUME NEW t \in GpuThreads, Sweep(t) PROVE DrainKept
  BY ONLY <1>1, <1>5, GpuNames
     DEF DrainKept, Proceeds, locals, deletion, ring, Sweep, CompleteFront
<1>6. ASSUME NEW t \in GpuThreads, Swept(t) PROVE DrainKept
  BY ONLY <1>1, <1>6, GpuNames
     DEF DrainKept, Proceeds, locals, deletion, ring, Swept
<1>7. ASSUME NEW t \in GpuThreads, Submit(t) PROVE DrainKept
  BY ONLY <1>1, <1>7, GpuNames
     DEF DrainKept, Proceeds, locals, deletion, ring, Submit
<1>8. ASSUME NEW t \in GpuThreads, Through(t) PROVE DrainKept
  BY ONLY <1>1, <1>8, GpuNames
     DEF DrainKept, Proceeds, locals, deletion, ring, Through, CompleteFront
<1>9. ASSUME NEW t \in GpuThreads, BeginRecording(t) PROVE DrainKept
  BY ONLY <1>1, <1>9, GpuNames
     DEF DrainKept, Proceeds, locals, deletion, ring, BeginRecording
<1>10. ASSUME NEW t \in GpuThreads, Unlock(t) PROVE DrainKept
  BY ONLY <1>1, <1>10, GpuNames, <1>3
     DEF DrainKept, Proceeds, locals, deletion, ring, Unlock, Return
<1>11. ASSUME NEW t \in GpuThreads, Acquire(t) PROVE DrainKept
  BY ONLY <1>1, <1>11, GpuNames
     DEF DrainKept, Proceeds, locals, deletion, ring, Acquire
<1>12. ASSUME NEW t \in GpuThreads, AcquireNone(t) PROVE DrainKept
  BY ONLY <1>1, <1>12, GpuNames, <1>3
     DEF DrainKept, Proceeds, locals, deletion, ring, AcquireNone, Return
<1>13. ASSUME NEW t \in GpuThreads, MarkPublished(t) PROVE DrainKept
  BY ONLY <1>1, <1>13, GpuNames
     DEF DrainKept, Proceeds, locals, deletion, ring, MarkPublished
<1>14. ASSUME NEW t \in GpuThreads, Retire(t) PROVE DrainKept
  BY ONLY <1>1, <1>14, GpuNames
     DEF DrainKept, Proceeds, locals, deletion, ring, Retire
<1>15. ASSUME NEW t \in GpuThreads, AwaitPublished(t) PROVE DrainKept
  BY ONLY <1>1, <1>15, GpuNames, <1>3
     DEF DrainKept, Proceeds, locals, deletion, ring, AwaitPublished, Return
<1>16. ASSUME HostQueue PROVE DrainKept
  BY ONLY <1>1, <1>16, GpuNames
     DEF DrainKept, Proceeds, locals, deletion, ring, HostQueue, Signal
<1>17. ASSUME TakeBatch PROVE DrainKept
  BY ONLY <1>1, <1>17, GpuNames
     DEF DrainKept, Proceeds, locals, deletion, ring, TakeBatch
<1>18. ASSUME IdlePump PROVE DrainKept
  BY ONLY <1>1, <1>18, GpuNames
     DEF DrainKept, Proceeds, locals, deletion, ring, IdlePump, Begin
<1>19. ASSUME GoIdle PROVE DrainKept
  BY ONLY <1>1, <1>19, GpuNames
     DEF DrainKept, Proceeds, locals, deletion, ring, GoIdle
<1>20. ASSUME WakeUp PROVE DrainKept
  BY ONLY <1>1, <1>20, GpuNames
     DEF DrainKept, Proceeds, locals, deletion, ring, WakeUp
<1>21. ASSUME RecordLabel PROVE DrainKept
  BY ONLY <1>1, <1>21, GpuNames
     DEF DrainKept, Proceeds, locals, deletion, ring, RecordLabel
<1>22. ASSUME SubmitRecorded PROVE DrainKept
  BY ONLY <1>1, <1>22, GpuNames
     DEF DrainKept, Proceeds, locals, deletion, ring, SubmitRecorded, Begin
<1>23. ASSUME EndBatch PROVE DrainKept
  BY ONLY <1>1, <1>23, GpuNames
     DEF DrainKept, Proceeds, locals, deletion, ring, EndBatch, Begin
<1>24. ASSUME Flushed PROVE DrainKept
  BY ONLY <1>1, <1>24, GpuNames, <1>2
     DEF DrainKept, Proceeds, locals, deletion, ring, Flushed
<1>25. ASSUME Ended PROVE DrainKept
  BY ONLY <1>1, <1>25, GpuNames
     DEF DrainKept, Proceeds, locals, deletion, ring, Ended
<1>26. ASSUME PeerCall PROVE DrainKept
  BY ONLY <1>1, <1>26, GpuNames
     DEF DrainKept, Proceeds, locals, deletion, ring, PeerCall, Begin
<1>27. ASSUME NEW g \in GpuGuests, SubmitBatch(g) PROVE DrainKept
  BY ONLY <1>1, <1>27, GpuNames
     DEF DrainKept, Proceeds, locals, deletion, ring, SubmitBatch
<1>28. ASSUME NEW g \in GpuGuests, Quiesce(g) PROVE DrainKept
  BY ONLY <1>1, <1>28, GpuNames
     DEF DrainKept, Proceeds, locals, deletion, ring, Quiesce
<1>29. ASSUME NEW g \in GpuGuests, SubmitAndWait(g) PROVE DrainKept
  BY ONLY <1>1, <1>29, GpuNames
     DEF DrainKept, Proceeds, locals, deletion, ring, SubmitAndWait, Begin
<1>30. ASSUME NEW g \in GpuGuests, LeaveGate(g) PROVE DrainKept
  BY ONLY <1>1, <1>30, GpuNames
     DEF DrainKept, Proceeds, locals, deletion, ring, LeaveGate
<1>31. QED
  BY ONLY GpuNames, GpuNext, <1>4, <1>5, <1>6, <1>7, <1>8, <1>9, <1>10, <1>11, <1>12, <1>13, <1>14, <1>15, <1>16, <1>17, <1>18, <1>19, <1>20, <1>21, <1>22, <1>23, <1>24, <1>25, <1>26, <1>27, <1>28, <1>29, <1>30
     DEF GpuNext, Work, DecodeBatch, Proceed, ProcessorStep

(* There is one drainer, and nothing that it should destroy is passed by.  *)
LEMMA DrainStep ==
  ASSUME SubmissionInv, GpuNext
  PROVE  DrainInv'
<1> USE DEF SubmissionInv
<1>1. /\ stage \in [GpuThreads -> Stages] /\ op \in [GpuThreads -> Ops] /\ back \in [GpuThreads -> Resumes]
      /\ goal \in [GpuThreads -> Ids \cup {NoId}] /\ latest \in [GpuThreads -> Ids \cup {NoId}]
      /\ until \in [GpuThreads -> Ids \cup {NoId}]
  BY DEF GpuTypeOK
<1>2. /\ HeadReady /\ ~deleting => \E t \in GpuThreads : stage[t] = "ready"
      /\ \A t \in GpuThreads : stage[t] = "task" => deleting
      /\ \A t, u \in GpuThreads : stage[t] = "task" /\ stage[u] = "task" => t = u
  BY DEF DrainInv, NoObjectStranded
<1>3. \A place \in Resumes : place \notin {"ready", "task"}
  BY DEF Resumes, WorkerPcs, GuestPcs
<1>4. ASSUME NEW t \in GpuThreads, stage' = [stage EXCEPT ![t] = "ready"], deleting' = deleting
      PROVE  DrainInv'
  BY ONLY <1>1, <1>2, <1>4 DEF DrainInv, NoObjectStranded
<1>5. ASSUME NEW t \in GpuThreads, Complete(t) PROVE DrainInv'
  BY <1>4, <1>5 DEF Complete, Proceeds, ThenDrain
<1>6. ASSUME NEW t \in GpuThreads, StartDrain(t) PROVE DrainInv'
  <2>1. CASE deleting
    <3>1. deleting' /\ \E place : place \notin {"ready", "task"} /\ stage' = [stage EXCEPT ![t] = place]
      BY ONLY <1>1, <1>3, <1>6, <2>1 DEF StartDrain, AfterDrain, Return, Proceeds
    <3>2. QED
      BY ONLY <1>1, <1>2, <3>1 DEF DrainInv, NoObjectStranded
  <2>2. CASE ~deleting
    BY ONLY <1>1, <1>2, <1>6, <2>2 DEF StartDrain, Proceeds, DrainInv, NoObjectStranded
  <2>3. QED
    BY <2>1, <2>2
<1>7. ASSUME NEW t \in GpuThreads, RunTask(t) PROVE DrainInv'
  BY ONLY <1>1, <1>2, <1>7 DEF RunTask, DrainInv, NoObjectStranded
<1>8. ASSUME NEW t \in GpuThreads, EndDrain(t) PROVE DrainInv'
  <2>1. ~HeadReady' /\ stage[t] = "task"
    BY ONLY <1>8 DEF EndDrain, HeadReady
  <2>2. \E place : place \notin {"ready", "task"} /\ stage' = [stage EXCEPT ![t] = place]
    BY ONLY <1>1, <1>3, <1>8 DEF EndDrain, AfterDrain, Return, Proceeds
  <2>3. QED
    BY ONLY <1>1, <1>2, <2>1, <2>2 DEF DrainInv, NoObjectStranded
<1>9. ASSUME ScheduleUsed \/ \E g \in GpuGuests : FreeUsed(g) PROVE DrainInv'
  BY <1>4, <1>9, GpuNames DEF ScheduleUsed, FreeUsed, Schedule, Proceeds
<1>10. CASE DrainKept
  <2>1. HeadReady' <=> HeadReady
    BY ONLY <1>10 DEF DrainKept, HeadReady
  <2>2. /\ deleting' <=> deleting
        /\ \A u \in GpuThreads : /\ stage'[u] = "ready" <=> stage[u] = "ready"
                                 /\ stage'[u] = "task" <=> stage[u] = "task"
    BY ONLY <1>10 DEF DrainKept
  <2>3. NoObjectStranded'
    BY ONLY <1>2, <2>1, <2>2 DEF NoObjectStranded
  <2>4. QED
    BY ONLY <1>2, <2>2, <2>3 DEF DrainInv
<1>11. QED
  BY <1>5, <1>6, <1>7, <1>8, <1>9, <1>10, DrainSteps

----------------------------------------------------------------------------
(* Submissions: the admission gate                                         *)

(* Who is at the gate and who waits for a batch is left alone.             *)
GateKept ==
  /\ UNCHANGED <<gate, batches, batch>>
  /\ \A g \in GpuGuests : /\ stage'[g] = "idle" <=> stage[g] = "idle"
                          /\ stage'[g] = "decoding" <=> stage[g] = "decoding"

(* The steps that change the gate or the batches.                          *)
LEMMA GateSteps ==
  ASSUME SubmissionInv, GpuNext
  PROVE  \/ TakeBatch \/ Flushed \/ \E g \in GpuGuests : SubmitBatch(g) \/ Quiesce(g) \/ LeaveGate(g)
         \/ GateKept
<1> USE DEF SubmissionInv
<1>1. /\ stage \in [GpuThreads -> Stages] /\ op \in [GpuThreads -> Ops] /\ back \in [GpuThreads -> Resumes]
      /\ goal \in [GpuThreads -> Ids \cup {NoId}] /\ latest \in [GpuThreads -> Ids \cup {NoId}]
      /\ until \in [GpuThreads -> Ids \cup {NoId}]
  BY DEF GpuTypeOK
<1>2. ASSUME NEW t \in GpuThreads, ProcessorStep(t) PROVE GateKept
  <2>1. UNCHANGED <<gate, batches, batch>>
    BY ONLY <1>2 DEF ProcessorStep, Lock, Sweep, Swept, Submit, Through, BeginRecording, Unlock, Acquire,
       AcquireNone, Complete, StartDrain, RunTask, EndDrain, MarkPublished, Retire, AwaitPublished, ring
  <2>2. OnlyMoves(t) /\ (GoesOn(t) \/ Returns(t))
    BY <1>2, CallSteps
  <2>3. ASSUME t \in GpuGuests
        PROVE  stage[t] \notin {"idle", "decoding"} /\ stage'[t] \notin {"idle", "decoding"}
    <3>1. GuestRole(t) /\ op[t] # "none"
      BY <2>2, <2>3, GpuNames DEF RoleInv, CallInv, GoesOn, Returns
    <3>2. back[t] \in {"flushing", "quiesced"}
      BY ONLY <3>1 DEF GuestRole
    <3>3. QED
      BY ONLY <2>2, <3>2 DEF GoesOn, Returns, ProcessorPcs, DrainPcs
  <2>4. QED
    BY ONLY <2>1, <2>2, <2>3, GpuNames DEF GateKept, OnlyMoves, Keeps
<1>3. ASSUME HostQueue PROVE GateKept
  BY ONLY <1>1, <1>3, GpuNames DEF GateKept, Proceeds, locals, ring, HostQueue, Signal
<1>4. ASSUME IdlePump PROVE GateKept
  BY ONLY <1>1, <1>4, GpuNames DEF GateKept, Proceeds, locals, ring, IdlePump, Begin
<1>5. ASSUME GoIdle PROVE GateKept
  BY ONLY <1>1, <1>5, GpuNames DEF GateKept, Proceeds, locals, ring, GoIdle
<1>6. ASSUME WakeUp PROVE GateKept
  BY ONLY <1>1, <1>6, GpuNames DEF GateKept, Proceeds, locals, ring, WakeUp
<1>7. ASSUME RecordLabel PROVE GateKept
  BY ONLY <1>1, <1>7, GpuNames DEF GateKept, Proceeds, locals, ring, RecordLabel
<1>8. ASSUME SubmitRecorded PROVE GateKept
  BY ONLY <1>1, <1>8, GpuNames DEF GateKept, Proceeds, locals, ring, SubmitRecorded, Begin
<1>9. ASSUME ScheduleUsed PROVE GateKept
  BY ONLY <1>1, <1>9, GpuNames DEF GateKept, Proceeds, locals, ring, ScheduleUsed, Schedule
<1>10. ASSUME EndBatch PROVE GateKept
  BY ONLY <1>1, <1>10, GpuNames DEF GateKept, Proceeds, locals, ring, EndBatch, Begin
<1>11. ASSUME Ended PROVE GateKept
  BY ONLY <1>1, <1>11, GpuNames DEF GateKept, Proceeds, locals, ring, Ended
<1>12. ASSUME PeerCall PROVE GateKept
  BY ONLY <1>1, <1>12, GpuNames DEF GateKept, Proceeds, locals, ring, PeerCall, Begin
<1>13. ASSUME NEW g \in GpuGuests, FreeUsed(g) PROVE GateKept
  BY ONLY <1>1, <1>13, GpuNames DEF GateKept, Proceeds, locals, ring, FreeUsed, Schedule
<1>14. ASSUME NEW g \in GpuGuests, SubmitAndWait(g) PROVE GateKept
  BY ONLY <1>1, <1>14, GpuNames DEF GateKept, Proceeds, locals, ring, SubmitAndWait, Begin
<1>15. QED
  BY ONLY GpuNames, GpuNext, <1>2, <1>3, <1>4, <1>5, <1>6, <1>7, <1>8, <1>9, <1>10, <1>11, <1>12, <1>13, <1>14
     DEF GpuNext, Work, DecodeBatch, Proceed

(* The gate has one holder, and a batch knows who waits for it.            *)
LEMMA GateStep ==
  ASSUME SubmissionInv, GpuNext
  PROVE  GateInv'
<1> USE DEF SubmissionInv
<1>1. /\ stage \in [GpuThreads -> Stages] /\ op \in [GpuThreads -> Ops] /\ back \in [GpuThreads -> Resumes]
      /\ goal \in [GpuThreads -> Ids \cup {NoId}] /\ latest \in [GpuThreads -> Ids \cup {NoId}]
      /\ until \in [GpuThreads -> Ids \cup {NoId}]
  BY DEF GpuTypeOK
<1>2. /\ batches \in Seq(GpuGuests \cup {NoThread}) /\ batch \in GpuGuests \cup {NoThread}
      /\ DOMAIN batches = 1 .. Len(batches) /\ Len(batches) \in Nat
      /\ \A i \in DOMAIN batches : batches[i] \in GpuGuests \cup {NoThread}
  <2>1. batches \in Seq(GpuGuests \cup {NoThread}) /\ batch \in GpuGuests \cup {NoThread}
    BY DEF GpuTypeOK
  <2>2. QED
    BY ONLY <2>1, ListElements
<1>3. /\ \A g \in GpuGuests : stage[g] # "idle" <=> gate = g
      /\ batch # NoThread => stage[batch] = "decoding"
      /\ \A i \in DOMAIN batches : batches[i] # NoThread =>
           /\ stage[batches[i]] = "decoding" /\ batch # batches[i]
           /\ \A j \in DOMAIN batches : batches[j] = batches[i] => i = j
  BY DEF GateInv
<1>4. ASSUME TakeBatch PROVE GateInv'
  <2>1. gate' = gate /\ batches # <<>> /\ stage[RingWorker] = "get"
        /\ \A g \in GpuGuests : stage'[g] = stage[g]
    BY ONLY <1>1, <1>4, GpuNames DEF TakeBatch, Proceeds
  <2>2. CASE batches' = <<>> /\ batch' = batch
    BY ONLY <1>2, <1>3, <2>1, <2>2 DEF GateInv
  <2>3. CASE batch' = Head(batches) /\ batches' = Tail(batches)
    <3>1. /\ Head(batches) = batches[1] /\ 1 \in DOMAIN batches /\ DOMAIN batches' = 1 .. Len(batches) - 1
          /\ \A i \in 1 .. Len(batches) - 1 : batches'[i] = batches[i + 1]
      <4>1. batches' \in Seq(GpuGuests \cup {NoThread}) /\ Len(batches') = Len(batches) - 1
        BY ONLY <1>2, <2>1, <2>3, ListElements
      <4>2. QED
        BY ONLY <1>2, <2>1, <2>3, <4>1, ListElements
    <3>2. \A i \in 1 .. Len(batches) - 1 : i + 1 \in DOMAIN batches /\ i + 1 # 1
      BY ONLY <1>2
    <3>3. \A i, j \in 1 .. Len(batches) - 1 : i + 1 = j + 1 => i = j
      BY ONLY <1>2
    <3>4. batch' # NoThread => stage'[batch'] = "decoding"
      BY ONLY <1>2, <1>3, <2>1, <2>3, <3>1
    <3>5. ASSUME NEW i \in DOMAIN batches', batches'[i] # NoThread
          PROVE  /\ stage'[batches'[i]] = "decoding" /\ batch' # batches'[i]
                 /\ \A j \in DOMAIN batches' : batches'[j] = batches'[i] => i = j
      BY ONLY <1>2, <1>3, <2>1, <2>3, <3>1, <3>2, <3>3, <3>5
    <3>6. QED
      BY ONLY <1>3, <2>1, <3>4, <3>5 DEF GateInv
  <2>4. QED
    BY ONLY <1>4, <2>2, <2>3 DEF TakeBatch
<1>5. ASSUME Flushed PROVE GateInv'
  <2>1. gate' = gate /\ batches' = batches /\ batch' = NoThread
        /\ \A g \in GpuGuests : stage'[g] = IF g = batch THEN "admitted" ELSE stage[g]
    BY ONLY <1>1, <1>2, <1>5, GpuNames DEF Flushed
  <2>2. QED
    BY ONLY <1>2, <1>3, <2>1, GpuNames DEF GateInv
<1>6. ASSUME NEW g \in GpuGuests, SubmitBatch(g) PROVE GateInv'
  <2>1. /\ stage[g] = "idle" /\ gate = NoThread /\ batch' = batch
        /\ \/ batches' = Append(batches, NoThread) /\ gate' = gate /\ stage' = stage
           \/ batches' = Append(batches, g) /\ gate' = g /\ stage' = [stage EXCEPT ![g] = "decoding"]
    BY ONLY <1>6 DEF SubmitBatch, Proceeds
  <2>2. PICK x \in {g, NoThread} :
          batches' = Append(batches, x) /\ (x # NoThread => stage' = [stage EXCEPT ![g] = "decoding"])
    BY ONLY <2>1
  <2>3. /\ DOMAIN batches' = 1 .. Len(batches) + 1 /\ batches'[Len(batches) + 1] = x
        /\ \A i \in DOMAIN batches : batches'[i] = batches[i]
        /\ \A i \in DOMAIN batches' : i = Len(batches) + 1 \/ i \in DOMAIN batches
        /\ Len(batches) + 1 \notin DOMAIN batches
    <3>1. x \in GpuGuests \cup {NoThread}
      BY ONLY <1>6, <2>2
    <3>2. batches' \in Seq(GpuGuests \cup {NoThread}) /\ Len(batches') = Len(batches) + 1
          /\ batches'[Len(batches) + 1] = x /\ \A i \in 1 .. Len(batches) : batches'[i] = batches[i]
      BY ONLY <1>2, <2>2, <3>1, ListElements
    <3>3. DOMAIN batches' = 1 .. Len(batches')
      BY ONLY <3>2, ListElements
    <3>4. QED
      BY ONLY <1>2, <3>2, <3>3
  <2>4. /\ \A u \in GpuGuests : stage'[u] # "idle" <=> gate' = u
        /\ \A u \in GpuGuests : stage[u] = "decoding" => stage'[u] = "decoding"
    BY ONLY <1>1, <1>3, <1>6, <2>1, GpuNames
  <2>5. x # NoThread => stage'[x] = "decoding" /\ batch # x /\ \A i \in DOMAIN batches : batches[i] # x
    <3>1. CASE x = g
      <4>1. batch # g /\ \A i \in DOMAIN batches : batches[i] # g
        BY ONLY <1>2, <1>3, <1>6, <2>1, GpuNames
      <4>2. stage[g] \in Stages /\ x # NoThread => stage'[x] = "decoding"
        BY ONLY <1>1, <1>6, <2>2, <3>1, GpuNames
      <4>3. QED
        BY ONLY <1>1, <1>6, <3>1, <4>1, <4>2, GpuNames
    <3>2. QED
      BY ONLY <3>1, <2>2
  <2>6. QED
    BY ONLY <1>2, <1>3, <2>1, <2>3, <2>4, <2>5 DEF GateInv
<1>7. ASSUME NEW g \in GpuGuests, Quiesce(g) \/ LeaveGate(g) PROVE GateInv'
  <2>1. /\ batches' = batches /\ batch' = batch
        /\ \/ stage[g] = "idle" /\ gate = NoThread /\ gate' = g /\ stage' = [stage EXCEPT ![g] = "waitIdle"]
           \/ stage[g] \in {"admitted", "quiesced"} /\ gate' = NoThread /\ stage' = [stage EXCEPT ![g] = "idle"]
    BY ONLY <1>7 DEF Quiesce, LeaveGate, Proceeds
  <2>2. /\ \A u \in GpuGuests : stage'[u] # "idle" <=> gate' = u
        /\ \A u \in GpuGuests : stage[u] = "decoding" => stage'[u] = "decoding"
    BY ONLY <1>1, <1>3, <1>7, <2>1, GpuNames
  <2>3. QED
    BY ONLY <1>2, <1>3, <2>1, <2>2 DEF GateInv
<1>8. CASE GateKept
  <2>1. /\ batch # NoThread => batch \in GpuGuests
        /\ \A i \in DOMAIN batches : batches[i] # NoThread => batches[i] \in GpuGuests
    BY ONLY <1>2
  <2>2. /\ gate' = gate /\ batches' = batches /\ batch' = batch
        /\ \A g \in GpuGuests : /\ stage'[g] = "idle" <=> stage[g] = "idle"
                                /\ stage'[g] = "decoding" <=> stage[g] = "decoding"
    BY ONLY <1>8 DEF GateKept
  <2>3. batch # NoThread => stage'[batch] = "decoding"
    BY ONLY <1>3, <2>1, <2>2
  <2>4. \A i \in DOMAIN batches : batches[i] # NoThread =>
           /\ stage'[batches[i]] = "decoding" /\ batch # batches[i]
           /\ \A j \in DOMAIN batches : batches[j] = batches[i] => i = j
    BY ONLY <1>3, <2>1, <2>2
  <2>5. \A g \in GpuGuests : stage'[g] # "idle" <=> gate' = g
    BY ONLY <1>3, <2>2
  <2>6. \A i \in DOMAIN batches' : batches'[i] # NoThread =>
           /\ stage'[batches'[i]] = "decoding" /\ batch' # batches'[i]
           /\ \A j \in DOMAIN batches' : batches'[j] = batches'[i] => i = j
    BY ONLY <2>2, <2>4
  <2>7. batch' # NoThread => stage'[batch'] = "decoding"
    BY ONLY <2>2, <2>3
  <2>8. QED
    BY ONLY <2>5, <2>6, <2>7 DEF GateInv
<1>9. QED
  BY <1>4, <1>5, <1>6, <1>7, <1>8, GateSteps

----------------------------------------------------------------------------
(* Submissions: the bound                                                  *)

(* Only the step that submits discharges what a call owes, and no step of  *)
(* a call adds to it.                                                      *)
LEMMA OwesLess ==
  ASSUME SubmissionInv, NEW t \in GpuThreads, ProcessorStep(t)
  PROVE  /\ OwesSubmission(t)' => OwesSubmission(t)
         /\ Submit(t) => OwesSubmission(t) /\ ~OwesSubmission(t)'
<1> USE DEF SubmissionInv
<1>1. /\ stage \in [GpuThreads -> Stages] /\ op \in [GpuThreads -> Ops] /\ back \in [GpuThreads -> Resumes]
      /\ goal \in [GpuThreads -> Ids \cup {NoId}] /\ latest \in [GpuThreads -> Ids \cup {NoId}]
      /\ until \in [GpuThreads -> Ids \cup {NoId}]
  BY DEF GpuTypeOK
<1>2. /\ CallInv(t) /\ (t = RingWorker => WorkerRole) /\ (t = Peer => PeerRole)
      /\ (t \in GpuGuests => GuestRole(t))
  BY DEF RoleInv
<1>3. back[t] \notin {"waitIdle", "lock", "sweep", "submit"}
  BY ONLY <1>2 DEF GpuThreads, WorkerRole, PeerRole, GuestRole
<1>4. Submitted \in Nat /\ (\A s \in Recording : s > Submitted)
  <2>1. Submitted \in Nat
    BY Numbers
  <2>2. Recording = {} \/ Recording = {Submitted + 1}
    BY RecordingIsNext
  <2>3. QED
    BY ONLY <2>1, <2>2
<1> DEFINE Goal == /\ OwesSubmission(t)' => OwesSubmission(t)
                   /\ Submit(t) => OwesSubmission(t) /\ ~OwesSubmission(t)'
<1>5. ASSUME Submit(t) PROVE Goal
  BY ONLY <1>1, <1>2, <1>5 DEF Submit, Proceeds, CallInv, OwesSubmission
<1>6. ASSUME Lock(t) PROVE Goal
  <2>1. stage[t] = "lock" /\ op' = op
        /\ \/ stage' = [stage EXCEPT ![t] = "sweep"] /\ (Submits(t) \/ op[t] = "pump")
           \/ stage' = [stage EXCEPT ![t] = "through"]
           \/ stage' = [stage EXCEPT ![t] = "unlock"]
    BY ONLY <1>6 DEF Lock, Proceeds
  <2>2. QED
    BY ONLY <1>1, <1>4, <2>1 DEF OwesSubmission, Submits, Submit
<1>7. ASSUME Sweep(t) PROVE Goal
  BY ONLY <1>1, <1>2, <1>3, <1>7
     DEF OwesSubmission, Submit, CallInv, DrainPcs, Proceeds, locals, Sweep, CompleteFront
<1>8. ASSUME Swept(t) PROVE Goal
  BY ONLY <1>1, <1>2, <1>3, <1>8
     DEF OwesSubmission, Submit, CallInv, DrainPcs, Proceeds, locals, Swept
<1>9. ASSUME Through(t) PROVE Goal
  BY ONLY <1>1, <1>2, <1>3, <1>9
     DEF OwesSubmission, Submit, CallInv, DrainPcs, Proceeds, locals, Through, CompleteFront
<1>10. ASSUME BeginRecording(t) PROVE Goal
  BY ONLY <1>1, <1>2, <1>3, <1>10
     DEF OwesSubmission, Submit, CallInv, DrainPcs, Proceeds, locals, BeginRecording
<1>11. ASSUME Unlock(t) PROVE Goal
  BY ONLY <1>1, <1>2, <1>3, <1>11
     DEF OwesSubmission, Submit, CallInv, DrainPcs, Proceeds, locals, Unlock, Return
<1>12. ASSUME Acquire(t) PROVE Goal
  BY ONLY <1>1, <1>2, <1>3, <1>12
     DEF OwesSubmission, Submit, CallInv, DrainPcs, Proceeds, locals, Acquire
<1>13. ASSUME AcquireNone(t) PROVE Goal
  BY ONLY <1>1, <1>2, <1>3, <1>13
     DEF OwesSubmission, Submit, CallInv, DrainPcs, Proceeds, locals, AcquireNone, Return
<1>14. ASSUME Complete(t) PROVE Goal
  BY ONLY <1>1, <1>2, <1>3, <1>14
     DEF OwesSubmission, Submit, CallInv, DrainPcs, Proceeds, locals, Complete, ThenDrain
<1>15. ASSUME StartDrain(t) PROVE Goal
  BY ONLY <1>1, <1>2, <1>3, <1>15
     DEF OwesSubmission, Submit, CallInv, DrainPcs, Proceeds, locals, StartDrain, AfterDrain, Return
<1>16. ASSUME RunTask(t) PROVE Goal
  BY ONLY <1>1, <1>2, <1>3, <1>16
     DEF OwesSubmission, Submit, CallInv, DrainPcs, Proceeds, locals, RunTask
<1>17. ASSUME EndDrain(t) PROVE Goal
  BY ONLY <1>1, <1>2, <1>3, <1>17
     DEF OwesSubmission, Submit, CallInv, DrainPcs, Proceeds, locals, EndDrain, AfterDrain, Return
<1>18. ASSUME MarkPublished(t) PROVE Goal
  BY ONLY <1>1, <1>2, <1>3, <1>18
     DEF OwesSubmission, Submit, CallInv, DrainPcs, Proceeds, locals, MarkPublished
<1>19. ASSUME Retire(t) PROVE Goal
  BY ONLY <1>1, <1>2, <1>3, <1>19
     DEF OwesSubmission, Submit, CallInv, DrainPcs, Proceeds, locals, Retire
<1>20. ASSUME AwaitPublished(t) PROVE Goal
  BY ONLY <1>1, <1>2, <1>3, <1>20
     DEF OwesSubmission, Submit, CallInv, DrainPcs, Proceeds, locals, AwaitPublished, Return
<1>21. QED
  BY ONLY ProcessorStep(t), <1>5, <1>6, <1>7, <1>8, <1>9, <1>10, <1>11, <1>12, <1>13, <1>14, <1>15, <1>16, <1>17, <1>18, <1>19, <1>20
     DEF ProcessorStep

BoundKept == Owing' \subseteq Owing /\ BatchOwed' <= BatchOwed /\ UNCHANGED <<batches, flushes>>

(* The steps after which somebody owes a submission.                       *)
LEMMA BoundSteps ==
  ASSUME SubmissionInv, GpuNext
  PROVE  \/ TakeBatch \/ SubmitRecorded \/ EndBatch \/ PeerCall
         \/ \E g \in GpuGuests : SubmitBatch(g) \/ Quiesce(g)
         \/ BoundKept
<1> USE DEF SubmissionInv
<1>1. /\ stage \in [GpuThreads -> Stages] /\ op \in [GpuThreads -> Ops] /\ back \in [GpuThreads -> Resumes]
      /\ goal \in [GpuThreads -> Ids \cup {NoId}] /\ latest \in [GpuThreads -> Ids \cup {NoId}]
      /\ until \in [GpuThreads -> Ids \cup {NoId}]
  BY DEF GpuTypeOK
<1>2. Submitted \in Nat /\ Submitted' \in Nat /\ Submitted <= Submitted'
  BY Monotone
<1>3. \A u \in GpuThreads : goal[u] \in Nat
  BY <1>1 DEF Ids, NoId
<1>4. \A u \in GpuThreads : Keeps(u) /\ OwesSubmission(u)' => OwesSubmission(u)
  BY ONLY <1>2, <1>3 DEF Keeps, OwesSubmission
<1>5. RingWorker \in GpuThreads /\ (Keeps(RingWorker) => BatchOwed' <= BatchOwed)
  BY ONLY GpuNames DEF Keeps, BatchOwed
<1>6. ASSUME NEW t \in GpuThreads, OnlyMoves(t), OwesSubmission(t)' => OwesSubmission(t)
      PROVE  Owing' \subseteq Owing
  BY ONLY <1>4, <1>6 DEF Owing, OnlyMoves
<1>7. batch # NoThread => batch \in GpuGuests /\ stage[batch] = "decoding"
  BY DEF GpuTypeOK, GateInv
<1>8. ASSUME NEW t \in GpuThreads, ProcessorStep(t) PROVE BoundKept
  <2>1. UNCHANGED <<batches, flushes>>
    BY ONLY <1>8 DEF ProcessorStep, Lock, Sweep, Swept, Submit, Through, BeginRecording, Unlock, Acquire,
       AcquireNone, Complete, StartDrain, RunTask, EndDrain, MarkPublished, Retire, AwaitPublished, ring, bounds
  <2>2. OnlyMoves(t) /\ (GoesOn(t) \/ Returns(t))
    BY <1>8, CallSteps
  <2>3. Owing' \subseteq Owing
    BY <1>6, <1>8, <2>2, OwesLess
  <2>4. BatchOwed' <= BatchOwed
    <3>1. CASE t = RingWorker
      BY ONLY <2>2, <3>1 DEF GoesOn, Returns, BatchOwed, ProcessorPcs, DrainPcs
    <3>2. CASE t # RingWorker
      BY ONLY <1>5, <2>2, <3>2 DEF OnlyMoves
    <3>3. QED
      BY ONLY <3>1, <3>2
  <2>5. QED
    BY ONLY <2>1, <2>3, <2>4 DEF BoundKept
<1>9. ASSUME HostQueue PROVE BoundKept
  <2>1. UNCHANGED <<batches, flushes>> /\ \A u \in GpuThreads : Keeps(u)
    BY ONLY <1>9 DEF HostQueue, Signal, ring, bounds, locals, Keeps
  <2>2. QED
    BY ONLY <1>4, <1>5, <2>1 DEF BoundKept, Owing
<1>10. ASSUME IdlePump PROVE BoundKept
  <2>1. OnlyMoves(RingWorker) /\ UNCHANGED <<batches, flushes>>
    BY ONLY <1>1, <1>10, GpuNames DEF OnlyMoves, Keeps, Proceeds, locals, bounds, ring, IdlePump, Begin
  <2>2. OwesSubmission(RingWorker)' => OwesSubmission(RingWorker)
    BY ONLY <1>1, <1>10, GpuNames DEF OwesSubmission, Proceeds, locals, IdlePump, Begin
  <2>3. BatchOwed' <= BatchOwed
    BY ONLY <1>1, <1>10, GpuNames DEF BatchOwed, Proceeds, locals, IdlePump, Begin
  <2>4. QED
    BY ONLY <1>6, <2>1, <2>2, <2>3, GpuNames DEF BoundKept
<1>11. ASSUME GoIdle PROVE BoundKept
  <2>1. OnlyMoves(RingWorker) /\ UNCHANGED <<batches, flushes>>
    BY ONLY <1>1, <1>11, GpuNames DEF OnlyMoves, Keeps, Proceeds, locals, bounds, ring, GoIdle
  <2>2. OwesSubmission(RingWorker)' => OwesSubmission(RingWorker)
    BY ONLY <1>1, <1>11, GpuNames DEF OwesSubmission, Proceeds, locals, GoIdle
  <2>3. BatchOwed' <= BatchOwed
    BY ONLY <1>1, <1>11, GpuNames DEF BatchOwed, Proceeds, locals, GoIdle
  <2>4. QED
    BY ONLY <1>6, <2>1, <2>2, <2>3, GpuNames DEF BoundKept
<1>12. ASSUME WakeUp PROVE BoundKept
  <2>1. OnlyMoves(RingWorker) /\ UNCHANGED <<batches, flushes>>
    BY ONLY <1>1, <1>12, GpuNames DEF OnlyMoves, Keeps, Proceeds, locals, bounds, ring, WakeUp
  <2>2. OwesSubmission(RingWorker)' => OwesSubmission(RingWorker)
    BY ONLY <1>1, <1>12, GpuNames DEF OwesSubmission, Proceeds, locals, WakeUp
  <2>3. BatchOwed' <= BatchOwed
    BY ONLY <1>1, <1>12, GpuNames DEF BatchOwed, Proceeds, locals, WakeUp
  <2>4. QED
    BY ONLY <1>6, <2>1, <2>2, <2>3, GpuNames DEF BoundKept
<1>13. ASSUME RecordLabel PROVE BoundKept
  <2>1. OnlyMoves(RingWorker) /\ UNCHANGED <<batches, flushes>>
    BY ONLY <1>1, <1>13, GpuNames DEF OnlyMoves, Keeps, Proceeds, locals, bounds, ring, RecordLabel
  <2>2. OwesSubmission(RingWorker)' => OwesSubmission(RingWorker)
    BY ONLY <1>1, <1>13, GpuNames DEF OwesSubmission, Proceeds, locals, RecordLabel
  <2>3. BatchOwed' <= BatchOwed
    BY ONLY <1>1, <1>13, GpuNames DEF BatchOwed, Proceeds, locals, RecordLabel
  <2>4. QED
    BY ONLY <1>6, <2>1, <2>2, <2>3, GpuNames DEF BoundKept
<1>14. ASSUME ScheduleUsed PROVE BoundKept
  <2>1. OnlyMoves(RingWorker) /\ UNCHANGED <<batches, flushes>>
    BY ONLY <1>1, <1>14, GpuNames DEF OnlyMoves, Keeps, Proceeds, locals, bounds, ring, ScheduleUsed, Schedule
  <2>2. OwesSubmission(RingWorker)' => OwesSubmission(RingWorker)
    BY ONLY <1>1, <1>14, GpuNames DEF OwesSubmission, Proceeds, locals, ScheduleUsed, Schedule
  <2>3. BatchOwed' <= BatchOwed
    BY ONLY <1>1, <1>14, GpuNames DEF BatchOwed, Proceeds, locals, ScheduleUsed, Schedule
  <2>4. QED
    BY ONLY <1>6, <2>1, <2>2, <2>3, GpuNames DEF BoundKept
<1>15. ASSUME Flushed PROVE BoundKept
  <2>1. stage[RingWorker] = "flushed" /\ UNCHANGED <<batches, flushes>>
        /\ \A u \in GpuThreads : u # RingWorker /\ u # batch => Keeps(u)
    BY ONLY <1>1, <1>15 DEF Flushed, Keeps, locals, bounds
  <2>2. ~OwesSubmission(RingWorker)'
    <3>1. \A s \in Recording : s - 1 = Submitted
      <4>1. Recording = {} \/ Recording = {Submitted + 1}
        BY RecordingIsNext
      <4>2. QED
        BY ONLY <1>2, <4>1
    <3>2. stage'[RingWorker] = "ended"
          \/ (stage'[RingWorker] = "lock" /\ op'[RingWorker] = "wait" /\ goal'[RingWorker] = Submitted)
      BY ONLY <1>1, <1>7, <1>15, <3>1, GpuNames DEF Flushed
    <3>3. QED
      BY ONLY <1>2, <3>2 DEF OwesSubmission
  <2>3. ASSUME NEW b \in GpuThreads, b = batch PROVE ~OwesSubmission(b)'
    <3>1. stage'[b] = "admitted"
      BY ONLY <1>1, <1>7, <1>15, <2>3, GpuNames DEF Flushed
    <3>2. QED
      BY ONLY <3>1 DEF OwesSubmission
  <2>4. BatchOwed' <= BatchOwed
    BY ONLY <1>1, <1>7, <1>15, GpuNames DEF Flushed, BatchOwed, locals
  <2>5. QED
    BY ONLY <1>4, <2>1, <2>2, <2>3, <2>4 DEF BoundKept, Owing
<1>16. ASSUME Ended PROVE BoundKept
  <2>1. OnlyMoves(RingWorker) /\ UNCHANGED <<batches, flushes>>
    BY ONLY <1>1, <1>16, GpuNames DEF OnlyMoves, Keeps, Proceeds, locals, bounds, ring, Ended
  <2>2. OwesSubmission(RingWorker)' => OwesSubmission(RingWorker)
    BY ONLY <1>1, <1>16, GpuNames DEF OwesSubmission, Proceeds, locals, Ended
  <2>3. BatchOwed' <= BatchOwed
    BY ONLY <1>1, <1>16, GpuNames DEF BatchOwed, Proceeds, locals, Ended
  <2>4. QED
    BY ONLY <1>6, <2>1, <2>2, <2>3, GpuNames DEF BoundKept
<1>17. ASSUME NEW g \in GpuGuests, FreeUsed(g) PROVE BoundKept
  <2>1. OnlyMoves(g) /\ UNCHANGED <<batches, flushes>>
    BY ONLY <1>1, <1>17, GpuNames DEF OnlyMoves, Keeps, Proceeds, locals, bounds, ring, FreeUsed, Schedule
  <2>2. OwesSubmission(g)' => OwesSubmission(g)
    BY ONLY <1>1, <1>17, GpuNames DEF OwesSubmission, Proceeds, locals, FreeUsed, Schedule
  <2>3. BatchOwed' <= BatchOwed
    BY ONLY <1>1, <1>17, GpuNames DEF BatchOwed, Proceeds, locals, FreeUsed, Schedule
  <2>4. QED
    BY ONLY <1>6, <2>1, <2>2, <2>3, GpuNames DEF BoundKept
<1>18. ASSUME NEW g \in GpuGuests, SubmitAndWait(g) PROVE BoundKept
  <2>1. OnlyMoves(g) /\ UNCHANGED <<batches, flushes>>
    BY ONLY <1>1, <1>18, GpuNames DEF OnlyMoves, Keeps, Proceeds, locals, bounds, ring, SubmitAndWait, Begin
  <2>2. OwesSubmission(g)' => OwesSubmission(g)
    BY ONLY <1>1, <1>18, GpuNames DEF OwesSubmission, Proceeds, locals, SubmitAndWait, Begin
  <2>3. BatchOwed' <= BatchOwed
    BY ONLY <1>1, <1>18, GpuNames DEF BatchOwed, Proceeds, locals, SubmitAndWait, Begin
  <2>4. QED
    BY ONLY <1>6, <2>1, <2>2, <2>3, GpuNames DEF BoundKept
<1>19. ASSUME NEW g \in GpuGuests, LeaveGate(g) PROVE BoundKept
  <2>1. OnlyMoves(g) /\ UNCHANGED <<batches, flushes>>
    BY ONLY <1>1, <1>19, GpuNames DEF OnlyMoves, Keeps, Proceeds, locals, bounds, ring, LeaveGate
  <2>2. OwesSubmission(g)' => OwesSubmission(g)
    BY ONLY <1>1, <1>19, GpuNames DEF OwesSubmission, Proceeds, locals, LeaveGate
  <2>3. BatchOwed' <= BatchOwed
    BY ONLY <1>1, <1>19, GpuNames DEF BatchOwed, Proceeds, locals, LeaveGate
  <2>4. QED
    BY ONLY <1>6, <2>1, <2>2, <2>3, GpuNames DEF BoundKept
<1>20. QED
  BY ONLY GpuNames, GpuNext, <1>8, <1>9, <1>10, <1>11, <1>12, <1>13, <1>14, <1>15, <1>16, <1>17, <1>18, <1>19
     DEF GpuNext, Work, DecodeBatch, Proceed

(* Every submission still to be made is allowed for.                       *)
LEMMA BoundStep ==
  ASSUME SubmissionInv, GpuNext, GpuTypeOK'
  PROVE  BoundInv'
<1> USE DEF SubmissionInv
<1>1. /\ stage \in [GpuThreads -> Stages] /\ op \in [GpuThreads -> Ops] /\ back \in [GpuThreads -> Resumes]
      /\ goal \in [GpuThreads -> Ids \cup {NoId}] /\ latest \in [GpuThreads -> Ids \cup {NoId}]
      /\ until \in [GpuThreads -> Ids \cup {NoId}]
  BY DEF GpuTypeOK
<1>2. /\ Submitted \in Nat /\ Cardinality(Owing) \in Nat /\ Len(batches) \in Nat /\ flushes \in Nat
      /\ BatchOwed \in {0, 1} /\ Submitted + Cardinality(Owing) + BatchOwed + Len(batches) <= flushes
      /\ IsFiniteSet(Owing)
  BY WithinBounds, Numbers DEF BoundInv
<1>3. /\ Submitted' \in Nat /\ IsFiniteSet(Owing') /\ Cardinality(Owing') \in Nat
      /\ Len(batches') \in Nat /\ flushes' \in Nat /\ BatchOwed' \in {0, 1}
  <2>1. Owing' \subseteq GpuThreads
    BY ONLY DEF Owing
  <2>2. IsFiniteSet(Owing') /\ Cardinality(Owing') \in Nat
    BY ONLY <2>1, GpuNames, FS_Subset, FS_CardinalityType
  <2>3. batches' \in Seq(GpuGuests \cup {NoThread}) /\ flushes' \in 0..MaxFlushes
    BY DEF GpuTypeOK
  <2>4. Len(batches') \in Nat
    BY ONLY <2>3
  <2>5. flushes' \in Nat
    BY ONLY <2>3, GpuAssumption
  <2>6. BatchOwed' \in {0, 1}
    BY ONLY DEF BatchOwed
  <2>7. QED
    BY ONLY <2>2, <2>4, <2>5, <2>6, Monotone, SubmissionInv, GpuNext
<1>4. ASSUME Owing' \subseteq Owing PROVE Cardinality(Owing') <= Cardinality(Owing)
  BY ONLY <1>2, <1>4, FS_Subset
<1>5. ASSUME NEW t \in GpuThreads, Owing' \subseteq Owing \cup {t}
      PROVE  Cardinality(Owing') <= Cardinality(Owing) + 1
  <2>1. IsFiniteSet(Owing \cup {t}) /\ Cardinality(Owing \cup {t}) <= Cardinality(Owing) + 1
        /\ Cardinality(Owing \cup {t}) \in Nat
    <3>1. IsFiniteSet(Owing \cup {t})
          /\ Cardinality(Owing \cup {t}) = IF t \in Owing THEN Cardinality(Owing) ELSE Cardinality(Owing) + 1
      BY ONLY <1>2, FS_AddElement
    <3>2. QED
      BY ONLY <1>2, <3>1
  <2>2. Cardinality(Owing') <= Cardinality(Owing \cup {t})
    BY ONLY <1>5, <2>1, FS_Subset
  <2>3. QED
    BY ONLY <1>2, <1>3, <2>1, <2>2
<1>6. ASSUME NEW t \in Owing, Owing' \subseteq Owing \ {t}
      PROVE  Cardinality(Owing') + 1 <= Cardinality(Owing)
  <2>1. IsFiniteSet(Owing \ {t}) /\ Cardinality(Owing \ {t}) = Cardinality(Owing) - 1
    BY ONLY <1>2, <1>6, FS_RemoveElement
  <2>2. Cardinality(Owing') <= Cardinality(Owing \ {t})
    BY ONLY <1>6, <2>1, FS_Subset
  <2>3. QED
    BY ONLY <1>2, <1>3, <2>1, <2>2
<1>7. /\ RingWorker \in GpuThreads /\ Peer \in GpuThreads /\ GpuGuests \subseteq GpuThreads
      /\ \A s \in Recording : s = Submitted + 1
      /\ \A s \in labelled : s <= Submitted \/ s \in Recording
  BY GpuNames, RecordingIsNext DEF RoleInv
<1>8. ASSUME publication' = publication PROVE Submitted' = Submitted
  BY ONLY <1>8 DEF publication, Submitted
<1>9. ASSUME TakeBatch PROVE BoundInv'
  <2>1. batches # <<>> /\ stage[RingWorker] = "get" /\ flushes' = flushes /\ Submitted' = Submitted
        /\ (batches' = <<>> \/ batches' = Tail(batches)) /\ op' = op /\ goal' = goal /\ back' = back
        /\ stage' = [stage EXCEPT ![RingWorker] = "decode"]
    BY <1>8, <1>9 DEF TakeBatch, Proceeds, locals, bounds
  <2>2. BatchOwed = 0
    <3>1. back[RingWorker] = "idle"
      BY ONLY <2>1, SubmissionInv, GpuNames
         DEF SubmissionInv, RoleInv, WorkerRole, CallInv, ProcessorPcs, DrainPcs
    <3>2. QED
      BY ONLY <2>1, <3>1 DEF BatchOwed
  <2>3. Len(batches') + 1 <= Len(batches)
    <3>1. batches \in Seq(GpuGuests \cup {NoThread})
      BY DEF GpuTypeOK
    <3>2. QED
      BY ONLY <2>1, <3>1
  <2>4. Owing' \subseteq Owing
    BY ONLY <1>1, <1>7, <2>1, Submitted' = Submitted DEF Owing, OwesSubmission
  <2>5. Cardinality(Owing') <= Cardinality(Owing)
    BY <1>4, <2>4
  <2>6. QED
    BY ONLY <1>2, <1>3, <2>1, <2>2, <2>3, <2>5 DEF BoundInv
<1>10. ASSUME SubmitRecorded PROVE BoundInv'
  <2>1. /\ stage[RingWorker] = "decode" /\ flushes' = flushes + 1 /\ Submitted' = Submitted
        /\ batches' = batches /\ \A u \in GpuThreads : u # RingWorker => Keeps(u)
    BY <1>1, <1>8, <1>10 DEF SubmitRecorded, Begin, Proceeds, Keeps, ring
  <2>2. BatchOwed = 1
    BY ONLY <2>1 DEF BatchOwed
  <2>3. Owing' \subseteq Owing \cup {RingWorker}
    BY ONLY <1>7, <2>1 DEF Owing, OwesSubmission, Keeps
  <2>4. Cardinality(Owing') <= Cardinality(Owing) + 1
    BY <1>5, <1>7, <2>3
  <2>5. QED
    BY ONLY <1>2, <1>3, <2>1, <2>2, <2>4 DEF BoundInv
<1>11. ASSUME EndBatch PROVE BoundInv'
  <2>1. /\ stage[RingWorker] = "decode" /\ flushes' = flushes /\ Submitted' = Submitted
        /\ batches' = batches /\ \A u \in GpuThreads : u # RingWorker => Keeps(u)
    BY <1>1, <1>8, <1>11 DEF EndBatch, Begin, Proceeds, Keeps, ring, bounds
  <2>2. BatchOwed = 1 /\ BatchOwed' = 0
    BY ONLY <1>1, <1>7, <1>11, <2>1 DEF BatchOwed, EndBatch, Begin, Proceeds
  <2>3. Owing' \subseteq Owing \cup {RingWorker}
    BY ONLY <1>7, <2>1 DEF Owing, OwesSubmission, Keeps
  <2>4. Cardinality(Owing') <= Cardinality(Owing) + 1
    BY <1>5, <1>7, <2>3
  <2>5. QED
    BY ONLY <1>2, <1>3, <2>1, <2>2, <2>4 DEF BoundInv
<1>12. ASSUME PeerCall PROVE BoundInv'
  <2>1. /\ Submitted' = Submitted /\ batches' = batches /\ \A u \in GpuThreads : u # Peer => Keeps(u)
        /\ stage'[RingWorker] = stage[RingWorker] /\ back'[RingWorker] = back[RingWorker]
    BY <1>1, <1>8, <1>12, GpuNames DEF PeerCall, Begin, Proceeds, Keeps, ring
  <2>2. BatchOwed' = BatchOwed
    BY ONLY <2>1 DEF BatchOwed
  <2>3. PICK s \in labelled : /\ IF s \in Recording THEN flushes' = flushes + 1 ELSE UNCHANGED flushes
                              /\ stage'[Peer] = "lock" /\ op'[Peer] \in {"wait", "device"} /\ goal'[Peer] = s
    BY ONLY <1>1, <1>7, <1>12 DEF PeerCall, Begin, Proceeds
  <2>4. CASE s \in Recording
    <3>1. Owing' \subseteq Owing \cup {Peer}
      BY ONLY <1>7, <2>1 DEF Owing, OwesSubmission, Keeps
    <3>2. Cardinality(Owing') <= Cardinality(Owing) + 1
      BY <1>5, <1>7, <3>1
    <3>3. QED
      BY ONLY <1>2, <1>3, <2>1, <2>2, <2>3, <2>4, <3>2 DEF BoundInv
  <2>5. CASE s \notin Recording
    <3>1. s <= Submitted /\ s \in Nat
      <4>1. s \in Ids
        BY DEF GpuTypeOK
      <4>2. QED
        BY ONLY <1>7, <2>5, <4>1 DEF Ids
    <3>2. ~OwesSubmission(Peer)'
      BY ONLY <1>2, <2>1, <2>3, <3>1 DEF OwesSubmission
    <3>3. Owing' \subseteq Owing
      BY ONLY <1>7, <2>1, <3>2 DEF Owing, OwesSubmission, Keeps
    <3>4. Cardinality(Owing') <= Cardinality(Owing)
      BY <1>4, <3>3
    <3>5. QED
      BY ONLY <1>2, <1>3, <2>1, <2>2, <2>3, <2>5, <3>4 DEF BoundInv
  <2>6. QED
    BY ONLY <2>4, <2>5
<1>13. ASSUME NEW g \in GpuGuests, SubmitBatch(g) PROVE BoundInv'
  <2>1. /\ Submitted' = Submitted /\ flushes' = flushes + 1 /\ stage[g] = "idle"
        /\ \A u \in GpuThreads : u # g => Keeps(u)
        /\ op' = op /\ goal' = goal /\ back' = back /\ stage'[g] \in {"idle", "decoding"}
    BY <1>1, <1>8, <1>13, GpuNames DEF SubmitBatch, Proceeds, Keeps, locals
  <2>2. BatchOwed' = BatchOwed
    BY ONLY <1>7, <2>1, GpuNames DEF BatchOwed, Keeps
  <2>3. Len(batches') <= Len(batches) + 1
    <3>1. batches \in Seq(GpuGuests \cup {NoThread}) /\ g \in GpuGuests \cup {NoThread}
          /\ NoThread \in GpuGuests \cup {NoThread}
      BY <1>13 DEF GpuTypeOK
    <3>2. batches' = Append(batches, NoThread) \/ batches' = Append(batches, g)
      BY <1>13 DEF SubmitBatch
    <3>3. QED
      BY ONLY <1>2, <3>1, <3>2, ListElements
  <2>4. Owing' \subseteq Owing
    BY ONLY <1>7, <2>1 DEF Owing, OwesSubmission, Keeps
  <2>5. Cardinality(Owing') <= Cardinality(Owing)
    BY <1>4, <2>4
  <2>6. QED
    BY ONLY <1>2, <1>3, <2>1, <2>2, <2>3, <2>5 DEF BoundInv
<1>14. ASSUME NEW g \in GpuGuests, Quiesce(g) PROVE BoundInv'
  <2>1. /\ Submitted' = Submitted /\ flushes' = flushes + 1 /\ batches' = batches
        /\ \A u \in GpuThreads : u # g => Keeps(u)
    BY <1>1, <1>8, <1>14, GpuNames DEF Quiesce, Proceeds, Keeps, locals
  <2>2. BatchOwed' = BatchOwed
    BY ONLY <1>7, <1>14, <2>1, GpuNames DEF BatchOwed, Keeps
  <2>3. Owing' \subseteq Owing \cup {g}
    BY ONLY <1>7, <2>1 DEF Owing, OwesSubmission, Keeps
  <2>4. Cardinality(Owing') <= Cardinality(Owing) + 1
    BY <1>5, <1>7, <1>14, <2>3
  <2>5. QED
    BY ONLY <1>2, <1>3, <2>1, <2>2, <2>4 DEF BoundInv
<1>15. ASSUME BoundKept PROVE BoundInv'
  <2>1. Owing' \subseteq Owing /\ BatchOwed' <= BatchOwed /\ batches' = batches /\ flushes' = flushes
    BY <1>15 DEF BoundKept
  <2>2. CASE Submitted' = Submitted
    <3>1. Cardinality(Owing') <= Cardinality(Owing)
      BY <1>4, <2>1
    <3>2. QED
      BY ONLY <1>2, <1>3, <2>1, <2>2, <3>1 DEF BoundInv
  <2>3. CASE Submitted' # Submitted
    <3>1. PICK t \in GpuThreads : Submit(t)
      BY <2>3, Monotone
    <3>2. Submitted' = Submitted + 1
      BY <3>1, SubmissionMade
    <3>3. t \in Owing /\ t \notin Owing'
      BY <3>1, OwesLess DEF ProcessorStep, Owing
    <3>4. Cardinality(Owing') + 1 <= Cardinality(Owing)
      <4>1. Owing' \subseteq Owing \ {t}
        BY ONLY <2>1, <3>3
      <4>2. QED
        BY <1>6, <3>3, <4>1
    <3>5. QED
      BY ONLY <1>2, <1>3, <2>1, <3>2, <3>4 DEF BoundInv
  <2>4. QED
    BY ONLY <2>2, <2>3
<1>16. QED
  BY <1>9, <1>10, <1>11, <1>12, <1>13, <1>14, <1>15, BoundSteps

----------------------------------------------------------------------------
(* Submissions: the invariant, and what follows from it                    *)

(* The queue after BufferInit records submission 1 and has nothing else.   *)
LEMMA SubmissionInitially ==
  ASSUME GpuInit
  PROVE  SubmissionInv
<1>1. /\ gate = NoThread /\ batches = <<>> /\ batch = NoThread /\ lock = NoThread
      /\ labelled = {} /\ fifo = <<>> /\ signalled = {} /\ entries = <<>> /\ published = 0
      /\ publisher = NoThread /\ fired = <<>> /\ objects = <<>> /\ completed = 0 /\ destroyed = {}
      /\ tracker = [s \in Ids |-> IF s = 1 THEN "Recording" ELSE "None"]
      /\ stage = [t \in GpuThreads |-> IF t = RingWorker THEN "get" ELSE "idle"]
      /\ op = [t \in GpuThreads |-> "none"] /\ back = [t \in GpuThreads |-> "idle"]
      /\ goal = [t \in GpuThreads |-> 0] /\ latest = [t \in GpuThreads |-> 0]
      /\ until = [t \in GpuThreads |-> 0] /\ flushes = 0
  BY DEF GpuInit, NoId
<1>2. 1 \in Ids /\ Ids \subseteq Nat \ {0} /\ SlotCount \in Nat \ {0, 1}
  BY GpuAssumption DEF Ids
<1>3. /\ \A t \in GpuThreads : /\ stage[t] = "get" \/ stage[t] = "idle"
                               /\ op[t] = "none" /\ back[t] = "idle" /\ latest[t] = 0
      /\ stage[RingWorker] = "get" /\ \A t \in GpuThreads : t # RingWorker => stage[t] = "idle"
  BY ONLY <1>1, GpuNames
<1>4. Submitted = 0 /\ Finished = 0 /\ ~Publishing /\ Len(fifo) = 0 /\ Len(fired) = 0 /\ Recording = {1}
  <2>1. Len(fifo) = 0 /\ Len(entries) = 0 /\ Len(fired) = 0
    BY ONLY <1>1
  <2>2. Recording = {1}
    BY ONLY <1>1, <1>2 DEF Recording
  <2>3. Submitted = 0 /\ Finished = 0
    BY ONLY <1>1, <2>1 DEF Submitted, Finished
  <2>4. QED
    BY ONLY <1>1, <2>1, <2>2, <2>3 DEF Publishing
<1>5. GpuTypeOK
  <2>1. stage \in [GpuThreads -> Stages] /\ back \in [GpuThreads -> Resumes] /\ op \in [GpuThreads -> Ops]
    BY ONLY <1>1, GpuPlaces, GpuOps
  <2>2. tracker \in [Ids -> TrackerStates]
    BY ONLY <1>1 DEF TrackerStates
  <2>3. flushes \in 0..MaxFlushes /\ peerCalls \in 0..MaxPeerCalls /\ scheduled \in 0..MaxObjects
    BY GpuAssumption DEF GpuInit
  <2>4. /\ goal \in [GpuThreads -> Ids \cup {NoId}] /\ latest \in [GpuThreads -> Ids \cup {NoId}]
        /\ until \in [GpuThreads -> Ids \cup {NoId}]
    BY ONLY <1>1 DEF NoId
  <2>5. idle \in BOOLEAN /\ completionPending \in BOOLEAN /\ deleting \in BOOLEAN
    BY DEF GpuInit
  <2>6. /\ batches \in Seq(GpuGuests \cup {NoThread}) /\ fifo \in Seq(Ids) /\ fired \in Seq(Ids)
        /\ objects \in Seq(Ids) /\ entries \in Seq([id : Ids, state : EntryStates])
    BY ONLY <1>1
  <2>7. QED
    BY ONLY <1>1, <2>1, <2>2, <2>3, <2>4, <2>5, <2>6 DEF GpuTypeOK, NoId
<1>6. OrderInv
  BY ONLY <1>1 DEF OrderInv
<1>7. TrackerInv
  <2>1. \A s \in Ids : /\ ~(0 < s /\ s <= 0) /\ ~(s <= 0)
                       /\ tracker[s] \in {"Recording", "None"} /\ (tracker[s] = "Recording" => s = 1)
    BY ONLY <1>1, <1>2
  <2>2. QED
    BY ONLY <1>1, <1>4, <2>1 DEF TrackerInv
<1>8. FiredInv
  <2>1. DOMAIN fired = {}
    BY ONLY <1>1
  <2>2. QED
    BY ONLY <1>1, <1>4, <2>1 DEF FiredInv
<1>9. LockInv
  <2>1. \A t \in GpuThreads : stage[t] \notin Inside
    BY ONLY <1>3 DEF Inside
  <2>2. \A t \in GpuThreads : HeldInv(t)
    BY ONLY <1>3 DEF HeldInv
  <2>3. QED
    BY ONLY <1>1, <1>2, <1>4, <2>1, <2>2, GpuNames DEF LockInv
<1>10. RoleInv
  <2>1. \A t \in GpuThreads : CallInv(t)
    BY ONLY <1>3, <1>4 DEF CallInv, ProcessorPcs, DrainPcs
  <2>2. WorkerRole /\ PeerRole /\ \A g \in GpuGuests : GuestRole(g)
    BY ONLY <1>3, GpuNames DEF WorkerRole, PeerRole, GuestRole, WorkerPcs, GuestPcs
  <2>3. QED
    BY ONLY <1>1, <2>1, <2>2 DEF RoleInv
<1>11. PublisherInv
  <2>1. \A t \in GpuThreads : ~Publishes(t) /\ stage[t] # "retire"
    BY ONLY <1>3 DEF Publishes, DrainPcs
  <2>2. QED
    BY ONLY <1>1, <1>4, <2>1, GpuNames DEF PublisherInv
<1>12. BoundInv
  <2>1. Owing = {}
    BY ONLY <1>3 DEF Owing, OwesSubmission
  <2>2. Cardinality(Owing) = 0 /\ Len(batches) = 0
    BY ONLY <1>1, <2>1, FS_EmptySet
  <2>3. BatchOwed = 0
    BY ONLY <1>3, GpuNames DEF BatchOwed
  <2>4. QED
    BY ONLY <1>1, <1>4, <2>2, <2>3 DEF BoundInv
<1>13. DrainInv
  BY ONLY <1>1, <1>3 DEF DrainInv, NoObjectStranded, HeadReady
<1>14. GateInv
  BY ONLY <1>1, <1>3, GpuNames DEF GateInv
<1>15. QED
  BY <1>5, <1>6, <1>7, <1>8, <1>9, <1>10, <1>11, <1>12, <1>13, <1>14 DEF SubmissionInv

(* A step that changes nothing keeps the invariant.                        *)
LEMMA SubmissionStutters ==
  ASSUME SubmissionInv, UNCHANGED gpuVars
  PROVE  SubmissionInv'
<1>1. UNCHANGED <<ring, lock, slots, publication, deletion, stage, locals, bounds>>
  BY DEF gpuVars
<1>2. /\ UNCHANGED <<gate, batches, batch, idle, completionPending, lock, tracker, labelled, fifo, signalled>>
      /\ UNCHANGED <<entries, published, publisher, fired, objects, completed, deleting, destroyed>>
      /\ UNCHANGED <<stage, op, goal, latest, until, back, flushes, peerCalls, scheduled>>
  BY ONLY <1>1 DEF ring, slots, publication, deletion, locals, bounds
<1>3. /\ Submitted' = Submitted /\ Finished' = Finished /\ (Publishing' <=> Publishing)
      /\ Recording' = Recording /\ Owing' = Owing /\ BatchOwed' = BatchOwed
  BY ONLY <1>2 DEF Submitted, Finished, Publishing, Recording, Owing, OwesSubmission, BatchOwed
<1>4. GpuTypeOK'
  BY ONLY <1>2, SubmissionInv DEF SubmissionInv, GpuTypeOK
<1>5. OrderInv' /\ TrackerInv' /\ FiredInv'
  BY ONLY <1>2, <1>3, SubmissionInv DEF SubmissionInv, OrderInv, TrackerInv, FiredInv
<1>6. LockInv'
  BY ONLY <1>2, <1>3, SubmissionInv DEF SubmissionInv, LockInv, HeldInv
<1>7. RoleInv'
  BY ONLY <1>2, <1>3, SubmissionInv DEF SubmissionInv, RoleInv, CallInv, WorkerRole, PeerRole, GuestRole
<1>8. PublisherInv'
  BY ONLY <1>2, <1>3, SubmissionInv DEF SubmissionInv, PublisherInv, Publishes
<1>9. BoundInv' /\ DrainInv' /\ GateInv'
  BY ONLY <1>2, <1>3, SubmissionInv DEF SubmissionInv, BoundInv, DrainInv, NoObjectStranded, HeadReady, GateInv
<1>10. QED
  BY <1>4, <1>5, <1>6, <1>7, <1>8, <1>9 DEF SubmissionInv

(* The inductive invariant of the submissions.                             *)
LEMMA SubmissionInvariance == GpuSpec => []SubmissionInv
<1>1. ASSUME SubmissionInv, GpuNext PROVE SubmissionInv'
  <2>1. GpuTypeOK'
    BY <1>1, GpuTypeStep DEF SubmissionInv
  <2>2. OrderInv' /\ TrackerInv'
    BY <1>1, OrderStep
  <2>3. LockInv' /\ BoundInv'
    BY <1>1, <2>1, <2>2, LockStep, BoundStep
  <2>4. FiredInv' /\ RoleInv' /\ PublisherInv' /\ DrainInv' /\ GateInv'
    BY <1>1, FiredStep, RoleStep, PublisherStep, DrainStep, GateStep
  <2>5. QED
    BY <2>1, <2>2, <2>3, <2>4 DEF SubmissionInv
<1>2. QED
  BY <1>1, SubmissionInitially, SubmissionStutters, PTL DEF GpuSpec

(* No require_submission_success and no require_publication_success ends   *)
(* the process: the slot recorded in is free, the publisher's entry is at  *)
(* the front, its submission is there to retire, and what a call waits for *)
(* is in the list or published (GraphicsRun.cpp).                          *)
THEOREM SubmissionsCorrect == GpuSpec => []SubmissionRequirements
<1>1. SubmissionInv => SubmissionRequirements
  <2> SUFFICES ASSUME SubmissionInv PROVE SubmissionRequirements
    OBVIOUS
  <2> USE DEF SubmissionInv
  <2>1. /\ Submitted \in Nat /\ Finished \in Nat /\ published \in Nat /\ Len(fifo) \in Nat /\ Len(entries) \in Nat
        /\ Finished + Len(fifo) = Submitted /\ published + Len(entries) = Submitted
        /\ published <= Finished /\ Finished <= Submitted
    BY Numbers DEF Submitted
  <2>2. DOMAIN fifo = 1 .. Len(fifo) /\ DOMAIN entries = 1 .. Len(entries)
        /\ \A i \in 1 .. Len(entries) : entries[i] \in [id : Ids, state : EntryStates]
    <3>1. fifo \in Seq(Ids) /\ entries \in Seq([id : Ids, state : EntryStates])
      BY DEF GpuTypeOK
    <3>2. QED
      BY ONLY <3>1, ListElements
  <2>3. /\ \A i \in DOMAIN entries : entries[i].id = published + i
        /\ \A i \in DOMAIN fifo : fifo[i] = Finished + i
    BY DEF OrderInv
  <2>4. ASSUME NEW t \in GpuThreads, stage[t] = "begin" PROVE ~SlotBusy(NextId)
    BY <2>4, SlotReuse DEF LockInv, HeldInv
  <2>5. ASSUME NEW t \in GpuThreads, stage[t] = "through" PROVE \E i \in DOMAIN fifo : fifo[i] = until[t]
    <3>1. Finished < until[t] /\ until[t] <= Submitted /\ until[t] \in Nat
      BY <2>5 DEF LockInv, HeldInv, GpuTypeOK, Ids, NoId
    <3>2. until[t] - Finished \in DOMAIN fifo /\ Finished + (until[t] - Finished) = until[t]
      BY ONLY <2>1, <2>2, <3>1
    <3>3. QED
      BY ONLY <2>3, <3>2
  <2>6. ASSUME NEW t \in GpuThreads, stage[t] = "mark"
        PROVE  entries # <<>> /\ Head(entries) = [id |-> until[t], state |-> "Publishing"]
    <3>1. until[t] = published + 1 /\ Publishing
      BY <2>6, GpuNames DEF PublisherInv, Publishes
    <3>2. entries # <<>> /\ Head(entries).state = "Publishing"
      BY ONLY <3>1 DEF Publishing
    <3>3. 1 \in DOMAIN entries /\ Head(entries) = entries[1]
      <4>1. entries \in Seq([id : Ids, state : EntryStates])
        BY DEF GpuTypeOK
      <4>2. QED
        BY ONLY <3>2, <4>1, ListElements
    <3>4. Head(entries).id = until[t] /\ Head(entries) \in [id : Ids, state : EntryStates]
      BY ONLY <2>2, <2>3, <3>1, <3>3
    <3>5. QED
      BY ONLY <3>2, <3>4
  <2>7. ASSUME NEW t \in GpuThreads, stage[t] = "retire" PROVE tracker[until[t]] = "Completed"
    BY <2>7 DEF PublisherInv
  <2>8. ASSUME NEW t \in GpuThreads, stage[t] = "await"
        PROVE  Awaited(t) <= published \/ \E i \in DOMAIN entries : entries[i].id = Awaited(t)
    <3>1. CallInv(t) /\ goal[t] \in Nat /\ latest[t] \in Nat
      BY DEF RoleInv, GpuTypeOK, Ids, NoId
    <3>2. Awaited(t) \in Nat /\ Awaited(t) <= Submitted
      BY ONLY <2>1, <2>8, <3>1 DEF CallInv, Awaited, NoId
    <3>3. CASE Awaited(t) > published
      <4>1. Awaited(t) - published \in DOMAIN entries /\ published + (Awaited(t) - published) = Awaited(t)
        BY ONLY <2>1, <2>2, <3>2, <3>3
      <4>2. QED
        BY ONLY <2>3, <4>1
    <3>4. CASE Awaited(t) <= published
      BY ONLY <3>4
    <3>5. QED
      BY ONLY <2>1, <3>2, <3>3, <3>4
  <2>9. QED
    BY <2>4, <2>5, <2>6, <2>7, <2>8 DEF SubmissionRequirements
<1>2. QED
  BY <1>1, SubmissionInvariance, PTL

(* The labels of every submission are fired once, in the order of          *)
(* submission and after its fence, and no object goes before the labels of *)
(* its last use (PublishCompletedSubmissions).                             *)
THEOREM LabelsCorrect == GpuSpec => []FiredInOrder
<1>1. SubmissionInv => FiredInOrder
  <2> SUFFICES ASSUME SubmissionInv PROVE FiredInOrder
    OBVIOUS
  <2> USE DEF SubmissionInv
  <2>1. /\ published \in Nat /\ Finished \in Nat /\ published <= Finished
        /\ (Publishing => published + 1 <= Finished)
    BY Numbers
  <2>2. /\ \A i \in DOMAIN fired : fired[i] = i
        /\ Len(fired) = IF Publishing THEN published + 1 ELSE published
        /\ completed <= Len(fired) /\ \A s \in destroyed : s <= completed
    BY DEF FiredInv
  <2>3. fired \in Seq(Ids) /\ completed \in Nat /\ destroyed \subseteq Nat
    BY DEF GpuTypeOK, Ids, NoId
  <2>4. Len(fired) \in Nat /\ DOMAIN fired = 1 .. Len(fired) /\ \A i \in 1 .. Len(fired) : fired[i] \in Ids
    BY ONLY <2>3, ListElements
  <2>5. \A i \in DOMAIN fired : i \in Ids /\ i <= Finished
    BY ONLY <2>1, <2>2, <2>4
  <2>6. \A i \in DOMAIN fired : i \in signalled
    BY <2>5 DEF TrackerInv
  <2>7. \A s \in destroyed : s <= Len(fired)
    BY ONLY <2>2, <2>3, <2>4
  <2>8. QED
    BY ONLY <2>2, <2>6, <2>7 DEF FiredInOrder
<1>2. QED
  BY <1>1, SubmissionInvariance, PTL

(* A thread that finds another one draining may return at once: what is    *)
(* ready is never left without a thread that drains or is about to         *)
(* (GpuDeferredDeletionQueue::DrainReady).                                 *)
THEOREM DrainCorrect == GpuSpec => []NoObjectStranded
<1>1. SubmissionInv => NoObjectStranded
  BY DEF SubmissionInv, DrainInv
<1>2. QED
  BY <1>1, SubmissionInvariance, PTL

----------------------------------------------------------------------------
(* Submissions: a graphics ring that is idle, and the quiesce              *)

(* The worker is decoding, or has still to submit what it decoded.         *)
Decoding ==
  \/ stage[RingWorker] = "decode" \/ back[RingWorker] = "decode"
  \/ op[RingWorker] = "flush" /\ stage[RingWorker] \in {"lock", "sweep", "submit"}

(* An idle ring has nothing queued and nothing being decoded, and a label  *)
(* that is not submitted is being decoded.                                 *)
IdleInv ==
  /\ idle => /\ batches = <<>> /\ stage[RingWorker] \in {"get", "sleep"}
             /\ stage[RingWorker] = "get" => ~completionPending
  /\ Recording \cap labelled # {} => Decoding

(* The peer waits for labels.                                              *)
LabelInv == op[Peer] # "none" => goal[Peer] \in labelled

Busy(g) == op[g] # "none" \/ stage[g] \in {"flushing", "quiesced"}
Submitting(g) == op[g] = "flush" /\ stage[g] \in {"lock", "sweep", "submit"}

(* The peer submits nothing, and waits for what has a label.               *)
PeerApart ==
  /\ stage[Peer] \notin {"reuse", "begin"}
  /\ stage[Peer] = "through" => until[Peer] = goal[Peer] /\ Recording # {}

(* The thread that quiesces finishes what is submitted last, and has it    *)
(* published before it goes on.                                            *)
LastInv(g) ==
  /\ op[g] = "flush" /\ Finished = Submitted => latest[g] = Submitted
  /\ (stage[g] = "flushing" \/ (op[g] = "drain" /\ stage[g] = "lock")) /\ Finished = Submitted =>
       published = Submitted
  /\ op[g] = "drain" /\ stage[g] = "through" => until[g] = Submitted
  /\ op[g] = "drain" /\ stage[g] \notin {"lock", "through"} =>
       Finished = Submitted /\ (latest[g] = Submitted \/ published = Submitted)
  /\ stage[g] = "quiesced" \/ op[g] = "enqueue" => published = Submitted

DrainedInv(g) == PeerApart /\ Submitted > 0 /\ Submitted \notin labelled /\ LastInv(g)

QuiesceInv(g) ==
  /\ Busy(g) => idle
  /\ Busy(g) /\ ~Submitting(g) => DrainedInv(g)

GraphicsInv == IdleInv /\ LabelInv /\ \A g \in GpuGuests : QuiesceInv(g)

(* What the worker is about when it is not inside a call.                  *)
LEMMA WorkerAtRest ==
  ASSUME SubmissionInv
  PROVE  /\ stage[RingWorker] \in WorkerPcs => op[RingWorker] = "none" /\ back[RingWorker] = "idle"
         /\ stage[RingWorker] \in {"get", "sleep"} => ~Decoding
<1>1. WorkerRole /\ CallInv(RingWorker)
  BY GpuNames DEF SubmissionInv, RoleInv
<1>2. stage[RingWorker] \in WorkerPcs => op[RingWorker] = "none" /\ back[RingWorker] = "idle"
  BY ONLY <1>1 DEF WorkerRole, CallInv, WorkerPcs, ProcessorPcs, DrainPcs
<1>3. {"get", "sleep"} \subseteq WorkerPcs
  BY DEF WorkerPcs
<1>4. QED
  BY ONLY <1>2, <1>3 DEF Decoding

(* The worker leaves what it decoded only by submitting it.                *)
LEMMA DecodingKept ==
  ASSUME SubmissionInv, GpuNext, Decoding
  PROVE  Decoding' \/ \E t \in GpuThreads : Submit(t)
<1>1. /\ stage \in [GpuThreads -> Stages] /\ op \in [GpuThreads -> Ops] /\ back \in [GpuThreads -> Resumes]
      /\ goal \in [GpuThreads -> Ids \cup {NoId}] /\ latest \in [GpuThreads -> Ids \cup {NoId}]
      /\ until \in [GpuThreads -> Ids \cup {NoId}]
  BY DEF SubmissionInv, GpuTypeOK
<1>2. Keeps(RingWorker) => Decoding'
  BY ONLY Decoding DEF Keeps, Decoding
<1>3. stage[RingWorker] \notin {"get", "sleep", "flushed", "ended"}
  BY ONLY WorkerAtRest, SubmissionInv, Decoding DEF Decoding, WorkerPcs
<1>4. ASSUME NEW t \in GpuThreads, ProcessorStep(t), ~Submit(t) PROVE Decoding'
  <2>1. OnlyMoves(t) /\ (GoesOn(t) \/ Returns(t))
    BY <1>4, CallSteps DEF SubmissionInv
  <2>2. CASE t # RingWorker
    BY <1>2, <2>1, <2>2, GpuNames DEF OnlyMoves
  <2>3. CASE t = RingWorker
    <3>1. op[t] = "flush" /\ stage[t] \in {"lock", "sweep", "submit"} => stage'[t] \in {"lock", "sweep", "submit"}
      BY ONLY <1>1, <1>4 DEF Submits, Proceeds, ProcessorStep, Lock, Sweep, Swept, Submit, Through, BeginRecording, Unlock, Acquire,
       AcquireNone, Complete, StartDrain, RunTask, EndDrain, MarkPublished, Retire, AwaitPublished
    <3>2. QED
      BY ONLY <2>1, <2>3, <3>1, Decoding DEF GoesOn, Returns, Decoding, ProcessorPcs, DrainPcs
  <2>4. QED
    BY ONLY <2>2, <2>3
<1>5. ASSUME HostQueue PROVE Decoding'
  BY ONLY <1>1, <1>2, <1>5, GpuNames DEF Keeps, Proceeds, locals, HostQueue, Signal
<1>6. ASSUME TakeBatch PROVE Decoding'
  BY ONLY <1>1, <1>2, <1>6, GpuNames DEF Decoding, Proceeds, locals, TakeBatch
<1>7. ASSUME IdlePump PROVE Decoding'
  BY ONLY <1>3, <1>7 DEF IdlePump
<1>8. ASSUME GoIdle PROVE Decoding'
  BY ONLY <1>3, <1>8 DEF GoIdle
<1>9. ASSUME WakeUp PROVE Decoding'
  BY ONLY <1>3, <1>9 DEF WakeUp
<1>10. ASSUME RecordLabel PROVE Decoding'
  BY ONLY <1>1, <1>2, <1>10, GpuNames DEF Decoding, Proceeds, locals, RecordLabel
<1>11. ASSUME SubmitRecorded PROVE Decoding'
  BY ONLY <1>1, <1>2, <1>11, GpuNames DEF Decoding, Proceeds, locals, SubmitRecorded, Begin
<1>12. ASSUME ScheduleUsed PROVE Decoding'
  BY ONLY <1>1, <1>2, <1>12, GpuNames DEF Decoding, Proceeds, locals, ScheduleUsed, Schedule
<1>13. ASSUME EndBatch PROVE Decoding'
  BY ONLY <1>1, <1>2, <1>13, GpuNames DEF Decoding, Proceeds, locals, EndBatch, Begin
<1>14. ASSUME Flushed PROVE Decoding'
  BY ONLY <1>3, <1>14 DEF Flushed
<1>15. ASSUME Ended PROVE Decoding'
  BY ONLY <1>3, <1>15 DEF Ended
<1>16. ASSUME PeerCall PROVE Decoding'
  BY ONLY <1>1, <1>2, <1>16, GpuNames DEF Keeps, Proceeds, locals, PeerCall, Begin
<1>17. ASSUME NEW g \in GpuGuests, SubmitBatch(g) PROVE Decoding'
  BY ONLY <1>1, <1>2, <1>17, GpuNames DEF Keeps, Proceeds, locals, SubmitBatch
<1>18. ASSUME NEW g \in GpuGuests, Quiesce(g) PROVE Decoding'
  BY ONLY <1>1, <1>2, <1>18, GpuNames DEF Keeps, Proceeds, locals, Quiesce
<1>19. ASSUME NEW g \in GpuGuests, FreeUsed(g) PROVE Decoding'
  BY ONLY <1>1, <1>2, <1>19, GpuNames DEF Keeps, Proceeds, locals, FreeUsed, Schedule
<1>20. ASSUME NEW g \in GpuGuests, SubmitAndWait(g) PROVE Decoding'
  BY ONLY <1>1, <1>2, <1>20, GpuNames DEF Keeps, Proceeds, locals, SubmitAndWait, Begin
<1>21. ASSUME NEW g \in GpuGuests, LeaveGate(g) PROVE Decoding'
  BY ONLY <1>1, <1>2, <1>21, GpuNames DEF Keeps, Proceeds, locals, LeaveGate
<1>22. QED
  BY ONLY GpuNames, GpuNext, <1>4, <1>5, <1>6, <1>7, <1>8, <1>9, <1>10, <1>11, <1>12, <1>13, <1>14, <1>15, <1>16, <1>17, <1>18, <1>19, <1>20, <1>21
     DEF GpuNext, Work, DecodeBatch, Proceed

(* Only the worker at rest makes the ring idle, and submitting a batch or  *)
(* taking one ends it.                                                     *)
LEMMA IdleSteps ==
  ASSUME SubmissionInv, Kind = "graphics", IdleInv, GpuNext, idle'
  PROVE  /\ batches' = <<>> /\ stage'[RingWorker] \in {"get", "sleep"}
         /\ stage'[RingWorker] = "get" => ~completionPending'
<1> DEFINE Goal == /\ batches' = <<>> /\ stage'[RingWorker] \in {"get", "sleep"}
                   /\ stage'[RingWorker] = "get" => ~completionPending'
<1>1. /\ stage \in [GpuThreads -> Stages] /\ op \in [GpuThreads -> Ops] /\ back \in [GpuThreads -> Resumes]
      /\ goal \in [GpuThreads -> Ids \cup {NoId}] /\ latest \in [GpuThreads -> Ids \cup {NoId}]
      /\ until \in [GpuThreads -> Ids \cup {NoId}]
  BY DEF SubmissionInv, GpuTypeOK
<1>2. idle => /\ batches = <<>> /\ stage[RingWorker] \in {"get", "sleep"}
              /\ stage[RingWorker] = "get" => ~completionPending
              /\ op[RingWorker] = "none"
  BY WorkerAtRest DEF IdleInv, WorkerPcs
<1>3. \A t \in GpuThreads : stage[t] \in ProcessorPcs \cup DrainPcs => op[t] # "none"
  BY DEF SubmissionInv, RoleInv, CallInv
<1>4. \A t \in GpuThreads : op[t] = "pump" => t = RingWorker
  BY DEF SubmissionInv, RoleInv, PeerRole, GuestRole, GpuThreads
<1>5. batch # NoThread => batch \in GpuGuests /\ stage[batch] = "decoding"
  BY DEF SubmissionInv, GpuTypeOK, GateInv
<1>6. ASSUME NEW t \in GpuThreads, ProcessorStep(t) PROVE Goal
  <2>1. idle' = idle /\ batches' = batches
    BY ONLY <1>6 DEF ProcessorStep, Lock, Sweep, Swept, Submit, Through, BeginRecording, Unlock, Acquire,
       AcquireNone, Complete, StartDrain, RunTask, EndDrain, MarkPublished, Retire, AwaitPublished, ring
  <2>2. OnlyMoves(t) /\ (GoesOn(t) \/ Returns(t))
    BY <1>6, CallSteps DEF SubmissionInv
  <2>3. t # RingWorker
    BY <1>2, <1>3, <2>1, <2>2, idle' DEF GoesOn, Returns
  <2>4. stage'[RingWorker] = stage[RingWorker]
    BY <2>2, <2>3, GpuNames DEF OnlyMoves, Keeps
  <2>5. completionPending' = completionPending
    <3>1. op[t] # "pump"
      BY ONLY <1>4, <2>3
    <3>2. QED
      BY ONLY <1>6, <3>1 DEF ProcessorStep, Lock, Sweep, Swept, Submit, Through, BeginRecording, Unlock, Acquire,
       AcquireNone, Complete, StartDrain, RunTask, EndDrain, MarkPublished, Retire, AwaitPublished, ring
  <2>6. QED
    BY ONLY <1>2, <2>1, <2>4, <2>5, idle'
<1>7. ASSUME HostQueue PROVE Goal
  BY ONLY <1>1, <1>2, <1>7, GpuNames, Kind = "graphics", idle' DEF Proceeds, locals, ring, HostQueue, Signal
<1>8. ASSUME TakeBatch PROVE Goal
  BY ONLY <1>1, <1>2, <1>8, GpuNames, Kind = "graphics", idle' DEF Proceeds, locals, ring, TakeBatch
<1>9. ASSUME IdlePump PROVE Goal
  BY ONLY <1>1, <1>2, <1>9, GpuNames, Kind = "graphics", idle' DEF Proceeds, locals, ring, IdlePump, Begin
<1>10. ASSUME GoIdle PROVE Goal
  BY ONLY <1>1, <1>2, <1>10, GpuNames, Kind = "graphics", idle' DEF Proceeds, locals, ring, GoIdle, AtRest
<1>11. ASSUME WakeUp PROVE Goal
  BY ONLY <1>1, <1>2, <1>11, GpuNames, Kind = "graphics", idle' DEF Proceeds, locals, ring, WakeUp
<1>12. ASSUME RecordLabel PROVE Goal
  BY ONLY <1>1, <1>2, <1>12, GpuNames, Kind = "graphics", idle' DEF Proceeds, locals, ring, RecordLabel
<1>13. ASSUME SubmitRecorded PROVE Goal
  BY ONLY <1>1, <1>2, <1>13, GpuNames, Kind = "graphics", idle' DEF Proceeds, locals, ring, SubmitRecorded, Begin
<1>14. ASSUME ScheduleUsed PROVE Goal
  BY ONLY <1>1, <1>2, <1>14, GpuNames, Kind = "graphics", idle' DEF Proceeds, locals, ring, ScheduleUsed, Schedule
<1>15. ASSUME EndBatch PROVE Goal
  BY ONLY <1>1, <1>2, <1>15, GpuNames, Kind = "graphics", idle' DEF Proceeds, locals, ring, EndBatch, Begin
<1>16. ASSUME Flushed PROVE Goal
  BY ONLY <1>1, <1>2, <1>16, GpuNames, Kind = "graphics", idle', <1>5 DEF Proceeds, locals, ring, Flushed
<1>17. ASSUME Ended PROVE Goal
  BY ONLY <1>1, <1>2, <1>17, GpuNames, Kind = "graphics", idle' DEF Proceeds, locals, ring, Ended
<1>18. ASSUME PeerCall PROVE Goal
  BY ONLY <1>1, <1>2, <1>18, GpuNames, Kind = "graphics", idle' DEF Proceeds, locals, ring, PeerCall, Begin
<1>19. ASSUME NEW g \in GpuGuests, SubmitBatch(g) PROVE Goal
  BY ONLY <1>1, <1>2, <1>19, GpuNames, Kind = "graphics", idle' DEF Proceeds, locals, ring, SubmitBatch, IdleAfterSubmit
<1>20. ASSUME NEW g \in GpuGuests, Quiesce(g) PROVE Goal
  BY ONLY <1>1, <1>2, <1>20, GpuNames, Kind = "graphics", idle' DEF Proceeds, locals, ring, Quiesce
<1>21. ASSUME NEW g \in GpuGuests, FreeUsed(g) PROVE Goal
  BY ONLY <1>1, <1>2, <1>21, GpuNames, Kind = "graphics", idle' DEF Proceeds, locals, ring, FreeUsed, Schedule
<1>22. ASSUME NEW g \in GpuGuests, SubmitAndWait(g) PROVE Goal
  BY ONLY <1>1, <1>2, <1>22, GpuNames, Kind = "graphics", idle' DEF Proceeds, locals, ring, SubmitAndWait, Begin
<1>23. ASSUME NEW g \in GpuGuests, LeaveGate(g) PROVE Goal
  BY ONLY <1>1, <1>2, <1>23, GpuNames, Kind = "graphics", idle' DEF Proceeds, locals, ring, LeaveGate
<1>24. QED
  BY ONLY GpuNames, GpuNext, <1>6, <1>7, <1>8, <1>9, <1>10, <1>11, <1>12, <1>13, <1>14, <1>15, <1>16, <1>17, <1>18, <1>19, <1>20, <1>21, <1>22, <1>23
     DEF GpuNext, Work, DecodeBatch, Proceed

(* m_idle is set only with an empty ring and an idle worker.               *)
LEMMA IdleStep ==
  ASSUME SubmissionInv, Kind = "graphics", IdleInv, GpuNext
  PROVE  IdleInv'
<1>1. idle' => /\ batches' = <<>> /\ stage'[RingWorker] \in {"get", "sleep"}
               /\ stage'[RingWorker] = "get" => ~completionPending'
  BY IdleSteps
<1>2. Recording' \cap labelled' # {} => Decoding'
  <2>1. CASE RecordLabel
    BY ONLY <2>1 DEF RecordLabel, Decoding
  <2>2. ASSUME NEW t \in GpuThreads, Submit(t) PROVE Recording' = {}
    BY <2>2, SubmissionMade DEF SubmissionInv
  <2>3. ASSUME NEW t \in GpuThreads, BeginRecording(t) PROVE Recording' \cap labelled' = {}
    <3>1. Recording = {} /\ labelled' = labelled
      BY <2>3 DEF BeginRecording, SubmissionInv, LockInv, HeldInv
    <3>2. \A s \in labelled : s <= Submitted
      BY ONLY <3>1, SubmissionInv DEF SubmissionInv, RoleInv
    <3>3. Submitted \in Nat /\ \A s \in Recording' : s = Submitted + 1
      BY <2>3, <3>1, Numbers, WithinBounds, RecordingBegun DEF SubmissionInv
    <3>4. QED
      BY ONLY <3>1, <3>2, <3>3
  <2>4. ASSUME ~RecordLabel, \A t \in GpuThreads : ~Submit(t) /\ ~BeginRecording(t)
        PROVE  Recording' = Recording /\ labelled' = labelled
    <3>1. ASSUME NEW t \in GpuThreads, Sweep(t) \/ Through(t) PROVE Recording' = Recording
      BY <3>1, FrontFinished DEF Sweep, Through, SubmissionInv
    <3>2. QED
      BY <2>4, <3>1, LabelFrame, CountSteps DEF CountsKept
  <2>5. ASSUME Recording \cap labelled # {}, \A t \in GpuThreads : ~Submit(t) PROVE Decoding'
    BY <2>5, DecodingKept DEF IdleInv
  <2>6. QED
    BY ONLY <2>1, <2>2, <2>3, <2>4, <2>5
<1>3. QED
  BY ONLY <1>1, <1>2 DEF IdleInv

(* The peer's goal has a label.                                            *)
LEMMA LabelStep ==
  ASSUME SubmissionInv, LabelInv, GpuNext
  PROVE  LabelInv'
<1> DEFINE Same == Keeps(Peer) \/ (op'[Peer] = op[Peer] /\ goal'[Peer] = goal[Peer]) \/ op'[Peer] = "none"
<1>1. /\ stage \in [GpuThreads -> Stages] /\ op \in [GpuThreads -> Ops] /\ back \in [GpuThreads -> Resumes]
      /\ goal \in [GpuThreads -> Ids \cup {NoId}] /\ latest \in [GpuThreads -> Ids \cup {NoId}]
      /\ until \in [GpuThreads -> Ids \cup {NoId}]
  BY DEF SubmissionInv, GpuTypeOK
<1>2. labelled \subseteq labelled'
  BY LabelFrame DEF RecordLabel
<1>3. batch # NoThread => batch \in GpuGuests
  BY DEF SubmissionInv, GpuTypeOK
<1>4. Same => LabelInv'
  BY ONLY <1>2, LabelInv DEF LabelInv, Keeps
<1>5. ASSUME NEW t \in GpuThreads, ProcessorStep(t) PROVE Same
  BY <1>5, CallSteps, GpuNames DEF SubmissionInv, OnlyMoves, GoesOn, Returns
<1>6. ASSUME PeerCall PROVE LabelInv'
  BY ONLY <1>1, <1>2, <1>6, GpuNames DEF PeerCall, Begin, LabelInv
<1>7. ASSUME HostQueue PROVE Same
  BY ONLY <1>1, <1>3, <1>7, GpuNames DEF Keeps, Proceeds, locals, HostQueue, Signal
<1>8. ASSUME TakeBatch PROVE Same
  BY ONLY <1>1, <1>3, <1>8, GpuNames DEF Keeps, Proceeds, locals, TakeBatch
<1>9. ASSUME IdlePump PROVE Same
  BY ONLY <1>1, <1>3, <1>9, GpuNames DEF Keeps, Proceeds, locals, IdlePump, Begin
<1>10. ASSUME GoIdle PROVE Same
  BY ONLY <1>1, <1>3, <1>10, GpuNames DEF Keeps, Proceeds, locals, GoIdle
<1>11. ASSUME WakeUp PROVE Same
  BY ONLY <1>1, <1>3, <1>11, GpuNames DEF Keeps, Proceeds, locals, WakeUp
<1>12. ASSUME RecordLabel PROVE Same
  BY ONLY <1>1, <1>3, <1>12, GpuNames DEF Keeps, Proceeds, locals, RecordLabel
<1>13. ASSUME SubmitRecorded PROVE Same
  BY ONLY <1>1, <1>3, <1>13, GpuNames DEF Keeps, Proceeds, locals, SubmitRecorded, Begin
<1>14. ASSUME ScheduleUsed PROVE Same
  BY ONLY <1>1, <1>3, <1>14, GpuNames DEF Keeps, Proceeds, locals, ScheduleUsed, Schedule
<1>15. ASSUME EndBatch PROVE Same
  BY ONLY <1>1, <1>3, <1>15, GpuNames DEF Keeps, Proceeds, locals, EndBatch, Begin
<1>16. ASSUME Flushed PROVE Same
  BY ONLY <1>1, <1>3, <1>16, GpuNames DEF Keeps, Proceeds, locals, Flushed
<1>17. ASSUME Ended PROVE Same
  BY ONLY <1>1, <1>3, <1>17, GpuNames DEF Keeps, Proceeds, locals, Ended
<1>18. ASSUME NEW g \in GpuGuests, SubmitBatch(g) PROVE Same
  BY ONLY <1>1, <1>3, <1>18, GpuNames DEF Keeps, Proceeds, locals, SubmitBatch
<1>19. ASSUME NEW g \in GpuGuests, Quiesce(g) PROVE Same
  BY ONLY <1>1, <1>3, <1>19, GpuNames DEF Keeps, Proceeds, locals, Quiesce
<1>20. ASSUME NEW g \in GpuGuests, FreeUsed(g) PROVE Same
  BY ONLY <1>1, <1>3, <1>20, GpuNames DEF Keeps, Proceeds, locals, FreeUsed, Schedule
<1>21. ASSUME NEW g \in GpuGuests, SubmitAndWait(g) PROVE Same
  BY ONLY <1>1, <1>3, <1>21, GpuNames DEF Keeps, Proceeds, locals, SubmitAndWait, Begin
<1>22. ASSUME NEW g \in GpuGuests, LeaveGate(g) PROVE Same
  BY ONLY <1>1, <1>3, <1>22, GpuNames DEF Keeps, Proceeds, locals, LeaveGate
<1>23. QED
  BY ONLY GpuNames, GpuNext, <1>4, <1>5, <1>6, <1>7, <1>8, <1>9, <1>10, <1>11, <1>12, <1>13, <1>14, <1>15, <1>16, <1>17, <1>18, <1>19, <1>20, <1>21, <1>22
     DEF GpuNext, Work, DecodeBatch, Proceed

(* While a guest is in a call behind the gate of an idle ring, only that   *)
(* guest, the peer and the host act.                                       *)
LEMMA QuietActors ==
  ASSUME SubmissionInv, Kind = "graphics", IdleInv, GpuNext, NEW g \in GpuGuests, Busy(g), idle
  PROVE  \/ HostQueue \/ GoIdle \/ PeerCall \/ ProcessorStep(Peer)
         \/ ProcessorStep(g) \/ SubmitAndWait(g) \/ FreeUsed(g) \/ LeaveGate(g)
<1>1. \A h \in GpuGuests : stage[h] \in ProcessorPcs \cup DrainPcs <=> op[h] # "none"
  BY GpuNames DEF SubmissionInv, RoleInv, CallInv
<1>2. stage[g] # "idle"
  BY ONLY <1>1, Busy(g) DEF Busy, ProcessorPcs, DrainPcs
<1>3. gate = g /\ g # NoThread /\ \A h \in GpuGuests : h # g => stage[h] = "idle" /\ op[h] = "none"
  <2>1. gate = g /\ \A h \in GpuGuests : h # g => stage[h] = "idle"
    BY <1>2 DEF SubmissionInv, GateInv
  <2>2. QED
    BY ONLY <1>1, <2>1, GpuNames DEF ProcessorPcs, DrainPcs
<1>4. /\ batches = <<>> /\ stage[RingWorker] \in {"get", "sleep"}
      /\ stage[RingWorker] = "get" => ~completionPending
  BY DEF IdleInv
<1>5. ASSUME NEW t \in GpuThreads, ProcessorStep(t) PROVE stage[t] \in ProcessorPcs \cup DrainPcs
  BY <1>5, CallSteps DEF SubmissionInv, GoesOn, Returns
<1>6. ~ProcessorStep(RingWorker)
  BY ONLY <1>4, <1>5, GpuNames DEF ProcessorPcs, DrainPcs
<1>7. ~Work \/ GoIdle
  BY ONLY <1>4, <1>6 DEF Work, TakeBatch, IdlePump, WakeUp, DecodeBatch, RecordLabel, SubmitRecorded,
     ScheduleUsed, EndBatch, Flushed, Ended
<1>8. ASSUME NEW h \in GpuGuests PROVE ~SubmitBatch(h) /\ ~Quiesce(h)
  BY ONLY <1>3 DEF SubmitBatch, Quiesce
<1>9. ASSUME NEW h \in GpuGuests, h # g PROVE ~FreeUsed(h) /\ ~SubmitAndWait(h) /\ ~LeaveGate(h) /\ ~ProcessorStep(h)
  <2>1. stage[h] = "idle"
    BY <1>3, <1>9
  <2>2. ~ProcessorStep(h)
    BY ONLY <1>5, <1>9, <2>1, GpuNames DEF ProcessorPcs, DrainPcs
  <2>3. QED
    BY ONLY <2>1, <2>2 DEF FreeUsed, SubmitAndWait, LeaveGate
<1>10. QED
  BY ONLY <1>7, <1>8, <1>9, GpuNext, GpuNames DEF GpuNext, Proceed

(* A guest begins to quiesce in one way.                                   *)
LEMMA QuiesceBegins ==
  ASSUME SubmissionInv, GpuNext, NEW g \in GpuGuests, ~Busy(g)
  PROVE  ~Busy(g)' \/ (SubmitAndWait(g) /\ stage[g] = "waitIdle")
<1> DEFINE Goal == ~Busy(g)' \/ (SubmitAndWait(g) /\ stage[g] = "waitIdle")
<1>1. /\ stage \in [GpuThreads -> Stages] /\ op \in [GpuThreads -> Ops] /\ back \in [GpuThreads -> Resumes]
      /\ goal \in [GpuThreads -> Ids \cup {NoId}] /\ latest \in [GpuThreads -> Ids \cup {NoId}]
      /\ until \in [GpuThreads -> Ids \cup {NoId}]
  BY DEF SubmissionInv, GpuTypeOK
<1>2. op[g] = "none" /\ stage[g] \notin {"flushing", "quiesced"}
      /\ stage[g] \notin ProcessorPcs \cup DrainPcs
  BY GpuNames DEF Busy, SubmissionInv, RoleInv, CallInv
<1>3. batch # NoThread => batch \in GpuGuests /\ stage[batch] = "decoding"
  BY DEF SubmissionInv, GpuTypeOK, GateInv
<1>4. Keeps(g) => Goal
  BY ONLY <1>2 DEF Keeps, Busy
<1>5. ASSUME NEW t \in GpuThreads, ProcessorStep(t) PROVE Goal
  <2>1. OnlyMoves(t) /\ (GoesOn(t) \/ Returns(t))
    BY <1>5, CallSteps DEF SubmissionInv
  <2>2. t # g
    BY ONLY <1>2, <2>1 DEF GoesOn, Returns
  <2>3. QED
    BY ONLY <1>4, <2>1, <2>2, GpuNames DEF OnlyMoves
<1>6. ASSUME HostQueue PROVE Goal
  BY ONLY <1>1, <1>2, <1>6, GpuNames DEF Busy, Proceeds, locals, HostQueue, Signal
<1>7. ASSUME TakeBatch PROVE Goal
  BY ONLY <1>1, <1>2, <1>7, GpuNames DEF Busy, Proceeds, locals, TakeBatch
<1>8. ASSUME IdlePump PROVE Goal
  BY ONLY <1>1, <1>2, <1>8, GpuNames DEF Busy, Proceeds, locals, IdlePump, Begin
<1>9. ASSUME GoIdle PROVE Goal
  BY ONLY <1>1, <1>2, <1>9, GpuNames DEF Busy, Proceeds, locals, GoIdle
<1>10. ASSUME WakeUp PROVE Goal
  BY ONLY <1>1, <1>2, <1>10, GpuNames DEF Busy, Proceeds, locals, WakeUp
<1>11. ASSUME RecordLabel PROVE Goal
  BY ONLY <1>1, <1>2, <1>11, GpuNames DEF Busy, Proceeds, locals, RecordLabel
<1>12. ASSUME SubmitRecorded PROVE Goal
  BY ONLY <1>1, <1>2, <1>12, GpuNames DEF Busy, Proceeds, locals, SubmitRecorded, Begin
<1>13. ASSUME ScheduleUsed PROVE Goal
  BY ONLY <1>1, <1>2, <1>13, GpuNames DEF Busy, Proceeds, locals, ScheduleUsed, Schedule
<1>14. ASSUME EndBatch PROVE Goal
  BY ONLY <1>1, <1>2, <1>14, GpuNames DEF Busy, Proceeds, locals, EndBatch, Begin
<1>15. ASSUME Flushed PROVE Goal
  BY ONLY <1>1, <1>2, <1>15, GpuNames, <1>3 DEF Busy, Proceeds, locals, Flushed
<1>16. ASSUME Ended PROVE Goal
  BY ONLY <1>1, <1>2, <1>16, GpuNames DEF Busy, Proceeds, locals, Ended
<1>17. ASSUME PeerCall PROVE Goal
  BY ONLY <1>1, <1>2, <1>17, GpuNames DEF Busy, Proceeds, locals, PeerCall, Begin
<1>18. ASSUME NEW h \in GpuGuests, SubmitBatch(h) PROVE Goal
  BY ONLY <1>1, <1>2, <1>18, GpuNames DEF Busy, Proceeds, locals, SubmitBatch
<1>19. ASSUME NEW h \in GpuGuests, Quiesce(h) PROVE Goal
  BY ONLY <1>1, <1>2, <1>19, GpuNames DEF Busy, Proceeds, locals, Quiesce
<1>20. ASSUME NEW h \in GpuGuests, FreeUsed(h) PROVE Goal
  BY ONLY <1>1, <1>2, <1>20, GpuNames DEF Busy, Proceeds, locals, FreeUsed, Schedule
<1>21. ASSUME NEW h \in GpuGuests, SubmitAndWait(h) PROVE Goal
  BY ONLY <1>1, <1>2, <1>21, GpuNames DEF Busy, Proceeds, locals, SubmitAndWait, Begin
<1>22. ASSUME NEW h \in GpuGuests, LeaveGate(h) PROVE Goal
  BY ONLY <1>1, <1>2, <1>22, GpuNames DEF Busy, Proceeds, locals, LeaveGate
<1>23. QED
  BY ONLY GpuNames, GpuNext, <1>5, <1>6, <1>7, <1>8, <1>9, <1>10, <1>11, <1>12, <1>13, <1>14, <1>15, <1>16, <1>17, <1>18, <1>19, <1>20, <1>21, <1>22
     DEF GpuNext, Work, DecodeBatch, Proceed

(* The peer's steps while a guest quiesces: it submits nothing, and it does *)
(* not finish what was submitted last.                                     *)
LEMMA PeerQuiet ==
  ASSUME SubmissionInv, IdleInv, LabelInv, GpuNext, NEW g \in GpuGuests, idle, Busy(g), ~Submitting(g),
         DrainedInv(g), ProcessorStep(Peer)
  PROVE  /\ Submitted' = Submitted /\ published' \in Nat /\ published <= published'
         /\ published' <= Submitted
         /\ Finished' = Finished \/ (Finished' # Submitted /\ Finished # Submitted)
         /\ stage'[Peer] \notin {"reuse", "begin"}
         /\ stage'[Peer] = "through" => until'[Peer] = goal'[Peer] /\ Recording' # {}
         /\ labelled' = labelled /\ idle' = idle /\ Keeps(g)
<1>1. /\ stage \in [GpuThreads -> Stages] /\ op \in [GpuThreads -> Ops] /\ back \in [GpuThreads -> Resumes]
      /\ goal \in [GpuThreads -> Ids \cup {NoId}] /\ latest \in [GpuThreads -> Ids \cup {NoId}]
      /\ until \in [GpuThreads -> Ids \cup {NoId}]
  BY DEF SubmissionInv, GpuTypeOK
<1>2. /\ Submitted \in Nat /\ Finished \in Nat /\ published \in Nat /\ published <= Finished
      /\ Finished <= Submitted
  BY Numbers DEF SubmissionInv
<1>3. Peer \in GpuThreads /\ Peer # g /\ Peer # RingWorker
  BY GpuNames
<1>4. CallInv(Peer) /\ HeldInv(Peer) /\ op[Peer] \in {"none", "wait", "device"}
      /\ (op[Peer] # "none" => goal[Peer] \in labelled) /\ back[Peer] = "idle"
  BY <1>3 DEF SubmissionInv, RoleInv, LockInv, PeerRole, LabelInv
<1>5. OnlyMoves(Peer) /\ (GoesOn(Peer) \/ Returns(Peer)) /\ Keeps(g)
  <2>1. OnlyMoves(Peer) /\ (GoesOn(Peer) \/ Returns(Peer))
    BY <1>3, CallSteps DEF SubmissionInv
  <2>2. QED
    BY ONLY <1>3, <2>1, GpuNames DEF OnlyMoves
<1>6. op[Peer] # "none" /\ stage[Peer] \in ProcessorPcs \cup DrainPcs
  BY ONLY <1>4, <1>5 DEF GoesOn, Returns, CallInv
<1>7. Recording \cap labelled = {}
  BY WorkerAtRest DEF IdleInv
<1>8. Recording = {} \/ Recording = {Submitted + 1}
  BY RecordingIsNext DEF SubmissionInv
<1>9. stage[Peer] \notin {"sweep", "submit", "reuse", "begin"} /\ goal[Peer] \notin Recording
  <2>1. stage[Peer] \in {"sweep", "submit"} => goal[Peer] = Submitted + 1 /\ Recording # {}
    BY ONLY <1>4, <1>6 DEF CallInv, HeldInv
  <2>2. goal[Peer] \notin Recording
    BY ONLY <1>4, <1>6, <1>7
  <2>3. QED
    BY ONLY <1>8, <2>1, <2>2, DrainedInv(g) DEF DrainedInv, PeerApart
<1>10. stage[Peer] = "through" => /\ until[Peer] = goal[Peer] /\ Recording # {} /\ Finished < until[Peer]
                                  /\ until[Peer] <= Submitted /\ until[Peer] # Submitted
  <2>1. Submitted \notin labelled /\ (stage[Peer] = "through" => until[Peer] = goal[Peer] /\ Recording # {})
    BY ONLY DrainedInv(g) DEF DrainedInv, PeerApart
  <2>2. QED
    BY ONLY <1>4, <1>6, <2>1 DEF HeldInv
<1>11. labelled' = labelled /\ idle' = idle
  BY ONLY ProcessorStep(Peer) DEF ProcessorStep, Lock, Sweep, Swept, Submit, Through, BeginRecording, Unlock, Acquire,
       AcquireNone, Complete, StartDrain, RunTask, EndDrain, MarkPublished, Retire, AwaitPublished, CompleteFront, ring, slots
<1>12. ~Submit(Peer) /\ ~Sweep(Peer) /\ ~Swept(Peer) /\ ~BeginRecording(Peer)
  BY ONLY <1>9 DEF Submit, Sweep, Swept, BeginRecording
<1>13. Submitted' = Submitted
  <2>1. ASSUME NEW t \in GpuThreads, Submit(t) PROVE t = Peer
    <3>1. stage[t] = "submit" /\ stage'[t] = "reuse"
      BY ONLY <1>1, <2>1 DEF Submit, Proceeds
    <3>2. QED
      BY ONLY <1>5, <2>1, <3>1 DEF OnlyMoves, Keeps
  <2>2. QED
    BY ONLY <1>12, <2>1, Monotone, SubmissionInv, GpuNext
<1>14. CASE Through(Peer)
  <2>1. /\ Finished' = Finished + 1 /\ published' = published /\ Recording' = Recording
        /\ Head(fifo) = Finished + 1
    BY <1>3, <1>14, FrontFinished DEF Through, SubmissionInv
  <2>2. stage[Peer] = "through"
    BY ONLY <1>14 DEF Through
  <2>3. Finished' # Submitted /\ Finished # Submitted
    <3>1. until[Peer] \in Nat
      BY <1>1, <1>3 DEF Ids, NoId
    <3>2. QED
      BY ONLY <1>2, <1>10, <2>1, <2>2, <3>1
  <2>4. stage'[Peer] \notin {"reuse", "begin"} /\ until' = until /\ goal' = goal
    BY ONLY <1>1, <1>3, <1>10, <1>14, <2>2 DEF Through, Proceeds
  <2>5. QED
    BY ONLY <1>2, <1>5, <1>10, <1>11, <1>13, <2>1, <2>2, <2>3, <2>4
<1>15. CASE Lock(Peer)
  <2>1. UNCHANGED <<published, entries, fifo, tracker>>
    BY ONLY <1>15 DEF Lock, slots, publication
  <2>2. Finished' = Finished /\ Recording' = Recording /\ published' = published
    BY ONLY <2>1 DEF Finished, Submitted, Recording
  <2>3. Recording # {}
    BY <1>15 DEF Lock, SubmissionInv, LockInv
  <2>4. stage'[Peer] \notin {"reuse", "begin"} /\ (stage'[Peer] = "through" => until'[Peer] = goal'[Peer])
    BY ONLY <1>1, <1>3, <1>4, <1>6, <1>15 DEF Lock, Proceeds
  <2>5. QED
    BY ONLY <1>2, <1>5, <1>11, <1>13, <2>2, <2>3, <2>4
<1>16. CASE MarkPublished(Peer)
  <2>1. tracker[published + 1] = "Completed" /\ published' = published + 1 /\ Finished' = Finished
        /\ published + 1 \in Ids
    BY <1>3, <1>16, EntryPublished DEF SubmissionInv
  <2>2. published + 1 <= Finished
    BY <2>1 DEF SubmissionInv, TrackerInv
  <2>3. stage'[Peer] = "retire"
    BY ONLY <1>1, <1>3, <1>16 DEF MarkPublished, Proceeds
  <2>4. QED
    BY ONLY <1>2, <1>5, <1>11, <1>13, <2>1, <2>2, <2>3
<1>17. CASE ~Through(Peer) /\ ~Lock(Peer) /\ ~MarkPublished(Peer)
  <2>1. UNCHANGED <<published, fifo>>
    BY ONLY <1>12, <1>17, ProcessorStep(Peer) DEF ProcessorStep, Lock, Sweep, Swept, Submit, Through, BeginRecording, Unlock, Acquire,
       AcquireNone, Complete, StartDrain, RunTask, EndDrain, MarkPublished, Retire, AwaitPublished, slots, publication
  <2>2. Finished' = Finished
    BY ONLY <1>13, <2>1 DEF Finished
  <2>3. stage'[Peer] \notin {"reuse", "begin", "through"}
    BY ONLY <1>1, <1>3, <1>4, <1>12, <1>17, ProcessorStep(Peer)
       DEF ProcessorStep, Lock, Sweep, Swept, Submit, Through, BeginRecording, Unlock, Acquire,
       AcquireNone, Complete, StartDrain, RunTask, EndDrain, MarkPublished, Retire, AwaitPublished, ThenDrain, AfterDrain, Return, Proceeds
  <2>4. QED
    BY ONLY <1>2, <1>5, <1>11, <1>13, <2>1, <2>2, <2>3
<1>18. QED
  BY ONLY <1>14, <1>15, <1>16, <1>17

(* The guest's own steps, from its submission on.                          *)
LEMMA LastKept ==
  ASSUME SubmissionInv, GpuNext, NEW g \in GpuGuests, op[g] # "none", ~Submitting(g), Submitted > 0, LastInv(g),
         ProcessorStep(g)
  PROVE  LastInv(g)' /\ Submitted' = Submitted
<1>1. /\ stage \in [GpuThreads -> Stages] /\ op \in [GpuThreads -> Ops] /\ back \in [GpuThreads -> Resumes]
      /\ goal \in [GpuThreads -> Ids \cup {NoId}] /\ latest \in [GpuThreads -> Ids \cup {NoId}]
      /\ until \in [GpuThreads -> Ids \cup {NoId}]
  BY DEF SubmissionInv, GpuTypeOK
<1>2. /\ Submitted \in Nat /\ Finished \in Nat /\ published \in Nat /\ published <= Finished
      /\ Finished <= Submitted /\ (fifo = <<>> => Finished = Submitted)
  BY Numbers DEF SubmissionInv
<1>3. g \in GpuThreads /\ CallInv(g) /\ HeldInv(g) /\ latest[g] \in Nat
      /\ <<op[g], back[g]>> \in {<<"flush", "flushing">>, <<"drain", "quiesced">>, <<"enqueue", "quiesced">>}
  <2>1. latest[g] \in Nat
    BY <1>1, GpuNames DEF Ids, NoId
  <2>2. CallInv(g) /\ HeldInv(g) /\ GuestRole(g)
    BY GpuNames DEF SubmissionInv, RoleInv, LockInv
  <2>3. QED
    BY ONLY <2>1, <2>2, op[g] # "none", GpuNames DEF GuestRole
<1>4. op[g] = "flush" => stage[g] \notin {"lock", "sweep", "submit"}
  BY ONLY ~Submitting(g) DEF Submitting
<1>5. /\ op[g] = "flush" /\ Finished = Submitted => latest[g] = Submitted
      /\ (stage[g] = "flushing" \/ (op[g] = "drain" /\ stage[g] = "lock")) /\ Finished = Submitted =>
           published = Submitted
      /\ op[g] = "drain" /\ stage[g] = "through" => until[g] = Submitted
      /\ op[g] = "drain" /\ stage[g] \notin {"lock", "through"} =>
           Finished = Submitted /\ (latest[g] = Submitted \/ published = Submitted)
      /\ stage[g] = "quiesced" \/ op[g] = "enqueue" => published = Submitted
  BY ONLY LastInv(g) DEF LastInv
<1>7. CASE Lock(g)
  <2>1. UNCHANGED <<published, entries, fifo, op, latest>> /\ stage[g] = "lock"
    BY ONLY <1>7 DEF Lock, slots, publication
  <2>2. Submitted' = Submitted /\ Finished' = Finished /\ published' = published
    BY ONLY <2>1 DEF Submitted, Finished
  <2>3. op[g] = "drain"
    BY ONLY <1>3, <1>4, <2>1 DEF CallInv, DrainPcs
  <2>4. fifo # <<>> => fifo[Len(fifo)] = Submitted
    <3>1. fifo \in Seq(Ids) /\ \A i \in DOMAIN fifo : fifo[i] = Finished + i
      BY DEF SubmissionInv, GpuTypeOK, OrderInv
    <3>2. fifo # <<>> => Len(fifo) \in DOMAIN fifo
      BY ONLY <3>1
    <3>3. Finished + Len(fifo) = Submitted
      BY Numbers DEF SubmissionInv
    <3>4. QED
      BY ONLY <3>1, <3>2, <3>3
  <2>5. \/ stage'[g] = "through" /\ until'[g] = Submitted
        \/ stage'[g] = "unlock" /\ fifo = <<>>
    BY ONLY <1>1, <1>3, <1>7, <2>3, <2>4 DEF Lock, Submits, Proceeds
  <2>6. QED
    BY ONLY <1>2, <1>5, <2>1, <2>2, <2>3, <2>5 DEF LastInv
<1>8. CASE Sweep(g)
  <2>1. stage[g] = "reuse" /\ op[g] = "flush" /\ op' = op /\ stage' = stage
    BY ONLY <1>3, <1>4, <1>8 DEF Sweep, CallInv, DrainPcs
  <2>2. Submitted' = Submitted /\ Finished' = Finished + 1 /\ latest' = [latest EXCEPT ![g] = Finished + 1]
    BY <1>3, <1>8, FrontFinished DEF Sweep, SubmissionInv
  <2>3. latest'[g] = Finished'
    BY ONLY <1>1, <1>3, <2>2
  <2>4. QED
    BY ONLY <2>1, <2>2, <2>3 DEF LastInv
<1>9. CASE Submit(g)
  BY ONLY <1>3, <1>4, <1>9 DEF Submit, CallInv, DrainPcs
<1>10. CASE Through(g)
  <2>1. Submitted' = Submitted /\ Finished' = Finished + 1 /\ latest' = [latest EXCEPT ![g] = Finished + 1]
        /\ Head(fifo) = Finished + 1
    BY <1>3, <1>10, FrontFinished DEF Through, SubmissionInv
  <2>2. latest'[g] = Finished'
    BY ONLY <1>1, <1>3, <2>1
  <2>3. stage[g] = "through" /\ op' = op /\ until' = until
    BY ONLY <1>10 DEF Through
  <2>4. CASE op[g] = "flush"
    <3>1. stage'[g] \notin {"flushing", "quiesced"}
      BY ONLY <1>1, <1>3, <1>10, <2>3 DEF Through, Proceeds
    <3>2. QED
      BY ONLY <2>1, <2>2, <2>3, <2>4, <3>1 DEF LastInv
  <2>5. CASE op[g] = "drain"
    <3>1. until[g] = Submitted /\ Recording # {}
      BY ONLY <1>3, <1>5, <2>3, <2>5 DEF HeldInv
    <3>2. \/ stage'[g] = "through"
          \/ stage'[g] = "unlock" /\ Finished' = Submitted
      BY ONLY <1>1, <1>3, <1>10, <2>1, <2>3, <3>1 DEF Through, Proceeds
    <3>3. QED
      BY ONLY <2>1, <2>2, <2>3, <2>5, <3>1, <3>2 DEF LastInv
  <2>6. QED
    BY ONLY <1>3, <2>3, <2>4, <2>5 DEF CallInv, DrainPcs
<1>11. CASE MarkPublished(g)
  <2>1. /\ tracker[published + 1] = "Completed" /\ published' = published + 1 /\ Finished' = Finished
        /\ published + 1 \in Ids /\ Submitted' = Submitted
    BY <1>3, <1>11, EntryPublished DEF SubmissionInv
  <2>2. published + 1 <= Finished
    BY <2>1 DEF SubmissionInv, TrackerInv
  <2>3. stage[g] = "mark" /\ stage'[g] = "retire" /\ op' = op /\ latest' = latest
    BY ONLY <1>1, <1>3, <1>11 DEF MarkPublished, Proceeds, locals
  <2>4. op[g] \in {"flush", "drain"}
    BY ONLY <1>3, <2>3 DEF CallInv, DrainPcs
  <2>5. published # Submitted
    BY ONLY <1>2, <2>2
  <2>6. QED
    BY ONLY <1>5, <2>1, <2>3, <2>4, <2>5 DEF LastInv
<1>12. ASSUME ~Submit(g), ~Sweep(g), ~Through(g), ~MarkPublished(g)
       PROVE  Submitted' = Submitted /\ Finished' = Finished /\ published' = published
  <2>1. published' = published
    BY ONLY <1>12, ProcessorStep(g) DEF ProcessorStep, Lock, Sweep, Swept, Submit, Through, BeginRecording, Unlock, Acquire,
       AcquireNone, Complete, StartDrain, RunTask, EndDrain, MarkPublished, Retire, AwaitPublished, slots, publication
  <2>2. fifo' = fifo
    BY ONLY <1>12, ProcessorStep(g) DEF ProcessorStep, Lock, Sweep, Swept, Submit, Through, BeginRecording, Unlock, Acquire,
       AcquireNone, Complete, StartDrain, RunTask, EndDrain, MarkPublished, Retire, AwaitPublished, slots, publication
  <2>3. \A t \in GpuThreads : ~Submit(t)
    <3>1. ASSUME NEW t \in GpuThreads, Submit(t) PROVE t = g
      <4>1. stage[t] = "submit" /\ stage'[t] = "reuse"
        BY ONLY <1>1, <3>1 DEF Submit, Proceeds
      <4>2. OnlyMoves(g)
        BY <1>3, CallSteps DEF SubmissionInv
      <4>3. QED
        BY ONLY <3>1, <4>1, <4>2 DEF OnlyMoves, Keeps
    <3>2. QED
      BY ONLY <1>12, <3>1
  <2>4. Submitted' = Submitted
    BY ONLY <2>3, Monotone, SubmissionInv, GpuNext
  <2>5. QED
    BY ONLY <2>1, <2>2, <2>4 DEF Finished
<1> DEFINE Same == Submitted' = Submitted /\ Finished' = Finished /\ published' = published
           Goal == Same => LastInv(g)'
<1> HIDE DEF Goal
<1>13. ASSUME Swept(g) PROVE Goal
  <2>1. /\ op' = op /\ latest'[g] = latest[g]
        /\ stage[g] \notin {"lock", "through", "flushing", "quiesced"}
        /\ stage'[g] \notin {"lock", "flushing", "quiesced"}
        /\ stage'[g] = "through" => op[g] = "flush"
    BY ONLY <1>1, <1>3, <1>13 DEF CallInv, DrainPcs, Proceeds, locals, Swept
  <2>2. QED
    BY ONLY <1>5, <2>1 DEF Goal, LastInv
<1>14. ASSUME BeginRecording(g) PROVE Goal
  <2>1. /\ op' = op /\ latest'[g] = latest[g]
        /\ stage[g] \notin {"lock", "through", "flushing", "quiesced"}
        /\ stage'[g] \notin {"lock", "flushing", "quiesced"}
        /\ stage'[g] = "through" => op[g] = "flush"
    BY ONLY <1>1, <1>3, <1>14 DEF CallInv, DrainPcs, Proceeds, locals, BeginRecording
  <2>2. QED
    BY ONLY <1>5, <2>1 DEF Goal, LastInv
<1>15. ASSUME Unlock(g) PROVE Goal
  <2>1. /\ op' = op /\ latest'[g] = latest[g]
        /\ stage[g] \notin {"lock", "through", "flushing", "quiesced"}
        /\ stage'[g] \notin {"lock", "flushing", "quiesced"}
        /\ stage'[g] = "through" => op[g] = "flush"
    BY ONLY <1>1, <1>3, <1>15 DEF CallInv, DrainPcs, Proceeds, locals, Unlock
  <2>2. QED
    BY ONLY <1>5, <2>1 DEF Goal, LastInv
<1>16. ASSUME Acquire(g) PROVE Goal
  <2>1. /\ op' = op /\ latest'[g] = latest[g]
        /\ stage[g] \notin {"lock", "through", "flushing", "quiesced"}
        /\ stage'[g] \notin {"lock", "flushing", "quiesced"}
        /\ stage'[g] = "through" => op[g] = "flush"
    BY ONLY <1>1, <1>3, <1>16 DEF CallInv, DrainPcs, Proceeds, locals, Acquire
  <2>2. QED
    BY ONLY <1>5, <2>1 DEF Goal, LastInv
<1>17. ASSUME AcquireNone(g) PROVE Goal
  <2>1. stage[g] = "acquire" /\ op[g] \in {"flush", "drain"}
    BY ONLY <1>3, <1>17 DEF AcquireNone, CallInv, DrainPcs
  <2>2. \/ latest[g] = 0 /\ stage'[g] = back[g] /\ op'[g] = "none"
        \/ stage'[g] = "await" /\ UNCHANGED locals
    BY ONLY <1>1, <1>3, <1>17, <2>1 DEF AcquireNone, Awaited, Return, Proceeds, NoId
  <2>3. QED
    BY ONLY <1>2, <1>3, <1>5, <2>1, <2>2, Submitted > 0 DEF Goal, LastInv, locals
<1>18. ASSUME Complete(g) PROVE Goal
  <2>1. /\ op' = op /\ latest'[g] = latest[g]
        /\ stage[g] \notin {"lock", "through", "flushing", "quiesced"}
        /\ stage'[g] \notin {"lock", "flushing", "quiesced"}
        /\ stage'[g] = "through" => op[g] = "flush"
    BY ONLY <1>1, <1>3, <1>18 DEF CallInv, DrainPcs, Proceeds, locals, Complete, ThenDrain
  <2>2. QED
    BY ONLY <1>5, <2>1 DEF Goal, LastInv
<1>19. ASSUME StartDrain(g) PROVE Goal
  <2>1. stage[g] = "ready"
    BY ONLY <1>19 DEF StartDrain
  <2>2. \/ op[g] = "enqueue" /\ stage'[g] = "quiesced" /\ op'[g] = "none"
        \/ stage'[g] \in {"mark", "task"} /\ UNCHANGED locals
    BY ONLY <1>1, <1>3, <1>19 DEF StartDrain, AfterDrain, Return, Proceeds
  <2>3. QED
    BY ONLY <1>5, <2>1, <2>2 DEF Goal, LastInv, locals
<1>20. ASSUME RunTask(g) PROVE Goal
  <2>1. /\ op' = op /\ latest'[g] = latest[g]
        /\ stage[g] \notin {"lock", "through", "flushing", "quiesced"}
        /\ stage'[g] \notin {"lock", "flushing", "quiesced"}
        /\ stage'[g] = "through" => op[g] = "flush"
    BY ONLY <1>1, <1>3, <1>20 DEF CallInv, DrainPcs, Proceeds, locals, RunTask
  <2>2. QED
    BY ONLY <1>5, <2>1 DEF Goal, LastInv
<1>21. ASSUME EndDrain(g) PROVE Goal
  <2>1. stage[g] = "task"
    BY ONLY <1>21 DEF EndDrain
  <2>2. \/ op[g] = "enqueue" /\ stage'[g] = "quiesced" /\ op'[g] = "none"
        \/ stage'[g] \in {"mark", "task"} /\ UNCHANGED locals
    BY ONLY <1>1, <1>3, <1>21 DEF EndDrain, AfterDrain, Return, Proceeds
  <2>3. QED
    BY ONLY <1>5, <2>1, <2>2 DEF Goal, LastInv, locals
<1>22. ASSUME Retire(g) PROVE Goal
  <2>1. /\ op' = op /\ latest'[g] = latest[g]
        /\ stage[g] \notin {"lock", "through", "flushing", "quiesced"}
        /\ stage'[g] \notin {"lock", "flushing", "quiesced"}
        /\ stage'[g] = "through" => op[g] = "flush"
    BY ONLY <1>1, <1>3, <1>22 DEF CallInv, DrainPcs, Proceeds, locals, Retire
  <2>2. QED
    BY ONLY <1>5, <2>1 DEF Goal, LastInv
<1>23. ASSUME AwaitPublished(g) PROVE Goal
  <2>1. stage[g] = "await" /\ op[g] \in {"flush", "drain"}
    BY ONLY <1>3, <1>23 DEF AwaitPublished, CallInv, DrainPcs
  <2>2. latest[g] <= published /\ stage'[g] = back[g] /\ op'[g] = "none"
    BY ONLY <1>1, <1>3, <1>23, <2>1 DEF AwaitPublished, Awaited, Return, Proceeds
  <2>3. QED
    BY ONLY <1>2, <1>3, <1>5, <2>1, <2>2 DEF Goal, LastInv
<1>24. ASSUME ~Lock(g), ~Submit(g), ~Sweep(g), ~Through(g), ~MarkPublished(g) PROVE Goal
  BY ONLY <1>24, ProcessorStep(g), <1>13, <1>14, <1>15, <1>16, <1>17, <1>18, <1>19, <1>20, <1>21, <1>22, <1>23 DEF ProcessorStep
<1>25. QED
  BY ONLY <1>7, <1>8, <1>9, <1>10, <1>11, <1>12, <1>24, Monotone, SubmissionInv, GpuNext DEF Goal

(* Every step keeps what a quiesce has come to.                            *)
LEMMA QuiesceStep ==
  ASSUME SubmissionInv, Kind = "graphics", GraphicsInv, GpuNext, NEW g \in GpuGuests
  PROVE  QuiesceInv(g)'
<1>1. /\ stage \in [GpuThreads -> Stages] /\ op \in [GpuThreads -> Ops] /\ back \in [GpuThreads -> Resumes]
      /\ goal \in [GpuThreads -> Ids \cup {NoId}] /\ latest \in [GpuThreads -> Ids \cup {NoId}]
      /\ until \in [GpuThreads -> Ids \cup {NoId}]
  BY DEF SubmissionInv, GpuTypeOK
<1>2. /\ Submitted \in Nat /\ Finished \in Nat /\ published \in Nat /\ published <= Finished
      /\ Finished <= Submitted /\ (published = Submitted => Finished = Submitted)
  <2>1. /\ Submitted \in Nat /\ Finished \in Nat /\ published \in Nat /\ published <= Finished
        /\ Finished <= Submitted
    BY Numbers DEF SubmissionInv
  <2>2. QED
    BY ONLY <2>1
<1>3. /\ g \in GpuThreads /\ Peer \in GpuThreads /\ RingWorker \in GpuThreads /\ Peer # g /\ RingWorker # g
      /\ RingWorker # Peer
  BY GpuNames
<1>4. IdleInv /\ LabelInv /\ (Busy(g) => idle) /\ (Busy(g) /\ ~Submitting(g) => DrainedInv(g))
  BY DEF GraphicsInv, QuiesceInv
<1>5. /\ stage[g] \in ProcessorPcs \cup DrainPcs <=> op[g] # "none"
      /\ CallInv(g) /\ HeldInv(g)
  BY <1>3 DEF SubmissionInv, RoleInv, CallInv, LockInv
<1>6. ASSUME Busy(g), ~Submitting(g), Keeps(g), idle', PeerApart', labelled' = labelled,
             Submitted' = Submitted, published' \in Nat, published <= published', published' <= Submitted,
             Finished' = Finished \/ (Finished' # Submitted /\ Finished # Submitted)
      PROVE  QuiesceInv(g)'
  <2>1. Submitted > 0 /\ Submitted \notin labelled /\ LastInv(g)
    BY ONLY <1>4, <1>6 DEF DrainedInv
  <2>2. published = Submitted => published' = Submitted
    BY ONLY <1>2, <1>6
  <2>3. LastInv(g)'
    BY ONLY <1>2, <1>6, <2>1, <2>2 DEF LastInv, Keeps
  <2>4. QED
    BY ONLY <1>6, <2>1, <2>3 DEF QuiesceInv, DrainedInv
<1>7. ASSUME Submitting(g)', idle' PROVE QuiesceInv(g)'
  BY ONLY <1>7 DEF QuiesceInv
<1>8. ASSUME Submitting(g), Keeps(g) PROVE Submitting(g)'
  BY ONLY <1>8 DEF Submitting, Keeps
<1>9. ASSUME PeerApart, Keeps(Peer) PROVE PeerApart'
  <2>1. ASSUME stage[Peer] = "through" PROVE Recording' = Recording
    <3>1. \A t \in GpuThreads : stage[t] \in Inside => t = Peer
      BY <1>3, <2>1 DEF SubmissionInv, LockInv, Inside
    <3>2. ASSUME NEW t \in GpuThreads PROVE ~Submit(t) /\ ~BeginRecording(t)
      BY ONLY <2>1, <3>1 DEF Submit, BeginRecording, Inside
    <3>3. ASSUME NEW t \in GpuThreads, Sweep(t) \/ Through(t) PROVE Recording' = Recording
      BY <3>3, FrontFinished DEF Sweep, Through, SubmissionInv
    <3>4. QED
      BY ONLY <3>2, <3>3, CountSteps, SubmissionInv, GpuNext DEF CountsKept
  <2>2. QED
    BY ONLY <1>9, <2>1 DEF PeerApart, Keeps
<1>10. CASE ~Busy(g)
  <2>1. CASE ~Busy(g)'
    BY ONLY <2>1 DEF QuiesceInv
  <2>2. CASE SubmitAndWait(g) /\ stage[g] = "waitIdle"
    <3>1. idle /\ idle' = idle
      BY ONLY <2>2 DEF SubmitAndWait, ring
    <3>2. Submitting(g)'
      BY ONLY <1>1, <1>3, <2>2 DEF SubmitAndWait, Begin, Proceeds, Submitting
    <3>3. QED
      BY ONLY <1>7, <3>1, <3>2
  <2>3. QED
    BY <1>10, <2>1, <2>2, QuiesceBegins
<1>11. ASSUME Busy(g), UNCHANGED <<publication, tracker, fifo, labelled>>
       PROVE  /\ idle /\ Submitted' = Submitted /\ Finished' = Finished /\ published' = published
              /\ labelled' = labelled /\ Recording' = Recording
  BY ONLY <1>4, <1>11 DEF Submitted, Finished, Recording, publication
<1>12. ASSUME Busy(g), HostQueue \/ GoIdle \/ PeerCall PROVE QuiesceInv(g)'
  <2>1. /\ Keeps(g) /\ idle' /\ published' = published /\ labelled' = labelled /\ Submitted' = Submitted
        /\ Finished' = Finished
    <3>1. Keeps(g)
      BY ONLY <1>1, <1>3, <1>12 DEF HostQueue, Signal, GoIdle, PeerCall, Begin, Proceeds, locals, Keeps
    <3>2. UNCHANGED <<publication, tracker, fifo, labelled>>
      BY ONLY <1>12 DEF HostQueue, Signal, GoIdle, PeerCall, slots, publication
    <3>3. idle'
      <4>1. idle' = idle \/ idle' = TRUE
        BY ONLY <1>12 DEF HostQueue, Signal, GoIdle, AtRest, PeerCall, ring
      <4>2. QED
        BY ONLY <1>4, <1>12, <4>1
    <3>4. QED
      BY <1>11, <1>12, <3>1, <3>2, <3>3
  <2>2. PeerApart => PeerApart'
    <3>1. Keeps(Peer) \/ stage'[Peer] = "lock"
      BY ONLY <1>1, <1>3, <1>12 DEF HostQueue, Signal, GoIdle, PeerCall, Begin, Proceeds, locals, Keeps
    <3>2. stage'[Peer] = "lock" => PeerApart'
      BY ONLY DEF PeerApart
    <3>3. QED
      BY ONLY <1>9, <3>1, <3>2
  <2>3. CASE Submitting(g)
    BY ONLY <1>7, <1>8, <2>1, <2>3
  <2>4. CASE ~Submitting(g)
    <3>1. PeerApart'
      BY ONLY <1>4, <1>12, <2>2, <2>4 DEF DrainedInv
    <3>2. published' \in Nat /\ published <= published' /\ published' <= Submitted
      BY ONLY <1>2, <2>1
    <3>3. QED
      BY ONLY <1>6, <1>12, <2>1, <2>4, <3>1, <3>2
  <2>5. QED
    BY ONLY <2>3, <2>4
<1>13. ASSUME Busy(g), ProcessorStep(Peer) PROVE QuiesceInv(g)'
  <2>1. CASE Submitting(g)
    <3>1. Keeps(g)
      BY <1>3, <1>13, CallSteps DEF SubmissionInv, OnlyMoves
    <3>2. idle' = idle
      BY ONLY <1>13 DEF ProcessorStep, Lock, Sweep, Swept, Submit, Through, BeginRecording, Unlock, Acquire,
       AcquireNone, Complete, StartDrain, RunTask, EndDrain, MarkPublished, Retire, AwaitPublished, ring
    <3>3. idle'
      BY ONLY <1>4, <1>13, <3>2
    <3>4. QED
      BY ONLY <1>7, <1>8, <2>1, <3>1, <3>3
  <2>2. CASE ~Submitting(g)
    <3>1. /\ Submitted' = Submitted /\ published' \in Nat /\ published <= published'
          /\ published' <= Submitted
          /\ Finished' = Finished \/ (Finished' # Submitted /\ Finished # Submitted)
          /\ stage'[Peer] \notin {"reuse", "begin"}
          /\ stage'[Peer] = "through" => until'[Peer] = goal'[Peer] /\ Recording' # {}
          /\ labelled' = labelled /\ idle' = idle /\ Keeps(g)
      BY <1>4, <1>13, <2>2, PeerQuiet
    <3>2. PeerApart'
      BY ONLY <3>1 DEF PeerApart
    <3>3. QED
      BY ONLY <1>4, <1>6, <1>13, <2>2, <3>1, <3>2
  <2>3. QED
    BY ONLY <2>1, <2>2
<1>14. ASSUME Busy(g), ProcessorStep(g) PROVE QuiesceInv(g)'
  <2>1. /\ idle' /\ labelled' = labelled
    <3>1. idle' = idle /\ labelled' = labelled
      BY ONLY <1>14 DEF ProcessorStep, Lock, Sweep, Swept, Submit, Through, BeginRecording, Unlock, Acquire,
       AcquireNone, Complete, StartDrain, RunTask, EndDrain, MarkPublished, Retire, AwaitPublished, CompleteFront, ring, slots
    <3>2. QED
      BY ONLY <1>4, <1>14, <3>1
  <2>2. op[g] # "none" /\ Keeps(Peer)
    BY <1>3, <1>5, <1>14, CallSteps DEF SubmissionInv, OnlyMoves, GoesOn, Returns
  <2>3. CASE Submitting(g) /\ ~Submit(g)
    <3>1. stage'[g] \in {"lock", "sweep", "submit"} /\ op' = op
      BY ONLY <1>1, <1>3, <1>14, <2>3 DEF Submitting, Submits, Proceeds, ProcessorStep, Lock, Sweep, Swept, Submit, Through, BeginRecording, Unlock, Acquire,
       AcquireNone, Complete, StartDrain, RunTask, EndDrain, MarkPublished, Retire, AwaitPublished
    <3>2. Submitting(g)'
      BY ONLY <2>3, <3>1 DEF Submitting
    <3>3. QED
      BY ONLY <1>7, <2>1, <3>2
  <2>4. CASE Submitting(g) /\ Submit(g)
    <3>1. /\ Recording = {Submitted + 1} /\ Submitted' = Submitted + 1 /\ Finished' = Finished
      BY <1>3, <2>4, SubmissionMade DEF SubmissionInv
    <3>2. Recording \cap labelled = {}
      BY <1>4, <1>14, WorkerAtRest DEF IdleInv
    <3>3. Submitted' \notin labelled' /\ Submitted' > 0 /\ Finished' # Submitted'
      BY ONLY <1>2, <2>1, <3>1, <3>2
    <3>4. PeerApart'
      <4>1. stage'[Peer] \notin Inside
        BY <1>3, <2>4, AloneInside DEF SubmissionInv
      <4>2. QED
        BY ONLY <4>1 DEF PeerApart, Inside
    <3>5. op'[g] = "flush" /\ stage'[g] = "reuse"
      BY ONLY <1>1, <1>3, <2>4 DEF Submitting, Submit, Proceeds, locals
    <3>6. LastInv(g)'
      BY ONLY <3>3, <3>5 DEF LastInv
    <3>7. QED
      BY ONLY <2>1, <3>3, <3>4, <3>6 DEF QuiesceInv, DrainedInv
  <2>5. CASE ~Submitting(g)
    <3>1. PeerApart /\ Submitted > 0 /\ Submitted \notin labelled /\ LastInv(g)
      BY ONLY <1>4, <1>14, <2>5 DEF DrainedInv
    <3>2. LastInv(g)' /\ Submitted' = Submitted
      BY <1>14, <2>2, <2>5, <3>1, LastKept
    <3>3. PeerApart'
      BY ONLY <1>9, <2>2, <3>1
    <3>4. QED
      BY ONLY <2>1, <3>1, <3>2, <3>3 DEF QuiesceInv, DrainedInv
  <2>6. QED
    BY ONLY <2>3, <2>4, <2>5
<1>15. ASSUME Busy(g), SubmitAndWait(g) \/ FreeUsed(g) \/ LeaveGate(g) PROVE QuiesceInv(g)'
  <2>1. stage[g] \in {"waitIdle", "flushing", "quiesced", "admitted"}
    BY ONLY <1>15 DEF SubmitAndWait, FreeUsed, LeaveGate
  <2>2. op[g] = "none" /\ stage[g] \in {"flushing", "quiesced"} /\ ~Submitting(g)
    <3>1. op[g] = "none"
      BY ONLY <1>5, <2>1 DEF ProcessorPcs, DrainPcs
    <3>2. QED
      BY ONLY <1>15, <2>1, <3>1 DEF Busy, Submitting
  <2>3. PeerApart /\ Submitted > 0 /\ Submitted \notin labelled /\ LastInv(g)
    BY ONLY <1>4, <1>15, <2>2 DEF DrainedInv
  <2>4. UNCHANGED <<publication, tracker, fifo, labelled>> /\ idle' = idle
    BY ONLY <1>15 DEF SubmitAndWait, FreeUsed, Schedule, LeaveGate, slots, ring
  <2>5. /\ idle /\ Submitted' = Submitted /\ Finished' = Finished /\ published' = published
        /\ labelled' = labelled
    BY <1>11, <1>15, <2>4
  <2>6. Keeps(Peer)
    BY ONLY <1>1, <1>3, <1>15 DEF SubmitAndWait, FreeUsed, Schedule, LeaveGate, Begin, Proceeds, locals, Keeps
  <2>7. PeerApart'
    BY ONLY <1>9, <2>3, <2>6
  <2>8. \/ stage[g] = "flushing" /\ stage'[g] = "lock" /\ op'[g] = "drain"
        \/ stage[g] = "quiesced" /\ stage'[g] = "ready" /\ op'[g] = "enqueue"
        \/ stage'[g] = "idle" /\ op'[g] = "none"
    BY ONLY <1>1, <1>3, <1>15, <2>2 DEF SubmitAndWait, FreeUsed, Schedule, LeaveGate, Begin, Proceeds, locals
  <2>9. LastInv(g)'
    BY ONLY <2>3, <2>5, <2>8 DEF LastInv
  <2>10. QED
    BY ONLY <2>3, <2>4, <2>5, <2>7, <2>9 DEF QuiesceInv, DrainedInv
<1>16. QED
  BY <1>4, <1>10, <1>12, <1>13, <1>14, <1>15, QuietActors

(* At first nothing is submitted and nobody quiesces.                      *)
LEMMA GraphicsInitially ==
  ASSUME GpuInit
  PROVE  GraphicsInv
<1>1. /\ stage = [t \in GpuThreads |-> IF t = RingWorker THEN "get" ELSE "idle"]
      /\ op = [t \in GpuThreads |-> "none"] /\ batches = <<>> /\ completionPending = FALSE /\ labelled = {}
  BY DEF GpuInit
<1>2. /\ stage[RingWorker] = "get" /\ \A t \in GpuThreads : op[t] = "none"
      /\ \A g \in GpuGuests : stage[g] = "idle"
  BY ONLY <1>1, GpuNames
<1>3. IdleInv /\ LabelInv
  BY ONLY <1>1, <1>2, GpuNames DEF IdleInv, LabelInv
<1>4. \A g \in GpuGuests : QuiesceInv(g)
  BY ONLY <1>2, GpuNames DEF QuiesceInv, Busy
<1>5. QED
  BY ONLY <1>3, <1>4 DEF GraphicsInv

(* A step that changes nothing keeps the invariant.                        *)
LEMMA GraphicsStutters ==
  ASSUME GraphicsInv, UNCHANGED gpuVars
  PROVE  GraphicsInv'
<1>1. UNCHANGED <<ring, slots, publication, stage, locals>>
  BY DEF gpuVars
<1>2. /\ UNCHANGED <<batches, idle, completionPending, tracker, labelled, fifo, entries, published>>
      /\ UNCHANGED <<stage, op, goal, latest, until, back>>
  BY ONLY <1>1 DEF ring, slots, publication, locals
<1>3. Submitted' = Submitted /\ Finished' = Finished /\ Recording' = Recording
  BY ONLY <1>2 DEF Submitted, Finished, Recording
<1>4. IdleInv' /\ LabelInv'
  BY ONLY <1>2, <1>3, GraphicsInv DEF GraphicsInv, IdleInv, Decoding, LabelInv
<1>5. \A g \in GpuGuests : QuiesceInv(g)'
  <2>1. \A g \in GpuGuests : QuiesceInv(g)
    BY DEF GraphicsInv
  <2>2. QED
    BY ONLY <1>2, <1>3, <2>1 DEF QuiesceInv, Busy, Submitting, DrainedInv, PeerApart, LastInv
<1>6. QED
  BY ONLY <1>4, <1>5 DEF GraphicsInv

(* The invariant of a graphics ring, on top of the one of the submissions. *)
LEMMA GraphicsInvariance == Kind = "graphics" /\ GpuSpec => []GraphicsInv
<1>1. ASSUME Kind = "graphics" PROVE GpuSpec => []GraphicsInv
  <2>1. ASSUME SubmissionInv, GraphicsInv, GpuNext PROVE GraphicsInv'
    <3>1. IdleInv' /\ LabelInv'
      BY <1>1, <2>1, IdleStep, LabelStep DEF GraphicsInv
    <3>2. \A g \in GpuGuests : QuiesceInv(g)'
      BY <1>1, <2>1, QuiesceStep
    <3>3. QED
      BY ONLY <3>1, <3>2 DEF GraphicsInv
  <2>2. QED
    BY <2>1, SubmissionInvariance, GraphicsInitially, GraphicsStutters, PTL DEF GpuSpec
<1>2. QED
  BY <1>1

(* What RunQuiesced runs on a graphics ring finds the queue drained: no    *)
(* batch, no decoding, nothing submitted that is not published, no label   *)
(* recorded (Gpu::WaitLocked).  For a compute ring it is false.            *)
THEOREM QuiesceCorrect == Kind = "graphics" /\ GpuSpec => []QuiescedMeansDrained
<1>1. SubmissionInv /\ GraphicsInv => QuiescedMeansDrained
  <2> SUFFICES ASSUME SubmissionInv, GraphicsInv, NEW g \in GpuGuests, stage[g] = "quiesced"
               PROVE  /\ batches = <<>> /\ stage[RingWorker] \in {"get", "sleep"}
                      /\ fifo = <<>> /\ entries = <<>>
                      /\ Recording \cap labelled = {}
    BY DEF QuiescedMeansDrained, AtPc
  <2>1. IdleInv /\ QuiesceInv(g)
    BY DEF GraphicsInv
  <2>2. op[g] = "none"
    BY GpuNames DEF SubmissionInv, RoleInv, CallInv, ProcessorPcs, DrainPcs
  <2>3. idle /\ published = Submitted
    BY ONLY <2>1, <2>2, stage[g] = "quiesced" DEF QuiesceInv, Busy, Submitting, DrainedInv, LastInv
  <2>4. batches = <<>> /\ stage[RingWorker] \in {"get", "sleep"} /\ Recording \cap labelled = {}
    BY <2>1, <2>3, WorkerAtRest DEF IdleInv
  <2>5. fifo = <<>> /\ entries = <<>>
    <3>1. /\ Submitted \in Nat /\ Finished \in Nat /\ published <= Finished /\ Finished <= Submitted
          /\ (entries # <<>> <=> published < Submitted) /\ (fifo # <<>> <=> Finished < Submitted)
      BY Numbers DEF SubmissionInv
    <3>2. QED
      BY ONLY <2>3, <3>1
  <2>6. QED
    BY ONLY <2>4, <2>5
<1>2. QED
  BY <1>1, GraphicsInvariance, SubmissionInvariance, PTL
=============================================================================
