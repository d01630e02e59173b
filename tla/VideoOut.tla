------------------------------ MODULE VideoOut ------------------------------
(***************************************************************************)
(* The video-out port (VideoOut.cpp) and its four gates: what guest        *)
(* threads do to the port, the flips the GPU's worker hands it, the        *)
(* presenter's loop, and the two transactions that need all of it quiet,   *)
(* closing the port and unmapping memory with display buffers in it.       *)
(*                                                                         *)
(* There is one port (VIDEO_OUT_NUM_MAX counts slot 0).  A step is a       *)
(* critical section of VideoOutContext::m_mutex, of the flip queue's mutex *)
(* or of a gate's; a pin that dies with a call is given back in the call's *)
(* last step.  Both transactions run inside GraphicsRunWithQuiesced-       *)
(* Submissions: GpuSubmission models the drain, here the GPU is a stream   *)
(* of flips.                                                               *)
(***************************************************************************)
EXTENDS Naturals, Sequences, FiniteSets

CONSTANTS Guests,           \* guest threads
          Flipper, Closer,  \* the one that flips, the one that opens, closes and unmaps
          Worker,           \* the GPU's worker
          Slots, Blank,     \* buffer indices, SCE_VIDEO_OUT_BUFFER_INDEX_BLANK
          Addresses,        \* guest addresses of display buffers
          MaxSessions, MaxRegistrations,  \* bounds: openings; registrations in one
          MaxStream,        \* bound: flips in the GPU
          FollowRaces,      \* bound: does anything begin once `raced` is set?
          Nobody

ASSUME VideoOutAssumption ==
  /\ IsFiniteSet(Guests) /\ {Flipper, Closer} \subseteq Guests /\ Worker \notin Guests
  /\ Nobody \notin Guests \cup Addresses /\ Blank \notin Slots
  /\ MaxSessions \in Nat /\ MaxRegistrations \in Nat /\ MaxStream \in Nat
  /\ FollowRaces \in BOOLEAN

VARIABLES
  opened, closing, session,  \* of the port; session is session_generation
  sequence, buffers, reserved,  \* registration_sequence, buffers and their reservations
  quiescing, draining,       \* VideoOutHostAccessGate
  accesses, progress,        \* its pins: m_active_accesses, m_active_progress
  registering, registrar,    \* pins of m_registration_gate; m_registration_mutex
  requests,                  \* FlipQueue::m_requests
  admitted,                  \* m_active of the admission gate
  accepted,                  \* active_flips of the lifecycle gate
  gpuQueued, pending,        \* flip_pending; the flipPendingNum the guest reads
  presenter,                 \* [at, request]
  submission,                \* holder of the GPU's admission gate
  stream, decoded,           \* flips submitted; flips decoded and not yet fired
  worker,                    \* [at, request]
  pc, slot, address,         \* per guest thread: its call and its arguments
  sawIdle,                   \* the flipper has read flipPendingNum 0 since it flipped
  misled,                    \* history: there was a flip in its command stream then
  raced                      \* history: it has removed a buffer though misled, or a
                             \* registration has met an unfinished removal

port == <<opened, closing, session, sequence, buffers, reserved>>
access == <<quiescing, draining, accesses, progress>>
registration == <<registering, registrar>>
queue == <<requests, admitted, accepted, gpuQueued, pending>>
gpu == <<submission, stream, decoded, worker>>
calls == <<pc, slot, address, sawIdle, misled, raced>>
vars == <<port, access, registration, queue, presenter, gpu, calls>>

Capacity == 2
NoBuffer == [address |-> Nobody, registration |-> 0]
Indices == Slots \cup {Blank}
Request == [index: Indices, session: 0..MaxSessions, registration: 0..MaxRegistrations]
NoRequest == [index |-> Blank, session |-> 0, registration |-> 0]
CallPcs == {"open", "submit", "pending", "unregister", "unregistered",
            "reserve", "order", "recheck", "commit"}
(* Of a transaction, in order; one with an address is an unmap, one        *)
(* without is a Close.                                                     *)
TransactionPcs == {"gpu", "drain", "accesses", "mark", "flips", "registrations", "finish",
                   "progress", "shut", "images", "clear", "action"}

TypeOK ==
  /\ opened \in BOOLEAN /\ closing \in BOOLEAN /\ session \in 0..MaxSessions
  /\ sequence \in 0..MaxRegistrations /\ reserved \in SUBSET Slots
  /\ buffers \in [Slots -> [address: Addresses \cup {Nobody}, registration: 0..MaxRegistrations]]
  /\ quiescing \in BOOLEAN /\ draining \in BOOLEAN
  /\ accesses \in SUBSET (Guests \cup {Worker}) /\ progress \in BOOLEAN
  /\ registering \in SUBSET Guests /\ registrar \in Guests \cup {Nobody}
  /\ requests \in Seq(Request) /\ Len(requests) <= admitted /\ admitted \in 0..Capacity
  /\ accepted \in Nat /\ gpuQueued \in Nat /\ pending \in Nat
  /\ presenter \in [at: {"vblank", "vblankEvents", "flip", "present", "draw", "publish",
                         "remove", "release"}, request: Request]
  /\ submission \in Guests \cup {Nobody} /\ stream \in Seq(Indices) /\ decoded \in Seq(Indices)
  /\ worker \in [at: {"idle", "reserve", "admit", "enqueue"}, request: Request]
  /\ pc \in [Guests -> {"idle", "decoding"} \cup CallPcs \cup TransactionPcs]
  /\ slot \in [Guests -> Indices] /\ address \in [Guests -> Addresses \cup {Nobody}]
  /\ sawIdle \in BOOLEAN /\ misled \in BOOLEAN /\ raced \in BOOLEAN

Init ==
  /\ opened = FALSE /\ closing = FALSE /\ session = 0
  /\ sequence = 0 /\ buffers = [i \in Slots |-> NoBuffer] /\ reserved = {}
  /\ quiescing = FALSE /\ draining = FALSE /\ accesses = {} /\ progress = FALSE
  /\ registering = {} /\ registrar = Nobody
  /\ requests = <<>> /\ admitted = 0 /\ accepted = 0 /\ gpuQueued = 0 /\ pending = 0
  /\ presenter = [at |-> "vblank", request |-> NoRequest]
  /\ submission = Nobody /\ stream = <<>> /\ decoded = <<>>
  /\ worker = [at |-> "idle", request |-> NoRequest]
  /\ pc = [t \in Guests |-> "idle"] /\ slot = [t \in Guests |-> Blank]
  /\ address = [t \in Guests |-> Nobody] /\ sawIdle = FALSE
  /\ misled = FALSE /\ raced = FALSE

GoTo(t, place) == pc' = [pc EXCEPT ![t] = place]

(* A call's end: its arguments die and its access pin is given back.       *)
Leave(t) ==
  /\ GoTo(t, "idle")
  /\ slot' = [slot EXCEPT ![t] = Blank] /\ address' = [address EXCEPT ![t] = Nobody]
  /\ accesses' = accesses \ {t}

Usable == opened /\ ~closing

(* IsFlippableIndexLocked, FlipIdentityLocked *)
Flippable(i) == i \in Slots => i \notin reserved /\ buffers[i].address # Nobody
RequestFor(i) == [index |-> i, session |-> session,
                  registration |-> IF i = Blank THEN 0 ELSE buffers[i].registration]

(* CaptureRegisteredImageLocked with an accepted identity, which a port    *)
(* that is closing still honours; RegisteredImageMatchesLocked.            *)
Accessible(r) ==
  r.index \in Slots => opened /\ Flippable(r.index) /\ RequestFor(r.index) = r

----------------------------------------------------------------------------
(* Guest calls.  Enter is VideoOutHostAccessGate::Acquire.                 *)

(* May a call begin?  Mutant: it looks at the drain only, which ends       *)
(* before the transaction does.                                            *)
NoDrain == ~draining
MayEnter == ~quiescing

(* What follows a race is left to the calls under way, unless FollowRaces. *)
MayBegin == raced => FollowRaces

Enter(t, call, i, a) ==
  /\ pc[t] = "idle" /\ MayEnter /\ MayBegin
  /\ call \in {"submit", "pending", "unregister"} => t = Flipper
  /\ call = "open" => t = Closer /\ session < MaxSessions
  /\ call = "reserve" => sequence + Cardinality({u \in Guests : address[u] # Nobody}) < MaxRegistrations
  /\ call = "pending" => ~sawIdle
  /\ call = "unregister" => sawIdle
  /\ i # Blank <=> call \in {"unregister", "reserve"} \/ (call = "submit" /\ i \in Slots)
  /\ a # Nobody <=> call = "reserve"
  /\ GoTo(t, call)
  /\ slot' = [slot EXCEPT ![t] = i] /\ address' = [address EXCEPT ![t] = a]
  /\ accesses' = accesses \cup {t}
  /\ UNCHANGED <<port, quiescing, draining, progress, registration, queue, presenter, gpu, sawIdle, misled, raced>>

Open(t) ==
  /\ pc[t] = "open"
  /\ IF ~opened /\ ~closing
       THEN /\ opened' = TRUE /\ session' = session + 1
            /\ sequence' = 0 /\ pending' = 0
       ELSE UNCHANGED <<opened, session, sequence, pending>>
  /\ Leave(t)
  /\ UNCHANGED <<closing, buffers, reserved, quiescing, draining, progress, registration,
                 requests, admitted, accepted, gpuQueued, presenter, gpu, sawIdle, misled, raced>>

(* FlipQueue::PublishPendingLocked.  Mutant: the flips still in the GPU    *)
(* are not counted.                                                        *)
QueuedOnly(queued, inGpu) == queued
FlipPendingNum(queued, inGpu) == queued + inGpu

SubmitFlip(t) ==
  /\ pc[t] = "submit"
  /\ IF Usable /\ Flippable(slot[t]) /\ admitted < Capacity
       THEN /\ requests' = Append(requests, RequestFor(slot[t]))
            /\ admitted' = admitted + 1 /\ accepted' = accepted + 1
            /\ pending' = FlipPendingNum(Len(requests'), gpuQueued)
       ELSE UNCHANGED <<requests, admitted, accepted, pending>>
  /\ sawIdle' = (sawIdle /\ slot[t] = Blank) /\ misled' = (misled /\ slot[t] = Blank)
  /\ Leave(t)
  /\ UNCHANGED <<port, quiescing, draining, progress, registration, gpuQueued, presenter, gpu, raced>>

IsFlipPending(t) ==
  /\ pc[t] = "pending"
  /\ sawIdle' = (Usable /\ pending = 0)
  /\ misled' = (sawIdle' /\ stream # <<>>)
  /\ Leave(t)
  /\ UNCHANGED <<port, quiescing, draining, progress, registration, queue, presenter, gpu, raced>>

(* VideoOutUnregisterBuffers, by a guest that has waited until no flip was *)
(* pending.  It does not hold m_mutex, under which all others look at the  *)
(* buffers: one may be met with half of its fields cleared.                *)
Unregister(t) ==
  /\ pc[t] = "unregister"
  /\ IF Usable /\ buffers[slot[t]].address # Nobody
       THEN /\ \/ buffers' = [buffers EXCEPT ![slot[t]].address = Nobody]
               \/ buffers' = [buffers EXCEPT ![slot[t]].registration = 0]
            /\ raced' = (raced \/ misled)
            /\ GoTo(t, "unregistered") /\ UNCHANGED <<slot, address, accesses>>
       ELSE Leave(t) /\ UNCHANGED <<buffers, raced>>
  /\ UNCHANGED <<opened, closing, session, sequence, reserved, quiescing, draining, progress,
                 registration, queue, presenter, gpu, sawIdle, misled>>

(* The other half. *)
Unregistered(t) ==
  /\ pc[t] = "unregistered"
  /\ buffers' = IF buffers[slot[t]].registration # 0
                  THEN [buffers EXCEPT ![slot[t]].registration = 0]
                  ELSE [buffers EXCEPT ![slot[t]].address = Nobody]
  /\ Leave(t)
  /\ UNCHANGED <<opened, closing, session, sequence, reserved, quiescing, draining, progress,
                 registration, queue, presenter, gpu, sawIdle, misled, raced>>

(* RegisterBuffers *)
Overlaps(a) == \E i \in Slots : buffers[i].address = a

Reserve(t) ==
  /\ pc[t] = "reserve"
  /\ IF Usable /\ ~Overlaps(address[t]) /\ buffers[slot[t]].address = Nobody /\ slot[t] \notin reserved
       THEN /\ reserved' = reserved \cup {slot[t]} /\ registering' = registering \cup {t}
            /\ GoTo(t, "order") /\ UNCHANGED <<slot, address, accesses>>
       ELSE Leave(t) /\ UNCHANGED <<reserved, registering>>
  /\ UNCHANGED <<opened, closing, session, sequence, buffers, quiescing, draining, progress,
                 registrar, queue, presenter, gpu, sawIdle, misled, raced>>

Order(t) ==
  /\ pc[t] = "order" /\ registrar = Nobody
  /\ registrar' = t
  /\ GoTo(t, "recheck")
  /\ UNCHANGED <<port, access, registering, queue, presenter, gpu, slot, address, sawIdle, misled, raced>>

(* Has a registration before this one taken the address?  Mutant: asked    *)
(* only before the reservation.                                            *)
NotAskedAgain(a) == FALSE
TakenMeanwhile(a) == Overlaps(a)

Recheck(t) ==
  /\ pc[t] = "recheck"
  /\ IF TakenMeanwhile(address[t])
       THEN /\ reserved' = reserved \ {slot[t]}
            /\ registering' = registering \ {t} /\ registrar' = Nobody /\ Leave(t)
       ELSE GoTo(t, "commit") /\ UNCHANGED <<reserved, registration, slot, address, accesses>>
  /\ UNCHANGED <<opened, closing, session, sequence, buffers, quiescing, draining, progress,
                 queue, presenter, gpu, sawIdle, misled, raced>>

Commit(t) ==
  /\ pc[t] = "commit"
  /\ sequence' = sequence + 1
  /\ buffers' = [buffers EXCEPT ![slot[t]] = [address |-> address[t], registration |-> sequence + 1]]
  /\ reserved' = reserved \ {slot[t]}
  /\ registering' = registering \ {t} /\ registrar' = Nobody /\ Leave(t)
  /\ raced' = (raced \/ \E u \in Guests : pc[u] = "unregistered" /\ slot[u] = slot[t])
  /\ UNCHANGED <<opened, closing, session, quiescing, draining, progress, queue, presenter, gpu, sawIdle, misled>>

----------------------------------------------------------------------------
(* The GPU.  A batch with a flip is submitted when its buffer can be       *)
(* flipped.  The submission waits until the batch has been decoded         *)
(* (Gpu::Submit with a decode completion), or returns at once              *)
(* (Gpu::SubmitAndFlip; a Submit that finds the decode released).  Blank   *)
(* flips come from the guest's threads only.                               *)

SubmitToGpu(t, i, waits) ==
  /\ pc[t] = "idle" /\ t = Flipper /\ MayBegin
  /\ submission = Nobody /\ Len(stream) + Len(decoded) < MaxStream
  /\ Usable /\ Flippable(i)
  /\ stream' = Append(stream, i)
  /\ IF waits THEN submission' = t /\ GoTo(t, "decoding") ELSE UNCHANGED <<submission, pc>>
  /\ sawIdle' = FALSE /\ misled' = FALSE
  /\ UNCHANGED <<port, access, registration, queue, presenter, decoded, worker, slot, address, raced>>

(* The submission whose batch is still to be decoded returns; it is the    *)
(* last one, as the flipper waits in it.                                   *)
DecodeWaiter == submission # Nobody /\ pc[submission] = "decoding"
SubmitterReturns == submission' = Nobody /\ GoTo(submission, "idle")

(* SetDecodeReleased: a batch before it waits for a store that the guest   *)
(* is still to make.                                                       *)
ReleaseDecode ==
  /\ DecodeWaiter /\ SubmitterReturns
  /\ UNCHANGED <<port, access, registration, queue, presenter, stream, decoded, worker,
                 slot, address, sawIdle, misled, raced>>

(* CommandProcessor::Flip, QueueGpuFlip *)
Decode ==
  /\ worker.at = "idle" /\ stream # <<>>
  /\ stream' = Tail(stream) /\ decoded' = Append(decoded, Head(stream))
  /\ gpuQueued' = gpuQueued + 1
  /\ pending' = FlipPendingNum(Len(requests), gpuQueued')
  /\ IF DecodeWaiter /\ Len(stream) = 1 THEN SubmitterReturns ELSE UNCHANGED <<submission, pc>>
  /\ UNCHANGED <<port, access, registration, requests, admitted, accepted, presenter, worker,
                 slot, address, sawIdle, misled, raced>>

(* The label's callback, in the order of the submissions.  The flip of one *)
(* is handed to the queue before the next callback: SubmitFlipInternal.    *)
Fire ==
  /\ worker.at = "idle" /\ decoded # <<>> /\ MayEnter
  /\ accesses' = accesses \cup {Worker}
  /\ worker' = [at |-> "reserve", request |-> [NoRequest EXCEPT !.index = Head(decoded)]]
  /\ decoded' = Tail(decoded)
  /\ UNCHANGED <<port, quiescing, draining, progress, registration, queue, presenter,
                 submission, stream, calls>>

ReserveInternal ==
  /\ worker.at = "reserve"
  /\ accepted' = accepted + 1
  /\ worker' = [at |-> "admit", request |-> RequestFor(worker.request.index)]
  /\ UNCHANGED <<port, access, registration, requests, admitted, gpuQueued, pending, presenter,
                 submission, stream, decoded, calls>>

AcquireBlocking ==
  /\ worker.at = "admit" /\ admitted < Capacity
  /\ admitted' = admitted + 1
  /\ worker' = [worker EXCEPT !.at = "enqueue"]
  /\ UNCHANGED <<port, access, registration, requests, accepted, gpuQueued, pending, presenter,
                 submission, stream, decoded, calls>>

Enqueue ==
  /\ worker.at = "enqueue"
  /\ requests' = Append(requests, worker.request)
  /\ gpuQueued' = gpuQueued - 1
  /\ pending' = FlipPendingNum(Len(requests'), gpuQueued')
  /\ accesses' = accesses \ {Worker}
  /\ worker' = [at |-> "idle", request |-> NoRequest]
  /\ UNCHANGED <<port, quiescing, draining, progress, registration, admitted, accepted, presenter,
                 submission, stream, decoded, calls>>

GpuIdle == stream = <<>> /\ decoded = <<>> /\ worker.at = "idle"

----------------------------------------------------------------------------
(* The presenter's loop (game_show_window): a flip between two vblanks.    *)
(* VblankEnd and the VblankBegin of the next turn take the same steps and  *)
(* are one here.                                                           *)

PresenterTo(place) == presenter' = [presenter EXCEPT !.at = place]

(* AcquireProgress: not between two drains of one transaction. *)
MayProgress == ~quiescing \/ draining

Vblank ==
  /\ presenter.at = "vblank" /\ MayProgress
  /\ progress' = TRUE
  /\ PresenterTo("vblankEvents")
  /\ UNCHANGED <<port, quiescing, draining, accesses, registration, queue, gpu, calls>>

VblankDone ==
  /\ presenter.at = "vblankEvents"
  /\ progress' = FALSE
  /\ PresenterTo("flip")
  /\ UNCHANGED <<port, quiescing, draining, accesses, registration, queue, gpu, calls>>

NoFlip ==
  /\ presenter.at = "flip" /\ requests = <<>>
  /\ PresenterTo("vblank")
  /\ UNCHANGED <<port, access, registration, queue, gpu, calls>>

TakeFlip ==
  /\ presenter.at = "flip" /\ requests # <<>>
  /\ presenter' = [at |-> "present", request |-> Head(requests)]
  /\ UNCHANGED <<port, access, registration, queue, gpu, calls>>

(* Present: the image is captured and pinned, and looked up once more when *)
(* it has been made.                                                       *)
CaptureImage ==
  /\ presenter.at = "present"
  /\ PresenterTo(IF presenter.request.index = Blank THEN "publish" ELSE "draw")
  /\ UNCHANGED <<port, access, registration, queue, gpu, calls>>

DrawImage ==
  /\ presenter.at = "draw"
  /\ PresenterTo("publish")
  /\ UNCHANGED <<port, access, registration, queue, gpu, calls>>

(* The flip presented is still the first of the requests. *)
PublishStatus ==
  /\ presenter.at = "publish"
  /\ pending' = FlipPendingNum(Len(requests) - 1, gpuQueued)
  /\ PresenterTo("remove")
  /\ UNCHANGED <<port, access, registration, requests, admitted, accepted, gpuQueued, gpu, calls>>

(* The flips left to complete.  Mutant: a blank flip is not completed.     *)
BlankNotCompleted(r) == IF r.index = Blank THEN accepted ELSE accepted - 1
Completed(r) == accepted - 1

RemoveFlip ==
  /\ presenter.at = "remove"
  /\ requests' = Tail(requests)
  /\ accepted' = Completed(presenter.request)
  /\ PresenterTo("release")
  /\ UNCHANGED <<port, access, registration, admitted, gpuQueued, pending, gpu, calls>>

(* The admissions after a flip's.                                          *)
GivenBack(r) == admitted - 1

ReleaseAdmission ==
  /\ presenter.at = "release"
  /\ admitted' = GivenBack(presenter.request)
  /\ presenter' = [at |-> "vblank", request |-> NoRequest]
  /\ UNCHANGED <<port, access, registration, requests, accepted, gpuQueued, pending, gpu, calls>>

----------------------------------------------------------------------------
(* Close, and RunBufferUnmapTransaction of the memory at an address        *)

Transact(t, a) ==
  /\ pc[t] = "idle" /\ t = Closer /\ submission = Nobody /\ MayBegin
  /\ submission' = t
  /\ GoTo(t, "gpu") /\ address' = [address EXCEPT ![t] = a]
  /\ UNCHANGED <<port, access, registration, queue, presenter, stream, decoded, worker, slot, sawIdle, misled, raced>>

IsClose(t) == address[t] = Nobody

(* What each step waits for.  Mutant: the flips that were accepted before  *)
(* are left to the presenter.                                              *)
FlipsLeft == TRUE
FlipsDone == accepted = 0

Ready(t) ==
  CASE pc[t] = "gpu" -> GpuIdle
    [] pc[t] = "drain" -> ~quiescing
    [] pc[t] = "accesses" -> accesses = {}
    [] pc[t] = "flips" -> ~opened \/ FlipsDone
    [] pc[t] = "registrations" -> registering = {}
    [] pc[t] = "progress" -> ~progress
    [] pc[t] = "images" -> presenter.at # "draw"
    [] OTHER -> TRUE

Follows == [gpu |-> "drain", drain |-> "accesses", accesses |-> "mark", mark |-> "flips",
            flips |-> "registrations", registrations |-> "finish", finish |-> "progress",
            progress |-> "shut", shut |-> "images", images |-> "clear", clear |-> "action"]

(* The steps that only wait, and those that change the gates or the port.  *)
Await(t) ==
  /\ pc[t] \in {"gpu", "accesses", "flips", "registrations", "progress", "images"} /\ Ready(t)
  /\ GoTo(t, Follows[pc[t]])
  /\ UNCHANGED <<port, access, registration, queue, presenter, gpu, slot, address, sawIdle, misled, raced>>

Gates(t) ==
  /\ pc[t] \in {"drain", "finish"} /\ Ready(t)
  /\ quiescing' = TRUE
  /\ draining' = (pc[t] = "drain")
  /\ GoTo(t, Follows[pc[t]])
  /\ UNCHANGED <<port, accesses, progress, registration, queue, presenter, gpu, slot, address, sawIdle, misled, raced>>

Mark(t) ==
  /\ pc[t] = "mark" /\ (IsClose(t) => Usable)
  /\ closing' = (closing \/ IsClose(t))
  /\ GoTo(t, "flips")
  /\ UNCHANGED <<opened, session, sequence, buffers, reserved, access, registration, queue,
                 presenter, gpu, slot, address, sawIdle, misled, raced>>

Shut(t) ==
  /\ pc[t] = "shut"
  /\ opened' = (opened /\ ~IsClose(t))
  /\ GoTo(t, "images")
  /\ UNCHANGED <<closing, session, sequence, buffers, reserved, access, registration, queue,
                 presenter, gpu, slot, address, sawIdle, misled, raced>>

(* Close clears every buffer; DetachRegisteredBuffersForUnmapLocked those  *)
(* in the memory unmapped.                                                 *)
Clear(t) ==
  /\ pc[t] = "clear"
  /\ buffers' = [i \in Slots |-> IF IsClose(t) \/ buffers[i].address = address[t] THEN NoBuffer ELSE buffers[i]]
  /\ closing' = (closing /\ ~IsClose(t))
  /\ GoTo(t, "action")
  /\ UNCHANGED <<opened, session, sequence, reserved, access, registration, queue, presenter, gpu,
                 slot, address, sawIdle, misled, raced>>

(* EndQuiesce after the unmap's action; EndDrain when there was nothing to *)
(* close.                                                                  *)
Finish(t) ==
  /\ pc[t] = "action" \/ (pc[t] = "mark" /\ IsClose(t) /\ ~Usable)
  /\ quiescing' = FALSE /\ draining' = FALSE
  /\ submission' = Nobody
  /\ GoTo(t, "idle") /\ address' = [address EXCEPT ![t] = Nobody]
  /\ UNCHANGED <<port, accesses, progress, registration, queue, presenter, stream, decoded, worker,
                 slot, sawIdle, misled, raced>>

----------------------------------------------------------------------------
Call(t) == \/ Open(t) \/ SubmitFlip(t) \/ IsFlipPending(t)
           \/ Unregister(t) \/ Unregistered(t)
           \/ Reserve(t) \/ Order(t) \/ Recheck(t) \/ Commit(t)
Transaction(t) == Await(t) \/ Gates(t) \/ Mark(t) \/ Shut(t) \/ Clear(t) \/ Finish(t)
WorkerStep == Decode \/ Fire \/ ReserveInternal \/ AcquireBlocking \/ Enqueue
PresenterStep == \/ Vblank \/ VblankDone \/ NoFlip \/ TakeFlip \/ CaptureImage \/ DrawImage
                 \/ PublishStatus \/ RemoveFlip \/ ReleaseAdmission

Next ==
  \/ \E t \in Guests :
       \/ \E call \in CallPcs \ {"unregistered", "order", "recheck", "commit"}, i \in Indices, a \in Addresses \cup {Nobody} :
            Enter(t, call, i, a)
       \/ \E i \in Slots, waits \in BOOLEAN : SubmitToGpu(t, i, waits)
       \/ \E a \in Addresses \cup {Nobody} : Transact(t, a)
       \/ Call(t) \/ Transaction(t)
  \/ ReleaseDecode \/ WorkerStep \/ PresenterStep

Spec == Init /\ [][Next]_vars

(* Threads inside the emulator go on, and so do the presenter's loop and   *)
(* the GPU's worker.                                                       *)
FairSpec ==
  /\ Spec
  /\ \A t \in Guests : WF_vars(Call(t) \/ Transaction(t))
  /\ WF_vars(WorkerStep) /\ WF_vars(PresenterStep)

----------------------------------------------------------------------------
(* Properties *)

(* A decoded flip finds its buffer registered: the guest that waits until  *)
(* IsFlipPending is 0 before it unregisters its buffers "never races a     *)
(* flip still in its command stream" (VideoOutFlipPending.h).              *)
DecodedFlipsKeepBuffers == worker.at = "reserve" => Usable /\ Flippable(worker.request.index)

(* As long as the guest has not been misled by a count of 0 nor raced a    *)
(* removal, every flip on its way from the GPU or the guest has its buffer *)
(* and is presented with the registration it was accepted with.            *)
FlipsKeepBuffers ==
  /\ DecodedFlipsKeepBuffers
  /\ worker.at = "enqueue" /\ worker.request.index # Blank => worker.request.registration # 0
  /\ presenter.at \in {"present", "draw"} => Accessible(presenter.request)

(* The conditions on which the code ends the process: a flip keeps its     *)
(* buffer until it is drawn, whatever is closed, registered or unmapped    *)
(* meanwhile; a registration commits to a slot it still has in an open     *)
(* port; Close leaves no reservation.                                      *)
RequirementsHold ==
  /\ TypeOK
  /\ ~raced => FlipsKeepBuffers
  /\ worker.at = "enqueue" => gpuQueued > 0 /\ Len(requests) < Capacity
  /\ stream # <<>> => Usable
  /\ \A t \in Guests :
       /\ pc[t] = "recheck" => opened
       /\ pc[t] = "commit" => opened /\ slot[t] \in reserved /\ buffers[slot[t]].address = Nobody
       /\ pc[t] = "clear" /\ IsClose(t) => ~opened /\ closing /\ reserved = {}

(* While a Close clears the port or an unmap takes memory away, no call,   *)
(* vblank, flip or registration is under way and no image in use.          *)
QuietWhenCleared ==
  \A t \in Guests : pc[t] \in {"clear", "action"} =>
    /\ accesses = {} /\ ~progress /\ registering = {}
    /\ requests = <<>> /\ presenter.at \notin {"present", "draw", "publish"}
    /\ GpuIdle

(* No two registered buffers overlap, though two registrations may check   *)
(* before either has committed.                                            *)
BuffersDisjoint ==
  \A i, j \in Slots : i # j /\ buffers[i].address # Nobody => buffers[i].address # buffers[j].address

(* flipPendingNum, published by the submitters, the worker and the         *)
(* presenter, is 0 only when no flip is decoded or queued and not yet      *)
(* presented, and is 0 again when none is left.                            *)
Unpresented == IF presenter.at = "remove" THEN Tail(requests) ELSE requests
PendingTellsFlips ==
  /\ pending = 0 => gpuQueued = 0 /\ Unpresented = <<>>
  /\ gpuQueued = 0 /\ requests = <<>> => pending = 0

(* The guest's own flips take the places that the presenter gives back, so *)
(* a guest that never pauses can keep the worker's AcquireBlocking waiting *)
(* and with it the drain of the GPU.  Once it pauses, every transaction    *)
(* ends: the presenter goes on while the flips drain and the calls under   *)
(* way return.                                                             *)
GuestFlipsPause == <>[](pc[Flipper] # "submit")
TransactionsEnd == GuestFlipsPause => (pc[Closer] = "gpu" ~> pc[Closer] = "idle")
=============================================================================
