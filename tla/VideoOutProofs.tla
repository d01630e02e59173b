--------------------------- MODULE VideoOutProofs ---------------------------
(***************************************************************************)
(* Proofs about the video-out port (VideoOut), for any guests, buffers,    *)
(* addresses and bounds: the port is quiet when a transaction changes it,  *)
(* its buffers are apart, its count of pending flips is true, and its      *)
(* flips find the buffers they were made for unless a removal was raced.   *)
(***************************************************************************)
EXTENDS VideoOut, FiniteSetTheorems, TLAPS

----------------------------------------------------------------------------
(* The invariant                                                           *)

Registers == {"reserve", "order", "recheck", "commit"}

(* Who may be in which call, and what the gates count of it.               *)
PlaceInv ==
  /\ \A t \in Guests :
       /\ t # Closer => pc[t] \notin TransactionPcs /\ pc[t] # "open"
       /\ t # Flipper => pc[t] \notin {"decoding", "submit", "pending", "unregister", "unregistered"}
       /\ pc[t] \in CallPcs <=> t \in accesses
       /\ t \in registering <=> pc[t] \in {"order", "recheck", "commit"}
       /\ registrar = t <=> pc[t] \in {"recheck", "commit"}
       /\ pc[t] \in Registers \cup {"unregister", "unregistered"} => slot[t] \in Slots
       /\ pc[t] \in Registers => address[t] \in Addresses
  /\ Worker \in accesses <=> worker.at # "idle"
  /\ pc[Closer] = "open" => session < MaxSessions

(* Who holds the GPU's admission gate.                                     *)
HolderInv ==
  /\ pc[Closer] \in TransactionPcs => submission = Closer
  /\ pc[Flipper] = "decoding" => submission = Flipper
  /\ submission # Nobody => pc[submission] = "decoding" \/ pc[submission] \in TransactionPcs

(* What each step of a transaction has waited for stays so until its end.  *)
Drained == {"registrations", "finish", "progress", "shut", "images", "clear", "action"}
Shutting == {"shut", "images", "clear", "action"}
StageInv ==
  /\ quiescing <=> pc[Closer] \in {"accesses", "mark", "flips"} \cup Drained
  /\ draining <=> pc[Closer] \in {"accesses", "mark", "flips", "registrations", "finish"}
  /\ pc[Closer] \in {"drain", "accesses", "mark", "flips"} \cup Drained => GpuIdle
  /\ pc[Closer] \in {"mark", "flips"} \cup Drained => accesses = {}
  /\ pc[Closer] \in Drained => accepted = 0
  /\ pc[Closer] \in Shutting => ~progress
  /\ progress <=> presenter.at = "vblankEvents"
  /\ closing <=> IsClose(Closer) /\ pc[Closer] \in {"flips", "clear"} \cup (Drained \ {"action"})
  /\ IsClose(Closer) => /\ pc[Closer] \in {"flips", "registrations", "finish", "progress", "shut"} => opened
                        /\ pc[Closer] \in {"images", "clear", "action"} => ~opened
  /\ ~opened => GpuIdle /\ accepted = 0

(* The counts of the flips.                                                *)
CountInv ==
  /\ accepted = Len(requests) + (IF worker.at \in {"admit", "enqueue"} THEN 1 ELSE 0)
  /\ admitted = Len(requests) + (IF worker.at = "enqueue" THEN 1 ELSE 0)
                              + (IF presenter.at = "release" THEN 1 ELSE 0)
  /\ gpuQueued = Len(decoded) + (IF worker.at = "idle" THEN 0 ELSE 1)
  /\ presenter.at \in {"present", "draw", "publish", "remove"} =>
       requests # <<>> /\ presenter.request = Head(requests)

(* The count published is the one of the flips left, or one more as long   *)
(* as flips are left.                                                      *)
FlipsToShow == gpuQueued + Len(requests) - (IF presenter.at = "remove" THEN 1 ELSE 0)
ShownInv ==
  /\ pending = FlipsToShow \/ pending = FlipsToShow + 1
  /\ FlipsToShow = 0 => pending = 0

(* The reservations are those of the registrations under way, in an open   *)
(* port, and the one that is to commit has an address of its own.          *)
SlotsInv ==
  /\ \A t \in registering : slot[t] \in reserved
  /\ \A i \in reserved : \E t \in registering : slot[t] = i
  /\ \A t, u \in registering : slot[t] = slot[u] => t = u
  /\ \A i \in reserved : buffers[i].address = Nobody
  /\ registering # {} => opened
  /\ \A t \in Guests : pc[t] = "commit" => ~Overlaps(address[t])
  /\ BuffersDisjoint

Registrants == {t \in Guests : pc[t] \in Registers}

PortInv ==
  /\ TypeOK /\ PlaceInv /\ HolderInv /\ StageInv /\ CountInv /\ ShownInv /\ SlotsInv
  /\ sequence + Cardinality(Registrants) <= MaxRegistrations

(* A guest that has read that no flip is pending, and was not misled, knows *)
(* that nothing is left but blank flips and the one being removed.         *)
Leaving(i) == i = 1 /\ presenter.at = "remove"
Knows == sawIdle /\ ~misled
KnownInv ==
  /\ Knows => GpuIdle
  /\ Knows => \A i \in DOMAIN requests : requests[i].index = Blank \/ Leaving(i)
  /\ pc[Flipper] = "unregister" => sawIdle
  /\ pc[Flipper] = "unregistered" /\ ~raced => Knows

(* Unless a removal has been raced, a flip finds the buffer it was made    *)
(* for wherever it is,                                                     *)
FoundInv ==
  /\ \A i \in DOMAIN requests : Accessible(requests[i]) \/ Leaving(i)
  /\ worker.at \in {"admit", "enqueue"} => Accessible(worker.request)
  /\ worker.at = "reserve" => Flippable(worker.request.index)
  /\ \A i \in DOMAIN stream : Flippable(stream[i])
  /\ \A i \in DOMAIN decoded : Flippable(decoded[i])

(* and a buffer that is not half removed has both of its marks.            *)
Removing(i) == pc[Flipper] = "unregistered" /\ slot[Flipper] = i
MarkedInv ==
  \A i \in Slots :
    IF Removing(i) THEN buffers[i].address = Nobody \/ buffers[i].registration = 0
    ELSE buffers[i].address # Nobody => buffers[i].registration # 0

UnracedInv == ~raced => FoundInv /\ MarkedInv

(* What the queues are made of, and what an end added or removed changes.  *)
LEMMA ListElements ==
  ASSUME NEW S, NEW q \in Seq(S)
  PROVE  /\ Len(q) \in Nat /\ DOMAIN q = 1 .. Len(q)
         /\ \A i \in 1 .. Len(q) : q[i] \in S
         /\ q # <<>> => /\ Len(q) > 0 /\ Head(q) \in S /\ Head(q) = q[1] /\ q[Len(q)] \in S
                        /\ Tail(q) \in Seq(S) /\ Len(Tail(q)) = Len(q) - 1
                        /\ \A i \in 1 .. Len(q) - 1 : Tail(q)[i] = q[i + 1]
         /\ q = <<>> <=> Len(q) = 0
         /\ \A x \in S : /\ Append(q, x) \in Seq(S) /\ Len(Append(q, x)) = Len(q) + 1
                          /\ Append(q, x)[Len(q) + 1] = x
                          /\ \A i \in 1 .. Len(q) : Append(q, x)[i] = q[i]
OBVIOUS

----------------------------------------------------------------------------
(* Types                                                                   *)

Stations == {"idle", "decoding"} \cup CallPcs \cup TransactionPcs

(* The threads and what an action names.                                   *)
LEMMA VideoNames ==
  /\ Closer \in Guests /\ Flipper \in Guests /\ Worker \notin Guests /\ Nobody \notin Guests
  /\ Nobody \notin Addresses /\ Blank \notin Slots /\ Slots \subseteq Indices /\ Blank \in Indices
  /\ CallPcs \subseteq Stations /\ TransactionPcs \subseteq Stations /\ "idle" \in Stations /\ "decoding" \in Stations
  /\ "idle" \notin CallPcs /\ "idle" \notin TransactionPcs /\ "decoding" \notin CallPcs
  /\ "decoding" \notin TransactionPcs /\ CallPcs \cap TransactionPcs = {}
  /\ NoRequest \in Request
  /\ \A i \in Indices : [NoRequest EXCEPT !.index = i] = [index |-> i, session |-> 0, registration |-> 0]
  /\ \A i \in Indices : [NoRequest EXCEPT !.index = i] \in Request
  /\ NoBuffer \in [address : Addresses \cup {Nobody}, registration : 0 .. MaxRegistrations]
<1> USE VideoOutAssumption
<1>1. /\ \A i \in Indices : [index |-> i, session |-> 0, registration |-> 0] \in Request
      /\ \A i \in Indices : [NoRequest EXCEPT !.index = i] = [index |-> i, session |-> 0, registration |-> 0]
      /\ NoRequest \in Request
  BY DEF NoRequest, Request, Indices
<1>2. NoBuffer \in [address : Addresses \cup {Nobody}, registration : 0 .. MaxRegistrations]
  BY DEF NoBuffer
<1>3. QED
  BY <1>1, <1>2 DEF Stations, CallPcs, TransactionPcs, Indices

(* What the end of a call changes.                                         *)
LEMMA LeaveTypes ==
  ASSUME TypeOK, NEW t \in Guests, Leave(t)
  PROVE  /\ pc' = [pc EXCEPT ![t] = "idle"] /\ pc' \in [Guests -> Stations]
         /\ slot' \in [Guests -> Indices] /\ address' \in [Guests -> Addresses \cup {Nobody}]
         /\ accesses' \in SUBSET (Guests \cup {Worker})
  BY VideoNames DEF TypeOK, Leave, GoTo, Stations

(* The requests that are made.                                             *)
LEMMA RequestTypes ==
  ASSUME TypeOK
  PROVE  \A i \in Indices : RequestFor(i) \in Request
<1>1. \A i \in Slots : buffers[i].registration \in 0 .. MaxRegistrations
  BY DEF TypeOK
<1>2. \A i \in Indices : i = Blank \/ i \in Slots
  BY DEF Indices
<1>3. session \in 0 .. MaxSessions /\ 0 \in 0 .. MaxRegistrations
  BY VideoOutAssumption DEF TypeOK
<1>4. QED
  BY ONLY <1>1, <1>2, <1>3 DEF RequestFor, Request

(* The numbers.                                                            *)
LEMMA VideoNumbers ==
  ASSUME PortInv
  PROVE  /\ Len(requests) \in Nat /\ Len(stream) \in Nat /\ Len(decoded) \in Nat
         /\ accepted \in Nat /\ admitted \in 0 .. 2 /\ gpuQueued \in Nat /\ pending \in Nat
         /\ sequence \in Nat /\ MaxRegistrations \in Nat /\ Cardinality(Registrants) \in Nat
         /\ sequence + Cardinality(Registrants) <= MaxRegistrations
         /\ IsFiniteSet(Registrants)
         /\ \A t \in Registrants : Cardinality(Registrants \ {t}) = Cardinality(Registrants) - 1
         /\ \A t \in Guests : pc[t] \in Registers => Cardinality(Registrants) > 0
<1>1. IsFiniteSet(Registrants)
  BY FS_Subset, VideoOutAssumption DEF Registrants
<1>2. \A t \in Registrants : Cardinality(Registrants \ {t}) = Cardinality(Registrants) - 1
  BY <1>1, FS_RemoveElement
<1>3. Cardinality(Registrants) \in Nat /\ (Cardinality(Registrants) = 0 <=> Registrants = {})
  BY <1>1, FS_CardinalityType, FS_EmptySet
<1>4. /\ Len(requests) \in Nat /\ Len(stream) \in Nat /\ Len(decoded) \in Nat
      /\ accepted \in Nat /\ admitted \in 0 .. 2 /\ gpuQueued \in Nat /\ pending \in Nat
      /\ sequence \in Nat /\ MaxRegistrations \in Nat
  BY VideoOutAssumption DEF PortInv, TypeOK, Capacity
<1>5. \A t \in Guests : pc[t] \in Registers => t \in Registrants
  BY DEF Registrants
<1>6. \A t \in Guests : pc[t] \in Registers => Cardinality(Registrants) > 0
  BY ONLY <1>3, <1>5
<1>7. sequence + Cardinality(Registrants) <= MaxRegistrations
  BY DEF PortInv
<1>8. QED
  BY ONLY <1>1, <1>2, <1>3, <1>4, <1>6, <1>7

(* What the presenter changes.                                             *)
LEMMA PresenterTypes ==
  ASSUME TypeOK, progress' \in BOOLEAN, requests' \in Seq(Request), Len(requests') <= admitted',
         admitted' \in 0 .. Capacity, accepted' \in Nat, pending' \in Nat,
         presenter' \in [at : {"vblank", "vblankEvents", "flip", "present", "draw", "publish", "remove", "release"}, request : Request],
         UNCHANGED <<opened, closing, session, sequence, buffers, reserved, quiescing, draining, accesses>>,
         UNCHANGED <<registering, registrar, gpuQueued, submission, stream, decoded, worker>>,
         UNCHANGED <<pc, slot, address, sawIdle, misled, raced>>
  PROVE  TypeOK'
<1>1. (worker \in [at : {"idle", "reserve", "admit", "enqueue"}, request : Request])'
  BY DEF TypeOK
<1>2. (buffers \in [Slots -> [address : Addresses \cup {Nobody}, registration : 0 .. MaxRegistrations]])'
  BY DEF TypeOK
<1>3. QED
  BY <1>1, <1>2 DEF TypeOK

(* Where the presenter goes.                                               *)
LEMMA PresenterMoves ==
  ASSUME TypeOK, NEW p \in {"vblank", "vblankEvents", "flip", "present", "draw", "publish", "remove", "release"}
  PROVE  [presenter EXCEPT !.at = p] \in [at : {"vblank", "vblankEvents", "flip", "present", "draw", "publish", "remove", "release"}, request : Request]
BY DEF TypeOK

(* Types.                                                                  *)
LEMMA VideoTypeStep ==
  ASSUME PortInv, Next
  PROVE  TypeOK'
<1>1. ASSUME NEW t \in Guests, NEW call \in CallPcs \ {"unregistered", "order", "recheck", "commit"}, NEW i \in Indices,
        NEW a \in Addresses \cup {Nobody}, Enter(t, call, i, a) PROVE TypeOK'
  BY <1>1, VideoOutAssumption DEF Enter, PortInv, TypeOK, GoTo, PresenterTo, port, access, registration, queue, gpu, calls, CallPcs, TransactionPcs
<1>2. ASSUME NEW t \in Guests, NEW i \in Slots, NEW waits \in BOOLEAN, SubmitToGpu(t, i, waits) PROVE TypeOK'
  <2>1. stream' \in Seq(Indices)
    <3>1. i \in Indices /\ stream \in Seq(Indices)
      BY <1>2, VideoNames DEF PortInv, TypeOK
    <3>2. QED
      BY ONLY <3>1, <1>2, ListElements DEF SubmitToGpu
  <2>2. submission' \in Guests \cup {Nobody} /\ pc' \in [Guests -> Stations]
    <3>1. pc \in [Guests -> Stations] /\ submission \in Guests \cup {Nobody} /\ "decoding" \in Stations
      BY VideoNames DEF PortInv, TypeOK, Stations
    <3>2. QED
      BY ONLY <3>1, <1>2 DEF SubmitToGpu, GoTo
  <2>9. QED
    <3>1. /\ sawIdle' \in BOOLEAN /\ misled' \in BOOLEAN /\ raced' = raced
          /\ UNCHANGED <<port, access, registration, queue, presenter, decoded, worker, slot, address>>
      BY ONLY <1>2 DEF SubmitToGpu
    <3>2. QED
      BY <3>1, <2>1, <2>2 DEF PortInv, TypeOK, Stations, port, access, registration, queue
<1>3. ASSUME NEW t \in Guests, NEW a \in Addresses \cup {Nobody}, Transact(t, a) PROVE TypeOK'
  BY <1>3, VideoOutAssumption DEF Transact, PortInv, TypeOK, GoTo, PresenterTo, port, access, registration, queue, gpu, calls, CallPcs, TransactionPcs
<1>4. ASSUME NEW t \in Guests, Open(t) PROVE TypeOK'
  <2>1. /\ pc' \in [Guests -> Stations] /\ slot' \in [Guests -> Indices]
        /\ address' \in [Guests -> Addresses \cup {Nobody}] /\ accesses' \in SUBSET (Guests \cup {Worker})
    BY <1>4, LeaveTypes DEF PortInv, Open
  <2>2. opened' \in BOOLEAN /\ session' \in 0 .. MaxSessions /\ sequence' \in 0 .. MaxRegistrations /\ pending' \in Nat
    <3>1. /\ opened \in BOOLEAN /\ session \in 0 .. MaxSessions /\ sequence \in 0 .. MaxRegistrations /\ pending \in Nat
          /\ MaxSessions \in Nat /\ MaxRegistrations \in Nat
      BY VideoOutAssumption DEF PortInv, TypeOK
    <3>2. t = Closer /\ session < MaxSessions
      BY <1>4 DEF Open, PortInv, PlaceInv
    <3>3. \/ opened' = TRUE /\ session' = session + 1 /\ sequence' = 0 /\ pending' = 0
          \/ UNCHANGED <<opened, session, sequence, pending>>
      BY <1>4 DEF Open
    <3>4. CASE opened' = TRUE /\ session' = session + 1 /\ sequence' = 0 /\ pending' = 0
      BY ONLY <3>1, <3>2, <3>4
    <3>5. CASE UNCHANGED <<opened, session, sequence, pending>>
      BY ONLY <3>1, <3>5
    <3>6. QED
      BY ONLY <3>3, <3>4, <3>5
  <2>9. QED
    BY <1>4, <2>1, <2>2 DEF Open, PortInv, TypeOK, Stations, port, access, registration, queue, gpu, calls
<1>5. ASSUME NEW t \in Guests, SubmitFlip(t) PROVE TypeOK'
  <2>1. /\ pc' \in [Guests -> Stations] /\ slot' \in [Guests -> Indices]
        /\ address' \in [Guests -> Addresses \cup {Nobody}] /\ accesses' \in SUBSET (Guests \cup {Worker})
    BY <1>5, LeaveTypes DEF PortInv, SubmitFlip
  <2>2. /\ requests' \in Seq(Request) /\ Len(requests') <= admitted' /\ admitted' \in 0 .. Capacity
        /\ accepted' \in Nat /\ pending' \in Nat
    <3>1. CASE requests' = requests /\ admitted' = admitted /\ accepted' = accepted /\ pending' = pending
      BY <3>1 DEF PortInv, TypeOK
    <3>2. CASE /\ requests' = Append(requests, RequestFor(slot[t])) /\ admitted' = admitted + 1 /\ accepted' = accepted + 1
               /\ pending' = FlipPendingNum(Len(requests'), gpuQueued) /\ admitted < Capacity
      <4>1. RequestFor(slot[t]) \in Request /\ requests \in Seq(Request) /\ Len(requests) <= admitted
        BY RequestTypes DEF PortInv, TypeOK
      <4>2. requests' \in Seq(Request) /\ Len(requests') = Len(requests) + 1
        BY ONLY <4>1, <3>2, ListElements
      <4>3. QED
        <5>1. /\ Len(requests) \in Nat /\ gpuQueued \in Nat /\ accepted \in Nat /\ admitted \in 0 .. 2
          BY VideoNumbers
        <5>2. QED
          BY ONLY <5>1, <4>1, <4>2, <3>2 DEF Capacity, FlipPendingNum
    <3>3. QED
      BY <1>5, <3>1, <3>2 DEF SubmitFlip
  <2>3. sawIdle' \in BOOLEAN /\ misled' \in BOOLEAN /\ raced' \in BOOLEAN
    BY <1>5 DEF SubmitFlip, PortInv, TypeOK
  <2>9. QED
    BY <1>5, <2>1, <2>2, <2>3 DEF SubmitFlip, PortInv, TypeOK, Stations, port, access, registration, queue, gpu, calls
<1>6. ASSUME NEW t \in Guests, IsFlipPending(t) PROVE TypeOK'
  <2>1. /\ pc' \in [Guests -> Stations] /\ slot' \in [Guests -> Indices]
        /\ address' \in [Guests -> Addresses \cup {Nobody}] /\ accesses' \in SUBSET (Guests \cup {Worker})
    BY <1>6, LeaveTypes DEF PortInv, IsFlipPending
  <2>3. sawIdle' \in BOOLEAN /\ misled' \in BOOLEAN /\ raced' \in BOOLEAN
    BY <1>6 DEF IsFlipPending, PortInv, TypeOK, Usable
  <2>9. QED
    BY <1>6, <2>1, <2>3 DEF IsFlipPending, PortInv, TypeOK, Stations, port, access, registration, queue, gpu, calls
<1>7. ASSUME NEW t \in Guests, Unregister(t) PROVE TypeOK'
  <2>1. /\ pc' \in [Guests -> Stations] /\ slot' \in [Guests -> Indices]
        /\ address' \in [Guests -> Addresses \cup {Nobody}] /\ accesses' \in SUBSET (Guests \cup {Worker})
    <3>1. CASE Leave(t)
      BY <3>1, LeaveTypes DEF PortInv
    <3>2. CASE GoTo(t, "unregistered") /\ UNCHANGED <<slot, address, accesses>>
      BY <3>2 DEF GoTo, PortInv, TypeOK, Stations, CallPcs
    <3>3. QED
      BY <1>7, <3>1, <3>2 DEF Unregister
  <2>2. buffers' \in [Slots -> [address : Addresses \cup {Nobody}, registration : 0 .. MaxRegistrations]]
    <3>1. slot[t] \in Slots /\ buffers \in [Slots -> [address : Addresses \cup {Nobody}, registration : 0 .. MaxRegistrations]]
      BY <1>7 DEF Unregister, PortInv, PlaceInv, TypeOK
    <3>2. 0 \in 0 .. MaxRegistrations /\ Nobody \in Addresses \cup {Nobody}
      BY VideoOutAssumption
    <3>3. \/ buffers' = buffers
          \/ buffers' = [buffers EXCEPT ![slot[t]].address = Nobody]
          \/ buffers' = [buffers EXCEPT ![slot[t]].registration = 0]
      BY ONLY <1>7 DEF Unregister
    <3>4. QED
      BY ONLY <3>1, <3>2, <3>3
  <2>3. raced' \in BOOLEAN
    BY <1>7 DEF Unregister, PortInv, TypeOK
  <2>9. QED
    BY <1>7, <2>1, <2>2, <2>3 DEF Unregister, PortInv, TypeOK, Stations, port, access, registration, queue, gpu, calls
<1>7a. ASSUME NEW t \in Guests, Unregistered(t) PROVE TypeOK'
  <2>1. /\ pc' \in [Guests -> Stations] /\ slot' \in [Guests -> Indices]
        /\ address' \in [Guests -> Addresses \cup {Nobody}] /\ accesses' \in SUBSET (Guests \cup {Worker})
    BY <1>7a, LeaveTypes DEF PortInv, Unregistered
  <2>2. buffers' \in [Slots -> [address : Addresses \cup {Nobody}, registration : 0 .. MaxRegistrations]]
    <3>1. slot[t] \in Slots /\ buffers \in [Slots -> [address : Addresses \cup {Nobody}, registration : 0 .. MaxRegistrations]]
      BY <1>7a DEF Unregistered, PortInv, PlaceInv, TypeOK
    <3>2. 0 \in 0 .. MaxRegistrations /\ Nobody \in Addresses \cup {Nobody}
      BY VideoOutAssumption
    <3>3. \/ buffers' = [buffers EXCEPT ![slot[t]].address = Nobody]
          \/ buffers' = [buffers EXCEPT ![slot[t]].registration = 0]
      BY ONLY <1>7a DEF Unregistered
    <3>4. QED
      BY ONLY <3>1, <3>2, <3>3
  <2>9. QED
    BY <1>7a, <2>1, <2>2 DEF Unregistered, PortInv, TypeOK, Stations, port, access, registration, queue, gpu, calls
<1>8. ASSUME NEW t \in Guests, Reserve(t) PROVE TypeOK'
  <2>1. /\ pc' \in [Guests -> Stations] /\ slot' \in [Guests -> Indices]
        /\ address' \in [Guests -> Addresses \cup {Nobody}] /\ accesses' \in SUBSET (Guests \cup {Worker})
    <3>1. CASE Leave(t)
      BY <3>1, LeaveTypes DEF PortInv
    <3>2. CASE (GoTo(t, "order") \/ GoTo(t, "commit")) /\ UNCHANGED <<slot, address, accesses>>
      BY <3>2 DEF GoTo, PortInv, TypeOK, Stations, CallPcs
    <3>3. QED
      BY <1>8, <3>1, <3>2 DEF Reserve
  <2>2. reserved' \in SUBSET Slots /\ registering' \in SUBSET Guests
    BY <1>8 DEF Reserve, PortInv, TypeOK, PlaceInv, Registers
  <2>9. QED
    BY <1>8, <2>1, <2>2 DEF Reserve, PortInv, TypeOK, Stations, port, access, registration, queue, gpu, calls
<1>9. ASSUME NEW t \in Guests, Order(t) PROVE TypeOK'
  BY <1>9, VideoOutAssumption DEF Order, PortInv, TypeOK, GoTo, PresenterTo, port, access, registration, queue, gpu, calls, CallPcs, TransactionPcs
<1>10. ASSUME NEW t \in Guests, Recheck(t) PROVE TypeOK'
  <2>1. /\ pc' \in [Guests -> Stations] /\ slot' \in [Guests -> Indices]
        /\ address' \in [Guests -> Addresses \cup {Nobody}] /\ accesses' \in SUBSET (Guests \cup {Worker})
    <3>1. CASE Leave(t)
      BY <3>1, LeaveTypes DEF PortInv
    <3>2. CASE (GoTo(t, "order") \/ GoTo(t, "commit")) /\ UNCHANGED <<slot, address, accesses>>
      BY <3>2 DEF GoTo, PortInv, TypeOK, Stations, CallPcs
    <3>3. QED
      BY <1>10, <3>1, <3>2 DEF Recheck
  <2>2. reserved' \in SUBSET Slots /\ registering' \in SUBSET Guests /\ registrar' \in Guests \cup {Nobody}
    BY <1>10 DEF Recheck, PortInv, TypeOK, PlaceInv, registration
  <2>9. QED
    BY <1>10, <2>1, <2>2 DEF Recheck, PortInv, TypeOK, Stations, port, access, registration, queue, gpu, calls
<1>11. ASSUME NEW t \in Guests, Commit(t) PROVE TypeOK'
  <2>1. /\ pc' \in [Guests -> Stations] /\ slot' \in [Guests -> Indices]
        /\ address' \in [Guests -> Addresses \cup {Nobody}] /\ accesses' \in SUBSET (Guests \cup {Worker})
    BY <1>11, LeaveTypes DEF PortInv, Commit
  <2>2. sequence' = sequence + 1 /\ sequence' \in 0 .. MaxRegistrations
    <3>1. Cardinality(Registrants) > 0
      BY <1>11, VideoNumbers DEF Commit, Registers
    <3>2. QED
      BY ONLY <1>11, <3>1, VideoNumbers, PortInv DEF Commit
  <2>3. buffers' \in [Slots -> [address : Addresses \cup {Nobody}, registration : 0 .. MaxRegistrations]]
    <3>1. slot[t] \in Slots /\ address[t] \in Addresses \cup {Nobody} /\ sequence + 1 \in 0 .. MaxRegistrations
      BY <1>11, <2>2 DEF Commit, PortInv, PlaceInv, Registers
    <3>2. buffers \in [Slots -> [address : Addresses \cup {Nobody}, registration : 0 .. MaxRegistrations]]
      BY DEF PortInv, TypeOK
    <3>3. buffers' = [buffers EXCEPT ![slot[t]] = [address |-> address[t], registration |-> sequence + 1]]
      BY <1>11 DEF Commit
    <3>4. QED
      BY ONLY <3>1, <3>2, <3>3
  <2>4. reserved' \in SUBSET Slots /\ registering' \in SUBSET Guests /\ registrar' \in Guests \cup {Nobody}
    BY <1>11 DEF Commit, PortInv, TypeOK
  <2>5. raced' \in BOOLEAN
    BY <1>11 DEF Commit, PortInv, TypeOK
  <2>9. QED
    BY <1>11, <2>1, <2>2, <2>3, <2>4, <2>5 DEF Commit, PortInv, TypeOK, Stations, port, access, registration, queue, gpu, calls
<1>12. ASSUME NEW t \in Guests, Await(t) PROVE TypeOK'
  <2>1. Follows[pc[t]] \in Stations
    BY <1>12 DEF Await, Follows, Stations, TransactionPcs
  <2>9. QED
    BY <1>12, <2>1 DEF Await, GoTo, PortInv, TypeOK, Stations, port, access, registration, queue, gpu, calls
<1>13. ASSUME NEW t \in Guests, Gates(t) PROVE TypeOK'
  <2>1. Follows[pc[t]] \in Stations
    BY <1>13 DEF Gates, Follows, Stations, TransactionPcs
  <2>9. QED
    BY <1>13, <2>1 DEF Gates, GoTo, PortInv, TypeOK, Stations, port, access, registration, queue, gpu, calls
<1>14. ASSUME NEW t \in Guests, Mark(t) PROVE TypeOK'
  BY <1>14, VideoOutAssumption DEF Mark, PortInv, TypeOK, GoTo, PresenterTo, port, access, registration, queue, gpu, calls, CallPcs, TransactionPcs
<1>15. ASSUME NEW t \in Guests, Shut(t) PROVE TypeOK'
  BY <1>15, VideoOutAssumption DEF Shut, PortInv, TypeOK, GoTo, PresenterTo, port, access, registration, queue, gpu, calls, CallPcs, TransactionPcs
<1>16. ASSUME NEW t \in Guests, Clear(t) PROVE TypeOK'
  <2>1. buffers' \in [Slots -> [address : Addresses \cup {Nobody}, registration : 0 .. MaxRegistrations]]
    BY <1>16, VideoNames DEF Clear, PortInv, TypeOK
  <2>2. pc' \in [Guests -> Stations]
    BY <1>16 DEF Clear, GoTo, PortInv, TypeOK, Stations, TransactionPcs
  <2>9. QED
    BY <1>16, <2>1, <2>2 DEF Clear, PortInv, TypeOK, Stations, port, access, registration, queue, gpu, calls
<1>17. ASSUME NEW t \in Guests, Finish(t) PROVE TypeOK'
  <2>1. /\ submission' \in Guests \cup {Nobody} /\ pc' \in [Guests -> Stations]
        /\ address' \in [Guests -> Addresses \cup {Nobody}] /\ quiescing' \in BOOLEAN /\ draining' \in BOOLEAN
    <3>1. /\ pc \in [Guests -> Stations] /\ address \in [Guests -> Addresses \cup {Nobody}] /\ "idle" \in Stations
      BY VideoNames DEF PortInv, TypeOK, Stations
    <3>2. QED
      BY ONLY <3>1, <1>17 DEF Finish, GoTo
  <2>9. QED
    BY <1>17, <2>1 DEF Finish, PortInv, TypeOK, Stations, port, access, registration, queue, gpu, calls
<1>17a. ASSUME ReleaseDecode PROVE TypeOK'
  <2>1. submission' \in Guests \cup {Nobody} /\ pc' \in [Guests -> Stations]
    BY <1>17a, VideoNames DEF ReleaseDecode, DecodeWaiter, SubmitterReturns, GoTo, PortInv, TypeOK, Stations
  <2>9. QED
    BY <1>17a, <2>1 DEF ReleaseDecode, PortInv, TypeOK, Stations, port, access, registration, queue, gpu, calls
<1>18. ASSUME Decode PROVE TypeOK'
  <2>1. stream' \in Seq(Indices) /\ decoded' \in Seq(Indices)
    <3>1. stream \in Seq(Indices) /\ decoded \in Seq(Indices) /\ stream # <<>>
      BY <1>18 DEF Decode, DecodeWaiter, SubmitterReturns, PortInv, TypeOK
    <3>2. QED
      BY ONLY <3>1, <1>18, ListElements DEF Decode
  <2>2. submission' \in Guests \cup {Nobody} /\ pc' \in [Guests -> Stations]
    BY <1>18, VideoNames DEF Decode, DecodeWaiter, SubmitterReturns, GoTo, PortInv, TypeOK, Stations
  <2>3. gpuQueued' \in Nat /\ pending' \in Nat
    <3>1. gpuQueued \in Nat /\ Len(requests) \in Nat
      BY VideoNumbers
    <3>2. QED
      BY ONLY <1>18, <3>1 DEF Decode, DecodeWaiter, SubmitterReturns, FlipPendingNum
  <2>9. QED
    BY <1>18, <2>1, <2>2, <2>3 DEF Decode, DecodeWaiter, SubmitterReturns, PortInv, TypeOK, Stations, port, access, registration, queue, gpu, calls
<1>19. ASSUME Fire PROVE TypeOK'
  <2>1. decoded' \in Seq(Indices) /\ Head(decoded) \in Indices
    <3>1. decoded \in Seq(Indices) /\ decoded # <<>>
      BY <1>19 DEF Fire, PortInv, TypeOK
    <3>2. QED
      BY ONLY <3>1, <1>19, ListElements DEF Fire
  <2>2. worker' \in [at : {"idle", "reserve", "admit", "enqueue"}, request : Request]
    <3>1. [NoRequest EXCEPT !.index = Head(decoded)] \in Request
      BY <2>1, VideoNames
    <3>2. QED
      BY ONLY <3>1, <1>19 DEF Fire
  <2>3. accesses' \in SUBSET (Guests \cup {Worker})
    BY <1>19 DEF Fire, PortInv, TypeOK
  <2>9. QED
    BY <1>19, <2>1, <2>2, <2>3 DEF Fire, PortInv, TypeOK, Stations, port, access, registration, queue, gpu, calls
<1>20. ASSUME ReserveInternal PROVE TypeOK'
  <2>1. worker.request \in Request /\ worker.request.index \in Indices
    BY DEF PortInv, TypeOK, Request
  <2>2. RequestFor(worker.request.index) \in Request
    BY <2>1, RequestTypes DEF PortInv
  <2>3. worker' \in [at : {"idle", "reserve", "admit", "enqueue"}, request : Request]
    BY ONLY <2>2, <1>20 DEF ReserveInternal
  <2>9. QED
    BY <1>20, <2>3 DEF ReserveInternal, PortInv, TypeOK, Stations, port, access, registration, queue, gpu, calls
<1>21. ASSUME AcquireBlocking PROVE TypeOK'
  <2>1. worker' \in [at : {"idle", "reserve", "admit", "enqueue"}, request : Request]
    BY <1>21 DEF AcquireBlocking, PortInv, TypeOK
  <2>2. Len(requests) <= admitted' /\ admitted' \in 0 .. Capacity
    BY <1>21, VideoNumbers DEF AcquireBlocking, PortInv, TypeOK, Capacity
  <2>9. QED
    BY <1>21, <2>1, <2>2 DEF AcquireBlocking, PortInv, TypeOK, Stations, port, access, registration, queue, gpu, calls
<1>22. ASSUME Enqueue PROVE TypeOK'
  <2>1. worker.request \in Request /\ requests \in Seq(Request)
    BY DEF PortInv, TypeOK
  <2>2. requests' \in Seq(Request) /\ Len(requests') = Len(requests) + 1
    BY ONLY <2>1, <1>22, ListElements DEF Enqueue
  <2>3. gpuQueued > 0 /\ Len(requests) + 1 <= admitted
    BY <1>22, VideoNumbers DEF Enqueue, PortInv, CountInv
  <2>4. gpuQueued' \in Nat /\ pending' \in Nat /\ Len(requests') <= admitted
    BY ONLY <1>22, <2>2, <2>3, PortInv, VideoNumbers DEF Enqueue, FlipPendingNum
  <2>5. worker' \in [at : {"idle", "reserve", "admit", "enqueue"}, request : Request]
    BY <1>22, VideoNames DEF Enqueue
  <2>6. accesses' \in SUBSET (Guests \cup {Worker})
    BY <1>22 DEF Enqueue, PortInv, TypeOK
  <2>9. QED
    BY <1>22, <2>2, <2>4, <2>5, <2>6 DEF Enqueue, PortInv, TypeOK, Stations, port, access, registration, queue, gpu, calls
<1>23. ASSUME Vblank PROVE TypeOK'
  <2>1. presenter' \in [at : {"vblank", "vblankEvents", "flip", "present", "draw", "publish", "remove", "release"}, request : Request]
    BY <1>23, PresenterMoves DEF Vblank, PresenterTo, PortInv
  <2>2. progress' \in BOOLEAN /\ UNCHANGED <<requests, admitted, accepted, pending>>
    BY <1>23 DEF Vblank, PortInv, TypeOK, access, queue
  <2>3. /\ UNCHANGED <<opened, closing, session, sequence, buffers, reserved, quiescing, draining, accesses>>
        /\ UNCHANGED <<registering, registrar, gpuQueued, submission, stream, decoded, worker>>
        /\ UNCHANGED <<pc, slot, address, sawIdle, misled, raced>>
    BY ONLY <1>23 DEF Vblank, port, access, registration, queue, gpu, calls
  <2>4. requests' \in Seq(Request) /\ Len(requests') <= admitted' /\ admitted' \in 0 .. Capacity /\ accepted' \in Nat /\ pending' \in Nat
    BY <2>2 DEF PortInv, TypeOK
  <2>9. QED
    BY ONLY <2>1, <2>2, <2>3, <2>4, PresenterTypes, PortInv DEF PortInv
<1>24. ASSUME VblankDone PROVE TypeOK'
  <2>1. presenter' \in [at : {"vblank", "vblankEvents", "flip", "present", "draw", "publish", "remove", "release"}, request : Request]
    BY <1>24, PresenterMoves DEF VblankDone, PresenterTo, PortInv
  <2>2. progress' \in BOOLEAN /\ UNCHANGED <<requests, admitted, accepted, pending>>
    BY <1>24 DEF VblankDone, PortInv, TypeOK, access, queue
  <2>3. /\ UNCHANGED <<opened, closing, session, sequence, buffers, reserved, quiescing, draining, accesses>>
        /\ UNCHANGED <<registering, registrar, gpuQueued, submission, stream, decoded, worker>>
        /\ UNCHANGED <<pc, slot, address, sawIdle, misled, raced>>
    BY ONLY <1>24 DEF VblankDone, port, access, registration, queue, gpu, calls
  <2>4. requests' \in Seq(Request) /\ Len(requests') <= admitted' /\ admitted' \in 0 .. Capacity /\ accepted' \in Nat /\ pending' \in Nat
    BY <2>2 DEF PortInv, TypeOK
  <2>9. QED
    BY ONLY <2>1, <2>2, <2>3, <2>4, PresenterTypes, PortInv DEF PortInv
<1>25. ASSUME NoFlip PROVE TypeOK'
  <2>1. presenter' \in [at : {"vblank", "vblankEvents", "flip", "present", "draw", "publish", "remove", "release"}, request : Request]
    BY <1>25, PresenterMoves DEF NoFlip, PresenterTo, PortInv
  <2>2. progress' \in BOOLEAN /\ UNCHANGED <<requests, admitted, accepted, pending>>
    BY <1>25 DEF NoFlip, PortInv, TypeOK, access, queue
  <2>3. /\ UNCHANGED <<opened, closing, session, sequence, buffers, reserved, quiescing, draining, accesses>>
        /\ UNCHANGED <<registering, registrar, gpuQueued, submission, stream, decoded, worker>>
        /\ UNCHANGED <<pc, slot, address, sawIdle, misled, raced>>
    BY ONLY <1>25 DEF NoFlip, port, access, registration, queue, gpu, calls
  <2>4. requests' \in Seq(Request) /\ Len(requests') <= admitted' /\ admitted' \in 0 .. Capacity /\ accepted' \in Nat /\ pending' \in Nat
    BY <2>2 DEF PortInv, TypeOK
  <2>9. QED
    BY ONLY <2>1, <2>2, <2>3, <2>4, PresenterTypes, PortInv DEF PortInv
<1>26. ASSUME TakeFlip PROVE TypeOK'
  <2>1. presenter' \in [at : {"vblank", "vblankEvents", "flip", "present", "draw", "publish", "remove", "release"}, request : Request]
    <3>1. requests \in Seq(Request) /\ requests # <<>>
      BY <1>26 DEF TakeFlip, PortInv, TypeOK
    <3>2. Head(requests) \in Request
      BY ONLY <3>1, ListElements
    <3>3. QED
      BY ONLY <1>26, <3>2 DEF TakeFlip
  <2>2. progress' \in BOOLEAN /\ UNCHANGED <<requests, admitted, accepted, pending>>
    BY <1>26 DEF TakeFlip, PortInv, TypeOK, access, queue
  <2>3. /\ UNCHANGED <<opened, closing, session, sequence, buffers, reserved, quiescing, draining, accesses>>
        /\ UNCHANGED <<registering, registrar, gpuQueued, submission, stream, decoded, worker>>
        /\ UNCHANGED <<pc, slot, address, sawIdle, misled, raced>>
    BY ONLY <1>26 DEF TakeFlip, port, access, registration, queue, gpu, calls
  <2>4. requests' \in Seq(Request) /\ Len(requests') <= admitted' /\ admitted' \in 0 .. Capacity /\ accepted' \in Nat /\ pending' \in Nat
    BY <2>2 DEF PortInv, TypeOK
  <2>9. QED
    BY ONLY <2>1, <2>2, <2>3, <2>4, PresenterTypes, PortInv DEF PortInv
<1>27. ASSUME CaptureImage PROVE TypeOK'
  <2>1. presenter' \in [at : {"vblank", "vblankEvents", "flip", "present", "draw", "publish", "remove", "release"}, request : Request]
    <3>1. presenter' = [presenter EXCEPT !.at = "publish"] \/ presenter' = [presenter EXCEPT !.at = "draw"]
      BY ONLY <1>27 DEF CaptureImage, PresenterTo
    <3>2. QED
      BY <3>1, PresenterMoves DEF PortInv
  <2>2. progress' \in BOOLEAN /\ UNCHANGED <<requests, admitted, accepted, pending>>
    BY <1>27 DEF CaptureImage, PortInv, TypeOK, access, queue
  <2>3. /\ UNCHANGED <<opened, closing, session, sequence, buffers, reserved, quiescing, draining, accesses>>
        /\ UNCHANGED <<registering, registrar, gpuQueued, submission, stream, decoded, worker>>
        /\ UNCHANGED <<pc, slot, address, sawIdle, misled, raced>>
    BY ONLY <1>27 DEF CaptureImage, port, access, registration, queue, gpu, calls
  <2>4. requests' \in Seq(Request) /\ Len(requests') <= admitted' /\ admitted' \in 0 .. Capacity /\ accepted' \in Nat /\ pending' \in Nat
    BY <2>2 DEF PortInv, TypeOK
  <2>9. QED
    BY ONLY <2>1, <2>2, <2>3, <2>4, PresenterTypes, PortInv DEF PortInv
<1>28. ASSUME DrawImage PROVE TypeOK'
  <2>1. presenter' \in [at : {"vblank", "vblankEvents", "flip", "present", "draw", "publish", "remove", "release"}, request : Request]
    BY <1>28, PresenterMoves DEF DrawImage, PresenterTo, PortInv
  <2>2. progress' \in BOOLEAN /\ UNCHANGED <<requests, admitted, accepted, pending>>
    BY <1>28 DEF DrawImage, PortInv, TypeOK, access, queue
  <2>3. /\ UNCHANGED <<opened, closing, session, sequence, buffers, reserved, quiescing, draining, accesses>>
        /\ UNCHANGED <<registering, registrar, gpuQueued, submission, stream, decoded, worker>>
        /\ UNCHANGED <<pc, slot, address, sawIdle, misled, raced>>
    BY ONLY <1>28 DEF DrawImage, port, access, registration, queue, gpu, calls
  <2>4. requests' \in Seq(Request) /\ Len(requests') <= admitted' /\ admitted' \in 0 .. Capacity /\ accepted' \in Nat /\ pending' \in Nat
    BY <2>2 DEF PortInv, TypeOK
  <2>9. QED
    BY ONLY <2>1, <2>2, <2>3, <2>4, PresenterTypes, PortInv DEF PortInv
<1>29. ASSUME PublishStatus PROVE TypeOK'
  <2>1. requests \in Seq(Request) /\ requests # <<>>
    BY <1>29 DEF PublishStatus, PortInv, TypeOK, CountInv
  <2>2. Len(requests) > 0
    BY ONLY <2>1, ListElements
  <2>3. pending' \in Nat
    BY ONLY <1>29, <2>2, PortInv, VideoNumbers DEF PublishStatus, FlipPendingNum
  <2>5. presenter' \in [at : {"vblank", "vblankEvents", "flip", "present", "draw", "publish", "remove", "release"}, request : Request]
    BY <1>29, PresenterMoves DEF PublishStatus, PresenterTo, PortInv
  <2>6. /\ UNCHANGED <<opened, closing, session, sequence, buffers, reserved, quiescing, draining, accesses, progress>>
        /\ UNCHANGED <<registering, registrar, gpuQueued, submission, stream, decoded, worker>>
        /\ UNCHANGED <<pc, slot, address, sawIdle, misled, raced, admitted>>
    BY ONLY <1>29 DEF PublishStatus, port, access, registration, queue, gpu, calls
  <2>7. requests' \in Seq(Request) /\ Len(requests') <= admitted' /\ admitted' \in 0 .. Capacity /\ accepted' \in Nat /\ pending' \in Nat
    BY <1>29, <2>6, <2>3 DEF PublishStatus, PortInv, TypeOK
  <2>8. progress' \in BOOLEAN
    BY <2>6 DEF PortInv, TypeOK
  <2>9. QED
    BY ONLY <2>5, <2>6, <2>7, <2>8, PresenterTypes, PortInv DEF PortInv
<1>30. ASSUME RemoveFlip PROVE TypeOK'
  <2>1. requests \in Seq(Request) /\ requests # <<>>
    BY <1>30 DEF RemoveFlip, PortInv, TypeOK, CountInv
  <2>2. Len(requests) > 0 /\ requests' \in Seq(Request) /\ Len(requests') = Len(requests) - 1
    BY ONLY <2>1, <1>30, ListElements DEF RemoveFlip
  <2>3. accepted' \in Nat /\ Len(requests') <= admitted
    <3>0. /\ accepted = Len(requests) + (IF worker.at \in {"admit", "enqueue"} THEN 1 ELSE 0)
          /\ accepted \in Nat /\ admitted \in 0 .. 2 /\ Len(requests) \in Nat /\ Len(requests) <= admitted
      BY VideoNumbers DEF PortInv, CountInv, TypeOK
    <3>1. /\ accepted \in Nat /\ admitted \in Nat /\ Len(requests) \in Nat /\ Len(requests) <= admitted
          /\ accepted >= Len(requests)
      BY ONLY <3>0
    <3>2. QED
      BY ONLY <1>30, <2>2, <3>1 DEF RemoveFlip, Completed
  <2>5. presenter' \in [at : {"vblank", "vblankEvents", "flip", "present", "draw", "publish", "remove", "release"}, request : Request]
    BY <1>30, PresenterMoves DEF RemoveFlip, PresenterTo, PortInv
  <2>6. /\ UNCHANGED <<opened, closing, session, sequence, buffers, reserved, quiescing, draining, accesses, progress>>
        /\ UNCHANGED <<registering, registrar, gpuQueued, submission, stream, decoded, worker>>
        /\ UNCHANGED <<pc, slot, address, sawIdle, misled, raced, admitted>>
    BY ONLY <1>30 DEF RemoveFlip, port, access, registration, queue, gpu, calls
  <2>7. requests' \in Seq(Request) /\ Len(requests') <= admitted' /\ admitted' \in 0 .. Capacity /\ accepted' \in Nat /\ pending' \in Nat
    BY <1>30, <2>6, <2>2, <2>3 DEF RemoveFlip, PortInv, TypeOK
  <2>8. progress' \in BOOLEAN
    BY <2>6 DEF PortInv, TypeOK
  <2>9. QED
    BY ONLY <2>5, <2>6, <2>7, <2>8, PresenterTypes, PortInv DEF PortInv
<1>31. ASSUME ReleaseAdmission PROVE TypeOK'
  <2>1. admitted' \in 0 .. Capacity /\ Len(requests) <= admitted'
    <3>1. admitted \in 0 .. 2 /\ Len(requests) \in Nat /\ admitted >= Len(requests) + 1
      BY <1>31, VideoNumbers DEF ReleaseAdmission, PortInv, CountInv
    <3>2. QED
      BY ONLY <1>31, <3>1 DEF ReleaseAdmission, GivenBack, Capacity
  <2>9. QED
    BY <1>31, <2>1, VideoNames DEF ReleaseAdmission, PortInv, TypeOK, Stations, port, access, registration, queue, gpu, calls
<1>32. QED
  BY ONLY Next, <1>1, <1>2, <1>3, <1>4, <1>5, <1>6, <1>7, <1>7a, <1>8, <1>9, <1>10, <1>11, <1>12, <1>13, <1>14, <1>15, <1>16, <1>17, <1>17a, <1>18, <1>19, <1>20, <1>21, <1>22, <1>23, <1>24, <1>25, <1>26, <1>27, <1>28, <1>29, <1>30, <1>31 DEF Next, Call, Transaction, WorkerStep, PresenterStep

(* The order of a transaction's steps.                                     *)
LEMMA FollowsPlaces ==
  /\ \A p \in TransactionPcs \ {"action"} : Follows[p] \in TransactionPcs
  /\ Follows["gpu"] = "drain" /\ Follows["drain"] = "accesses" /\ Follows["accesses"] = "mark"
  /\ Follows["flips"] = "registrations" /\ Follows["registrations"] = "finish"
  /\ Follows["finish"] = "progress" /\ Follows["progress"] = "shut" /\ Follows["images"] = "clear"
BY DEF Follows, TransactionPcs

(* The gates count the calls that the threads are in.                      *)
LEMMA PlaceStep ==
  ASSUME PortInv, Next
  PROVE  PlaceInv'
<1>1. ASSUME NEW t \in Guests, NEW call \in CallPcs \ {"unregistered", "order", "recheck", "commit"}, NEW i \in Indices,
        NEW a \in Addresses \cup {Nobody}, Enter(t, call, i, a) PROVE PlaceInv'
  <2>1. /\ pc' = [pc EXCEPT ![t] = call] /\ slot' = [slot EXCEPT ![t] = i] /\ address' = [address EXCEPT ![t] = a]
        /\ accesses' = accesses \cup {t} /\ pc[t] = "idle"
        /\ UNCHANGED <<registering, registrar, worker, session>>
    BY ONLY <1>1 DEF Enter, GoTo, port, registration, gpu
  <2>2. /\ pc \in [Guests -> Stations] /\ slot \in [Guests -> Indices] /\ address \in [Guests -> Addresses \cup {Nobody}]
    BY DEF PortInv, TypeOK, Stations
  <2>3. /\ call \in {"open", "submit", "pending", "unregister", "reserve"}
        /\ call \in {"submit", "pending", "unregister"} => t = Flipper
        /\ call = "open" => t = Closer /\ session < MaxSessions
        /\ call \in {"reserve", "unregister"} => i \in Slots
        /\ call = "reserve" => a \in Addresses
    BY ONLY <1>1, VideoNames DEF Enter, CallPcs, Indices
  <2>4. QED
    BY ONLY <2>1, <2>2, <2>3, VideoNames, PortInv DEF PortInv, PlaceInv, CallPcs, TransactionPcs, Registers
<1>2. ASSUME NEW t \in Guests, NEW i \in Slots, NEW waits \in BOOLEAN, SubmitToGpu(t, i, waits) PROVE PlaceInv'
  BY <1>2, VideoNames DEF SubmitToGpu, PortInv, TypeOK, PlaceInv, GoTo, Leave, port, access, registration, queue, gpu, calls, CallPcs, TransactionPcs, Registers
<1>3. ASSUME NEW t \in Guests, NEW a \in Addresses \cup {Nobody}, Transact(t, a) PROVE PlaceInv'
  BY <1>3, VideoNames DEF Transact, PortInv, TypeOK, PlaceInv, GoTo, Leave, port, access, registration, queue, gpu, calls, CallPcs, TransactionPcs, Registers
<1>4. ASSUME NEW t \in Guests, Open(t) PROVE PlaceInv'
  BY <1>4, VideoNames DEF Open, PortInv, TypeOK, PlaceInv, GoTo, Leave, port, access, registration, queue, gpu, calls, CallPcs, TransactionPcs, Registers
<1>5. ASSUME NEW t \in Guests, SubmitFlip(t) PROVE PlaceInv'
  BY <1>5, VideoNames DEF SubmitFlip, PortInv, TypeOK, PlaceInv, GoTo, Leave, port, access, registration, queue, gpu, calls, CallPcs, TransactionPcs, Registers
<1>6. ASSUME NEW t \in Guests, IsFlipPending(t) PROVE PlaceInv'
  BY <1>6, VideoNames DEF IsFlipPending, PortInv, TypeOK, PlaceInv, GoTo, Leave, port, access, registration, queue, gpu, calls, CallPcs, TransactionPcs, Registers
<1>7. ASSUME NEW t \in Guests, Unregister(t) PROVE PlaceInv'
  BY <1>7, VideoNames DEF Unregister, PortInv, TypeOK, PlaceInv, GoTo, Leave, port, access, registration, queue, gpu, calls, CallPcs, TransactionPcs, Registers
<1>7a. ASSUME NEW t \in Guests, Unregistered(t) PROVE PlaceInv'
  BY <1>7a, VideoNames DEF Unregistered, PortInv, TypeOK, PlaceInv, GoTo, Leave, port, access, registration, queue, gpu, calls, CallPcs, TransactionPcs, Registers
<1>8. ASSUME NEW t \in Guests, Reserve(t) PROVE PlaceInv'
  BY <1>8, VideoNames DEF Reserve, PortInv, TypeOK, PlaceInv, GoTo, Leave, port, access, registration, queue, gpu, calls, CallPcs, TransactionPcs, Registers
<1>9. ASSUME NEW t \in Guests, Order(t) PROVE PlaceInv'
  BY <1>9, VideoNames DEF Order, PortInv, TypeOK, PlaceInv, GoTo, Leave, port, access, registration, queue, gpu, calls, CallPcs, TransactionPcs, Registers
<1>10. ASSUME NEW t \in Guests, Recheck(t) PROVE PlaceInv'
  BY <1>10, VideoNames DEF Recheck, PortInv, TypeOK, PlaceInv, GoTo, Leave, port, access, registration, queue, gpu, calls, CallPcs, TransactionPcs, Registers
<1>11. ASSUME NEW t \in Guests, Commit(t) PROVE PlaceInv'
  BY <1>11, VideoNames DEF Commit, PortInv, TypeOK, PlaceInv, GoTo, Leave, port, access, registration, queue, gpu, calls, CallPcs, TransactionPcs, Registers
<1>12. ASSUME NEW t \in Guests, Await(t) PROVE PlaceInv'
  <2>1. pc[t] \in TransactionPcs \ {"action"}
    BY <1>12 DEF Await, TransactionPcs
  <2>2. t = Closer /\ Follows[pc[t]] \in TransactionPcs
    BY <2>1, FollowsPlaces DEF PortInv, PlaceInv
  <2>3. /\ pc' = [pc EXCEPT ![t] = Follows[pc[t]]] /\ pc \in [Guests -> Stations]
        /\ UNCHANGED <<slot, address, accesses, registering, registrar, worker, session>>
    BY <1>12 DEF Await, GoTo, port, access, registration, gpu, PortInv, TypeOK, Stations
  <2>4. QED
    BY ONLY <2>1, <2>2, <2>3, VideoNames, PortInv DEF PortInv, PlaceInv, CallPcs, TransactionPcs, Registers
<1>13. ASSUME NEW t \in Guests, Gates(t) PROVE PlaceInv'
  <2>1. pc[t] \in TransactionPcs \ {"action"}
    BY <1>13 DEF Gates, TransactionPcs
  <2>2. t = Closer /\ Follows[pc[t]] \in TransactionPcs
    BY <2>1, FollowsPlaces DEF PortInv, PlaceInv
  <2>3. /\ pc' = [pc EXCEPT ![t] = Follows[pc[t]]] /\ pc \in [Guests -> Stations]
        /\ UNCHANGED <<slot, address, accesses, registering, registrar, worker, session>>
    BY <1>13 DEF Gates, GoTo, port, access, registration, gpu, PortInv, TypeOK, Stations
  <2>4. QED
    BY ONLY <2>1, <2>2, <2>3, VideoNames, PortInv DEF PortInv, PlaceInv, CallPcs, TransactionPcs, Registers
<1>14. ASSUME NEW t \in Guests, Mark(t) PROVE PlaceInv'
  BY <1>14, VideoNames DEF Mark, PortInv, TypeOK, PlaceInv, GoTo, Leave, port, access, registration, queue, gpu, calls, CallPcs, TransactionPcs, Registers
<1>15. ASSUME NEW t \in Guests, Shut(t) PROVE PlaceInv'
  BY <1>15, VideoNames DEF Shut, PortInv, TypeOK, PlaceInv, GoTo, Leave, port, access, registration, queue, gpu, calls, CallPcs, TransactionPcs, Registers
<1>16. ASSUME NEW t \in Guests, Clear(t) PROVE PlaceInv'
  BY <1>16, VideoNames DEF Clear, PortInv, TypeOK, PlaceInv, GoTo, Leave, port, access, registration, queue, gpu, calls, CallPcs, TransactionPcs, Registers
<1>17. ASSUME NEW t \in Guests, Finish(t) PROVE PlaceInv'
  BY <1>17, VideoNames DEF Finish, PortInv, TypeOK, PlaceInv, GoTo, Leave, port, access, registration, queue, gpu, calls, CallPcs, TransactionPcs, Registers
<1>17a. ASSUME ReleaseDecode PROVE PlaceInv'
  <2>1. /\ \/ UNCHANGED pc
           \/ submission \in Guests /\ pc[submission] = "decoding" /\ pc' = [pc EXCEPT ![submission] = "idle"]
        /\ UNCHANGED <<slot, address, accesses, registering, registrar, session>> /\ worker' = worker
    BY <1>17a DEF ReleaseDecode, DecodeWaiter, SubmitterReturns, GoTo, port, access, registration, gpu, PortInv, TypeOK, Stations
  <2>2. pc \in [Guests -> Stations]
    BY DEF PortInv, TypeOK, Stations
  <2>3. QED
    BY ONLY <2>1, <2>2, VideoNames, PortInv DEF PortInv, PlaceInv, CallPcs, TransactionPcs, Registers
<1>18. ASSUME Decode PROVE PlaceInv'
  <2>1. /\ \/ UNCHANGED pc
           \/ submission \in Guests /\ pc[submission] = "decoding" /\ pc' = [pc EXCEPT ![submission] = "idle"]
        /\ UNCHANGED <<slot, address, accesses, registering, registrar, session>> /\ worker' = worker
    BY <1>18 DEF Decode, DecodeWaiter, SubmitterReturns, GoTo, port, access, registration, gpu, PortInv, TypeOK, Stations
  <2>2. pc \in [Guests -> Stations]
    BY DEF PortInv, TypeOK, Stations
  <2>3. QED
    BY ONLY <2>1, <2>2, VideoNames, PortInv DEF PortInv, PlaceInv, CallPcs, TransactionPcs, Registers
<1>19. ASSUME Fire PROVE PlaceInv'
  BY <1>19, VideoNames DEF Fire, PortInv, TypeOK, PlaceInv, GoTo, PresenterTo, port, access, registration, queue, gpu, calls
<1>20. ASSUME ReserveInternal PROVE PlaceInv'
  BY <1>20, VideoNames DEF ReserveInternal, PortInv, TypeOK, PlaceInv, GoTo, PresenterTo, port, access, registration, queue, gpu, calls
<1>21. ASSUME AcquireBlocking PROVE PlaceInv'
  BY <1>21, VideoNames DEF AcquireBlocking, PortInv, TypeOK, PlaceInv, GoTo, PresenterTo, port, access, registration, queue, gpu, calls
<1>22. ASSUME Enqueue PROVE PlaceInv'
  BY <1>22, VideoNames DEF Enqueue, PortInv, TypeOK, PlaceInv, GoTo, PresenterTo, port, access, registration, queue, gpu, calls
<1>23. ASSUME Vblank PROVE PlaceInv'
  BY <1>23, VideoNames DEF Vblank, PortInv, TypeOK, PlaceInv, GoTo, PresenterTo, port, access, registration, queue, gpu, calls
<1>24. ASSUME VblankDone PROVE PlaceInv'
  BY <1>24, VideoNames DEF VblankDone, PortInv, TypeOK, PlaceInv, GoTo, PresenterTo, port, access, registration, queue, gpu, calls
<1>25. ASSUME NoFlip PROVE PlaceInv'
  BY <1>25, VideoNames DEF NoFlip, PortInv, TypeOK, PlaceInv, GoTo, PresenterTo, port, access, registration, queue, gpu, calls
<1>26. ASSUME TakeFlip PROVE PlaceInv'
  BY <1>26, VideoNames DEF TakeFlip, PortInv, TypeOK, PlaceInv, GoTo, PresenterTo, port, access, registration, queue, gpu, calls
<1>27. ASSUME CaptureImage PROVE PlaceInv'
  BY <1>27, VideoNames DEF CaptureImage, PortInv, TypeOK, PlaceInv, GoTo, PresenterTo, port, access, registration, queue, gpu, calls
<1>28. ASSUME DrawImage PROVE PlaceInv'
  BY <1>28, VideoNames DEF DrawImage, PortInv, TypeOK, PlaceInv, GoTo, PresenterTo, port, access, registration, queue, gpu, calls
<1>29. ASSUME PublishStatus PROVE PlaceInv'
  BY <1>29, VideoNames DEF PublishStatus, PortInv, TypeOK, PlaceInv, GoTo, PresenterTo, port, access, registration, queue, gpu, calls
<1>30. ASSUME RemoveFlip PROVE PlaceInv'
  BY <1>30, VideoNames DEF RemoveFlip, PortInv, TypeOK, PlaceInv, GoTo, PresenterTo, port, access, registration, queue, gpu, calls
<1>31. ASSUME ReleaseAdmission PROVE PlaceInv'
  BY <1>31, VideoNames DEF ReleaseAdmission, PortInv, TypeOK, PlaceInv, GoTo, PresenterTo, port, access, registration, queue, gpu, calls
<1>32. QED
  BY ONLY Next, <1>1, <1>2, <1>3, <1>4, <1>5, <1>6, <1>7, <1>7a, <1>8, <1>9, <1>10, <1>11, <1>12, <1>13, <1>14, <1>15, <1>16, <1>17, <1>17a, <1>18, <1>19, <1>20, <1>21, <1>22, <1>23, <1>24, <1>25, <1>26, <1>27, <1>28, <1>29, <1>30, <1>31 DEF Next, Call, Transaction, WorkerStep, PresenterStep

(* The admission gate of the GPU is held for a transaction or a decoding.  *)
LEMMA HolderStep ==
  ASSUME PortInv, Next
  PROVE  HolderInv'
<1>1. ASSUME NEW t \in Guests, NEW call \in CallPcs \ {"unregistered", "order", "recheck", "commit"}, NEW i \in Indices,
        NEW a \in Addresses \cup {Nobody}, Enter(t, call, i, a) PROVE HolderInv'
  BY <1>1, VideoNames DEF Enter, PortInv, TypeOK, PlaceInv, HolderInv, GoTo, Leave, PresenterTo, port, access, registration, queue, gpu, calls, CallPcs, TransactionPcs
<1>2. ASSUME NEW t \in Guests, NEW i \in Slots, NEW waits \in BOOLEAN, SubmitToGpu(t, i, waits) PROVE HolderInv'
  <2>1. /\ t = Flipper /\ pc[t] = "idle" /\ submission = Nobody
        /\ \/ submission' = t /\ pc' = [pc EXCEPT ![t] = "decoding"]
           \/ UNCHANGED <<submission, pc>>
    BY ONLY <1>2 DEF SubmitToGpu, GoTo
  <2>2. pc \in [Guests -> Stations]
    BY DEF PortInv, TypeOK, Stations
  <2>3. QED
    BY ONLY <2>1, <2>2, VideoNames, PortInv DEF PortInv, HolderInv, PlaceInv, TransactionPcs
<1>3. ASSUME NEW t \in Guests, NEW a \in Addresses \cup {Nobody}, Transact(t, a) PROVE HolderInv'
  BY <1>3, VideoNames DEF Transact, PortInv, TypeOK, PlaceInv, HolderInv, GoTo, Leave, PresenterTo, port, access, registration, queue, gpu, calls, CallPcs, TransactionPcs
<1>4. ASSUME NEW t \in Guests, Open(t) PROVE HolderInv'
  BY <1>4, VideoNames DEF Open, PortInv, TypeOK, PlaceInv, HolderInv, GoTo, Leave, PresenterTo, port, access, registration, queue, gpu, calls, CallPcs, TransactionPcs
<1>5. ASSUME NEW t \in Guests, SubmitFlip(t) PROVE HolderInv'
  BY <1>5, VideoNames DEF SubmitFlip, PortInv, TypeOK, PlaceInv, HolderInv, GoTo, Leave, PresenterTo, port, access, registration, queue, gpu, calls, CallPcs, TransactionPcs
<1>6. ASSUME NEW t \in Guests, IsFlipPending(t) PROVE HolderInv'
  BY <1>6, VideoNames DEF IsFlipPending, PortInv, TypeOK, PlaceInv, HolderInv, GoTo, Leave, PresenterTo, port, access, registration, queue, gpu, calls, CallPcs, TransactionPcs
<1>7. ASSUME NEW t \in Guests, Unregister(t) PROVE HolderInv'
  BY <1>7, VideoNames DEF Unregister, PortInv, TypeOK, PlaceInv, HolderInv, GoTo, Leave, PresenterTo, port, access, registration, queue, gpu, calls, CallPcs, TransactionPcs
<1>7a. ASSUME NEW t \in Guests, Unregistered(t) PROVE HolderInv'
  BY <1>7a, VideoNames DEF Unregistered, PortInv, TypeOK, PlaceInv, HolderInv, GoTo, Leave, PresenterTo, port, access, registration, queue, gpu, calls, CallPcs, TransactionPcs
<1>8. ASSUME NEW t \in Guests, Reserve(t) PROVE HolderInv'
  BY <1>8, VideoNames DEF Reserve, PortInv, TypeOK, PlaceInv, HolderInv, GoTo, Leave, PresenterTo, port, access, registration, queue, gpu, calls, CallPcs, TransactionPcs
<1>9. ASSUME NEW t \in Guests, Order(t) PROVE HolderInv'
  BY <1>9, VideoNames DEF Order, PortInv, TypeOK, PlaceInv, HolderInv, GoTo, Leave, PresenterTo, port, access, registration, queue, gpu, calls, CallPcs, TransactionPcs
<1>10. ASSUME NEW t \in Guests, Recheck(t) PROVE HolderInv'
  BY <1>10, VideoNames DEF Recheck, PortInv, TypeOK, PlaceInv, HolderInv, GoTo, Leave, PresenterTo, port, access, registration, queue, gpu, calls, CallPcs, TransactionPcs
<1>11. ASSUME NEW t \in Guests, Commit(t) PROVE HolderInv'
  BY <1>11, VideoNames DEF Commit, PortInv, TypeOK, PlaceInv, HolderInv, GoTo, Leave, PresenterTo, port, access, registration, queue, gpu, calls, CallPcs, TransactionPcs
<1>12. ASSUME NEW t \in Guests, Await(t) PROVE HolderInv'
  <2>1. pc[t] \in TransactionPcs \ {"action"}
    BY <1>12 DEF Await, TransactionPcs
  <2>2. t = Closer /\ Follows[pc[t]] \in TransactionPcs
    BY <2>1, FollowsPlaces DEF PortInv, PlaceInv
  <2>3. /\ pc' = [pc EXCEPT ![t] = Follows[pc[t]]] /\ pc \in [Guests -> Stations]
        /\ UNCHANGED <<submission, stream>>
    BY <1>12 DEF Await, GoTo, gpu, PortInv, TypeOK, Stations
  <2>4. QED
    BY ONLY <2>1, <2>2, <2>3, VideoNames, PortInv DEF PortInv, HolderInv, TransactionPcs
<1>13. ASSUME NEW t \in Guests, Gates(t) PROVE HolderInv'
  <2>1. pc[t] \in TransactionPcs \ {"action"}
    BY <1>13 DEF Gates, TransactionPcs
  <2>2. t = Closer /\ Follows[pc[t]] \in TransactionPcs
    BY <2>1, FollowsPlaces DEF PortInv, PlaceInv
  <2>3. /\ pc' = [pc EXCEPT ![t] = Follows[pc[t]]] /\ pc \in [Guests -> Stations]
        /\ UNCHANGED <<submission, worker, decoded, stream>>
    BY <1>13 DEF Gates, GoTo, gpu, PortInv, TypeOK, Stations
  <2>4. QED
    BY ONLY <2>1, <2>2, <2>3, VideoNames, PortInv DEF PortInv, HolderInv, TransactionPcs
<1>14. ASSUME NEW t \in Guests, Mark(t) PROVE HolderInv'
  BY <1>14, VideoNames DEF Mark, PortInv, TypeOK, PlaceInv, HolderInv, GoTo, Leave, PresenterTo, port, access, registration, queue, gpu, calls, CallPcs, TransactionPcs
<1>15. ASSUME NEW t \in Guests, Shut(t) PROVE HolderInv'
  BY <1>15, VideoNames DEF Shut, PortInv, TypeOK, PlaceInv, HolderInv, GoTo, Leave, PresenterTo, port, access, registration, queue, gpu, calls, CallPcs, TransactionPcs
<1>16. ASSUME NEW t \in Guests, Clear(t) PROVE HolderInv'
  BY <1>16, VideoNames DEF Clear, PortInv, TypeOK, PlaceInv, HolderInv, GoTo, Leave, PresenterTo, port, access, registration, queue, gpu, calls, CallPcs, TransactionPcs
<1>17. ASSUME NEW t \in Guests, Finish(t) PROVE HolderInv'
  BY <1>17, VideoNames DEF Finish, PortInv, TypeOK, PlaceInv, HolderInv, GoTo, Leave, PresenterTo, port, access, registration, queue, gpu, calls, CallPcs, TransactionPcs
<1>17a. ASSUME ReleaseDecode PROVE HolderInv'
  <2>1. /\ \/ UNCHANGED <<pc, submission>>
           \/ /\ submission \in Guests /\ pc[submission] = "decoding" /\ pc' = [pc EXCEPT ![submission] = "idle"]
              /\ submission' = Nobody
    BY <1>17a DEF ReleaseDecode, DecodeWaiter, SubmitterReturns, GoTo, PortInv, TypeOK
  <2>2. pc \in [Guests -> Stations]
    BY DEF PortInv, TypeOK, Stations
  <2>3. QED
    BY ONLY <2>1, <2>2, VideoNames, PortInv DEF PortInv, HolderInv, PlaceInv, TransactionPcs
<1>18. ASSUME Decode PROVE HolderInv'
  <2>1. /\ \/ UNCHANGED <<pc, submission>>
           \/ /\ submission \in Guests /\ pc[submission] = "decoding" /\ pc' = [pc EXCEPT ![submission] = "idle"]
              /\ submission' = Nobody
    BY <1>18 DEF Decode, DecodeWaiter, SubmitterReturns, GoTo, PortInv, TypeOK
  <2>2. pc \in [Guests -> Stations]
    BY DEF PortInv, TypeOK, Stations
  <2>3. QED
    BY ONLY <2>1, <2>2, VideoNames, PortInv DEF PortInv, HolderInv, PlaceInv, TransactionPcs
<1>19. ASSUME Fire PROVE HolderInv'
  BY <1>19, VideoNames DEF Fire, PortInv, TypeOK, PlaceInv, HolderInv, GoTo, Leave, PresenterTo, port, access, registration, queue, gpu, calls, CallPcs, TransactionPcs
<1>20. ASSUME ReserveInternal PROVE HolderInv'
  BY <1>20, VideoNames DEF ReserveInternal, PortInv, TypeOK, PlaceInv, HolderInv, GoTo, Leave, PresenterTo, port, access, registration, queue, gpu, calls, CallPcs, TransactionPcs
<1>21. ASSUME AcquireBlocking PROVE HolderInv'
  BY <1>21, VideoNames DEF AcquireBlocking, PortInv, TypeOK, PlaceInv, HolderInv, GoTo, Leave, PresenterTo, port, access, registration, queue, gpu, calls, CallPcs, TransactionPcs
<1>22. ASSUME Enqueue PROVE HolderInv'
  BY <1>22, VideoNames DEF Enqueue, PortInv, TypeOK, PlaceInv, HolderInv, GoTo, Leave, PresenterTo, port, access, registration, queue, gpu, calls, CallPcs, TransactionPcs
<1>23. ASSUME Vblank PROVE HolderInv'
  BY <1>23, VideoNames DEF Vblank, PortInv, TypeOK, PlaceInv, HolderInv, GoTo, Leave, PresenterTo, port, access, registration, queue, gpu, calls, CallPcs, TransactionPcs
<1>24. ASSUME VblankDone PROVE HolderInv'
  BY <1>24, VideoNames DEF VblankDone, PortInv, TypeOK, PlaceInv, HolderInv, GoTo, Leave, PresenterTo, port, access, registration, queue, gpu, calls, CallPcs, TransactionPcs
<1>25. ASSUME NoFlip PROVE HolderInv'
  BY <1>25, VideoNames DEF NoFlip, PortInv, TypeOK, PlaceInv, HolderInv, GoTo, Leave, PresenterTo, port, access, registration, queue, gpu, calls, CallPcs, TransactionPcs
<1>26. ASSUME TakeFlip PROVE HolderInv'
  BY <1>26, VideoNames DEF TakeFlip, PortInv, TypeOK, PlaceInv, HolderInv, GoTo, Leave, PresenterTo, port, access, registration, queue, gpu, calls, CallPcs, TransactionPcs
<1>27. ASSUME CaptureImage PROVE HolderInv'
  BY <1>27, VideoNames DEF CaptureImage, PortInv, TypeOK, PlaceInv, HolderInv, GoTo, Leave, PresenterTo, port, access, registration, queue, gpu, calls, CallPcs, TransactionPcs
<1>28. ASSUME DrawImage PROVE HolderInv'
  BY <1>28, VideoNames DEF DrawImage, PortInv, TypeOK, PlaceInv, HolderInv, GoTo, Leave, PresenterTo, port, access, registration, queue, gpu, calls, CallPcs, TransactionPcs
<1>29. ASSUME PublishStatus PROVE HolderInv'
  BY <1>29, VideoNames DEF PublishStatus, PortInv, TypeOK, PlaceInv, HolderInv, GoTo, Leave, PresenterTo, port, access, registration, queue, gpu, calls, CallPcs, TransactionPcs
<1>30. ASSUME RemoveFlip PROVE HolderInv'
  BY <1>30, VideoNames DEF RemoveFlip, PortInv, TypeOK, PlaceInv, HolderInv, GoTo, Leave, PresenterTo, port, access, registration, queue, gpu, calls, CallPcs, TransactionPcs
<1>31. ASSUME ReleaseAdmission PROVE HolderInv'
  BY <1>31, VideoNames DEF ReleaseAdmission, PortInv, TypeOK, PlaceInv, HolderInv, GoTo, Leave, PresenterTo, port, access, registration, queue, gpu, calls, CallPcs, TransactionPcs
<1>32. QED
  BY ONLY Next, <1>1, <1>2, <1>3, <1>4, <1>5, <1>6, <1>7, <1>7a, <1>8, <1>9, <1>10, <1>11, <1>12, <1>13, <1>14, <1>15, <1>16, <1>17, <1>17a, <1>18, <1>19, <1>20, <1>21, <1>22, <1>23, <1>24, <1>25, <1>26, <1>27, <1>28, <1>29, <1>30, <1>31 DEF Next, Call, Transaction, WorkerStep, PresenterStep

(* What each wait of a transaction has waited for.                         *)
LEMMA AwaitPlaces ==
  ASSUME NEW t \in Guests, Await(t)
  PROVE  \/ pc[t] = "gpu" /\ pc' = [pc EXCEPT ![t] = "drain"] /\ GpuIdle
         \/ pc[t] = "accesses" /\ pc' = [pc EXCEPT ![t] = "mark"] /\ accesses = {}
         \/ pc[t] = "flips" /\ pc' = [pc EXCEPT ![t] = "registrations"] /\ (~opened \/ accepted = 0)
         \/ pc[t] = "registrations" /\ pc' = [pc EXCEPT ![t] = "finish"] /\ registering = {}
         \/ pc[t] = "progress" /\ pc' = [pc EXCEPT ![t] = "shut"] /\ ~progress
         \/ pc[t] = "images" /\ pc' = [pc EXCEPT ![t] = "clear"] /\ presenter.at # "draw"
<1>1. /\ pc[t] \in {"gpu", "accesses", "flips", "registrations", "progress", "images"}
      /\ Ready(t) /\ pc' = [pc EXCEPT ![t] = Follows[pc[t]]]
  BY DEF Await, GoTo
<1>2. CASE pc[t] = "gpu"
  BY ONLY <1>1, <1>2, FollowsPlaces DEF Ready
<1>3. CASE pc[t] = "accesses"
  BY ONLY <1>1, <1>3, FollowsPlaces DEF Ready
<1>4. CASE pc[t] = "flips"
  BY ONLY <1>1, <1>4, FollowsPlaces DEF Ready, FlipsDone
<1>5. CASE pc[t] = "registrations"
  BY ONLY <1>1, <1>5, FollowsPlaces DEF Ready
<1>6. CASE pc[t] = "progress"
  BY ONLY <1>1, <1>6, FollowsPlaces DEF Ready
<1>7. CASE pc[t] = "images"
  BY ONLY <1>1, <1>7, FollowsPlaces DEF Ready
<1>8. QED
  BY ONLY <1>1, <1>2, <1>3, <1>4, <1>5, <1>6, <1>7

(* What the gates become at the two steps that change them.                *)
LEMMA GatesPlaces ==
  ASSUME NEW t \in Guests, Gates(t)
  PROVE  /\ quiescing' = TRUE
         /\ \/ pc[t] = "drain" /\ pc' = [pc EXCEPT ![t] = "accesses"] /\ draining' = TRUE
            \/ pc[t] = "finish" /\ pc' = [pc EXCEPT ![t] = "progress"] /\ draining' = FALSE
BY FollowsPlaces DEF Gates, GoTo

(* What a transaction has waited for stays so until its end.               *)
LEMMA StageStep ==
  ASSUME PortInv, Next
  PROVE  StageInv'
<1>1. ASSUME NEW t \in Guests, NEW call \in CallPcs \ {"unregistered", "order", "recheck", "commit"}, NEW i \in Indices,
        NEW a \in Addresses \cup {Nobody}, Enter(t, call, i, a) PROVE StageInv'
  <2>1. /\ pc' = [pc EXCEPT ![t] = call] /\ address' = [address EXCEPT ![t] = a]
        /\ accesses' = accesses \cup {t} /\ pc[t] = "idle" /\ ~quiescing
        /\ UNCHANGED <<opened, closing, quiescing, draining, progress, accepted, stream, decoded, worker, presenter>>
    BY ONLY <1>1 DEF Enter, GoTo, MayEnter, port, queue, gpu
  <2>2. /\ pc \in [Guests -> Stations] /\ address \in [Guests -> Addresses \cup {Nobody}]
    BY DEF PortInv, TypeOK, Stations
  <2>3. call \in {"open", "submit", "pending", "unregister", "reserve"}
    BY ONLY <1>1 DEF CallPcs
  <2>4. pc[Closer] \notin {"accesses", "mark", "flips"} \cup Drained /\ ~closing
    BY ONLY <2>1, PortInv DEF PortInv, StageInv, Drained
  <2>5. pc'[Closer] \notin {"drain", "accesses", "mark", "flips"} \cup Drained \/ pc' [Closer] = pc[Closer]
    BY ONLY <2>1, <2>2, <2>3, VideoNames DEF Drained
  <2>6. QED
    BY ONLY <2>1, <2>2, <2>4, <2>5, VideoNames, PortInv DEF PortInv, StageInv, Drained, Shutting, GpuIdle, IsClose
<1>2. ASSUME NEW t \in Guests, NEW i \in Slots, NEW waits \in BOOLEAN, SubmitToGpu(t, i, waits) PROVE StageInv'
  BY <1>2, VideoNames DEF SubmitToGpu, PortInv, TypeOK, PlaceInv, StageInv, GoTo, Leave, PresenterTo, port, access, registration, queue, gpu, calls, CallPcs, TransactionPcs, HolderInv, Drained, Shutting, GpuIdle, IsClose, Usable, Ready, FlipsDone, MayEnter, MayProgress
<1>3. ASSUME NEW t \in Guests, NEW a \in Addresses \cup {Nobody}, Transact(t, a) PROVE StageInv'
  BY <1>3, VideoNames DEF Transact, PortInv, TypeOK, PlaceInv, StageInv, GoTo, Leave, PresenterTo, port, access, registration, queue, gpu, calls, CallPcs, TransactionPcs, HolderInv, Drained, Shutting, GpuIdle, IsClose, Usable, Ready, FlipsDone, MayEnter, MayProgress
<1>4. ASSUME NEW t \in Guests, Open(t) PROVE StageInv'
  BY <1>4, VideoNames DEF Open, PortInv, TypeOK, PlaceInv, StageInv, GoTo, Leave, PresenterTo, port, access, registration, queue, gpu, calls, CallPcs, TransactionPcs, HolderInv, Drained, Shutting, GpuIdle, IsClose, Usable, Ready, FlipsDone, MayEnter, MayProgress
<1>5. ASSUME NEW t \in Guests, SubmitFlip(t) PROVE StageInv'
  BY <1>5, VideoNames DEF SubmitFlip, PortInv, TypeOK, PlaceInv, StageInv, GoTo, Leave, PresenterTo, port, access, registration, queue, gpu, calls, CallPcs, TransactionPcs, HolderInv, Drained, Shutting, GpuIdle, IsClose, Usable, Ready, FlipsDone, MayEnter, MayProgress
<1>6. ASSUME NEW t \in Guests, IsFlipPending(t) PROVE StageInv'
  BY <1>6, VideoNames DEF IsFlipPending, PortInv, TypeOK, PlaceInv, StageInv, GoTo, Leave, PresenterTo, port, access, registration, queue, gpu, calls, CallPcs, TransactionPcs, HolderInv, Drained, Shutting, GpuIdle, IsClose, Usable, Ready, FlipsDone, MayEnter, MayProgress
<1>7. ASSUME NEW t \in Guests, Unregister(t) PROVE StageInv'
  BY <1>7, VideoNames DEF Unregister, PortInv, TypeOK, PlaceInv, StageInv, GoTo, Leave, PresenterTo, port, access, registration, queue, gpu, calls, CallPcs, TransactionPcs, HolderInv, Drained, Shutting, GpuIdle, IsClose, Usable, Ready, FlipsDone, MayEnter, MayProgress
<1>7a. ASSUME NEW t \in Guests, Unregistered(t) PROVE StageInv'
  BY <1>7a, VideoNames DEF Unregistered, PortInv, TypeOK, PlaceInv, StageInv, GoTo, Leave, PresenterTo, port, access, registration, queue, gpu, calls, CallPcs, TransactionPcs, HolderInv, Drained, Shutting, GpuIdle, IsClose, Usable, Ready, FlipsDone, MayEnter, MayProgress
<1>8. ASSUME NEW t \in Guests, Reserve(t) PROVE StageInv'
  BY <1>8, VideoNames DEF Reserve, PortInv, TypeOK, PlaceInv, StageInv, GoTo, Leave, PresenterTo, port, access, registration, queue, gpu, calls, CallPcs, TransactionPcs, HolderInv, Drained, Shutting, GpuIdle, IsClose, Usable, Ready, FlipsDone, MayEnter, MayProgress
<1>9. ASSUME NEW t \in Guests, Order(t) PROVE StageInv'
  BY <1>9, VideoNames DEF Order, PortInv, TypeOK, PlaceInv, StageInv, GoTo, Leave, PresenterTo, port, access, registration, queue, gpu, calls, CallPcs, TransactionPcs, HolderInv, Drained, Shutting, GpuIdle, IsClose, Usable, Ready, FlipsDone, MayEnter, MayProgress
<1>10. ASSUME NEW t \in Guests, Recheck(t) PROVE StageInv'
  BY <1>10, VideoNames DEF Recheck, PortInv, TypeOK, PlaceInv, StageInv, GoTo, Leave, PresenterTo, port, access, registration, queue, gpu, calls, CallPcs, TransactionPcs, HolderInv, Drained, Shutting, GpuIdle, IsClose, Usable, Ready, FlipsDone, MayEnter, MayProgress
<1>11. ASSUME NEW t \in Guests, Commit(t) PROVE StageInv'
  BY <1>11, VideoNames DEF Commit, PortInv, TypeOK, PlaceInv, StageInv, GoTo, Leave, PresenterTo, port, access, registration, queue, gpu, calls, CallPcs, TransactionPcs, HolderInv, Drained, Shutting, GpuIdle, IsClose, Usable, Ready, FlipsDone, MayEnter, MayProgress
<1>12. ASSUME NEW t \in Guests, Await(t) PROVE StageInv'
  <2>1. t = Closer
    BY <1>12 DEF Await, PortInv, PlaceInv, TransactionPcs
  <2>2. /\ UNCHANGED <<opened, closing, quiescing, draining, progress, accesses, accepted, stream, decoded, address>>
        /\ UNCHANGED <<worker, presenter>> /\ pc \in [Guests -> Stations]
    BY <1>12 DEF Await, port, access, queue, gpu, PortInv, TypeOK, Stations
  <2>3. QED
    BY ONLY <2>1, <2>2, AwaitPlaces, <1>12, VideoNames, PortInv DEF PortInv, StageInv, Drained, Shutting, GpuIdle, IsClose, Usable
<1>13. ASSUME NEW t \in Guests, Gates(t) PROVE StageInv'
  <2>1. t = Closer
    BY <1>13 DEF Gates, PortInv, PlaceInv, TransactionPcs
  <2>2. /\ UNCHANGED <<opened, closing, progress, accesses, accepted, stream, decoded, address>>
        /\ UNCHANGED <<worker, presenter>> /\ pc \in [Guests -> Stations]
    BY <1>13 DEF Gates, port, queue, gpu, PortInv, TypeOK, Stations
  <2>3. QED
    BY ONLY <2>1, <2>2, GatesPlaces, <1>13, VideoNames, PortInv DEF PortInv, StageInv, Drained, Shutting, GpuIdle, IsClose, Usable
<1>14. ASSUME NEW t \in Guests, Mark(t) PROVE StageInv'
  BY <1>14, VideoNames DEF Mark, PortInv, TypeOK, PlaceInv, StageInv, GoTo, Leave, PresenterTo, port, access, registration, queue, gpu, calls, CallPcs, TransactionPcs, HolderInv, Drained, Shutting, GpuIdle, IsClose, Usable, Ready, FlipsDone, MayEnter, MayProgress
<1>15. ASSUME NEW t \in Guests, Shut(t) PROVE StageInv'
  BY <1>15, VideoNames DEF Shut, PortInv, TypeOK, PlaceInv, StageInv, GoTo, Leave, PresenterTo, port, access, registration, queue, gpu, calls, CallPcs, TransactionPcs, HolderInv, Drained, Shutting, GpuIdle, IsClose, Usable, Ready, FlipsDone, MayEnter, MayProgress
<1>16. ASSUME NEW t \in Guests, Clear(t) PROVE StageInv'
  BY <1>16, VideoNames DEF Clear, PortInv, TypeOK, PlaceInv, StageInv, GoTo, Leave, PresenterTo, port, access, registration, queue, gpu, calls, CallPcs, TransactionPcs, HolderInv, Drained, Shutting, GpuIdle, IsClose, Usable, Ready, FlipsDone, MayEnter, MayProgress
<1>17. ASSUME NEW t \in Guests, Finish(t) PROVE StageInv'
  BY <1>17, VideoNames DEF Finish, PortInv, TypeOK, PlaceInv, StageInv, GoTo, Leave, PresenterTo, port, access, registration, queue, gpu, calls, CallPcs, TransactionPcs, HolderInv, Drained, Shutting, GpuIdle, IsClose, Usable, Ready, FlipsDone, MayEnter, MayProgress
<1>17a. ASSUME ReleaseDecode PROVE StageInv'
  BY <1>17a, VideoNames DEF ReleaseDecode, DecodeWaiter, SubmitterReturns, PortInv, TypeOK, PlaceInv, StageInv, GoTo, Leave, PresenterTo, port, access, registration, queue, gpu, calls, CallPcs, TransactionPcs, HolderInv, Drained, Shutting, GpuIdle, IsClose, Usable, Ready, FlipsDone, MayEnter, MayProgress
<1>18. ASSUME Decode PROVE StageInv'
  BY <1>18, VideoNames DEF Decode, DecodeWaiter, SubmitterReturns, PortInv, TypeOK, PlaceInv, StageInv, GoTo, Leave, PresenterTo, port, access, registration, queue, gpu, calls, CallPcs, TransactionPcs, HolderInv, Drained, Shutting, GpuIdle, IsClose, Usable, Ready, FlipsDone, MayEnter, MayProgress
<1>19. ASSUME Fire PROVE StageInv'
  BY <1>19, VideoNames DEF Fire, PortInv, TypeOK, PlaceInv, StageInv, GoTo, Leave, PresenterTo, port, access, registration, queue, gpu, calls, CallPcs, TransactionPcs, HolderInv, Drained, Shutting, GpuIdle, IsClose, Usable, Ready, FlipsDone, MayEnter, MayProgress
<1>20. ASSUME ReserveInternal PROVE StageInv'
  BY <1>20, VideoNames DEF ReserveInternal, PortInv, TypeOK, PlaceInv, StageInv, GoTo, Leave, PresenterTo, port, access, registration, queue, gpu, calls, CallPcs, TransactionPcs, HolderInv, Drained, Shutting, GpuIdle, IsClose, Usable, Ready, FlipsDone, MayEnter, MayProgress
<1>21. ASSUME AcquireBlocking PROVE StageInv'
  BY <1>21, VideoNames DEF AcquireBlocking, PortInv, TypeOK, PlaceInv, StageInv, GoTo, Leave, PresenterTo, port, access, registration, queue, gpu, calls, CallPcs, TransactionPcs, HolderInv, Drained, Shutting, GpuIdle, IsClose, Usable, Ready, FlipsDone, MayEnter, MayProgress
<1>22. ASSUME Enqueue PROVE StageInv'
  BY <1>22, VideoNames DEF Enqueue, PortInv, TypeOK, PlaceInv, StageInv, GoTo, Leave, PresenterTo, port, access, registration, queue, gpu, calls, CallPcs, TransactionPcs, HolderInv, Drained, Shutting, GpuIdle, IsClose, Usable, Ready, FlipsDone, MayEnter, MayProgress
<1>23. ASSUME Vblank PROVE StageInv'
  BY <1>23, VideoNames DEF Vblank, PortInv, TypeOK, PlaceInv, StageInv, GoTo, Leave, PresenterTo, port, access, registration, queue, gpu, calls, CallPcs, TransactionPcs, HolderInv, Drained, Shutting, GpuIdle, IsClose, Usable, Ready, FlipsDone, MayEnter, MayProgress
<1>24. ASSUME VblankDone PROVE StageInv'
  BY <1>24, VideoNames DEF VblankDone, PortInv, TypeOK, PlaceInv, StageInv, GoTo, Leave, PresenterTo, port, access, registration, queue, gpu, calls, CallPcs, TransactionPcs, HolderInv, Drained, Shutting, GpuIdle, IsClose, Usable, Ready, FlipsDone, MayEnter, MayProgress
<1>25. ASSUME NoFlip PROVE StageInv'
  BY <1>25, VideoNames DEF NoFlip, PortInv, TypeOK, PlaceInv, StageInv, GoTo, Leave, PresenterTo, port, access, registration, queue, gpu, calls, CallPcs, TransactionPcs, HolderInv, Drained, Shutting, GpuIdle, IsClose, Usable, Ready, FlipsDone, MayEnter, MayProgress
<1>26. ASSUME TakeFlip PROVE StageInv'
  BY <1>26, VideoNames DEF TakeFlip, PortInv, TypeOK, PlaceInv, StageInv, GoTo, Leave, PresenterTo, port, access, registration, queue, gpu, calls, CallPcs, TransactionPcs, HolderInv, Drained, Shutting, GpuIdle, IsClose, Usable, Ready, FlipsDone, MayEnter, MayProgress
<1>27. ASSUME CaptureImage PROVE StageInv'
  BY <1>27, VideoNames DEF CaptureImage, PortInv, TypeOK, PlaceInv, StageInv, GoTo, Leave, PresenterTo, port, access, registration, queue, gpu, calls, CallPcs, TransactionPcs, HolderInv, Drained, Shutting, GpuIdle, IsClose, Usable, Ready, FlipsDone, MayEnter, MayProgress
<1>28. ASSUME DrawImage PROVE StageInv'
  BY <1>28, VideoNames DEF DrawImage, PortInv, TypeOK, PlaceInv, StageInv, GoTo, Leave, PresenterTo, port, access, registration, queue, gpu, calls, CallPcs, TransactionPcs, HolderInv, Drained, Shutting, GpuIdle, IsClose, Usable, Ready, FlipsDone, MayEnter, MayProgress
<1>29. ASSUME PublishStatus PROVE StageInv'
  BY <1>29, VideoNames DEF PublishStatus, PortInv, TypeOK, PlaceInv, StageInv, GoTo, Leave, PresenterTo, port, access, registration, queue, gpu, calls, CallPcs, TransactionPcs, HolderInv, Drained, Shutting, GpuIdle, IsClose, Usable, Ready, FlipsDone, MayEnter, MayProgress
<1>30. ASSUME RemoveFlip PROVE StageInv'
  <2>1. /\ accepted = Len(requests) + (IF worker.at \in {"admit", "enqueue"} THEN 1 ELSE 0)
        /\ requests # <<>> /\ requests \in Seq(Request)
    BY <1>30 DEF RemoveFlip, PortInv, CountInv, TypeOK
  <2>2. Len(requests) > 0 /\ Len(requests) \in Nat
    BY ONLY <2>1, ListElements
  <2>3. accepted # 0
    BY ONLY <2>1, <2>2
  <2>4. presenter.at = "remove" /\ presenter'.at = "release"
    BY <1>30 DEF RemoveFlip, PresenterTo, PortInv, TypeOK
  <2>5. UNCHANGED <<opened, closing, quiescing, draining, progress, accesses, stream, decoded, worker, address, pc>>
    BY <1>30 DEF RemoveFlip, port, access, gpu, calls
  <2>6. QED
    BY ONLY <2>3, <2>4, <2>5, PortInv DEF PortInv, StageInv, Drained, Shutting, GpuIdle, IsClose
<1>31. ASSUME ReleaseAdmission PROVE StageInv'
  BY <1>31, VideoNames DEF ReleaseAdmission, PortInv, TypeOK, PlaceInv, StageInv, GoTo, Leave, PresenterTo, port, access, registration, queue, gpu, calls, CallPcs, TransactionPcs, HolderInv, Drained, Shutting, GpuIdle, IsClose, Usable, Ready, FlipsDone, MayEnter, MayProgress
<1>32. QED
  BY ONLY Next, <1>1, <1>2, <1>3, <1>4, <1>5, <1>6, <1>7, <1>7a, <1>8, <1>9, <1>10, <1>11, <1>12, <1>13, <1>14, <1>15, <1>16, <1>17, <1>17a, <1>18, <1>19, <1>20, <1>21, <1>22, <1>23, <1>24, <1>25, <1>26, <1>27, <1>28, <1>29, <1>30, <1>31 DEF Next, Call, Transaction, WorkerStep, PresenterStep

(* A flip more in the queue.                                               *)
LEMMA AppendRequest ==
  ASSUME NEW S, NEW q \in Seq(S), NEW x \in S
  PROVE  /\ Append(q, x) \in Seq(S) /\ Append(q, x) # <<>> /\ Len(Append(q, x)) = Len(q) + 1
         /\ q # <<>> => Head(Append(q, x)) = Head(q)
<1>1. /\ Append(q, x) \in Seq(S) /\ Len(Append(q, x)) = Len(q) + 1 /\ Len(q) \in Nat
      /\ Append(q, x)[Len(q) + 1] = x /\ \A i \in 1 .. Len(q) : Append(q, x)[i] = q[i]
  BY ListElements
<1>2. Append(q, x) # <<>>
  BY ONLY <1>1, ListElements
<1>3. ASSUME q # <<>> PROVE Head(Append(q, x)) = Head(q)
  <2>1. Len(q) > 0 /\ Head(q) = q[1] /\ Head(Append(q, x)) = Append(q, x)[1]
    BY ONLY <1>1, <1>2, <1>3, ListElements, q \in Seq(S)
  <2>2. QED
    BY ONLY <2>1, <1>1
<1>4. QED
  BY ONLY <1>1, <1>2, <1>3

(* The counts keep up with the flips.                                      *)
LEMMA CountStep ==
  ASSUME PortInv, Next
  PROVE  CountInv'
<1> CountInv
  BY DEF PortInv
<1>1. ASSUME NEW t \in Guests, NEW call \in CallPcs \ {"unregistered", "order", "recheck", "commit"}, NEW i \in Indices,
        NEW a \in Addresses \cup {Nobody}, Enter(t, call, i, a) PROVE CountInv'
  BY ONLY <1>1, PortInv DEF Enter, PortInv, CountInv, port, access, registration, queue, gpu, calls
<1>2. ASSUME NEW t \in Guests, NEW i \in Slots, NEW waits \in BOOLEAN, SubmitToGpu(t, i, waits) PROVE CountInv'
  BY ONLY <1>2, PortInv DEF SubmitToGpu, PortInv, CountInv, port, access, registration, queue, gpu, calls
<1>3. ASSUME NEW t \in Guests, NEW a \in Addresses \cup {Nobody}, Transact(t, a) PROVE CountInv'
  BY ONLY <1>3, PortInv DEF Transact, PortInv, CountInv, port, access, registration, queue, gpu, calls
<1>4. ASSUME NEW t \in Guests, Open(t) PROVE CountInv'
  BY ONLY <1>4, PortInv DEF Open, PortInv, CountInv, port, access, registration, queue, gpu, calls
<1>5. ASSUME NEW t \in Guests, SubmitFlip(t) PROVE CountInv'
  <2>1. CASE UNCHANGED <<requests, accepted, admitted, gpuQueued, decoded, worker, presenter>>
    BY ONLY <2>1, CountInv DEF CountInv
  <2>2. CASE /\ requests' = Append(requests, RequestFor(slot[t])) /\ admitted' = admitted + 1 /\ accepted' = accepted + 1
             /\ UNCHANGED <<gpuQueued, decoded, worker, presenter>>
    <3>1. RequestFor(slot[t]) \in Request /\ requests \in Seq(Request) /\ Len(requests) \in Nat
      BY RequestTypes, VideoNumbers DEF PortInv, TypeOK
    <3>2. Len(requests') = Len(requests) + 1 /\ requests' # <<>> /\ (requests # <<>> => Head(requests') = Head(requests))
      BY ONLY <3>1, <2>2, AppendRequest
    <3>3. admitted' = admitted + 1 /\ accepted' = accepted + 1 /\ UNCHANGED <<gpuQueued, decoded, worker, presenter>>
      BY ONLY <2>2
    <3>4. accepted' = Len(requests') + (IF worker'.at \in {"admit", "enqueue"} THEN 1 ELSE 0)
      BY ONLY <3>1, <3>2, <3>3, CountInv DEF CountInv
    <3>5. admitted' = Len(requests') + (IF worker'.at = "enqueue" THEN 1 ELSE 0)
                                   + (IF presenter'.at = "release" THEN 1 ELSE 0)
      <4>1. PICK w \in {0, 1}, p \in {0, 1} :
              /\ w = (IF worker.at = "enqueue" THEN 1 ELSE 0) /\ p = (IF presenter.at = "release" THEN 1 ELSE 0)
              /\ admitted = Len(requests) + w + p
        BY DEF CountInv
      <4>2. worker' = worker /\ presenter' = presenter /\ Len(requests) \in Nat
        BY ONLY <3>1, <3>3
      <4>3. admitted' = admitted + 1 /\ Len(requests') = Len(requests) + 1
        BY ONLY <3>2, <3>3
      <4>4. admitted' = Len(requests') + w + p
        <5>1. \A n \in Nat : (n + w + p) + 1 = (n + 1) + w + p
          BY ONLY <4>1
        <5>2. QED
          BY ONLY <4>1, <4>2, <4>3, <5>1, Zenon
      <4>5. w = (IF worker'.at = "enqueue" THEN 1 ELSE 0) /\ p = (IF presenter'.at = "release" THEN 1 ELSE 0)
        BY ONLY <4>1, <4>2
      <4>6. QED
        BY ONLY <4>4, <4>5
    <3>6. presenter'.at \in {"present", "draw", "publish", "remove"} =>
            requests' # <<>> /\ presenter'.request = Head(requests')
      BY ONLY <3>2, <3>3, CountInv DEF CountInv
    <3>7. QED
      BY ONLY <3>3, <3>4, <3>5, <3>6, CountInv DEF CountInv
  <2>3. QED
    BY <1>5, <2>1, <2>2 DEF SubmitFlip, gpu
<1>6. ASSUME NEW t \in Guests, IsFlipPending(t) PROVE CountInv'
  BY ONLY <1>6, PortInv DEF IsFlipPending, PortInv, CountInv, port, access, registration, queue, gpu, calls
<1>7. ASSUME NEW t \in Guests, Unregister(t) PROVE CountInv'
  BY ONLY <1>7, PortInv DEF Unregister, PortInv, CountInv, port, access, registration, queue, gpu, calls
<1>7a. ASSUME NEW t \in Guests, Unregistered(t) PROVE CountInv'
  BY ONLY <1>7a, PortInv DEF Unregistered, PortInv, CountInv, port, access, registration, queue, gpu, calls
<1>8. ASSUME NEW t \in Guests, Reserve(t) PROVE CountInv'
  BY ONLY <1>8, PortInv DEF Reserve, PortInv, CountInv, port, access, registration, queue, gpu, calls
<1>9. ASSUME NEW t \in Guests, Order(t) PROVE CountInv'
  BY ONLY <1>9, PortInv DEF Order, PortInv, CountInv, port, access, registration, queue, gpu, calls
<1>10. ASSUME NEW t \in Guests, Recheck(t) PROVE CountInv'
  BY ONLY <1>10, PortInv DEF Recheck, PortInv, CountInv, port, access, registration, queue, gpu, calls
<1>11. ASSUME NEW t \in Guests, Commit(t) PROVE CountInv'
  BY ONLY <1>11, PortInv DEF Commit, PortInv, CountInv, port, access, registration, queue, gpu, calls
<1>12. ASSUME NEW t \in Guests, Await(t) PROVE CountInv'
  BY ONLY <1>12, PortInv DEF Await, PortInv, CountInv, port, access, registration, queue, gpu, calls
<1>13. ASSUME NEW t \in Guests, Gates(t) PROVE CountInv'
  BY ONLY <1>13, PortInv DEF Gates, PortInv, CountInv, port, access, registration, queue, gpu, calls
<1>14. ASSUME NEW t \in Guests, Mark(t) PROVE CountInv'
  BY ONLY <1>14, PortInv DEF Mark, PortInv, CountInv, port, access, registration, queue, gpu, calls
<1>15. ASSUME NEW t \in Guests, Shut(t) PROVE CountInv'
  BY ONLY <1>15, PortInv DEF Shut, PortInv, CountInv, port, access, registration, queue, gpu, calls
<1>16. ASSUME NEW t \in Guests, Clear(t) PROVE CountInv'
  BY ONLY <1>16, PortInv DEF Clear, PortInv, CountInv, port, access, registration, queue, gpu, calls
<1>17. ASSUME NEW t \in Guests, Finish(t) PROVE CountInv'
  BY ONLY <1>17, PortInv DEF Finish, PortInv, CountInv, port, access, registration, queue, gpu, calls
<1>17a. ASSUME ReleaseDecode PROVE CountInv'
  BY ONLY <1>17a, PortInv DEF ReleaseDecode, DecodeWaiter, SubmitterReturns, PortInv, CountInv, port, access, registration, queue, gpu, calls
<1>18. ASSUME Decode PROVE CountInv'
  <2>1. stream \in Seq(Indices) /\ decoded \in Seq(Indices) /\ stream # <<>> /\ worker.at = "idle" /\ gpuQueued \in Nat
    BY <1>18 DEF Decode, DecodeWaiter, SubmitterReturns, PortInv, TypeOK
  <2>2. /\ decoded' = Append(decoded, Head(stream)) /\ gpuQueued' = gpuQueued + 1
        /\ UNCHANGED <<requests, accepted, admitted, worker, presenter>>
    BY <1>18 DEF Decode
  <2>3. Len(decoded') = Len(decoded) + 1 /\ Len(decoded) \in Nat
    BY ONLY <2>1, <2>2, ListElements
  <2>4. /\ gpuQueued' = gpuQueued + 1 /\ gpuQueued \in Nat /\ worker.at = "idle"
        /\ UNCHANGED <<requests, accepted, admitted, worker, presenter>>
    BY ONLY <2>1, <2>2
  <2>5. gpuQueued' = Len(decoded') + (IF worker'.at = "idle" THEN 0 ELSE 1)
    BY ONLY <2>3, <2>4, CountInv DEF CountInv
  <2>6. QED
    BY ONLY <2>4, <2>5, CountInv DEF CountInv
<1>19. ASSUME Fire PROVE CountInv'
  <2>1. decoded \in Seq(Indices) /\ decoded # <<>> /\ decoded' = Tail(decoded) /\ worker.at = "idle" /\ worker'.at = "reserve"
    BY <1>19 DEF Fire, PortInv, TypeOK
  <2>2. Len(decoded') = Len(decoded) - 1 /\ Len(decoded) \in Nat
    BY ONLY <2>1, ListElements
  <2>3. UNCHANGED <<requests, accepted, admitted, gpuQueued, presenter>>
    BY <1>19 DEF Fire, queue
  <2>4. QED
    BY ONLY <2>1, <2>2, <2>3, CountInv DEF CountInv
<1>20. ASSUME ReserveInternal PROVE CountInv'
  <2>1. /\ worker.at = "reserve" /\ worker'.at = "admit" /\ accepted' = accepted + 1
        /\ UNCHANGED <<requests, admitted, gpuQueued, decoded, presenter>>
    BY <1>20 DEF ReserveInternal
  <2>2. Len(requests) \in Nat /\ Len(decoded) \in Nat
    BY VideoNumbers
  <2>3. QED
    BY ONLY <2>1, <2>2, CountInv DEF CountInv
<1>21. ASSUME AcquireBlocking PROVE CountInv'
  <2>1. /\ worker.at = "admit" /\ worker'.at = "enqueue" /\ admitted' = admitted + 1
        /\ UNCHANGED <<requests, accepted, gpuQueued, decoded, presenter>>
    BY <1>21 DEF AcquireBlocking, PortInv, TypeOK
  <2>2. Len(requests) \in Nat /\ Len(decoded) \in Nat
    BY VideoNumbers
  <2>3. QED
    BY ONLY <2>1, <2>2, CountInv DEF CountInv
<1>22. ASSUME Enqueue PROVE CountInv'
  <2>1. /\ worker.at = "enqueue" /\ worker'.at = "idle" /\ gpuQueued' = gpuQueued - 1
        /\ requests' = Append(requests, worker.request)
        /\ UNCHANGED <<accepted, admitted, decoded, presenter>>
    BY <1>22 DEF Enqueue
  <2>2. worker.request \in Request /\ requests \in Seq(Request) /\ Len(requests) \in Nat /\ Len(decoded) \in Nat
    BY VideoNumbers DEF PortInv, TypeOK
  <2>3. Len(requests') = Len(requests) + 1 /\ requests' # <<>> /\ (requests # <<>> => Head(requests') = Head(requests))
    BY ONLY <2>1, <2>2, AppendRequest
  <2>4. QED
    BY ONLY <2>1, <2>2, <2>3, CountInv DEF CountInv
<1>23. ASSUME Vblank PROVE CountInv'
  <2>1. UNCHANGED <<requests, accepted, admitted, gpuQueued, decoded, worker>> /\ presenter.at = "vblank" /\ presenter'.at = "vblankEvents" /\ presenter'.request = presenter.request
    BY <1>23 DEF Vblank, PresenterTo, port, access, queue, gpu, PortInv, TypeOK
  <2>2. QED
    BY ONLY <2>1, CountInv DEF CountInv
<1>24. ASSUME VblankDone PROVE CountInv'
  <2>1. UNCHANGED <<requests, accepted, admitted, gpuQueued, decoded, worker>> /\ presenter.at = "vblankEvents" /\ presenter'.at = "flip" /\ presenter'.request = presenter.request
    BY <1>24 DEF VblankDone, PresenterTo, port, access, queue, gpu, PortInv, TypeOK
  <2>2. QED
    BY ONLY <2>1, CountInv DEF CountInv
<1>25. ASSUME NoFlip PROVE CountInv'
  <2>1. UNCHANGED <<requests, accepted, admitted, gpuQueued, decoded, worker>> /\ presenter.at = "flip" /\ presenter'.at = "vblank" /\ presenter'.request = presenter.request
    BY <1>25 DEF NoFlip, PresenterTo, port, access, queue, gpu, PortInv, TypeOK
  <2>2. QED
    BY ONLY <2>1, CountInv DEF CountInv
<1>26. ASSUME TakeFlip PROVE CountInv'
  <2>1. /\ UNCHANGED <<requests, accepted, admitted, gpuQueued, decoded, worker>> /\ presenter.at = "flip"
        /\ presenter'.at = "present" /\ presenter'.request = Head(requests) /\ requests # <<>>
    BY <1>26 DEF TakeFlip, port, access, queue, gpu
  <2>2. QED
    BY ONLY <2>1, CountInv DEF CountInv
<1>27. ASSUME CaptureImage PROVE CountInv'
  <2>1. UNCHANGED <<requests, accepted, admitted, gpuQueued, decoded, worker>> /\ presenter.at = "present" /\ presenter'.at \in {"publish", "draw"} /\ presenter'.request = presenter.request
    BY <1>27 DEF CaptureImage, PresenterTo, port, access, queue, gpu, PortInv, TypeOK
  <2>2. QED
    BY ONLY <2>1, CountInv DEF CountInv
<1>28. ASSUME DrawImage PROVE CountInv'
  <2>1. UNCHANGED <<requests, accepted, admitted, gpuQueued, decoded, worker>> /\ presenter.at = "draw" /\ presenter'.at = "publish" /\ presenter'.request = presenter.request
    BY <1>28 DEF DrawImage, PresenterTo, port, access, queue, gpu, PortInv, TypeOK
  <2>2. QED
    BY ONLY <2>1, CountInv DEF CountInv
<1>29. ASSUME PublishStatus PROVE CountInv'
  <2>1. UNCHANGED <<requests, accepted, admitted, gpuQueued, decoded, worker>> /\ presenter.at = "publish" /\ presenter'.at = "remove" /\ presenter'.request = presenter.request
    BY <1>29 DEF PublishStatus, PresenterTo, port, access, queue, gpu, PortInv, TypeOK
  <2>2. QED
    BY ONLY <2>1, CountInv DEF CountInv
<1>30. ASSUME RemoveFlip PROVE CountInv'
  <2>1. /\ requests' = Tail(requests) /\ accepted' = accepted - 1 /\ presenter.at = "remove" /\ presenter'.at = "release"
        /\ UNCHANGED <<admitted, gpuQueued, decoded, worker>> /\ requests # <<>> /\ requests \in Seq(Request)
    BY <1>30 DEF RemoveFlip, PresenterTo, Completed, gpu, PortInv, TypeOK, CountInv
  <2>2. Len(requests') = Len(requests) - 1 /\ Len(requests) \in Nat /\ Len(decoded) \in Nat
    BY ONLY <2>1, ListElements, VideoNumbers, PortInv
  <2>3. /\ accepted' = accepted - 1 /\ presenter.at = "remove" /\ presenter'.at = "release"
        /\ UNCHANGED <<admitted, gpuQueued, decoded, worker>>
    BY ONLY <2>1
  <2>4. QED
    BY ONLY <2>2, <2>3, CountInv DEF CountInv
<1>31. ASSUME ReleaseAdmission PROVE CountInv'
  <2>1. /\ admitted' = admitted - 1 /\ presenter.at = "release" /\ presenter'.at = "vblank"
        /\ UNCHANGED <<requests, accepted, gpuQueued, decoded, worker>>
    BY <1>31 DEF ReleaseAdmission, GivenBack, gpu
  <2>2. Len(requests) \in Nat /\ Len(decoded) \in Nat
    BY VideoNumbers
  <2>3. QED
    BY ONLY <2>1, <2>2, CountInv DEF CountInv
<1>32. QED
  BY ONLY Next, <1>1, <1>2, <1>3, <1>4, <1>5, <1>6, <1>7, <1>7a, <1>8, <1>9, <1>10, <1>11, <1>12, <1>13, <1>14, <1>15, <1>16, <1>17, <1>17a, <1>18, <1>19, <1>20, <1>21, <1>22, <1>23, <1>24, <1>25, <1>26, <1>27, <1>28, <1>29, <1>30, <1>31 DEF Next, Call, Transaction, WorkerStep, PresenterStep

(* The flips to show: those in the queue and in the GPU but the one shown. *)
LEMMA FlipsCounted ==
  ASSUME PortInv
  PROVE  /\ presenter.at = "remove" => FlipsToShow = gpuQueued + Len(requests) - 1 /\ Len(requests) >= 1
         /\ presenter.at # "remove" => FlipsToShow = gpuQueued + Len(requests)
         /\ gpuQueued \in Nat /\ Len(requests) \in Nat /\ pending \in Nat /\ FlipsToShow \in Nat
<1>1. gpuQueued \in Nat /\ Len(requests) \in Nat /\ pending \in Nat
  BY VideoNumbers
<1>2. presenter.at = "remove" => requests \in Seq(Request) /\ requests # <<>>
  BY DEF PortInv, CountInv, TypeOK
<1>3. presenter.at = "remove" => Len(requests) >= 1
  <2>1. presenter.at = "remove" => Len(requests) # 0
    BY ONLY <1>2, ListElements
  <2>2. QED
    BY ONLY <2>1, <1>1
<1>4. CASE presenter.at = "remove"
  <2>1. FlipsToShow = gpuQueued + Len(requests) - 1
    BY ONLY <1>4 DEF FlipsToShow
  <2>2. QED
    BY ONLY <2>1, <1>1, <1>3, <1>4
<1>5. CASE presenter.at # "remove"
  <2>1. FlipsToShow = gpuQueued + Len(requests) - 0
    BY ONLY <1>5 DEF FlipsToShow
  <2>2. QED
    BY ONLY <2>1, <1>1, <1>3, <1>5
<1>6. QED
  BY ONLY <1>4, <1>5

(* A count that is published anew tells the flips, whatever the presenter  *)
(* is at.                                                                  *)
LEMMA Republished ==
  ASSUME PortInv, presenter' = presenter, gpuQueued' \in Nat, Len(requests') \in Nat,
         pending' = Len(requests') + gpuQueued',
         \/ Len(requests') = Len(requests) + 1
         \/ Len(requests') = Len(requests) /\ gpuQueued' = gpuQueued + 1
  PROVE  ShownInv'
<1>1. CASE presenter.at = "remove"
  <2>1. Len(requests) >= 1 /\ Len(requests) \in Nat /\ gpuQueued \in Nat
    BY ONLY <1>1, PortInv, FlipsCounted
  <2>2. FlipsToShow' = gpuQueued' + Len(requests') - 1
    BY ONLY <1>1, presenter' = presenter DEF FlipsToShow
  <2>3. gpuQueued' + Len(requests') >= 2
    BY <2>1
  <2>4. QED
    BY ONLY <2>2, <2>3, gpuQueued' \in Nat, Len(requests') \in Nat, pending' = Len(requests') + gpuQueued' DEF ShownInv
<1>2. CASE presenter.at # "remove"
  <2>1. FlipsToShow' = gpuQueued' + Len(requests') - 0
    BY ONLY <1>2, presenter' = presenter DEF FlipsToShow
  <2>2. pending' = FlipsToShow'
    BY ONLY <2>1, gpuQueued' \in Nat, Len(requests') \in Nat, pending' = Len(requests') + gpuQueued'
  <2>3. QED
    BY ONLY <2>2 DEF ShownInv
<1>3. QED
  BY ONLY <1>1, <1>2

(* The count published keeps up with the flips to show.                    *)
LEMMA ShownStep ==
  ASSUME PortInv, Next
  PROVE  ShownInv'
<1> ShownInv
  BY DEF PortInv
<1>1. ASSUME NEW t \in Guests, NEW call \in CallPcs \ {"unregistered", "order", "recheck", "commit"}, NEW i \in Indices,
        NEW a \in Addresses \cup {Nobody}, Enter(t, call, i, a) PROVE ShownInv'
  BY ONLY <1>1, ShownInv DEF Enter, ShownInv, FlipsToShow, port, access, registration, queue, gpu, calls
<1>2. ASSUME NEW t \in Guests, NEW i \in Slots, NEW waits \in BOOLEAN, SubmitToGpu(t, i, waits) PROVE ShownInv'
  BY ONLY <1>2, ShownInv DEF SubmitToGpu, ShownInv, FlipsToShow, port, access, registration, queue, gpu, calls
<1>3. ASSUME NEW t \in Guests, NEW a \in Addresses \cup {Nobody}, Transact(t, a) PROVE ShownInv'
  BY ONLY <1>3, ShownInv DEF Transact, ShownInv, FlipsToShow, port, access, registration, queue, gpu, calls
<1>4. ASSUME NEW t \in Guests, Open(t) PROVE ShownInv'
  <2>1. CASE UNCHANGED <<requests, gpuQueued, pending, presenter>>
    BY ONLY <2>1, ShownInv DEF ShownInv, FlipsToShow
  <2>2. CASE ~opened /\ pending' = 0 /\ UNCHANGED <<requests, gpuQueued, presenter>>
    <3>1. decoded = <<>> /\ worker.at = "idle" /\ accepted = 0
      BY <2>2 DEF PortInv, StageInv, GpuIdle
    <3>2. Len(decoded) = 0 /\ Len(requests) \in Nat
      BY <3>1, VideoNumbers
    <3>3. gpuQueued = Len(decoded) + 0 /\ accepted = Len(requests) + 0
      BY <3>1 DEF PortInv, CountInv
    <3>4. gpuQueued = 0 /\ Len(requests) = 0
      BY ONLY <3>1, <3>2, <3>3
    <3>5. presenter.at # "remove" /\ FlipsToShow = gpuQueued + Len(requests)
      BY ONLY <3>4, FlipsCounted, PortInv
    <3>6. FlipsToShow' = FlipsToShow
      BY ONLY <2>2 DEF FlipsToShow
    <3>7. QED
      BY ONLY <2>2, <3>4, <3>5, <3>6 DEF ShownInv
  <2>3. QED
    BY <1>4, <2>1, <2>2 DEF Open
<1>5. ASSUME NEW t \in Guests, SubmitFlip(t) PROVE ShownInv'
  <2>1. CASE UNCHANGED <<requests, gpuQueued, pending, presenter>>
    BY ONLY <2>1, ShownInv DEF ShownInv, FlipsToShow
  <2>2. CASE /\ requests' = Append(requests, RequestFor(slot[t]))
             /\ pending' = FlipPendingNum(Len(requests'), gpuQueued) /\ UNCHANGED <<gpuQueued, presenter>>
    <3>1. RequestFor(slot[t]) \in Request /\ requests \in Seq(Request)
      BY RequestTypes DEF PortInv, TypeOK
    <3>2. Len(requests') = Len(requests) + 1
      BY ONLY <3>1, <2>2, AppendRequest
    <3>3. pending' = Len(requests') + gpuQueued' /\ gpuQueued' = gpuQueued /\ presenter' = presenter
      BY ONLY <2>2 DEF FlipPendingNum
    <3>4. Len(requests) \in Nat /\ gpuQueued \in Nat
      BY VideoNumbers
    <3>5. Len(requests') \in Nat /\ gpuQueued' \in Nat
      BY ONLY <3>2, <3>3, <3>4
    <3>6. QED
      BY ONLY <3>2, <3>3, <3>5, PortInv, Republished
  <2>3. QED
    BY <1>5, <2>1, <2>2 DEF SubmitFlip
<1>6. ASSUME NEW t \in Guests, IsFlipPending(t) PROVE ShownInv'
  BY ONLY <1>6, ShownInv DEF IsFlipPending, ShownInv, FlipsToShow, port, access, registration, queue, gpu, calls
<1>7. ASSUME NEW t \in Guests, Unregister(t) PROVE ShownInv'
  BY ONLY <1>7, ShownInv DEF Unregister, ShownInv, FlipsToShow, port, access, registration, queue, gpu, calls
<1>7a. ASSUME NEW t \in Guests, Unregistered(t) PROVE ShownInv'
  BY ONLY <1>7a, ShownInv DEF Unregistered, ShownInv, FlipsToShow, port, access, registration, queue, gpu, calls
<1>8. ASSUME NEW t \in Guests, Reserve(t) PROVE ShownInv'
  BY ONLY <1>8, ShownInv DEF Reserve, ShownInv, FlipsToShow, port, access, registration, queue, gpu, calls
<1>9. ASSUME NEW t \in Guests, Order(t) PROVE ShownInv'
  BY ONLY <1>9, ShownInv DEF Order, ShownInv, FlipsToShow, port, access, registration, queue, gpu, calls
<1>10. ASSUME NEW t \in Guests, Recheck(t) PROVE ShownInv'
  BY ONLY <1>10, ShownInv DEF Recheck, ShownInv, FlipsToShow, port, access, registration, queue, gpu, calls
<1>11. ASSUME NEW t \in Guests, Commit(t) PROVE ShownInv'
  BY ONLY <1>11, ShownInv DEF Commit, ShownInv, FlipsToShow, port, access, registration, queue, gpu, calls
<1>12. ASSUME NEW t \in Guests, Await(t) PROVE ShownInv'
  BY ONLY <1>12, ShownInv DEF Await, ShownInv, FlipsToShow, port, access, registration, queue, gpu, calls
<1>13. ASSUME NEW t \in Guests, Gates(t) PROVE ShownInv'
  BY ONLY <1>13, ShownInv DEF Gates, ShownInv, FlipsToShow, port, access, registration, queue, gpu, calls
<1>14. ASSUME NEW t \in Guests, Mark(t) PROVE ShownInv'
  BY ONLY <1>14, ShownInv DEF Mark, ShownInv, FlipsToShow, port, access, registration, queue, gpu, calls
<1>15. ASSUME NEW t \in Guests, Shut(t) PROVE ShownInv'
  BY ONLY <1>15, ShownInv DEF Shut, ShownInv, FlipsToShow, port, access, registration, queue, gpu, calls
<1>16. ASSUME NEW t \in Guests, Clear(t) PROVE ShownInv'
  BY ONLY <1>16, ShownInv DEF Clear, ShownInv, FlipsToShow, port, access, registration, queue, gpu, calls
<1>17. ASSUME NEW t \in Guests, Finish(t) PROVE ShownInv'
  BY ONLY <1>17, ShownInv DEF Finish, ShownInv, FlipsToShow, port, access, registration, queue, gpu, calls
<1>17a. ASSUME ReleaseDecode PROVE ShownInv'
  BY ONLY <1>17a, ShownInv DEF ReleaseDecode, DecodeWaiter, SubmitterReturns, ShownInv, FlipsToShow, port, access, registration, queue, gpu, calls
<1>18. ASSUME Decode PROVE ShownInv'
  <2>1. /\ pending' = Len(requests') + gpuQueued' /\ gpuQueued' = gpuQueued + 1 /\ presenter' = presenter
        /\ Len(requests') = Len(requests)
    BY ONLY <1>18 DEF Decode, DecodeWaiter, SubmitterReturns, FlipPendingNum
  <2>2. Len(requests) \in Nat /\ gpuQueued \in Nat
    BY VideoNumbers
  <2>3. Len(requests') \in Nat /\ gpuQueued' \in Nat
    BY ONLY <2>1, <2>2
  <2>4. QED
    BY ONLY <2>1, <2>3, PortInv, Republished
<1>19. ASSUME Fire PROVE ShownInv'
  BY ONLY <1>19, ShownInv DEF Fire, ShownInv, FlipsToShow, port, access, registration, queue, gpu, calls
<1>20. ASSUME ReserveInternal PROVE ShownInv'
  BY ONLY <1>20, ShownInv DEF ReserveInternal, ShownInv, FlipsToShow, port, access, registration, queue, gpu, calls
<1>21. ASSUME AcquireBlocking PROVE ShownInv'
  BY ONLY <1>21, ShownInv DEF AcquireBlocking, ShownInv, FlipsToShow, port, access, registration, queue, gpu, calls
<1>22. ASSUME Enqueue PROVE ShownInv'
  <2>1. /\ pending' = Len(requests') + gpuQueued' /\ gpuQueued' = gpuQueued - 1 /\ presenter' = presenter
        /\ requests' = Append(requests, worker.request) /\ worker.at = "enqueue"
    BY ONLY <1>22 DEF Enqueue, FlipPendingNum
  <2>2. requests \in Seq(Request) /\ worker.request \in Request
    BY DEF PortInv, TypeOK
  <2>3. Len(requests') = Len(requests) + 1
    BY ONLY <2>1, <2>2, AppendRequest
  <2>4. gpuQueued = Len(decoded) + 1 /\ Len(decoded) \in Nat
    BY <2>1, VideoNumbers DEF PortInv, CountInv
  <2>5. gpuQueued' \in Nat
    BY ONLY <2>1, <2>4
  <2>6. Len(requests') \in Nat
    BY ONLY <2>2, <2>1, AppendRequest, ListElements
  <2>7. QED
    BY ONLY <2>1, <2>3, <2>5, <2>6, PortInv, Republished
<1>23. ASSUME Vblank PROVE ShownInv'
  <2>1. UNCHANGED <<requests, gpuQueued, pending>> /\ presenter.at # "remove" /\ presenter'.at # "remove"
    BY <1>23 DEF Vblank, PresenterTo, queue, PortInv, TypeOK
  <2>2. QED
    BY ONLY <2>1, ShownInv DEF ShownInv, FlipsToShow
<1>24. ASSUME VblankDone PROVE ShownInv'
  <2>1. UNCHANGED <<requests, gpuQueued, pending>> /\ presenter.at # "remove" /\ presenter'.at # "remove"
    BY <1>24 DEF VblankDone, PresenterTo, queue, PortInv, TypeOK
  <2>2. QED
    BY ONLY <2>1, ShownInv DEF ShownInv, FlipsToShow
<1>25. ASSUME NoFlip PROVE ShownInv'
  <2>1. UNCHANGED <<requests, gpuQueued, pending>> /\ presenter.at # "remove" /\ presenter'.at # "remove"
    BY <1>25 DEF NoFlip, PresenterTo, queue, PortInv, TypeOK
  <2>2. QED
    BY ONLY <2>1, ShownInv DEF ShownInv, FlipsToShow
<1>26. ASSUME TakeFlip PROVE ShownInv'
  <2>1. UNCHANGED <<requests, gpuQueued, pending>> /\ presenter.at # "remove" /\ presenter'.at # "remove"
    BY <1>26 DEF TakeFlip, PresenterTo, queue, PortInv, TypeOK
  <2>2. QED
    BY ONLY <2>1, ShownInv DEF ShownInv, FlipsToShow
<1>27. ASSUME CaptureImage PROVE ShownInv'
  <2>1. UNCHANGED <<requests, gpuQueued, pending>> /\ presenter.at # "remove" /\ presenter'.at # "remove"
    BY <1>27 DEF CaptureImage, PresenterTo, queue, PortInv, TypeOK
  <2>2. QED
    BY ONLY <2>1, ShownInv DEF ShownInv, FlipsToShow
<1>28. ASSUME DrawImage PROVE ShownInv'
  <2>1. UNCHANGED <<requests, gpuQueued, pending>> /\ presenter.at # "remove" /\ presenter'.at # "remove"
    BY <1>28 DEF DrawImage, PresenterTo, queue, PortInv, TypeOK
  <2>2. QED
    BY ONLY <2>1, ShownInv DEF ShownInv, FlipsToShow
<1>29. ASSUME PublishStatus PROVE ShownInv'
  <2>1. /\ pending' = (Len(requests) - 1) + gpuQueued /\ UNCHANGED <<requests, gpuQueued>> /\ presenter'.at = "remove"
    BY <1>29 DEF PublishStatus, FlipPendingNum, PresenterTo, PortInv, TypeOK
  <2>2. Len(requests) \in Nat /\ gpuQueued \in Nat
    BY VideoNumbers
  <2>3. FlipsToShow' = gpuQueued + Len(requests) - 1
    BY ONLY <2>1 DEF FlipsToShow
  <2>4. pending' = FlipsToShow'
    BY ONLY <2>1, <2>2, <2>3
  <2>5. QED
    BY ONLY <2>4 DEF ShownInv
<1>30. ASSUME RemoveFlip PROVE ShownInv'
  <2>1. /\ requests' = Tail(requests) /\ presenter.at = "remove" /\ presenter'.at = "release"
        /\ UNCHANGED <<gpuQueued, pending>> /\ requests # <<>> /\ requests \in Seq(Request)
    BY <1>30 DEF RemoveFlip, PresenterTo, PortInv, TypeOK, CountInv
  <2>2. Len(requests') = Len(requests) - 1 /\ Len(requests) \in Nat
    BY ONLY <2>1, ListElements
  <2>3. FlipsToShow' = gpuQueued + (Len(requests) - 1) - 0 /\ FlipsToShow = gpuQueued + Len(requests) - 1 /\ gpuQueued \in Nat
    BY <2>1, <2>2, VideoNumbers DEF FlipsToShow
  <2>4. FlipsToShow' = FlipsToShow
    BY ONLY <2>2, <2>3
  <2>5. QED
    BY ONLY <2>1, <2>4, ShownInv DEF ShownInv
<1>31. ASSUME ReleaseAdmission PROVE ShownInv'
  <2>1. UNCHANGED <<requests, gpuQueued, pending>> /\ presenter.at # "remove" /\ presenter'.at # "remove"
    BY <1>31 DEF ReleaseAdmission, PresenterTo, queue, PortInv, TypeOK
  <2>2. QED
    BY ONLY <2>1, ShownInv DEF ShownInv, FlipsToShow
<1>32. QED
  BY ONLY Next, <1>1, <1>2, <1>3, <1>4, <1>5, <1>6, <1>7, <1>7a, <1>8, <1>9, <1>10, <1>11, <1>12, <1>13, <1>14, <1>15, <1>16, <1>17, <1>17a, <1>18, <1>19, <1>20, <1>21, <1>22, <1>23, <1>24, <1>25, <1>26, <1>27, <1>28, <1>29, <1>30, <1>31 DEF Next, Call, Transaction, WorkerStep, PresenterStep

(* They stay what they are when a step changes none of them nor the        *)
(* registrations.                                                          *)
LEMMA SlotsKept ==
  ASSUME SlotsInv, registering' = registering, reserved' = reserved, buffers' = buffers, opened => opened',
         \A u \in registering : slot'[u] = slot[u],
         \A u \in Guests : pc'[u] = "commit" => pc[u] = "commit" /\ address'[u] = address[u]
  PROVE  SlotsInv'
BY DEF SlotsInv, BuffersDisjoint, Overlaps

(* A registration and a call that is none.                                 *)
LEMMA RegistrationPlaces ==
  ASSUME PortInv
  PROVE  /\ \A t \in registering : t \in Guests /\ pc[t] \in {"order", "recheck", "commit"}
         /\ pc \in [Guests -> Stations] /\ slot \in [Guests -> Indices]
         /\ address \in [Guests -> Addresses \cup {Nobody}] /\ registering \in SUBSET Guests
         /\ reserved \in SUBSET Slots /\ submission \in Guests \cup {Nobody}
         /\ buffers \in [Slots -> [address : Addresses \cup {Nobody}, registration : 0 .. MaxRegistrations]]
         /\ \A t \in Guests : pc[t] = "commit" => address[t] \in Addresses /\ slot[t] \in Slots /\ registrar = t
BY DEF PortInv, TypeOK, PlaceInv, Stations, Registers

(* No registration is under way once a transaction has waited for the      *)
(* calls.                                                                  *)
LEMMA NoRegistrations ==
  ASSUME PortInv, pc[Closer] \in {"mark", "flips"} \cup Drained
  PROVE  registering = {} /\ reserved = {} /\ \A t \in Guests : pc[t] \notin CallPcs
<1>1. accesses = {}
  BY DEF PortInv, StageInv
<1>2. \A t \in Guests : pc[t] \notin CallPcs
  BY <1>1 DEF PortInv, PlaceInv
<1>3. registering = {}
  BY <1>2, RegistrationPlaces DEF CallPcs
<1>4. reserved = {}
  BY <1>3 DEF PortInv, SlotsInv
<1>5. QED
  BY ONLY <1>2, <1>3, <1>4

(* The reservations are those of the registrations under way, and the      *)
(* buffers registered stay apart.                                          *)
LEMMA SlotsStep ==
  ASSUME PortInv, Next
  PROVE  SlotsInv'
<1> SlotsInv
  BY DEF PortInv
<1>1. ASSUME NEW t \in Guests, NEW call \in CallPcs \ {"unregistered", "order", "recheck", "commit"}, NEW i \in Indices,
        NEW a \in Addresses \cup {Nobody}, Enter(t, call, i, a) PROVE SlotsInv'
  <2>3. \A u \in Guests : pc'[u] = "commit" => pc[u] = "commit" /\ address'[u] = address[u]
    BY ONLY <1>1, RegistrationPlaces, PortInv DEF Enter, GoTo, Leave, calls, CallPcs
  <2>4. \A u \in registering : slot'[u] = slot[u]
    BY ONLY <1>1, RegistrationPlaces, PortInv DEF Enter, GoTo, Leave, calls
  <2>5. /\ registering' = registering /\ reserved' = reserved /\ buffers' = buffers /\ (opened => opened')
    BY ONLY <1>1 DEF Enter, port, registration
  <2>6. QED
    BY ONLY <2>3, <2>4, <2>5, SlotsInv, SlotsKept
<1>2. ASSUME NEW t \in Guests, NEW i \in Slots, NEW waits \in BOOLEAN, SubmitToGpu(t, i, waits) PROVE SlotsInv'
  <2>3. \A u \in Guests : pc'[u] = "commit" => pc[u] = "commit" /\ address'[u] = address[u]
    BY ONLY <1>2, RegistrationPlaces, PortInv DEF SubmitToGpu, GoTo, Leave, calls
  <2>4. \A u \in registering : slot'[u] = slot[u]
    BY ONLY <1>2, RegistrationPlaces, PortInv DEF SubmitToGpu, GoTo, Leave, calls
  <2>5. /\ registering' = registering /\ reserved' = reserved /\ buffers' = buffers /\ (opened => opened')
    BY ONLY <1>2 DEF SubmitToGpu, port, registration
  <2>6. QED
    BY ONLY <2>3, <2>4, <2>5, SlotsInv, SlotsKept
<1>3. ASSUME NEW t \in Guests, NEW a \in Addresses \cup {Nobody}, Transact(t, a) PROVE SlotsInv'
  <2>3. \A u \in Guests : pc'[u] = "commit" => pc[u] = "commit" /\ address'[u] = address[u]
    BY ONLY <1>3, RegistrationPlaces, PortInv DEF Transact, GoTo, Leave, calls
  <2>4. \A u \in registering : slot'[u] = slot[u]
    BY ONLY <1>3, RegistrationPlaces, PortInv DEF Transact, GoTo, Leave, calls
  <2>5. /\ registering' = registering /\ reserved' = reserved /\ buffers' = buffers /\ (opened => opened')
    BY ONLY <1>3 DEF Transact, port, registration
  <2>6. QED
    BY ONLY <2>3, <2>4, <2>5, SlotsInv, SlotsKept
<1>4. ASSUME NEW t \in Guests, Open(t) PROVE SlotsInv'
  <2>3. \A u \in Guests : pc'[u] = "commit" => pc[u] = "commit" /\ address'[u] = address[u]
    BY ONLY <1>4, RegistrationPlaces, PortInv DEF Open, GoTo, Leave, calls
  <2>4. \A u \in registering : slot'[u] = slot[u]
    BY ONLY <1>4, RegistrationPlaces, PortInv DEF Open, GoTo, Leave, calls
  <2>5. /\ registering' = registering /\ reserved' = reserved /\ buffers' = buffers /\ (opened => opened')
    BY ONLY <1>4 DEF Open, port, registration
  <2>6. QED
    BY ONLY <2>3, <2>4, <2>5, SlotsInv, SlotsKept
<1>5. ASSUME NEW t \in Guests, SubmitFlip(t) PROVE SlotsInv'
  <2>3. \A u \in Guests : pc'[u] = "commit" => pc[u] = "commit" /\ address'[u] = address[u]
    BY ONLY <1>5, RegistrationPlaces, PortInv DEF SubmitFlip, GoTo, Leave, calls
  <2>4. \A u \in registering : slot'[u] = slot[u]
    BY ONLY <1>5, RegistrationPlaces, PortInv DEF SubmitFlip, GoTo, Leave, calls
  <2>5. /\ registering' = registering /\ reserved' = reserved /\ buffers' = buffers /\ (opened => opened')
    BY ONLY <1>5 DEF SubmitFlip, port, registration
  <2>6. QED
    BY ONLY <2>3, <2>4, <2>5, SlotsInv, SlotsKept
<1>6. ASSUME NEW t \in Guests, IsFlipPending(t) PROVE SlotsInv'
  <2>3. \A u \in Guests : pc'[u] = "commit" => pc[u] = "commit" /\ address'[u] = address[u]
    BY ONLY <1>6, RegistrationPlaces, PortInv DEF IsFlipPending, GoTo, Leave, calls
  <2>4. \A u \in registering : slot'[u] = slot[u]
    BY ONLY <1>6, RegistrationPlaces, PortInv DEF IsFlipPending, GoTo, Leave, calls
  <2>5. /\ registering' = registering /\ reserved' = reserved /\ buffers' = buffers /\ (opened => opened')
    BY ONLY <1>6 DEF IsFlipPending, port, registration
  <2>6. QED
    BY ONLY <2>3, <2>4, <2>5, SlotsInv, SlotsKept
<1>7. ASSUME NEW t \in Guests, Unregister(t) PROVE SlotsInv'
  <2>1. slot[t] \in Slots
    BY <1>7 DEF Unregister, PortInv, PlaceInv
  <2>2. /\ \A i \in Slots : buffers'[i].address = Nobody \/ buffers'[i].address = buffers[i].address
        /\ registering' = registering /\ reserved' = reserved /\ opened' = opened
    BY ONLY <1>7, <2>1, RegistrationPlaces, PortInv DEF Unregister, registration
  <2>3. \A u \in Guests : pc'[u] = "commit" => pc[u] = "commit" /\ address'[u] = address[u]
    BY ONLY <1>7, RegistrationPlaces, PortInv DEF Unregister, GoTo, Leave
  <2>4. \A u \in registering : slot'[u] = slot[u]
    BY ONLY <1>7, RegistrationPlaces, PortInv DEF Unregister, GoTo, Leave
  <2>5. \A u \in Guests : pc'[u] = "commit" => \A i \in Slots : buffers'[i].address # address'[u]
    <3>1. \A u \in Guests : pc[u] = "commit" => address[u] # Nobody
      BY VideoNames, RegistrationPlaces
    <3>2. QED
      BY ONLY <2>2, <2>3, <3>1, SlotsInv DEF SlotsInv, Overlaps
  <2>6. BuffersDisjoint'
    BY ONLY <2>2, SlotsInv DEF SlotsInv, BuffersDisjoint
  <2>7. \A i \in reserved : buffers'[i].address = Nobody
    BY ONLY <2>2, SlotsInv, RegistrationPlaces, PortInv DEF SlotsInv
  <2>8. QED
    BY ONLY <2>2, <2>4, <2>5, <2>6, <2>7, SlotsInv DEF SlotsInv, Overlaps
<1>7a. ASSUME NEW t \in Guests, Unregistered(t) PROVE SlotsInv'
  <2>1. slot[t] \in Slots
    BY <1>7a DEF Unregistered, PortInv, PlaceInv
  <2>2. /\ \A i \in Slots : buffers'[i].address = Nobody \/ buffers'[i].address = buffers[i].address
        /\ registering' = registering /\ reserved' = reserved /\ opened' = opened
    BY ONLY <1>7a, <2>1, RegistrationPlaces, PortInv DEF Unregistered, registration
  <2>3. \A u \in Guests : pc'[u] = "commit" => pc[u] = "commit" /\ address'[u] = address[u]
    BY ONLY <1>7a, RegistrationPlaces, PortInv DEF Unregistered, GoTo, Leave
  <2>4. \A u \in registering : slot'[u] = slot[u]
    BY ONLY <1>7a, RegistrationPlaces, PortInv DEF Unregistered, GoTo, Leave
  <2>5. \A u \in Guests : pc'[u] = "commit" => \A i \in Slots : buffers'[i].address # address'[u]
    <3>1. \A u \in Guests : pc[u] = "commit" => address[u] # Nobody
      BY VideoNames, RegistrationPlaces
    <3>2. QED
      BY ONLY <2>2, <2>3, <3>1, SlotsInv DEF SlotsInv, Overlaps
  <2>6. BuffersDisjoint'
    BY ONLY <2>2, SlotsInv DEF SlotsInv, BuffersDisjoint
  <2>7. \A i \in reserved : buffers'[i].address = Nobody
    BY ONLY <2>2, SlotsInv, RegistrationPlaces, PortInv DEF SlotsInv
  <2>8. QED
    BY ONLY <2>2, <2>4, <2>5, <2>6, <2>7, SlotsInv DEF SlotsInv, Overlaps
<1>8. ASSUME NEW t \in Guests, Reserve(t) PROVE SlotsInv'
  <2>1. \A u \in Guests : pc'[u] = "commit" => pc[u] = "commit" /\ address'[u] = address[u]
    BY ONLY <1>8, RegistrationPlaces, PortInv DEF Reserve, GoTo, Leave
  <2>2. \A u \in registering : slot'[u] = slot[u]
    BY ONLY <1>8, RegistrationPlaces, PortInv DEF Reserve, GoTo, Leave
  <2>3. buffers' = buffers /\ opened' = opened
    BY ONLY <1>8 DEF Reserve
  <2>4. CASE registering' = registering /\ reserved' = reserved
    BY ONLY <2>1, <2>2, <2>3, <2>4, SlotsInv, SlotsKept
  <2>5. CASE /\ reserved' = reserved \cup {slot[t]} /\ registering' = registering \cup {t} /\ slot' = slot
             /\ opened /\ buffers[slot[t]].address = Nobody /\ slot[t] \notin reserved
    BY ONLY <2>1, <2>2, <2>3, <2>5, SlotsInv DEF SlotsInv, BuffersDisjoint, Overlaps
  <2>6. QED
    BY ONLY <1>8, <2>4, <2>5 DEF Reserve, Usable
<1>9. ASSUME NEW t \in Guests, Order(t) PROVE SlotsInv'
  <2>3. \A u \in Guests : pc'[u] = "commit" => pc[u] = "commit" /\ address'[u] = address[u]
    BY ONLY <1>9, RegistrationPlaces, PortInv DEF Order, GoTo, Leave, calls
  <2>4. \A u \in registering : slot'[u] = slot[u]
    BY ONLY <1>9, RegistrationPlaces, PortInv DEF Order, GoTo, Leave, calls
  <2>5. /\ registering' = registering /\ reserved' = reserved /\ buffers' = buffers /\ (opened => opened')
    BY ONLY <1>9 DEF Order, port, registration
  <2>6. QED
    BY ONLY <2>3, <2>4, <2>5, SlotsInv, SlotsKept
<1>10. ASSUME NEW t \in Guests, Recheck(t) PROVE SlotsInv'
  <2>1. t \in registering /\ pc[t] = "recheck"
    BY <1>10 DEF Recheck, PortInv, PlaceInv
  <2>2. CASE Overlaps(address[t])
    <3>1. /\ reserved' = reserved \ {slot[t]} /\ registering' = registering \ {t} /\ Leave(t)
          /\ buffers' = buffers /\ opened' = opened
      BY ONLY <1>10, <2>2 DEF Recheck, TakenMeanwhile
    <3>2. \A u \in Guests : pc'[u] = "commit" => pc[u] = "commit" /\ address'[u] = address[u]
      BY ONLY <3>1, RegistrationPlaces, PortInv DEF GoTo, Leave
    <3>3. \A u \in registering' : slot'[u] = slot[u]
      BY ONLY <3>1, RegistrationPlaces, PortInv DEF Leave
    <3>4. QED
      BY ONLY <2>1, <3>1, <3>2, <3>3, SlotsInv, RegistrationPlaces, PortInv DEF SlotsInv, BuffersDisjoint, Overlaps
  <2>3. CASE ~Overlaps(address[t])
    <3>1. /\ pc' = [pc EXCEPT ![t] = "commit"]
          /\ UNCHANGED <<reserved, registering, slot, address, buffers, opened>>
      BY ONLY <1>10, <2>3 DEF Recheck, TakenMeanwhile, GoTo, registration
    <3>2. \A u \in Guests : pc'[u] = "commit" => ~Overlaps(address[u])
      BY ONLY <2>3, <3>1, SlotsInv, RegistrationPlaces, PortInv DEF SlotsInv
    <3>3. QED
      BY ONLY <3>1, <3>2, SlotsInv DEF SlotsInv, BuffersDisjoint, Overlaps
  <2>4. QED
    BY ONLY <2>2, <2>3
<1>11. ASSUME NEW t \in Guests, Commit(t) PROVE SlotsInv'
  <2>1. /\ pc[t] = "commit" /\ t \in registering /\ slot[t] \in Slots /\ address[t] \in Addresses
        /\ \A u \in Guests : pc[u] = "commit" => u = t
    BY <1>11 DEF Commit, PortInv, PlaceInv, Registers
  <2>2. /\ buffers' = [buffers EXCEPT ![slot[t]] = [address |-> address[t], registration |-> sequence + 1]]
        /\ reserved' = reserved \ {slot[t]} /\ registering' = registering \ {t} /\ Leave(t) /\ opened' = opened
    BY ONLY <1>11 DEF Commit
  <2>3. \A u \in Guests : pc'[u] # "commit"
    BY ONLY <2>1, <2>2, RegistrationPlaces, PortInv DEF Leave, GoTo
  <2>4. \A u \in registering' : slot'[u] = slot[u]
    BY ONLY <2>2, RegistrationPlaces, PortInv DEF Leave
  <2>5. /\ \A i \in Slots \ {slot[t]} : buffers'[i] = buffers[i]
        /\ buffers'[slot[t]].address = address[t]
    BY ONLY <2>1, <2>2, RegistrationPlaces, PortInv
  <2>6. \A i \in Slots : buffers[i].address # address[t]
    BY ONLY <2>1, SlotsInv, RegistrationPlaces, PortInv DEF SlotsInv, Overlaps
  <2>7. BuffersDisjoint'
    BY ONLY <2>1, <2>5, <2>6, SlotsInv DEF SlotsInv, BuffersDisjoint
  <2>8. \A i \in reserved' : buffers'[i].address = Nobody
    BY ONLY <2>2, <2>5, SlotsInv, RegistrationPlaces, PortInv DEF SlotsInv
  <2>9. QED
    BY ONLY <2>1, <2>2, <2>3, <2>4, <2>7, <2>8, SlotsInv DEF SlotsInv
<1>12. ASSUME NEW t \in Guests, Await(t) PROVE SlotsInv'
  <2>1. pc' = [pc EXCEPT ![t] = Follows[pc[t]]] /\ pc[t] \in TransactionPcs \ {"action"} /\ UNCHANGED address
    BY <1>12 DEF Await, GoTo, TransactionPcs
  <2>2. Follows[pc[t]] # "commit"
    BY ONLY <2>1, FollowsPlaces DEF TransactionPcs
  <2>3. \A u \in Guests : pc'[u] = "commit" => pc[u] = "commit" /\ address'[u] = address[u]
    BY ONLY <2>1, <2>2, RegistrationPlaces, PortInv
  <2>4. \A u \in registering : slot'[u] = slot[u]
    BY ONLY <1>12, RegistrationPlaces, PortInv DEF Await, GoTo, Leave, calls
  <2>5. /\ registering' = registering /\ reserved' = reserved /\ buffers' = buffers /\ (opened => opened')
    BY ONLY <1>12 DEF Await, port, registration
  <2>6. QED
    BY ONLY <2>3, <2>4, <2>5, SlotsInv, SlotsKept
<1>13. ASSUME NEW t \in Guests, Gates(t) PROVE SlotsInv'
  <2>1. pc' = [pc EXCEPT ![t] = Follows[pc[t]]] /\ pc[t] \in TransactionPcs \ {"action"} /\ UNCHANGED address
    BY <1>13 DEF Gates, GoTo, TransactionPcs
  <2>2. Follows[pc[t]] # "commit"
    BY ONLY <2>1, FollowsPlaces DEF TransactionPcs
  <2>3. \A u \in Guests : pc'[u] = "commit" => pc[u] = "commit" /\ address'[u] = address[u]
    BY ONLY <2>1, <2>2, RegistrationPlaces, PortInv
  <2>4. \A u \in registering : slot'[u] = slot[u]
    BY ONLY <1>13, RegistrationPlaces, PortInv DEF Gates, GoTo, Leave, calls
  <2>5. /\ registering' = registering /\ reserved' = reserved /\ buffers' = buffers /\ (opened => opened')
    BY ONLY <1>13 DEF Gates, port, registration
  <2>6. QED
    BY ONLY <2>3, <2>4, <2>5, SlotsInv, SlotsKept
<1>14. ASSUME NEW t \in Guests, Mark(t) PROVE SlotsInv'
  <2>3. \A u \in Guests : pc'[u] = "commit" => pc[u] = "commit" /\ address'[u] = address[u]
    BY ONLY <1>14, RegistrationPlaces, PortInv DEF Mark, GoTo, Leave, calls
  <2>4. \A u \in registering : slot'[u] = slot[u]
    BY ONLY <1>14, RegistrationPlaces, PortInv DEF Mark, GoTo, Leave, calls
  <2>5. /\ registering' = registering /\ reserved' = reserved /\ buffers' = buffers /\ (opened => opened')
    BY ONLY <1>14 DEF Mark, port, registration
  <2>6. QED
    BY ONLY <2>3, <2>4, <2>5, SlotsInv, SlotsKept
<1>15. ASSUME NEW t \in Guests, Shut(t) PROVE SlotsInv'
  <2>1. t = Closer /\ pc[t] = "shut"
    BY <1>15 DEF Shut, PortInv, PlaceInv, TransactionPcs
  <2>2. registering = {} /\ reserved = {}
    BY <2>1, NoRegistrations DEF Drained
  <2>3. \A u \in Guests : pc'[u] = "commit" => pc[u] = "commit" /\ address'[u] = address[u]
    BY ONLY <1>15, RegistrationPlaces, PortInv DEF Shut, GoTo
  <2>4. registering' = registering /\ reserved' = reserved /\ buffers' = buffers
    BY ONLY <1>15 DEF Shut, registration
  <2>5. QED
    BY ONLY <2>2, <2>3, <2>4, SlotsInv DEF SlotsInv, BuffersDisjoint, Overlaps
<1>16. ASSUME NEW t \in Guests, Clear(t) PROVE SlotsInv'
  <2>1. t = Closer /\ pc[t] = "clear"
    BY <1>16 DEF Clear, PortInv, PlaceInv, TransactionPcs
  <2>2. registering = {} /\ reserved = {} /\ \A u \in Guests : pc[u] # "commit"
    BY <2>1, NoRegistrations DEF Drained, CallPcs
  <2>3. \A u \in Guests : pc'[u] # "commit"
    BY ONLY <1>16, <2>2, RegistrationPlaces, PortInv DEF Clear, GoTo
  <2>4. registering' = registering /\ reserved' = reserved
    BY ONLY <1>16 DEF Clear, registration
  <2>5. \A i \in Slots : buffers'[i].address = Nobody \/ buffers'[i].address = buffers[i].address
    BY ONLY <1>16 DEF Clear, NoBuffer
  <2>6. BuffersDisjoint'
    BY ONLY <2>5, SlotsInv DEF SlotsInv, BuffersDisjoint
  <2>7. QED
    BY ONLY <2>2, <2>3, <2>4, <2>6, SlotsInv DEF SlotsInv
<1>17. ASSUME NEW t \in Guests, Finish(t) PROVE SlotsInv'
  <2>3. \A u \in Guests : pc'[u] = "commit" => pc[u] = "commit" /\ address'[u] = address[u]
    BY ONLY <1>17, RegistrationPlaces, PortInv DEF Finish, GoTo, Leave, calls
  <2>4. \A u \in registering : slot'[u] = slot[u]
    BY ONLY <1>17, RegistrationPlaces, PortInv DEF Finish, GoTo, Leave, calls
  <2>5. /\ registering' = registering /\ reserved' = reserved /\ buffers' = buffers /\ (opened => opened')
    BY ONLY <1>17 DEF Finish, port, registration
  <2>6. QED
    BY ONLY <2>3, <2>4, <2>5, SlotsInv, SlotsKept
<1>17a. ASSUME ReleaseDecode PROVE SlotsInv'
  <2>3. \A u \in Guests : pc'[u] = "commit" => pc[u] = "commit" /\ address'[u] = address[u]
    BY ONLY <1>17a, RegistrationPlaces, PortInv DEF ReleaseDecode, DecodeWaiter, SubmitterReturns, GoTo, Leave, calls
  <2>4. \A u \in registering : slot'[u] = slot[u]
    BY ONLY <1>17a, RegistrationPlaces, PortInv DEF ReleaseDecode, DecodeWaiter, SubmitterReturns, GoTo, Leave, calls
  <2>5. /\ registering' = registering /\ reserved' = reserved /\ buffers' = buffers /\ (opened => opened')
    BY ONLY <1>17a DEF ReleaseDecode, DecodeWaiter, SubmitterReturns, port, registration
  <2>6. QED
    BY ONLY <2>3, <2>4, <2>5, SlotsInv, SlotsKept
<1>18. ASSUME Decode PROVE SlotsInv'
  <2>3. \A u \in Guests : pc'[u] = "commit" => pc[u] = "commit" /\ address'[u] = address[u]
    BY ONLY <1>18, RegistrationPlaces, PortInv DEF Decode, DecodeWaiter, SubmitterReturns, GoTo, Leave, calls
  <2>4. \A u \in registering : slot'[u] = slot[u]
    BY ONLY <1>18, RegistrationPlaces, PortInv DEF Decode, DecodeWaiter, SubmitterReturns, GoTo, Leave, calls
  <2>5. /\ registering' = registering /\ reserved' = reserved /\ buffers' = buffers /\ (opened => opened')
    BY ONLY <1>18 DEF Decode, DecodeWaiter, SubmitterReturns, port, registration
  <2>6. QED
    BY ONLY <2>3, <2>4, <2>5, SlotsInv, SlotsKept
<1>19. ASSUME Fire PROVE SlotsInv'
  BY ONLY <1>19, SlotsInv DEF Fire, SlotsInv, BuffersDisjoint, Overlaps, port, access, registration, queue, gpu, calls
<1>20. ASSUME ReserveInternal PROVE SlotsInv'
  BY ONLY <1>20, SlotsInv DEF ReserveInternal, SlotsInv, BuffersDisjoint, Overlaps, port, access, registration, queue, gpu, calls
<1>21. ASSUME AcquireBlocking PROVE SlotsInv'
  BY ONLY <1>21, SlotsInv DEF AcquireBlocking, SlotsInv, BuffersDisjoint, Overlaps, port, access, registration, queue, gpu, calls
<1>22. ASSUME Enqueue PROVE SlotsInv'
  BY ONLY <1>22, SlotsInv DEF Enqueue, SlotsInv, BuffersDisjoint, Overlaps, port, access, registration, queue, gpu, calls
<1>23. ASSUME Vblank PROVE SlotsInv'
  BY ONLY <1>23, SlotsInv DEF Vblank, SlotsInv, BuffersDisjoint, Overlaps, port, access, registration, queue, gpu, calls
<1>24. ASSUME VblankDone PROVE SlotsInv'
  BY ONLY <1>24, SlotsInv DEF VblankDone, SlotsInv, BuffersDisjoint, Overlaps, port, access, registration, queue, gpu, calls
<1>25. ASSUME NoFlip PROVE SlotsInv'
  BY ONLY <1>25, SlotsInv DEF NoFlip, SlotsInv, BuffersDisjoint, Overlaps, port, access, registration, queue, gpu, calls
<1>26. ASSUME TakeFlip PROVE SlotsInv'
  BY ONLY <1>26, SlotsInv DEF TakeFlip, SlotsInv, BuffersDisjoint, Overlaps, port, access, registration, queue, gpu, calls
<1>27. ASSUME CaptureImage PROVE SlotsInv'
  BY ONLY <1>27, SlotsInv DEF CaptureImage, SlotsInv, BuffersDisjoint, Overlaps, port, access, registration, queue, gpu, calls
<1>28. ASSUME DrawImage PROVE SlotsInv'
  BY ONLY <1>28, SlotsInv DEF DrawImage, SlotsInv, BuffersDisjoint, Overlaps, port, access, registration, queue, gpu, calls
<1>29. ASSUME PublishStatus PROVE SlotsInv'
  BY ONLY <1>29, SlotsInv DEF PublishStatus, SlotsInv, BuffersDisjoint, Overlaps, port, access, registration, queue, gpu, calls
<1>30. ASSUME RemoveFlip PROVE SlotsInv'
  BY ONLY <1>30, SlotsInv DEF RemoveFlip, SlotsInv, BuffersDisjoint, Overlaps, port, access, registration, queue, gpu, calls
<1>31. ASSUME ReleaseAdmission PROVE SlotsInv'
  BY ONLY <1>31, SlotsInv DEF ReleaseAdmission, SlotsInv, BuffersDisjoint, Overlaps, port, access, registration, queue, gpu, calls
<1>32. QED
  BY ONLY Next, <1>1, <1>2, <1>3, <1>4, <1>5, <1>6, <1>7, <1>7a, <1>8, <1>9, <1>10, <1>11, <1>12, <1>13, <1>14, <1>15, <1>16, <1>17, <1>17a, <1>18, <1>19, <1>20, <1>21, <1>22, <1>23, <1>24, <1>25, <1>26, <1>27, <1>28, <1>29, <1>30, <1>31 DEF Next, Call, Transaction, WorkerStep, PresenterStep

(* No registration more.                                                   *)
LEMMA FewerRegistrants ==
  ASSUME PortInv, Registrants' \subseteq Registrants, sequence' \in Nat, sequence' <= sequence
  PROVE  sequence' + Cardinality(Registrants') <= MaxRegistrations
<1>1. IsFiniteSet(Registrants) /\ Cardinality(Registrants) \in Nat
  BY VideoNumbers
<1>2. Cardinality(Registrants') <= Cardinality(Registrants) /\ Cardinality(Registrants') \in Nat
  BY <1>1, FS_Subset, FS_CardinalityType
<1>3. sequence \in Nat /\ MaxRegistrations \in Nat /\ sequence + Cardinality(Registrants) <= MaxRegistrations
  BY VideoNumbers
<1>4. \A m, n, p, q, r \in Nat : p <= q /\ m <= n /\ n + q <= r => m + p <= r
  OBVIOUS
<1>5. QED
  BY ONLY <1>1, <1>2, <1>3, <1>4, sequence' \in Nat, sequence' <= sequence

(* There are numbers left for the registrations under way.                 *)
LEMMA RegistrantsStep ==
  ASSUME PortInv, Next
  PROVE  sequence' + Cardinality(Registrants') <= MaxRegistrations
<1>1. ASSUME NEW t \in Guests, NEW call \in CallPcs \ {"unregistered", "order", "recheck", "commit"}, NEW i \in Indices,
        NEW a \in Addresses \cup {Nobody}, Enter(t, call, i, a) PROVE sequence' + Cardinality(Registrants') <= MaxRegistrations
  <2>1. CASE call # "reserve"
    <3>1. \A u \in Guests : pc'[u] \in Registers => pc[u] \in Registers
      BY ONLY <1>1, <2>1, RegistrationPlaces, PortInv DEF Enter, GoTo, Registers, CallPcs
    <3>2. Registrants' \subseteq Registrants /\ sequence' = sequence
      BY ONLY <3>1, <1>1 DEF Registrants, Enter, port
    <3>3. QED
      BY <3>2, VideoNumbers, FewerRegistrants
  <2>2. CASE call = "reserve"
    <3> DEFINE Named == {u \in Guests : address[u] # Nobody}
    <3>1. /\ sequence + Cardinality(Named) < MaxRegistrations /\ sequence' = sequence
          /\ pc' = [pc EXCEPT ![t] = "reserve"] /\ pc[t] = "idle"
      BY ONLY <1>1, <2>2 DEF Enter, port, GoTo
    <3>2. Registrants \subseteq Named
      BY VideoNames DEF Registrants, PortInv, PlaceInv
    <3>3. IsFiniteSet(Named) /\ IsFiniteSet(Registrants)
      BY FS_Subset, VideoOutAssumption, VideoNumbers
    <3> HIDE DEF Named
    <3>4. Cardinality(Registrants) <= Cardinality(Named) /\ Cardinality(Named) \in Nat /\ Cardinality(Registrants) \in Nat
      BY <3>2, <3>3, FS_Subset, FS_CardinalityType
    <3>5. Registrants' = Registrants \cup {t} /\ t \notin Registrants
      BY ONLY <3>1, RegistrationPlaces, PortInv DEF Registrants, Registers
    <3>6. Cardinality(Registrants') = Cardinality(Registrants) + 1
      BY <3>3, <3>5, FS_AddElement
    <3>7. sequence \in Nat /\ MaxRegistrations \in Nat
      BY VideoNumbers
    <3>8. \A m, n, p, r \in Nat : p <= n /\ m + n < r => m + (p + 1) <= r
      OBVIOUS
    <3>9. QED
      BY ONLY <3>1, <3>4, <3>6, <3>7, <3>8
  <2>3. QED
    BY ONLY <2>1, <2>2
<1>2. ASSUME NEW t \in Guests, NEW i \in Slots, NEW waits \in BOOLEAN, SubmitToGpu(t, i, waits) PROVE sequence' + Cardinality(Registrants') <= MaxRegistrations
  <2>1. \A u \in Guests : pc'[u] \in Registers => pc[u] \in Registers
    BY ONLY <1>2, RegistrationPlaces, PortInv DEF SubmitToGpu, GoTo, Leave, calls, Registers
  <2>2. sequence' = sequence
    BY ONLY <1>2 DEF SubmitToGpu, port
  <2>3. Registrants' \subseteq Registrants
    BY ONLY <2>1 DEF Registrants
  <2>4. QED
    BY <2>2, <2>3, VideoNumbers, FewerRegistrants
<1>3. ASSUME NEW t \in Guests, NEW a \in Addresses \cup {Nobody}, Transact(t, a) PROVE sequence' + Cardinality(Registrants') <= MaxRegistrations
  <2>1. \A u \in Guests : pc'[u] \in Registers => pc[u] \in Registers
    BY ONLY <1>3, RegistrationPlaces, PortInv DEF Transact, GoTo, Leave, calls, Registers
  <2>2. sequence' = sequence
    BY ONLY <1>3 DEF Transact, port
  <2>3. Registrants' \subseteq Registrants
    BY ONLY <2>1 DEF Registrants
  <2>4. QED
    BY <2>2, <2>3, VideoNumbers, FewerRegistrants
<1>4. ASSUME NEW t \in Guests, Open(t) PROVE sequence' + Cardinality(Registrants') <= MaxRegistrations
  <2>1. \A u \in Guests : pc'[u] \in Registers => pc[u] \in Registers
    BY ONLY <1>4, RegistrationPlaces, PortInv DEF Open, GoTo, Leave, calls, Registers
  <2>2. sequence' \in Nat /\ sequence' <= sequence
    <3>1. sequence' = sequence \/ sequence' = 0
      BY ONLY <1>4 DEF Open
    <3>2. sequence \in Nat
      BY VideoNumbers
    <3>3. QED
      BY ONLY <3>1, <3>2
  <2>3. Registrants' \subseteq Registrants
    BY ONLY <2>1 DEF Registrants
  <2>4. QED
    BY <2>2, <2>3, VideoNumbers, FewerRegistrants
<1>5. ASSUME NEW t \in Guests, SubmitFlip(t) PROVE sequence' + Cardinality(Registrants') <= MaxRegistrations
  <2>1. \A u \in Guests : pc'[u] \in Registers => pc[u] \in Registers
    BY ONLY <1>5, RegistrationPlaces, PortInv DEF SubmitFlip, GoTo, Leave, calls, Registers
  <2>2. sequence' = sequence
    BY ONLY <1>5 DEF SubmitFlip, port
  <2>3. Registrants' \subseteq Registrants
    BY ONLY <2>1 DEF Registrants
  <2>4. QED
    BY <2>2, <2>3, VideoNumbers, FewerRegistrants
<1>6. ASSUME NEW t \in Guests, IsFlipPending(t) PROVE sequence' + Cardinality(Registrants') <= MaxRegistrations
  <2>1. \A u \in Guests : pc'[u] \in Registers => pc[u] \in Registers
    BY ONLY <1>6, RegistrationPlaces, PortInv DEF IsFlipPending, GoTo, Leave, calls, Registers
  <2>2. sequence' = sequence
    BY ONLY <1>6 DEF IsFlipPending, port
  <2>3. Registrants' \subseteq Registrants
    BY ONLY <2>1 DEF Registrants
  <2>4. QED
    BY <2>2, <2>3, VideoNumbers, FewerRegistrants
<1>7. ASSUME NEW t \in Guests, Unregister(t) PROVE sequence' + Cardinality(Registrants') <= MaxRegistrations
  <2>1. \A u \in Guests : pc'[u] \in Registers => pc[u] \in Registers
    BY ONLY <1>7, RegistrationPlaces, PortInv DEF Unregister, GoTo, Leave, calls, Registers
  <2>2. sequence' = sequence
    BY ONLY <1>7 DEF Unregister, port
  <2>3. Registrants' \subseteq Registrants
    BY ONLY <2>1 DEF Registrants
  <2>4. QED
    BY <2>2, <2>3, VideoNumbers, FewerRegistrants
<1>7a. ASSUME NEW t \in Guests, Unregistered(t) PROVE sequence' + Cardinality(Registrants') <= MaxRegistrations
  <2>1. \A u \in Guests : pc'[u] \in Registers => pc[u] \in Registers
    BY ONLY <1>7a, RegistrationPlaces, PortInv DEF Unregistered, GoTo, Leave, calls, Registers
  <2>2. sequence' = sequence
    BY ONLY <1>7a DEF Unregistered, port
  <2>3. Registrants' \subseteq Registrants
    BY ONLY <2>1 DEF Registrants
  <2>4. QED
    BY <2>2, <2>3, VideoNumbers, FewerRegistrants
<1>8. ASSUME NEW t \in Guests, Reserve(t) PROVE sequence' + Cardinality(Registrants') <= MaxRegistrations
  <2>1. \A u \in Guests : pc'[u] \in Registers => pc[u] \in Registers
    BY ONLY <1>8, RegistrationPlaces, PortInv DEF Reserve, GoTo, Leave, calls, Registers
  <2>2. sequence' = sequence
    BY ONLY <1>8 DEF Reserve, port
  <2>3. Registrants' \subseteq Registrants
    BY ONLY <2>1 DEF Registrants
  <2>4. QED
    BY <2>2, <2>3, VideoNumbers, FewerRegistrants
<1>9. ASSUME NEW t \in Guests, Order(t) PROVE sequence' + Cardinality(Registrants') <= MaxRegistrations
  <2>1. \A u \in Guests : pc'[u] \in Registers => pc[u] \in Registers
    BY ONLY <1>9, RegistrationPlaces, PortInv DEF Order, GoTo, Leave, calls, Registers
  <2>2. sequence' = sequence
    BY ONLY <1>9 DEF Order, port
  <2>3. Registrants' \subseteq Registrants
    BY ONLY <2>1 DEF Registrants
  <2>4. QED
    BY <2>2, <2>3, VideoNumbers, FewerRegistrants
<1>10. ASSUME NEW t \in Guests, Recheck(t) PROVE sequence' + Cardinality(Registrants') <= MaxRegistrations
  <2>1. \A u \in Guests : pc'[u] \in Registers => pc[u] \in Registers
    BY ONLY <1>10, RegistrationPlaces, PortInv DEF Recheck, GoTo, Leave, calls, Registers
  <2>2. sequence' = sequence
    BY ONLY <1>10 DEF Recheck, port
  <2>3. Registrants' \subseteq Registrants
    BY ONLY <2>1 DEF Registrants
  <2>4. QED
    BY <2>2, <2>3, VideoNumbers, FewerRegistrants
<1>11. ASSUME NEW t \in Guests, Commit(t) PROVE sequence' + Cardinality(Registrants') <= MaxRegistrations
  <2>1. sequence' = sequence + 1 /\ pc' = [pc EXCEPT ![t] = "idle"] /\ pc[t] = "commit"
    BY ONLY <1>11 DEF Commit, Leave, GoTo
  <2>2. Registrants' = Registrants \ {t} /\ t \in Registrants
    BY ONLY <2>1, RegistrationPlaces, PortInv DEF Registrants, Registers
  <2>3. Cardinality(Registrants') = Cardinality(Registrants) - 1
    BY <2>2, VideoNumbers
  <2>4. /\ sequence \in Nat /\ MaxRegistrations \in Nat /\ Cardinality(Registrants) \in Nat
        /\ sequence + Cardinality(Registrants) <= MaxRegistrations
    BY VideoNumbers
  <2>5. \A m, n \in Nat : (m + 1) + (n - 1) = m + n
    OBVIOUS
  <2>6. QED
    BY ONLY <2>1, <2>3, <2>4, <2>5
<1>12. ASSUME NEW t \in Guests, Await(t) PROVE sequence' + Cardinality(Registrants') <= MaxRegistrations
  <2>0. pc' = [pc EXCEPT ![t] = Follows[pc[t]]] /\ Follows[pc[t]] \in TransactionPcs
    BY <1>12, FollowsPlaces DEF Await, GoTo, TransactionPcs
  <2>1. \A u \in Guests : pc'[u] \in Registers => pc[u] \in Registers
    BY ONLY <2>0, RegistrationPlaces, PortInv DEF Registers, TransactionPcs
  <2>2. sequence' = sequence
    BY ONLY <1>12 DEF Await, port
  <2>3. Registrants' \subseteq Registrants
    BY ONLY <2>1 DEF Registrants
  <2>4. QED
    BY <2>2, <2>3, VideoNumbers, FewerRegistrants
<1>13. ASSUME NEW t \in Guests, Gates(t) PROVE sequence' + Cardinality(Registrants') <= MaxRegistrations
  <2>0. pc' = [pc EXCEPT ![t] = Follows[pc[t]]] /\ Follows[pc[t]] \in TransactionPcs
    BY <1>13, FollowsPlaces DEF Gates, GoTo, TransactionPcs
  <2>1. \A u \in Guests : pc'[u] \in Registers => pc[u] \in Registers
    BY ONLY <2>0, RegistrationPlaces, PortInv DEF Registers, TransactionPcs
  <2>2. sequence' = sequence
    BY ONLY <1>13 DEF Gates, port
  <2>3. Registrants' \subseteq Registrants
    BY ONLY <2>1 DEF Registrants
  <2>4. QED
    BY <2>2, <2>3, VideoNumbers, FewerRegistrants
<1>14. ASSUME NEW t \in Guests, Mark(t) PROVE sequence' + Cardinality(Registrants') <= MaxRegistrations
  <2>1. \A u \in Guests : pc'[u] \in Registers => pc[u] \in Registers
    BY ONLY <1>14, RegistrationPlaces, PortInv DEF Mark, GoTo, Leave, calls, Registers
  <2>2. sequence' = sequence
    BY ONLY <1>14 DEF Mark, port
  <2>3. Registrants' \subseteq Registrants
    BY ONLY <2>1 DEF Registrants
  <2>4. QED
    BY <2>2, <2>3, VideoNumbers, FewerRegistrants
<1>15. ASSUME NEW t \in Guests, Shut(t) PROVE sequence' + Cardinality(Registrants') <= MaxRegistrations
  <2>1. \A u \in Guests : pc'[u] \in Registers => pc[u] \in Registers
    BY ONLY <1>15, RegistrationPlaces, PortInv DEF Shut, GoTo, Leave, calls, Registers
  <2>2. sequence' = sequence
    BY ONLY <1>15 DEF Shut, port
  <2>3. Registrants' \subseteq Registrants
    BY ONLY <2>1 DEF Registrants
  <2>4. QED
    BY <2>2, <2>3, VideoNumbers, FewerRegistrants
<1>16. ASSUME NEW t \in Guests, Clear(t) PROVE sequence' + Cardinality(Registrants') <= MaxRegistrations
  <2>1. \A u \in Guests : pc'[u] \in Registers => pc[u] \in Registers
    BY ONLY <1>16, RegistrationPlaces, PortInv DEF Clear, GoTo, Leave, calls, Registers
  <2>2. sequence' = sequence
    BY ONLY <1>16 DEF Clear, port
  <2>3. Registrants' \subseteq Registrants
    BY ONLY <2>1 DEF Registrants
  <2>4. QED
    BY <2>2, <2>3, VideoNumbers, FewerRegistrants
<1>17. ASSUME NEW t \in Guests, Finish(t) PROVE sequence' + Cardinality(Registrants') <= MaxRegistrations
  <2>1. \A u \in Guests : pc'[u] \in Registers => pc[u] \in Registers
    BY ONLY <1>17, RegistrationPlaces, PortInv DEF Finish, GoTo, Leave, calls, Registers
  <2>2. sequence' = sequence
    BY ONLY <1>17 DEF Finish, port
  <2>3. Registrants' \subseteq Registrants
    BY ONLY <2>1 DEF Registrants
  <2>4. QED
    BY <2>2, <2>3, VideoNumbers, FewerRegistrants
<1>17a. ASSUME ReleaseDecode PROVE sequence' + Cardinality(Registrants') <= MaxRegistrations
  <2>1. \A u \in Guests : pc'[u] \in Registers => pc[u] \in Registers
    BY ONLY <1>17a, RegistrationPlaces, PortInv DEF ReleaseDecode, DecodeWaiter, SubmitterReturns, GoTo, Leave, calls, Registers
  <2>2. sequence' = sequence
    BY ONLY <1>17a DEF ReleaseDecode, DecodeWaiter, SubmitterReturns, port
  <2>3. Registrants' \subseteq Registrants
    BY ONLY <2>1 DEF Registrants
  <2>4. QED
    BY <2>2, <2>3, VideoNumbers, FewerRegistrants
<1>18. ASSUME Decode PROVE sequence' + Cardinality(Registrants') <= MaxRegistrations
  <2>1. \A u \in Guests : pc'[u] \in Registers => pc[u] \in Registers
    BY ONLY <1>18, RegistrationPlaces, PortInv DEF Decode, DecodeWaiter, SubmitterReturns, GoTo, Leave, calls, Registers
  <2>2. sequence' = sequence
    BY ONLY <1>18 DEF Decode, DecodeWaiter, SubmitterReturns, port
  <2>3. Registrants' \subseteq Registrants
    BY ONLY <2>1 DEF Registrants
  <2>4. QED
    BY <2>2, <2>3, VideoNumbers, FewerRegistrants
<1>19. ASSUME Fire PROVE sequence' + Cardinality(Registrants') <= MaxRegistrations
  <2>1. Registrants' = Registrants /\ sequence' = sequence
    BY ONLY <1>19 DEF Fire, Registrants, port, calls
  <2>2. QED
    BY <2>1, VideoNumbers
<1>20. ASSUME ReserveInternal PROVE sequence' + Cardinality(Registrants') <= MaxRegistrations
  <2>1. Registrants' = Registrants /\ sequence' = sequence
    BY ONLY <1>20 DEF ReserveInternal, Registrants, port, calls
  <2>2. QED
    BY <2>1, VideoNumbers
<1>21. ASSUME AcquireBlocking PROVE sequence' + Cardinality(Registrants') <= MaxRegistrations
  <2>1. Registrants' = Registrants /\ sequence' = sequence
    BY ONLY <1>21 DEF AcquireBlocking, Registrants, port, calls
  <2>2. QED
    BY <2>1, VideoNumbers
<1>22. ASSUME Enqueue PROVE sequence' + Cardinality(Registrants') <= MaxRegistrations
  <2>1. Registrants' = Registrants /\ sequence' = sequence
    BY ONLY <1>22 DEF Enqueue, Registrants, port, calls
  <2>2. QED
    BY <2>1, VideoNumbers
<1>23. ASSUME Vblank PROVE sequence' + Cardinality(Registrants') <= MaxRegistrations
  <2>1. Registrants' = Registrants /\ sequence' = sequence
    BY ONLY <1>23 DEF Vblank, Registrants, port, calls
  <2>2. QED
    BY <2>1, VideoNumbers
<1>24. ASSUME VblankDone PROVE sequence' + Cardinality(Registrants') <= MaxRegistrations
  <2>1. Registrants' = Registrants /\ sequence' = sequence
    BY ONLY <1>24 DEF VblankDone, Registrants, port, calls
  <2>2. QED
    BY <2>1, VideoNumbers
<1>25. ASSUME NoFlip PROVE sequence' + Cardinality(Registrants') <= MaxRegistrations
  <2>1. Registrants' = Registrants /\ sequence' = sequence
    BY ONLY <1>25 DEF NoFlip, Registrants, port, calls
  <2>2. QED
    BY <2>1, VideoNumbers
<1>26. ASSUME TakeFlip PROVE sequence' + Cardinality(Registrants') <= MaxRegistrations
  <2>1. Registrants' = Registrants /\ sequence' = sequence
    BY ONLY <1>26 DEF TakeFlip, Registrants, port, calls
  <2>2. QED
    BY <2>1, VideoNumbers
<1>27. ASSUME CaptureImage PROVE sequence' + Cardinality(Registrants') <= MaxRegistrations
  <2>1. Registrants' = Registrants /\ sequence' = sequence
    BY ONLY <1>27 DEF CaptureImage, Registrants, port, calls
  <2>2. QED
    BY <2>1, VideoNumbers
<1>28. ASSUME DrawImage PROVE sequence' + Cardinality(Registrants') <= MaxRegistrations
  <2>1. Registrants' = Registrants /\ sequence' = sequence
    BY ONLY <1>28 DEF DrawImage, Registrants, port, calls
  <2>2. QED
    BY <2>1, VideoNumbers
<1>29. ASSUME PublishStatus PROVE sequence' + Cardinality(Registrants') <= MaxRegistrations
  <2>1. Registrants' = Registrants /\ sequence' = sequence
    BY ONLY <1>29 DEF PublishStatus, Registrants, port, calls
  <2>2. QED
    BY <2>1, VideoNumbers
<1>30. ASSUME RemoveFlip PROVE sequence' + Cardinality(Registrants') <= MaxRegistrations
  <2>1. Registrants' = Registrants /\ sequence' = sequence
    BY ONLY <1>30 DEF RemoveFlip, Registrants, port, calls
  <2>2. QED
    BY <2>1, VideoNumbers
<1>31. ASSUME ReleaseAdmission PROVE sequence' + Cardinality(Registrants') <= MaxRegistrations
  <2>1. Registrants' = Registrants /\ sequence' = sequence
    BY ONLY <1>31 DEF ReleaseAdmission, Registrants, port, calls
  <2>2. QED
    BY <2>1, VideoNumbers
<1>32. QED
  BY ONLY Next, <1>1, <1>2, <1>3, <1>4, <1>5, <1>6, <1>7, <1>7a, <1>8, <1>9, <1>10, <1>11, <1>12, <1>13, <1>14, <1>15, <1>16, <1>17, <1>17a, <1>18, <1>19, <1>20, <1>21, <1>22, <1>23, <1>24, <1>25, <1>26, <1>27, <1>28, <1>29, <1>30, <1>31 DEF Next, Call, Transaction, WorkerStep, PresenterStep

(* The port begins closed, with nothing under way.                         *)
LEMMA PortInitially == Init => PortInv
<1> SUFFICES ASSUME Init PROVE PortInv
  OBVIOUS
<1> USE DEF Init
<1>1. TypeOK
  <2>1. /\ [at |-> "vblank", request |-> NoRequest] \in [at : {"vblank", "vblankEvents", "flip", "present", "draw",
                                                        "publish", "remove", "release"}, request : Request]
        /\ [at |-> "idle", request |-> NoRequest] \in [at : {"idle", "reserve", "admit", "enqueue"}, request : Request]
    BY VideoNames
  <2>2. /\ buffers \in [Slots -> [address : Addresses \cup {Nobody}, registration : 0 .. MaxRegistrations]]
        /\ pc \in [Guests -> Stations] /\ slot \in [Guests -> Indices] /\ address \in [Guests -> Addresses \cup {Nobody}]
    BY VideoNames
  <2>3. requests \in Seq(Request) /\ Len(requests) = 0 /\ stream \in Seq(Indices) /\ decoded \in Seq(Indices)
    OBVIOUS
  <2>4. /\ session \in 0 .. MaxSessions /\ sequence \in 0 .. MaxRegistrations /\ admitted \in 0 .. Capacity
        /\ accepted \in Nat /\ gpuQueued \in Nat /\ pending \in Nat /\ Len(requests) <= admitted
    BY <2>3, VideoOutAssumption DEF Capacity
  <2>5. /\ opened \in BOOLEAN /\ closing \in BOOLEAN /\ quiescing \in BOOLEAN /\ draining \in BOOLEAN
        /\ progress \in BOOLEAN /\ sawIdle \in BOOLEAN /\ misled \in BOOLEAN /\ raced \in BOOLEAN /\ reserved \in SUBSET Slots
        /\ accesses \in SUBSET (Guests \cup {Worker}) /\ registering \in SUBSET Guests
        /\ registrar \in Guests \cup {Nobody} /\ submission \in Guests \cup {Nobody}
    OBVIOUS
  <2>6. /\ presenter = [at |-> "vblank", request |-> NoRequest] /\ worker = [at |-> "idle", request |-> NoRequest]
    OBVIOUS
  <2>7. QED
    BY ONLY <2>1, <2>2, <2>3, <2>4, <2>5, <2>6 DEF TypeOK, Stations
<1>2. PlaceInv
  BY VideoNames DEF PlaceInv, Registers, CallPcs, TransactionPcs
<1>3. HolderInv
  BY VideoNames DEF HolderInv, TransactionPcs
<1>4. StageInv
  BY VideoNames DEF StageInv, Drained, Shutting, GpuIdle
<1>5. CountInv /\ ShownInv
  BY DEF CountInv, ShownInv, FlipsToShow
<1>6. SlotsInv
  <2>1. \A i \in Slots : buffers[i].address = Nobody
    BY DEF NoBuffer
  <2>2. registering = {} /\ reserved = {} /\ \A t \in Guests : pc[t] # "commit"
    OBVIOUS
  <2>3. QED
    BY ONLY <2>1, <2>2 DEF SlotsInv, BuffersDisjoint
<1>7. sequence + Cardinality(Registrants) <= MaxRegistrations
  <2>1. Registrants = {}
    BY DEF Registrants, Registers
  <2>2. Cardinality(Registrants) = 0
    BY <2>1, FS_EmptySet
  <2>3. QED
    BY <2>2, VideoOutAssumption
<1>8. QED
  BY ONLY <1>1, <1>2, <1>3, <1>4, <1>5, <1>6, <1>7 DEF PortInv

(* A step that changes nothing.                                            *)
LEMMA PortStutter ==
  ASSUME PortInv, UNCHANGED vars
  PROVE  PortInv'
<1> USE PortInv, UNCHANGED vars DEF PortInv, vars, port, access, registration, queue, gpu, calls
<1>1. TypeOK'
  BY DEF TypeOK
<1>2. PlaceInv' /\ HolderInv'
  BY DEF PlaceInv, HolderInv
<1>3. StageInv'
  BY DEF StageInv, GpuIdle, IsClose
<1>4. CountInv'
  BY DEF CountInv
<1>5. ShownInv'
  BY DEF ShownInv, FlipsToShow
<1>6. SlotsInv'
  BY DEF SlotsInv, Overlaps, BuffersDisjoint
<1>7. (sequence + Cardinality(Registrants) <= MaxRegistrations)'
  BY DEF Registrants
<1>8. QED
  BY ONLY <1>1, <1>2, <1>3, <1>4, <1>5, <1>6, <1>7 DEF PortInv

(* A step of the port keeps its invariant.                                 *)
LEMMA PortStep ==
  ASSUME PortInv, Next
  PROVE  PortInv'
BY VideoTypeStep, PlaceStep, HolderStep, StageStep, CountStep, ShownStep, SlotsStep, RegistrantsStep DEF PortInv

(* The invariant of the port.                                              *)
THEOREM PortInvariance == Spec => []PortInv
<1>1. PortInv /\ [Next]_vars => PortInv'
  BY PortStep, PortStutter
<1>2. QED
  BY PortInitially, <1>1, PTL DEF Spec

(* While a Close clears the port, or an unmap takes memory away, nothing is *)
(* under way: no call, vblank, flip, registration or use of an image       *)
(* (VideoOutHostAccessGate, the lifecycle and registration gates).         *)
THEOREM QuietCorrect == Spec => []QuietWhenCleared
<1>1. ASSUME PortInv PROVE QuietWhenCleared
  <2> USE <1>1
  <2> SUFFICES ASSUME NEW t \in Guests, pc[t] \in {"clear", "action"}
               PROVE  /\ accesses = {} /\ ~progress /\ registering = {}
                      /\ requests = <<>> /\ presenter.at \notin {"present", "draw", "publish"}
                      /\ GpuIdle
    BY DEF QuietWhenCleared
  <2>1. pc[Closer] \in {"clear", "action"}
    BY DEF PortInv, PlaceInv, TransactionPcs
  <2>2. accesses = {} /\ ~progress /\ GpuIdle /\ accepted = 0
    BY <2>1 DEF PortInv, StageInv, Drained, Shutting
  <2>3. registering = {}
    BY <2>1, NoRegistrations DEF Drained
  <2>4. requests = <<>>
    <3>1. accepted = Len(requests) + 0 /\ requests \in Seq(Request)
      BY <2>2 DEF PortInv, CountInv, TypeOK, GpuIdle
    <3>2. Len(requests) = 0
      BY ONLY <2>2, <3>1, ListElements
    <3>3. QED
      BY ONLY <3>1, <3>2, ListElements
  <2>5. presenter.at \notin {"present", "draw", "publish"}
    BY <2>4 DEF PortInv, CountInv
  <2>6. QED
    BY ONLY <2>2, <2>3, <2>4, <2>5
<1>2. QED
  BY PortInvariance, <1>1, PTL

(* No two registered buffers overlap, whatever registrations race          *)
(* (RegisterBuffers).                                                      *)
THEOREM BuffersCorrect == Spec => []BuffersDisjoint
<1>1. PortInv => BuffersDisjoint
  BY DEF PortInv, SlotsInv
<1>2. QED
  BY PortInvariance, <1>1, PTL

(* flipPendingNum is 0 only when no flip is left to present, and is 0      *)
(* again when none is left (FlipQueue::PublishPendingLocked).              *)
THEOREM PendingCorrect == Spec => []PendingTellsFlips
<1>1. ASSUME PortInv PROVE PendingTellsFlips
  <2> USE <1>1
  <2>1. requests \in Seq(Request) /\ ShownInv
    BY DEF PortInv, TypeOK
  <2>2. ASSUME pending = 0 PROVE gpuQueued = 0 /\ Unpresented = <<>>
    <3>1. FlipsToShow = 0
      BY ONLY <2>1, <2>2, FlipsCounted, PortInv DEF ShownInv
    <3>2. CASE presenter.at = "remove"
      <4>1. gpuQueued = 0 /\ Len(requests) = 1
        <5>1. /\ gpuQueued + Len(requests) - 1 = 0 /\ Len(requests) >= 1
              /\ gpuQueued \in Nat /\ Len(requests) \in Nat
          BY ONLY <3>1, <3>2, FlipsCounted, PortInv
        <5>2. \A g, l \in Nat : l >= 1 /\ g + l - 1 = 0 => g = 0 /\ l = 1
          OBVIOUS
        <5>3. QED
          BY ONLY <5>1, <5>2
      <4>2. Len(Tail(requests)) = 0 /\ Tail(requests) \in Seq(Request)
        BY ONLY <2>1, <4>1, ListElements
      <4>3. Tail(requests) = <<>>
        BY ONLY <4>2, ListElements
      <4>4. QED
        BY ONLY <3>2, <4>1, <4>3 DEF Unpresented
    <3>3. CASE presenter.at # "remove"
      <4>1. gpuQueued = 0 /\ Len(requests) = 0
        BY ONLY <3>1, <3>3, FlipsCounted, PortInv
      <4>2. requests = <<>>
        BY ONLY <2>1, <4>1, ListElements
      <4>3. QED
        BY ONLY <3>3, <4>1, <4>2 DEF Unpresented
    <3>4. QED
      BY ONLY <3>2, <3>3
  <2>3. ASSUME gpuQueued = 0, requests = <<>> PROVE pending = 0
    <3>1. Len(requests) = 0
      BY ONLY <2>1, <2>3, ListElements
    <3>2. FlipsToShow = 0
      BY ONLY <3>1, <2>3, FlipsCounted, PortInv
    <3>3. QED
      BY ONLY <2>1, <3>2 DEF ShownInv
  <2>4. QED
    BY ONLY <2>2, <2>3 DEF PendingTellsFlips
<1>2. QED
  BY PortInvariance, <1>1, PTL

(* The guest's knowledge lasts as long as it submits nothing.              *)
LEMMA KnownKept ==
  ASSUME KnownInv, UNCHANGED <<sawIdle, misled>>, raced => raced',
         UNCHANGED <<requests, stream, decoded>>, worker'.at = worker.at,
         presenter.at = "remove" => presenter'.at = "remove",
         pc'[Flipper] = "unregister" => pc[Flipper] = "unregister" \/ sawIdle,
         pc'[Flipper] = "unregistered" => pc[Flipper] = "unregistered"
  PROVE  KnownInv'
<1>1. Knows' <=> Knows
  BY DEF Knows
<1>2. GpuIdle => GpuIdle'
  BY DEF GpuIdle
<1>3. QED
  BY <1>1, <1>2 DEF KnownInv, Leaving

(* A guest that knows has nothing left in the GPU to change.               *)
LEMMA KnownOfAnother ==
  ASSUME KnownInv, ~GpuIdle, UNCHANGED <<sawIdle, misled, raced>>,
         pc'[Flipper] = "unregister" => pc[Flipper] = "unregister",
         pc'[Flipper] = "unregistered" => pc[Flipper] = "unregistered"
  PROVE  KnownInv'
<1>1. ~Knows /\ ~Knows'
  BY DEF KnownInv, Knows
<1>2. QED
  BY <1>1 DEF KnownInv

(* The flips find what they found as long as every registration stays.     *)
LEMMA FoundKept ==
  ASSUME FoundInv, UNCHANGED <<requests, stream, decoded, worker, opened, session>>,
         presenter.at = "remove" => presenter'.at = "remove",
         \A s \in Slots : s \notin reserved /\ buffers[s].address # Nobody => s \notin reserved' /\ buffers'[s] = buffers[s]
  PROVE  FoundInv'
<1>1. \A s : Flippable(s) => (s \in Slots => s \notin reserved' /\ buffers'[s].address # Nobody)
  BY DEF Flippable
<1>2. \A r : Accessible(r) =>
        (r.index \in Slots => /\ opened' /\ (r.index \in Slots => r.index \notin reserved' /\ buffers'[r.index].address # Nobody)
                             /\ [index |-> r.index, session |-> session',
                                 registration |-> IF r.index = Blank THEN 0 ELSE buffers'[r.index].registration] = r)
  BY DEF Accessible, Flippable, RequestFor
<1>3. \A i \in DOMAIN requests' : Accessible(requests[i])' \/ Leaving(i)'
  BY <1>2 DEF FoundInv, Accessible, Flippable, RequestFor, Leaving
<1>4. worker'.at \in {"admit", "enqueue"} => Accessible(worker.request)'
  BY <1>2 DEF FoundInv, Accessible, Flippable, RequestFor
<1>5. /\ worker'.at = "reserve" => Flippable(worker.request.index)'
      /\ \A i \in DOMAIN stream' : Flippable(stream[i])'
      /\ \A i \in DOMAIN decoded' : Flippable(decoded[i])'
  BY <1>1 DEF FoundInv, Flippable
<1>6. QED
  BY ONLY <1>3, <1>4, <1>5 DEF FoundInv

(* No flip is left once a transaction has waited for them, nor in a port   *)
(* that is not open.                                                       *)
LEMMA NoFlips ==
  ASSUME PortInv, ~opened \/ pc[Closer] \in Drained
  PROVE  GpuIdle /\ requests = <<>>
<1>1. GpuIdle /\ accepted = 0
  BY DEF PortInv, StageInv, Drained
<1>2. accepted = Len(requests) + 0 /\ requests \in Seq(Request) /\ Len(requests) \in Nat
  BY <1>1, VideoNumbers DEF PortInv, CountInv, GpuIdle, TypeOK
<1>3. Len(requests) = 0
  BY ONLY <1>1, <1>2
<1>4. QED
  BY ONLY <1>1, <1>2, <1>3, ListElements

(* Where no flip is left, none looks for its buffer.                       *)
LEMMA NoFlipsFound ==
  ASSUME GpuIdle, requests = <<>>, UNCHANGED <<requests, stream, decoded>>, worker'.at = worker.at
  PROVE  FoundInv'
<1>1. /\ worker'.at = "idle" /\ DOMAIN requests' = {} /\ DOMAIN stream' = {} /\ DOMAIN decoded' = {}
  BY DEF GpuIdle
<1>2. QED
  BY ONLY <1>1 DEF FoundInv

(* A count of no flip tells the guest that the GPU is idle and that the    *)
(* presenter is done but for the flip it is removing.                      *)
LEMMA NothingPending ==
  ASSUME PortInv, pending = 0, stream = <<>>
  PROVE  /\ GpuIdle
         /\ \A i \in DOMAIN requests : Leaving(i)
<1>1. requests \in Seq(Request) /\ decoded \in Seq(Indices)
  BY DEF PortInv, TypeOK
<1>2. FlipsToShow = 0
  <2>1. ShownInv
    BY DEF PortInv
  <2>2. QED
    BY ONLY <2>1, FlipsCounted, PortInv, pending = 0 DEF ShownInv
<1>3. gpuQueued = 0 /\ Len(requests) = (IF presenter.at = "remove" THEN 1 ELSE 0)
  <2>1. \A g, l \in Nat : l >= 1 /\ g + l - 1 = 0 => g = 0 /\ l = 1
    OBVIOUS
  <2>2. \A g, l \in Nat : g + l = 0 => g = 0 /\ l = 0
    OBVIOUS
  <2>3. CASE presenter.at = "remove"
    BY ONLY <2>1, <2>3, <1>2, FlipsCounted, PortInv
  <2>4. CASE presenter.at # "remove"
    BY ONLY <2>2, <2>4, <1>2, FlipsCounted, PortInv
  <2>5. QED
    BY ONLY <2>3, <2>4
<1>4. decoded = <<>> /\ worker.at = "idle"
  <2>1. gpuQueued = Len(decoded) + (IF worker.at = "idle" THEN 0 ELSE 1) /\ Len(decoded) \in Nat
    BY VideoNumbers DEF PortInv, CountInv
  <2>2. Len(decoded) = 0 /\ worker.at = "idle"
    BY ONLY <2>1, <1>3
  <2>3. QED
    BY ONLY <2>2, <1>1, ListElements
<1>6. \A i \in DOMAIN requests : i = 1 /\ presenter.at = "remove"
  <2>1. DOMAIN requests = 1 .. Len(requests)
    BY ONLY <1>1, ListElements
  <2>2. CASE presenter.at = "remove"
    BY ONLY <2>1, <2>2, <1>3
  <2>3. CASE presenter.at # "remove"
    BY ONLY <2>1, <2>3, <1>3
  <2>4. QED
    BY ONLY <2>2, <2>3
<1>7. QED
  BY ONLY <1>4, <1>6, stream = <<>> DEF GpuIdle, Leaving

(* What the guest has read stays true until it flips again.                *)
LEMMA KnownStep ==
  ASSUME PortInv, KnownInv, Next
  PROVE  KnownInv'
<1>1. ASSUME NEW t \in Guests, NEW call \in CallPcs \ {"unregistered", "order", "recheck", "commit"}, NEW i \in Indices,
        NEW a \in Addresses \cup {Nobody}, Enter(t, call, i, a) PROVE KnownInv'
  <2>1. UNCHANGED <<requests, stream, decoded>> /\ worker' = worker /\ presenter' = presenter
    BY ONLY <1>1 DEF Enter, queue, gpu
  <2>2. UNCHANGED <<sawIdle, misled>> /\ (raced => raced')
    BY ONLY <1>1 DEF Enter, calls
  <2>3. /\ pc'[Flipper] = "unregister" => pc[Flipper] = "unregister" \/ sawIdle
        /\ pc'[Flipper] = "unregistered" => pc[Flipper] = "unregistered"
    BY ONLY <1>1, RegistrationPlaces, PortInv, VideoNames DEF Enter, GoTo, Leave, calls
  <2>4. QED
    BY ONLY <2>1, <2>2, <2>3, KnownInv, KnownKept
<1>2. ASSUME NEW t \in Guests, NEW i \in Slots, NEW waits \in BOOLEAN, SubmitToGpu(t, i, waits) PROVE KnownInv'
  <2>1. sawIdle' = FALSE /\ t = Flipper /\ (pc' = pc \/ pc' = [pc EXCEPT ![t] = "decoding"]) /\ pc[t] = "idle"
    BY ONLY <1>2 DEF SubmitToGpu, GoTo
  <2>2. pc'[Flipper] \notin {"unregister", "unregistered"}
    BY ONLY <2>1, RegistrationPlaces, PortInv, VideoNames
  <2>3. QED
    BY ONLY <2>1, <2>2 DEF KnownInv, Knows
<1>3. ASSUME NEW t \in Guests, NEW a \in Addresses \cup {Nobody}, Transact(t, a) PROVE KnownInv'
  <2>1. UNCHANGED <<requests, stream, decoded>> /\ worker' = worker /\ presenter' = presenter
    BY ONLY <1>3 DEF Transact, queue, gpu
  <2>2. UNCHANGED <<sawIdle, misled>> /\ (raced => raced')
    BY ONLY <1>3 DEF Transact, calls
  <2>3. /\ pc'[Flipper] = "unregister" => pc[Flipper] = "unregister"
        /\ pc'[Flipper] = "unregistered" => pc[Flipper] = "unregistered"
    BY ONLY <1>3, RegistrationPlaces, PortInv, VideoNames DEF Transact, GoTo, Leave, calls
  <2>4. QED
    BY ONLY <2>1, <2>2, <2>3, KnownInv, KnownKept
<1>4. ASSUME NEW t \in Guests, Open(t) PROVE KnownInv'
  <2>1. UNCHANGED <<requests, stream, decoded>> /\ worker' = worker /\ presenter' = presenter
    BY ONLY <1>4 DEF Open, queue, gpu
  <2>2. UNCHANGED <<sawIdle, misled>> /\ (raced => raced')
    BY ONLY <1>4 DEF Open, calls
  <2>3. /\ pc'[Flipper] = "unregister" => pc[Flipper] = "unregister"
        /\ pc'[Flipper] = "unregistered" => pc[Flipper] = "unregistered"
    BY ONLY <1>4, RegistrationPlaces, PortInv, VideoNames DEF Open, GoTo, Leave, calls
  <2>4. QED
    BY ONLY <2>1, <2>2, <2>3, KnownInv, KnownKept
<1>5. ASSUME NEW t \in Guests, SubmitFlip(t) PROVE KnownInv'
  <2>1. t = Flipper /\ pc[t] = "submit"
    BY <1>5 DEF SubmitFlip, PortInv, PlaceInv
  <2>2. /\ sawIdle' = (sawIdle /\ slot[t] = Blank) /\ misled' = (misled /\ slot[t] = Blank) /\ UNCHANGED <<stream, decoded, worker, presenter>>
        /\ pc' = [pc EXCEPT ![t] = "idle"]
        /\ requests' = requests \/ requests' = Append(requests, RequestFor(slot[t]))
    BY ONLY <1>5 DEF SubmitFlip, gpu, Leave, GoTo
  <2>3. pc'[Flipper] = "idle"
    BY ONLY <2>1, <2>2, RegistrationPlaces, PortInv
  <2>4. RequestFor(slot[t]) \in Request /\ requests \in Seq(Request)
    BY RequestTypes DEF PortInv, TypeOK
  <2>5. RequestFor(slot[t]).index = slot[t]
    BY DEF RequestFor
  <2>5a. Knows' => Knows
    BY ONLY <2>2 DEF Knows
  <2>6. CASE requests' = requests
    BY ONLY <2>2, <2>3, <2>6, <2>5a, KnownInv DEF KnownInv, GpuIdle, Leaving
  <2>7. CASE requests' = Append(requests, RequestFor(slot[t]))
    <3>1. /\ DOMAIN requests = 1 .. Len(requests) /\ DOMAIN requests' = 1 .. Len(requests) + 1 /\ Len(requests) \in Nat
          /\ requests'[Len(requests) + 1] = RequestFor(slot[t])
          /\ \A i \in 1 .. Len(requests) : requests'[i] = requests[i]
      <4>1. requests' \in Seq(Request) /\ Len(requests') = Len(requests) + 1 /\ Len(requests) \in Nat
        BY ONLY <2>4, <2>7, ListElements
      <4>2. DOMAIN requests' = 1 .. Len(requests')
        BY ONLY <4>1, ListElements
      <4>3. QED
        BY ONLY <4>1, <4>2, <2>4, <2>7, ListElements
    <3>2. Knows' => Knows /\ RequestFor(slot[t]).index = Blank
      BY ONLY <2>2, <2>5 DEF Knows
    <3>3. Knows' => GpuIdle'
      BY ONLY <2>2, <3>2, KnownInv DEF KnownInv, GpuIdle
    <3>4. ASSUME Knows', NEW i \in DOMAIN requests' PROVE requests'[i].index = Blank \/ Leaving(i)'
      <4>1. i = Len(requests) + 1 \/ i \in 1 .. Len(requests)
        BY ONLY <3>1, <3>4
      <4>2. CASE i = Len(requests) + 1
        BY ONLY <4>2, <3>1, <3>2, <3>4
      <4>3. CASE i \in 1 .. Len(requests)
        BY ONLY <4>3, <3>1, <3>2, <3>4, <2>2, KnownInv DEF KnownInv, Leaving
      <4>4. QED
        BY ONLY <4>1, <4>2, <4>3
    <3>5. QED
      BY ONLY <2>3, <3>3, <3>4 DEF KnownInv
  <2>8. QED
    BY ONLY <2>2, <2>6, <2>7
<1>6. ASSUME NEW t \in Guests, IsFlipPending(t) PROVE KnownInv'
  <2>1. t = Flipper /\ pc[t] = "pending"
    BY <1>6 DEF IsFlipPending, PortInv, PlaceInv
  <2>2. /\ Knows' => pending = 0 /\ stream = <<>>
        /\ UNCHANGED <<requests, stream, decoded, worker, presenter>>
        /\ pc' = [pc EXCEPT ![t] = "idle"]
    BY ONLY <1>6 DEF IsFlipPending, Knows, Usable, queue, gpu, Leave, GoTo
  <2>3. pc'[Flipper] = "idle"
    BY ONLY <2>1, <2>2, RegistrationPlaces, PortInv
  <2>4. Knows' => GpuIdle /\ \A i \in DOMAIN requests : Leaving(i)
    BY ONLY <2>2, PortInv, NothingPending
  <2>5. QED
    BY ONLY <2>2, <2>3, <2>4 DEF KnownInv, GpuIdle, Leaving
<1>7. ASSUME NEW t \in Guests, Unregister(t) PROVE KnownInv'
  <2>1. /\ t = Flipper /\ pc[t] = "unregister" /\ (pc' = [pc EXCEPT ![t] = "unregistered"] \/ pc' = [pc EXCEPT ![t] = "idle"])
        /\ UNCHANGED <<requests, stream, decoded, worker, presenter, sawIdle, misled>>
    BY <1>7 DEF Unregister, Leave, GoTo, PortInv, PlaceInv, queue, gpu
  <2>2. pc'[Flipper] \in {"unregistered", "idle"}
    BY ONLY <2>1, RegistrationPlaces, PortInv
  <2>3. pc'[Flipper] = "unregistered" /\ ~raced' => ~misled
    <3>1. CASE raced' = (raced \/ misled)
      BY ONLY <3>1
    <3>2. CASE pc' = [pc EXCEPT ![t] = "idle"]
      BY ONLY <2>1, <3>2, RegistrationPlaces, PortInv
    <3>3. QED
      BY ONLY <1>7, <3>1, <3>2 DEF Unregister, Leave, GoTo
  <2>4. sawIdle
    BY ONLY <2>1, KnownInv DEF KnownInv
  <2>5. QED
    BY ONLY <2>1, <2>2, <2>3, <2>4, KnownInv DEF KnownInv, Knows, GpuIdle, Leaving
<1>7a. ASSUME NEW t \in Guests, Unregistered(t) PROVE KnownInv'
  <2>1. /\ t = Flipper /\ pc' = [pc EXCEPT ![t] = "idle"]
        /\ UNCHANGED <<requests, stream, decoded, worker, presenter, sawIdle, misled, raced>>
    BY <1>7a DEF Unregistered, Leave, GoTo, PortInv, PlaceInv, queue, gpu
  <2>2. pc'[Flipper] = "idle"
    BY ONLY <2>1, RegistrationPlaces, PortInv
  <2>3. QED
    BY ONLY <2>1, <2>2, KnownInv, KnownKept
<1>8. ASSUME NEW t \in Guests, Reserve(t) PROVE KnownInv'
  <2>1. UNCHANGED <<requests, stream, decoded>> /\ worker' = worker /\ presenter' = presenter
    BY ONLY <1>8 DEF Reserve, queue, gpu
  <2>2. UNCHANGED <<sawIdle, misled>> /\ (raced => raced')
    BY ONLY <1>8 DEF Reserve, calls
  <2>3. /\ pc'[Flipper] = "unregister" => pc[Flipper] = "unregister"
        /\ pc'[Flipper] = "unregistered" => pc[Flipper] = "unregistered"
    BY ONLY <1>8, RegistrationPlaces, PortInv, VideoNames DEF Reserve, GoTo, Leave, calls
  <2>4. QED
    BY ONLY <2>1, <2>2, <2>3, KnownInv, KnownKept
<1>9. ASSUME NEW t \in Guests, Order(t) PROVE KnownInv'
  <2>1. UNCHANGED <<requests, stream, decoded>> /\ worker' = worker /\ presenter' = presenter
    BY ONLY <1>9 DEF Order, queue, gpu
  <2>2. UNCHANGED <<sawIdle, misled>> /\ (raced => raced')
    BY ONLY <1>9 DEF Order, calls
  <2>3. /\ pc'[Flipper] = "unregister" => pc[Flipper] = "unregister"
        /\ pc'[Flipper] = "unregistered" => pc[Flipper] = "unregistered"
    BY ONLY <1>9, RegistrationPlaces, PortInv, VideoNames DEF Order, GoTo, Leave, calls
  <2>4. QED
    BY ONLY <2>1, <2>2, <2>3, KnownInv, KnownKept
<1>10. ASSUME NEW t \in Guests, Recheck(t) PROVE KnownInv'
  <2>1. UNCHANGED <<requests, stream, decoded>> /\ worker' = worker /\ presenter' = presenter
    BY ONLY <1>10 DEF Recheck, queue, gpu
  <2>2. UNCHANGED <<sawIdle, misled>> /\ (raced => raced')
    BY ONLY <1>10 DEF Recheck, calls
  <2>3. /\ pc'[Flipper] = "unregister" => pc[Flipper] = "unregister"
        /\ pc'[Flipper] = "unregistered" => pc[Flipper] = "unregistered"
    BY ONLY <1>10, RegistrationPlaces, PortInv, VideoNames DEF Recheck, GoTo, Leave, calls
  <2>4. QED
    BY ONLY <2>1, <2>2, <2>3, KnownInv, KnownKept
<1>11. ASSUME NEW t \in Guests, Commit(t) PROVE KnownInv'
  <2>1. UNCHANGED <<requests, stream, decoded>> /\ worker' = worker /\ presenter' = presenter
    BY ONLY <1>11 DEF Commit, queue, gpu
  <2>2. UNCHANGED <<sawIdle, misled>> /\ (raced => raced')
    BY ONLY <1>11 DEF Commit, calls
  <2>3. /\ pc'[Flipper] = "unregister" => pc[Flipper] = "unregister"
        /\ pc'[Flipper] = "unregistered" => pc[Flipper] = "unregistered"
    BY ONLY <1>11, RegistrationPlaces, PortInv, VideoNames DEF Commit, GoTo, Leave, calls
  <2>4. QED
    BY ONLY <2>1, <2>2, <2>3, KnownInv, KnownKept
<1>12. ASSUME NEW t \in Guests, Await(t) PROVE KnownInv'
  <2>0. pc' = [pc EXCEPT ![t] = Follows[pc[t]]] /\ Follows[pc[t]] \notin {"unregister", "unregistered"}
    <3>1. pc' = [pc EXCEPT ![t] = Follows[pc[t]]] /\ Follows[pc[t]] \in TransactionPcs
      BY <1>12, FollowsPlaces DEF Await, GoTo, TransactionPcs
    <3>2. QED
      BY ONLY <3>1 DEF TransactionPcs
  <2>1. UNCHANGED <<requests, stream, decoded>> /\ worker' = worker /\ presenter' = presenter
    BY ONLY <1>12 DEF Await, queue, gpu
  <2>2. UNCHANGED <<sawIdle, misled>> /\ (raced => raced')
    BY ONLY <1>12 DEF Await, calls
  <2>3. /\ pc'[Flipper] = "unregister" => pc[Flipper] = "unregister"
        /\ pc'[Flipper] = "unregistered" => pc[Flipper] = "unregistered"
    BY ONLY <2>0, RegistrationPlaces, PortInv, VideoNames
  <2>4. QED
    BY ONLY <2>1, <2>2, <2>3, KnownInv, KnownKept
<1>13. ASSUME NEW t \in Guests, Gates(t) PROVE KnownInv'
  <2>0. pc' = [pc EXCEPT ![t] = Follows[pc[t]]] /\ Follows[pc[t]] \notin {"unregister", "unregistered"}
    <3>1. pc' = [pc EXCEPT ![t] = Follows[pc[t]]] /\ Follows[pc[t]] \in TransactionPcs
      BY <1>13, FollowsPlaces DEF Gates, GoTo, TransactionPcs
    <3>2. QED
      BY ONLY <3>1 DEF TransactionPcs
  <2>1. UNCHANGED <<requests, stream, decoded>> /\ worker' = worker /\ presenter' = presenter
    BY ONLY <1>13 DEF Gates, queue, gpu
  <2>2. UNCHANGED <<sawIdle, misled>> /\ (raced => raced')
    BY ONLY <1>13 DEF Gates, calls
  <2>3. /\ pc'[Flipper] = "unregister" => pc[Flipper] = "unregister"
        /\ pc'[Flipper] = "unregistered" => pc[Flipper] = "unregistered"
    BY ONLY <2>0, RegistrationPlaces, PortInv, VideoNames
  <2>4. QED
    BY ONLY <2>1, <2>2, <2>3, KnownInv, KnownKept
<1>14. ASSUME NEW t \in Guests, Mark(t) PROVE KnownInv'
  <2>1. UNCHANGED <<requests, stream, decoded>> /\ worker' = worker /\ presenter' = presenter
    BY ONLY <1>14 DEF Mark, queue, gpu
  <2>2. UNCHANGED <<sawIdle, misled>> /\ (raced => raced')
    BY ONLY <1>14 DEF Mark, calls
  <2>3. /\ pc'[Flipper] = "unregister" => pc[Flipper] = "unregister"
        /\ pc'[Flipper] = "unregistered" => pc[Flipper] = "unregistered"
    BY ONLY <1>14, RegistrationPlaces, PortInv, VideoNames DEF Mark, GoTo, Leave, calls
  <2>4. QED
    BY ONLY <2>1, <2>2, <2>3, KnownInv, KnownKept
<1>15. ASSUME NEW t \in Guests, Shut(t) PROVE KnownInv'
  <2>1. UNCHANGED <<requests, stream, decoded>> /\ worker' = worker /\ presenter' = presenter
    BY ONLY <1>15 DEF Shut, queue, gpu
  <2>2. UNCHANGED <<sawIdle, misled>> /\ (raced => raced')
    BY ONLY <1>15 DEF Shut, calls
  <2>3. /\ pc'[Flipper] = "unregister" => pc[Flipper] = "unregister"
        /\ pc'[Flipper] = "unregistered" => pc[Flipper] = "unregistered"
    BY ONLY <1>15, RegistrationPlaces, PortInv, VideoNames DEF Shut, GoTo, Leave, calls
  <2>4. QED
    BY ONLY <2>1, <2>2, <2>3, KnownInv, KnownKept
<1>16. ASSUME NEW t \in Guests, Clear(t) PROVE KnownInv'
  <2>1. UNCHANGED <<requests, stream, decoded>> /\ worker' = worker /\ presenter' = presenter
    BY ONLY <1>16 DEF Clear, queue, gpu
  <2>2. UNCHANGED <<sawIdle, misled>> /\ (raced => raced')
    BY ONLY <1>16 DEF Clear, calls
  <2>3. /\ pc'[Flipper] = "unregister" => pc[Flipper] = "unregister"
        /\ pc'[Flipper] = "unregistered" => pc[Flipper] = "unregistered"
    BY ONLY <1>16, RegistrationPlaces, PortInv, VideoNames DEF Clear, GoTo, Leave, calls
  <2>4. QED
    BY ONLY <2>1, <2>2, <2>3, KnownInv, KnownKept
<1>17. ASSUME NEW t \in Guests, Finish(t) PROVE KnownInv'
  <2>1. UNCHANGED <<requests, stream, decoded>> /\ worker' = worker /\ presenter' = presenter
    BY ONLY <1>17 DEF Finish, queue, gpu
  <2>2. UNCHANGED <<sawIdle, misled>> /\ (raced => raced')
    BY ONLY <1>17 DEF Finish, calls
  <2>3. /\ pc'[Flipper] = "unregister" => pc[Flipper] = "unregister"
        /\ pc'[Flipper] = "unregistered" => pc[Flipper] = "unregistered"
    BY ONLY <1>17, RegistrationPlaces, PortInv, VideoNames DEF Finish, GoTo, Leave, calls
  <2>4. QED
    BY ONLY <2>1, <2>2, <2>3, KnownInv, KnownKept
<1>17a. ASSUME ReleaseDecode PROVE KnownInv'
  <2>1. UNCHANGED <<requests, stream, decoded>> /\ worker' = worker /\ presenter' = presenter
    BY ONLY <1>17a DEF ReleaseDecode, queue, gpu
  <2>2. UNCHANGED <<sawIdle, misled>> /\ (raced => raced')
    BY ONLY <1>17a DEF ReleaseDecode, calls
  <2>3. /\ pc'[Flipper] = "unregister" => pc[Flipper] = "unregister"
        /\ pc'[Flipper] = "unregistered" => pc[Flipper] = "unregistered"
    BY ONLY <1>17a, RegistrationPlaces, PortInv, VideoNames DEF ReleaseDecode, DecodeWaiter, SubmitterReturns, GoTo
  <2>4. QED
    BY ONLY <2>1, <2>2, <2>3, KnownInv, KnownKept
<1>18. ASSUME Decode PROVE KnownInv'
  <2>1. ~GpuIdle /\ UNCHANGED <<sawIdle, misled, raced>>
    BY ONLY <1>18 DEF Decode, GpuIdle, calls
  <2>2. pc'[Flipper] = "unregister" => pc[Flipper] = "unregister"
    BY ONLY <1>18, RegistrationPlaces, VideoNames, PortInv DEF Decode, DecodeWaiter, SubmitterReturns, GoTo, calls
  <2>3. pc'[Flipper] = "unregistered" => pc[Flipper] = "unregistered"
    BY ONLY <1>18, RegistrationPlaces, VideoNames, PortInv DEF Decode, DecodeWaiter, SubmitterReturns, GoTo, calls
  <2>4. QED
    BY ONLY <2>1, <2>2, <2>3, KnownInv, KnownOfAnother
<1>19. ASSUME Fire PROVE KnownInv'
  <2>1. ~GpuIdle /\ UNCHANGED <<sawIdle, misled, raced>>
    BY ONLY <1>19 DEF Fire, GpuIdle, calls
  <2>2. pc'[Flipper] = "unregister" => pc[Flipper] = "unregister"
    BY ONLY <1>19, RegistrationPlaces, VideoNames, PortInv DEF Fire, calls
  <2>3. pc'[Flipper] = "unregistered" => pc[Flipper] = "unregistered"
    BY ONLY <1>19, RegistrationPlaces, VideoNames, PortInv DEF Fire, calls
  <2>4. QED
    BY ONLY <2>1, <2>2, <2>3, KnownInv, KnownOfAnother
<1>20. ASSUME ReserveInternal PROVE KnownInv'
  <2>1. ~GpuIdle /\ UNCHANGED <<sawIdle, misled, raced>>
    BY ONLY <1>20 DEF ReserveInternal, GpuIdle, calls
  <2>2. pc'[Flipper] = "unregister" => pc[Flipper] = "unregister"
    BY ONLY <1>20, RegistrationPlaces, VideoNames, PortInv DEF ReserveInternal, calls
  <2>3. pc'[Flipper] = "unregistered" => pc[Flipper] = "unregistered"
    BY ONLY <1>20, RegistrationPlaces, VideoNames, PortInv DEF ReserveInternal, calls
  <2>4. QED
    BY ONLY <2>1, <2>2, <2>3, KnownInv, KnownOfAnother
<1>21. ASSUME AcquireBlocking PROVE KnownInv'
  <2>1. ~GpuIdle /\ UNCHANGED <<sawIdle, misled, raced>>
    BY ONLY <1>21 DEF AcquireBlocking, GpuIdle, calls
  <2>2. pc'[Flipper] = "unregister" => pc[Flipper] = "unregister"
    BY ONLY <1>21, RegistrationPlaces, VideoNames, PortInv DEF AcquireBlocking, calls
  <2>3. pc'[Flipper] = "unregistered" => pc[Flipper] = "unregistered"
    BY ONLY <1>21, RegistrationPlaces, VideoNames, PortInv DEF AcquireBlocking, calls
  <2>4. QED
    BY ONLY <2>1, <2>2, <2>3, KnownInv, KnownOfAnother
<1>22. ASSUME Enqueue PROVE KnownInv'
  <2>1. ~GpuIdle /\ UNCHANGED <<sawIdle, misled, raced>>
    BY ONLY <1>22 DEF Enqueue, GpuIdle, calls
  <2>2. pc'[Flipper] = "unregister" => pc[Flipper] = "unregister"
    BY ONLY <1>22, RegistrationPlaces, VideoNames, PortInv DEF Enqueue, calls
  <2>3. pc'[Flipper] = "unregistered" => pc[Flipper] = "unregistered"
    BY ONLY <1>22, RegistrationPlaces, VideoNames, PortInv DEF Enqueue, calls
  <2>4. QED
    BY ONLY <2>1, <2>2, <2>3, KnownInv, KnownOfAnother
<1>23. ASSUME Vblank PROVE KnownInv'
  <2>1. UNCHANGED <<requests, stream, decoded>> /\ worker' = worker /\ (presenter.at = "remove" => presenter'.at = "remove")
    BY ONLY <1>23 DEF Vblank, queue, gpu, PresenterTo
  <2>2. UNCHANGED <<sawIdle, misled>> /\ (raced => raced')
    BY ONLY <1>23 DEF Vblank, calls
  <2>3. /\ pc'[Flipper] = "unregister" => pc[Flipper] = "unregister"
        /\ pc'[Flipper] = "unregistered" => pc[Flipper] = "unregistered"
    BY ONLY <1>23, RegistrationPlaces, PortInv, VideoNames DEF Vblank, calls
  <2>4. QED
    BY ONLY <2>1, <2>2, <2>3, KnownInv, KnownKept
<1>24. ASSUME VblankDone PROVE KnownInv'
  <2>1. UNCHANGED <<requests, stream, decoded>> /\ worker' = worker /\ (presenter.at = "remove" => presenter'.at = "remove")
    BY ONLY <1>24 DEF VblankDone, queue, gpu, PresenterTo
  <2>2. UNCHANGED <<sawIdle, misled>> /\ (raced => raced')
    BY ONLY <1>24 DEF VblankDone, calls
  <2>3. /\ pc'[Flipper] = "unregister" => pc[Flipper] = "unregister"
        /\ pc'[Flipper] = "unregistered" => pc[Flipper] = "unregistered"
    BY ONLY <1>24, RegistrationPlaces, PortInv, VideoNames DEF VblankDone, calls
  <2>4. QED
    BY ONLY <2>1, <2>2, <2>3, KnownInv, KnownKept
<1>25. ASSUME NoFlip PROVE KnownInv'
  <2>1. UNCHANGED <<requests, stream, decoded>> /\ worker' = worker /\ (presenter.at = "remove" => presenter'.at = "remove")
    BY ONLY <1>25 DEF NoFlip, queue, gpu, PresenterTo
  <2>2. UNCHANGED <<sawIdle, misled>> /\ (raced => raced')
    BY ONLY <1>25 DEF NoFlip, calls
  <2>3. /\ pc'[Flipper] = "unregister" => pc[Flipper] = "unregister"
        /\ pc'[Flipper] = "unregistered" => pc[Flipper] = "unregistered"
    BY ONLY <1>25, RegistrationPlaces, PortInv, VideoNames DEF NoFlip, calls
  <2>4. QED
    BY ONLY <2>1, <2>2, <2>3, KnownInv, KnownKept
<1>26. ASSUME TakeFlip PROVE KnownInv'
  <2>1. UNCHANGED <<requests, stream, decoded>> /\ worker' = worker /\ (presenter.at = "remove" => presenter'.at = "remove")
    BY ONLY <1>26 DEF TakeFlip, queue, gpu, PresenterTo
  <2>2. UNCHANGED <<sawIdle, misled>> /\ (raced => raced')
    BY ONLY <1>26 DEF TakeFlip, calls
  <2>3. /\ pc'[Flipper] = "unregister" => pc[Flipper] = "unregister"
        /\ pc'[Flipper] = "unregistered" => pc[Flipper] = "unregistered"
    BY ONLY <1>26, RegistrationPlaces, PortInv, VideoNames DEF TakeFlip, calls
  <2>4. QED
    BY ONLY <2>1, <2>2, <2>3, KnownInv, KnownKept
<1>27. ASSUME CaptureImage PROVE KnownInv'
  <2>1. UNCHANGED <<requests, stream, decoded>> /\ worker' = worker /\ (presenter.at = "remove" => presenter'.at = "remove")
    BY ONLY <1>27 DEF CaptureImage, queue, gpu, PresenterTo
  <2>2. UNCHANGED <<sawIdle, misled>> /\ (raced => raced')
    BY ONLY <1>27 DEF CaptureImage, calls
  <2>3. /\ pc'[Flipper] = "unregister" => pc[Flipper] = "unregister"
        /\ pc'[Flipper] = "unregistered" => pc[Flipper] = "unregistered"
    BY ONLY <1>27, RegistrationPlaces, PortInv, VideoNames DEF CaptureImage, calls
  <2>4. QED
    BY ONLY <2>1, <2>2, <2>3, KnownInv, KnownKept
<1>28. ASSUME DrawImage PROVE KnownInv'
  <2>1. UNCHANGED <<requests, stream, decoded>> /\ worker' = worker /\ (presenter.at = "remove" => presenter'.at = "remove")
    BY ONLY <1>28 DEF DrawImage, queue, gpu, PresenterTo
  <2>2. UNCHANGED <<sawIdle, misled>> /\ (raced => raced')
    BY ONLY <1>28 DEF DrawImage, calls
  <2>3. /\ pc'[Flipper] = "unregister" => pc[Flipper] = "unregister"
        /\ pc'[Flipper] = "unregistered" => pc[Flipper] = "unregistered"
    BY ONLY <1>28, RegistrationPlaces, PortInv, VideoNames DEF DrawImage, calls
  <2>4. QED
    BY ONLY <2>1, <2>2, <2>3, KnownInv, KnownKept
<1>29. ASSUME PublishStatus PROVE KnownInv'
  <2>1. UNCHANGED <<requests, stream, decoded>> /\ worker' = worker /\ (presenter.at = "remove" => presenter'.at = "remove")
    BY ONLY <1>29 DEF PublishStatus, queue, gpu, PresenterTo
  <2>2. UNCHANGED <<sawIdle, misled>> /\ (raced => raced')
    BY ONLY <1>29 DEF PublishStatus, calls
  <2>3. /\ pc'[Flipper] = "unregister" => pc[Flipper] = "unregister"
        /\ pc'[Flipper] = "unregistered" => pc[Flipper] = "unregistered"
    BY ONLY <1>29, RegistrationPlaces, PortInv, VideoNames DEF PublishStatus, calls
  <2>4. QED
    BY ONLY <2>1, <2>2, <2>3, KnownInv, KnownKept
<1>30. ASSUME RemoveFlip PROVE KnownInv'
  <2>1. /\ requests' = Tail(requests) /\ presenter.at = "remove" /\ requests \in Seq(Request) /\ requests # <<>>
        /\ UNCHANGED <<stream, decoded, worker, pc>> /\ UNCHANGED <<sawIdle, misled, raced>>
    BY <1>30 DEF RemoveFlip, gpu, calls, PortInv, TypeOK, CountInv
  <2>2. /\ DOMAIN requests = 1 .. Len(requests) /\ DOMAIN requests' = 1 .. Len(requests) - 1 /\ Len(requests) \in Nat
        /\ \A i \in 1 .. Len(requests) - 1 : requests'[i] = requests[i + 1]
    <3>1. requests' \in Seq(Request) /\ Len(requests') = Len(requests) - 1 /\ Len(requests) \in Nat
      BY ONLY <2>1, ListElements
    <3>2. DOMAIN requests' = 1 .. Len(requests')
      BY ONLY <3>1, ListElements
    <3>3. QED
      BY ONLY <2>1, <3>1, <3>2, ListElements
  <2>3. ASSUME Knows, NEW i \in DOMAIN requests' PROVE requests'[i].index = Blank
    <3>1. i + 1 \in DOMAIN requests /\ i + 1 # 1 /\ requests'[i] = requests[i + 1]
      BY ONLY <2>2, <2>3
    <3>2. QED
      BY ONLY <2>3, <3>1, KnownInv DEF KnownInv, Leaving
  <2>4. QED
    BY ONLY <2>1, <2>3, KnownInv DEF KnownInv, Knows, GpuIdle
<1>31. ASSUME ReleaseAdmission PROVE KnownInv'
  <2>1. UNCHANGED <<requests, stream, decoded>> /\ worker' = worker /\ (presenter.at = "remove" => presenter'.at = "remove")
    BY ONLY <1>31 DEF ReleaseAdmission, queue, gpu, PresenterTo
  <2>2. UNCHANGED <<sawIdle, misled>> /\ (raced => raced')
    BY ONLY <1>31 DEF ReleaseAdmission, calls
  <2>3. /\ pc'[Flipper] = "unregister" => pc[Flipper] = "unregister"
        /\ pc'[Flipper] = "unregistered" => pc[Flipper] = "unregistered"
    BY ONLY <1>31, RegistrationPlaces, PortInv, VideoNames DEF ReleaseAdmission, calls
  <2>4. QED
    BY ONLY <2>1, <2>2, <2>3, KnownInv, KnownKept
<1>32. QED
  BY ONLY Next, <1>1, <1>2, <1>3, <1>4, <1>5, <1>6, <1>7, <1>7a, <1>8, <1>9, <1>10, <1>11, <1>12, <1>13, <1>14, <1>15, <1>16, <1>17, <1>17a, <1>18, <1>19, <1>20, <1>21, <1>22, <1>23, <1>24, <1>25, <1>26, <1>27, <1>28, <1>29, <1>30, <1>31 DEF Next, Call, Transaction, WorkerStep, PresenterStep

(* The indices of a list with an element more, and of one with its first   *)
(* element taken.                                                          *)
LEMMA AppendIndices ==
  ASSUME NEW S, NEW q \in Seq(S), NEW x \in S
  PROVE  \A i \in DOMAIN Append(q, x) : Append(q, x)[i] = x \/ (i \in DOMAIN q /\ Append(q, x)[i] = q[i])
<1>1. /\ Append(q, x) \in Seq(S) /\ Len(Append(q, x)) = Len(q) + 1 /\ Len(q) \in Nat /\ DOMAIN q = 1 .. Len(q)
      /\ Append(q, x)[Len(q) + 1] = x /\ \A i \in 1 .. Len(q) : Append(q, x)[i] = q[i]
  BY ListElements
<1>2. DOMAIN Append(q, x) = 1 .. Len(q) + 1
  BY ONLY <1>1, ListElements
<1>3. \A i \in 1 .. Len(q) + 1 : i = Len(q) + 1 \/ i \in 1 .. Len(q)
  BY ONLY <1>1
<1>4. QED
  BY ONLY <1>1, <1>2, <1>3

(* Those of a list without its first element.                              *)
LEMMA TailIndices ==
  ASSUME NEW S, NEW q \in Seq(S), q # <<>>
  PROVE  \A i \in DOMAIN Tail(q) : i + 1 \in DOMAIN q /\ i + 1 # 1 /\ Tail(q)[i] = q[i + 1]
<1>1. /\ Tail(q) \in Seq(S) /\ Len(Tail(q)) = Len(q) - 1 /\ Len(q) \in Nat /\ DOMAIN q = 1 .. Len(q)
      /\ \A i \in 1 .. Len(q) - 1 : Tail(q)[i] = q[i + 1]
  BY ListElements
<1>2. DOMAIN Tail(q) = 1 .. Len(q) - 1
  BY ONLY <1>1, ListElements
<1>3. \A i \in 1 .. Len(q) - 1 : i + 1 \in 1 .. Len(q) /\ i + 1 # 1
  BY ONLY <1>1
<1>4. QED
  BY ONLY <1>1, <1>2, <1>3

(* Head of a list that has one.                                            *)
LEMMA HeadIndex ==
  ASSUME NEW S, NEW q \in Seq(S), q # <<>>
  PROVE  1 \in DOMAIN q /\ Head(q) = q[1] /\ Head(q) \in S
<1>1. Len(q) > 0 /\ Len(q) \in Nat /\ DOMAIN q = 1 .. Len(q) /\ Head(q) = q[1] /\ Head(q) \in S
  BY ListElements
<1>2. QED
  BY ONLY <1>1

(* A flip more in the queue that finds its buffer.                         *)
LEMMA AppendFound ==
  ASSUME FoundInv, NEW r \in Request, Accessible(r), requests \in Seq(Request), requests' = Append(requests, r),
         UNCHANGED <<port, presenter>>
  PROVE  \A i \in DOMAIN requests' : Accessible(requests[i])' \/ Leaving(i)'
<1>1. \A i \in DOMAIN requests' : requests'[i] = r \/ (i \in DOMAIN requests /\ requests'[i] = requests[i])
  BY AppendIndices
<1>2. \A i \in DOMAIN requests : Accessible(requests[i]) \/ Leaving(i)
  BY DEF FoundInv
<1>3. UNCHANGED <<opened, session, buffers, reserved, presenter>>
  BY DEF port
<1>4. QED
  BY ONLY <1>1, <1>2, <1>3, Accessible(r) DEF Accessible, Flippable, RequestFor, Leaving

(* A flip of a buffer that can be flipped finds it.                        *)
LEMMA RequestAccessible ==
  ASSUME NEW s \in Indices, Flippable(s), opened
  PROVE  Accessible(RequestFor(s))
BY DEF Accessible, RequestFor, Flippable

(* Where the guest knows that no flip of a buffer is left, none looks for  *)
(* one.                                                                    *)
LEMMA NoneInTheSlots ==
  ASSUME KnownInv, Knows, UNCHANGED <<requests, stream, decoded, worker, presenter>>
  PROVE  FoundInv'
<1>1. GpuIdle /\ \A i \in DOMAIN requests : requests[i].index \notin Slots \/ Leaving(i)
  BY VideoNames DEF KnownInv
<1>2. \A i \in DOMAIN requests' : Accessible(requests[i])' \/ Leaving(i)'
  BY <1>1 DEF Accessible, Leaving
<1>3. worker'.at = "idle" /\ DOMAIN stream' = {} /\ DOMAIN decoded' = {}
  BY <1>1 DEF GpuIdle
<1>4. QED
  BY ONLY <1>2, <1>3 DEF FoundInv

(* A flip finds its buffer after every step.                               *)
LEMMA FoundStep ==
  ASSUME PortInv, KnownInv, FoundInv, Next, ~raced'
  PROVE  FoundInv'
<1>1. ASSUME NEW t \in Guests, NEW call \in CallPcs \ {"unregistered", "order", "recheck", "commit"}, NEW i \in Indices,
        NEW a \in Addresses \cup {Nobody}, Enter(t, call, i, a) PROVE FoundInv'
  <2>1. UNCHANGED <<requests, stream, decoded, worker, opened, session, reserved, buffers>>
    BY ONLY <1>1 DEF Enter, port, queue, gpu
  <2>2. presenter.at = "remove" => presenter'.at = "remove"
    BY ONLY <1>1 DEF Enter, PresenterTo
  <2>3. QED
    BY ONLY <2>1, <2>2, FoundInv, FoundKept
<1>2. ASSUME NEW t \in Guests, NEW i \in Slots, NEW waits \in BOOLEAN, SubmitToGpu(t, i, waits) PROVE FoundInv'
  <2>1. /\ Flippable(i) /\ stream' = Append(stream, i) /\ UNCHANGED <<requests, decoded, worker, presenter, port>>
    BY ONLY <1>2 DEF SubmitToGpu, queue
  <2>2. stream \in Seq(Indices) /\ i \in Indices
    BY VideoNames DEF PortInv, TypeOK
  <2>3. \A j \in DOMAIN stream' : stream'[j] = i \/ (j \in DOMAIN stream /\ stream'[j] = stream[j])
    BY ONLY <2>1, <2>2, AppendIndices
  <2>4. \A j \in DOMAIN stream' : Flippable(stream[j])'
    <3>1. \A j \in DOMAIN stream : Flippable(stream[j])
      BY ONLY FoundInv DEF FoundInv
    <3>2. QED
      BY ONLY <2>1, <2>3, <3>1 DEF Flippable, port
  <2>5. QED
    BY ONLY <2>1, <2>4, FoundInv DEF FoundInv, Accessible, Flippable, RequestFor, Leaving, port
<1>3. ASSUME NEW t \in Guests, NEW a \in Addresses \cup {Nobody}, Transact(t, a) PROVE FoundInv'
  <2>1. UNCHANGED <<requests, stream, decoded, worker, opened, session, reserved, buffers>>
    BY ONLY <1>3 DEF Transact, port, queue, gpu
  <2>2. presenter.at = "remove" => presenter'.at = "remove"
    BY ONLY <1>3 DEF Transact, PresenterTo
  <2>3. QED
    BY ONLY <2>1, <2>2, FoundInv, FoundKept
<1>4. ASSUME NEW t \in Guests, Open(t) PROVE FoundInv'
  <2>1. UNCHANGED <<requests, stream, decoded, worker, presenter>>
    BY ONLY <1>4 DEF Open, gpu
  <2>2. CASE opened
    <3>1. UNCHANGED <<opened, session, reserved, buffers>>
      BY ONLY <1>4, <2>2 DEF Open
    <3>2. QED
      BY ONLY <2>1, <3>1, FoundInv, FoundKept
  <2>3. CASE ~opened
    BY ONLY <2>1, <2>3, PortInv, NoFlips, NoFlipsFound
  <2>4. QED
    BY ONLY <2>2, <2>3
<1>5. ASSUME NEW t \in Guests, SubmitFlip(t) PROVE FoundInv'
  <2>1. CASE UNCHANGED <<requests, stream, decoded, worker, opened, session, reserved, buffers, presenter>>
    BY ONLY <2>1, FoundInv, FoundKept
  <2>2. CASE /\ requests' = Append(requests, RequestFor(slot[t])) /\ Usable /\ Flippable(slot[t])
             /\ UNCHANGED <<port, stream, decoded, worker, presenter>>
    <3>1. requests \in Seq(Request) /\ slot[t] \in Indices /\ RequestFor(slot[t]) \in Request
      BY RequestTypes DEF PortInv, TypeOK
    <3>2. Accessible(RequestFor(slot[t]))
      BY ONLY <2>2, <3>1, RequestAccessible DEF Usable
    <3>3. \A i \in DOMAIN requests' : Accessible(requests[i])' \/ Leaving(i)'
      BY ONLY <2>2, <3>1, <3>2, FoundInv, AppendFound
    <3>4. QED
      BY ONLY <2>2, <3>3, FoundInv DEF FoundInv, Accessible, Flippable, RequestFor, port
  <2>3. QED
    BY ONLY <1>5, <2>1, <2>2 DEF SubmitFlip, gpu, port
<1>6. ASSUME NEW t \in Guests, IsFlipPending(t) PROVE FoundInv'
  <2>1. UNCHANGED <<requests, stream, decoded, worker, opened, session, reserved, buffers>>
    BY ONLY <1>6 DEF IsFlipPending, port, queue, gpu
  <2>2. presenter.at = "remove" => presenter'.at = "remove"
    BY ONLY <1>6 DEF IsFlipPending, PresenterTo
  <2>3. QED
    BY ONLY <2>1, <2>2, FoundInv, FoundKept
<1>7. ASSUME NEW t \in Guests, Unregister(t) PROVE FoundInv'
  <2>1. t = Flipper /\ pc[t] = "unregister"
    BY <1>7 DEF Unregister, PortInv, PlaceInv
  <2>2. CASE UNCHANGED <<requests, stream, decoded, worker, presenter, opened, session, reserved, buffers>>
    BY ONLY <2>2, FoundInv, FoundKept
  <2>3. CASE raced' = (raced \/ misled) /\ UNCHANGED <<requests, stream, decoded, worker, presenter>>
    <3>1. Knows
      BY ONLY <2>1, <2>3, ~raced', KnownInv DEF KnownInv, Knows
    <3>2. QED
      BY ONLY <2>3, <3>1, KnownInv, VideoNames, NoneInTheSlots
  <2>4. QED
    BY ONLY <1>7, <2>2, <2>3 DEF Unregister, queue, gpu
<1>7a. ASSUME NEW t \in Guests, Unregistered(t) PROVE FoundInv'
  <2>1. t = Flipper /\ pc[t] = "unregistered"
    BY <1>7a DEF Unregistered, PortInv, PlaceInv
  <2>2. UNCHANGED <<requests, stream, decoded, worker, presenter, raced>>
    BY ONLY <1>7a DEF Unregistered, queue, gpu
  <2>3. Knows
    BY ONLY <2>1, <2>2, ~raced', KnownInv DEF KnownInv
  <2>4. QED
    BY ONLY <2>2, <2>3, KnownInv, VideoNames, NoneInTheSlots
<1>8. ASSUME NEW t \in Guests, Reserve(t) PROVE FoundInv'
  <2>1. UNCHANGED <<requests, stream, decoded, worker, opened, session, presenter>>
    BY ONLY <1>8 DEF Reserve, queue, gpu
  <2>2. \A s \in Slots : s \notin reserved /\ buffers[s].address # Nobody => s \notin reserved' /\ buffers'[s] = buffers[s]
    BY ONLY <1>8 DEF Reserve
  <2>3. QED
    BY ONLY <2>1, <2>2, FoundInv, FoundKept
<1>9. ASSUME NEW t \in Guests, Order(t) PROVE FoundInv'
  <2>1. UNCHANGED <<requests, stream, decoded, worker, opened, session, reserved, buffers>>
    BY ONLY <1>9 DEF Order, port, queue, gpu
  <2>2. presenter.at = "remove" => presenter'.at = "remove"
    BY ONLY <1>9 DEF Order, PresenterTo
  <2>3. QED
    BY ONLY <2>1, <2>2, FoundInv, FoundKept
<1>10. ASSUME NEW t \in Guests, Recheck(t) PROVE FoundInv'
  <2>1. UNCHANGED <<requests, stream, decoded, worker, opened, session, presenter>>
    BY ONLY <1>10 DEF Recheck, queue, gpu
  <2>2. \A s \in Slots : s \notin reserved /\ buffers[s].address # Nobody => s \notin reserved' /\ buffers'[s] = buffers[s]
    BY ONLY <1>10 DEF Recheck
  <2>3. QED
    BY ONLY <2>1, <2>2, FoundInv, FoundKept
<1>11. ASSUME NEW t \in Guests, Commit(t) PROVE FoundInv'
  <2>1. UNCHANGED <<requests, stream, decoded, worker, opened, session, presenter>>
    BY ONLY <1>11 DEF Commit, queue, gpu
  <2>2. \A s \in Slots : s \notin reserved /\ buffers[s].address # Nobody => s \notin reserved' /\ buffers'[s] = buffers[s]
    <3>1. /\ reserved' = reserved \ {slot[t]}
          /\ buffers' = [buffers EXCEPT ![slot[t]] = [address |-> address[t], registration |-> sequence + 1]]
      BY ONLY <1>11 DEF Commit
    <3>2. slot[t] \in reserved
      BY <1>11 DEF Commit, PortInv, PlaceInv, SlotsInv
    <3>3. QED
      BY ONLY <3>1, <3>2, RegistrationPlaces, PortInv
  <2>3. QED
    BY ONLY <2>1, <2>2, FoundInv, FoundKept
<1>12. ASSUME NEW t \in Guests, Await(t) PROVE FoundInv'
  <2>1. UNCHANGED <<requests, stream, decoded, worker, opened, session, reserved, buffers>>
    BY ONLY <1>12 DEF Await, port, queue, gpu
  <2>2. presenter.at = "remove" => presenter'.at = "remove"
    BY ONLY <1>12 DEF Await, PresenterTo
  <2>3. QED
    BY ONLY <2>1, <2>2, FoundInv, FoundKept
<1>13. ASSUME NEW t \in Guests, Gates(t) PROVE FoundInv'
  <2>1. UNCHANGED <<requests, stream, decoded, worker, opened, session, reserved, buffers>>
    BY ONLY <1>13 DEF Gates, port, queue, gpu
  <2>2. presenter.at = "remove" => presenter'.at = "remove"
    BY ONLY <1>13 DEF Gates, PresenterTo
  <2>3. QED
    BY ONLY <2>1, <2>2, FoundInv, FoundKept
<1>14. ASSUME NEW t \in Guests, Mark(t) PROVE FoundInv'
  <2>1. UNCHANGED <<requests, stream, decoded, worker, opened, session, reserved, buffers>>
    BY ONLY <1>14 DEF Mark, port, queue, gpu
  <2>2. presenter.at = "remove" => presenter'.at = "remove"
    BY ONLY <1>14 DEF Mark, PresenterTo
  <2>3. QED
    BY ONLY <2>1, <2>2, FoundInv, FoundKept
<1>15. ASSUME NEW t \in Guests, Shut(t) PROVE FoundInv'
  <2>1. pc[Closer] \in Drained
    BY <1>15 DEF Shut, PortInv, PlaceInv, TransactionPcs, Drained
  <2>2. UNCHANGED <<requests, stream, decoded, worker>>
    BY ONLY <1>15 DEF Shut, queue, gpu
  <2>3. QED
    BY ONLY <2>1, <2>2, PortInv, NoFlips, NoFlipsFound
<1>16. ASSUME NEW t \in Guests, Clear(t) PROVE FoundInv'
  <2>1. pc[Closer] \in Drained
    BY <1>16 DEF Clear, PortInv, PlaceInv, TransactionPcs, Drained
  <2>2. UNCHANGED <<requests, stream, decoded, worker>>
    BY ONLY <1>16 DEF Clear, queue, gpu
  <2>3. QED
    BY ONLY <2>1, <2>2, PortInv, NoFlips, NoFlipsFound
<1>17. ASSUME NEW t \in Guests, Finish(t) PROVE FoundInv'
  <2>1. UNCHANGED <<requests, stream, decoded, worker, opened, session, reserved, buffers>>
    BY ONLY <1>17 DEF Finish, port, queue, gpu
  <2>2. presenter.at = "remove" => presenter'.at = "remove"
    BY ONLY <1>17 DEF Finish, PresenterTo
  <2>3. QED
    BY ONLY <2>1, <2>2, FoundInv, FoundKept
<1>17a. ASSUME ReleaseDecode PROVE FoundInv'
  <2>1. UNCHANGED <<requests, stream, decoded, worker, opened, session, reserved, buffers>>
    BY ONLY <1>17a DEF ReleaseDecode, port, queue, gpu
  <2>2. presenter.at = "remove" => presenter'.at = "remove"
    BY ONLY <1>17a DEF ReleaseDecode
  <2>3. QED
    BY ONLY <2>1, <2>2, FoundInv, FoundKept
<1>18. ASSUME Decode PROVE FoundInv'
  <2>1. /\ stream' = Tail(stream) /\ decoded' = Append(decoded, Head(stream)) /\ stream # <<>>
        /\ UNCHANGED <<requests, worker, presenter, port>>
    BY ONLY <1>18 DEF Decode
  <2>2. stream \in Seq(Indices) /\ decoded \in Seq(Indices)
    BY DEF PortInv, TypeOK
  <2>3. 1 \in DOMAIN stream /\ Head(stream) = stream[1] /\ Head(stream) \in Indices
    BY ONLY <2>1, <2>2, HeadIndex
  <2>4. \A j \in DOMAIN decoded' : decoded'[j] = Head(stream) \/ (j \in DOMAIN decoded /\ decoded'[j] = decoded[j])
    BY ONLY <2>1, <2>2, <2>3, AppendIndices
  <2>5. \A j \in DOMAIN stream' : j + 1 \in DOMAIN stream /\ stream'[j] = stream[j + 1]
    BY ONLY <2>1, <2>2, TailIndices
  <2>6. /\ \A j \in DOMAIN stream : Flippable(stream[j])
        /\ \A j \in DOMAIN decoded : Flippable(decoded[j])
    BY ONLY FoundInv DEF FoundInv
  <2>7. \A j \in DOMAIN stream' : Flippable(stream[j])'
    BY ONLY <2>1, <2>5, <2>6 DEF Flippable, port
  <2>8. \A j \in DOMAIN decoded' : Flippable(decoded[j])'
    BY ONLY <2>1, <2>3, <2>4, <2>6 DEF Flippable, port
  <2>9. QED
    BY ONLY <2>1, <2>7, <2>8, FoundInv DEF FoundInv, Accessible, Flippable, RequestFor, Leaving, port
<1>19. ASSUME Fire PROVE FoundInv'
  <2>1. /\ decoded' = Tail(decoded) /\ decoded # <<>> /\ worker'.at = "reserve" /\ worker'.request.index = Head(decoded)
        /\ UNCHANGED <<requests, stream, presenter, port>>
    <3>1. /\ decoded' = Tail(decoded) /\ decoded # <<>> /\ UNCHANGED <<requests, stream, presenter, port>>
          /\ worker' = [at |-> "reserve", request |-> [NoRequest EXCEPT !.index = Head(decoded)]]
      BY ONLY <1>19 DEF Fire, queue
    <3>2. decoded \in Seq(Indices)
      BY DEF PortInv, TypeOK
    <3>3. Head(decoded) \in Indices
      BY ONLY <3>1, <3>2, HeadIndex
    <3>4. [NoRequest EXCEPT !.index = Head(decoded)] = [index |-> Head(decoded), session |-> 0, registration |-> 0]
      BY ONLY <3>3, VideoNames
    <3>5. QED
      BY ONLY <3>1, <3>4
  <2>2. decoded \in Seq(Indices)
    BY DEF PortInv, TypeOK
  <2>3. 1 \in DOMAIN decoded /\ Head(decoded) = decoded[1]
    BY ONLY <2>1, <2>2, HeadIndex
  <2>4. \A j \in DOMAIN decoded' : j + 1 \in DOMAIN decoded /\ decoded'[j] = decoded[j + 1]
    BY ONLY <2>1, <2>2, TailIndices
  <2>5. \A j \in DOMAIN decoded : Flippable(decoded[j])
    BY ONLY FoundInv DEF FoundInv
  <2>6. \A j \in DOMAIN decoded' : Flippable(decoded[j])'
    BY ONLY <2>1, <2>4, <2>5 DEF Flippable, port
  <2>7. Flippable(worker.request.index)'
    BY ONLY <2>1, <2>3, <2>5 DEF Flippable, port
  <2>8. QED
    BY ONLY <2>1, <2>6, <2>7, FoundInv DEF FoundInv, Accessible, Flippable, RequestFor, Leaving, port
<1>20. ASSUME ReserveInternal PROVE FoundInv'
  <2>1. /\ worker.at = "reserve" /\ worker' = [at |-> "admit", request |-> RequestFor(worker.request.index)]
        /\ UNCHANGED <<requests, stream, decoded, presenter, port>>
    BY ONLY <1>20 DEF ReserveInternal
  <2>2. opened
    BY <2>1 DEF PortInv, StageInv, GpuIdle
  <2>3. worker.request.index \in Indices
    BY DEF PortInv, TypeOK, Request
  <2>4. Flippable(worker.request.index)
    BY ONLY <2>1, FoundInv DEF FoundInv
  <2>5. Accessible(RequestFor(worker.request.index))
    BY ONLY <2>2, <2>3, <2>4, RequestAccessible
  <2>6. Accessible(worker.request)'
    BY ONLY <2>1, <2>5 DEF Accessible, Flippable, RequestFor, port
  <2>7. worker'.at = "admit" /\ UNCHANGED <<requests, stream, decoded, presenter, port>>
    BY ONLY <2>1
  <2>8. QED
    BY ONLY <2>6, <2>7, FoundInv DEF FoundInv, Accessible, Flippable, RequestFor, Leaving, port
<1>21. ASSUME AcquireBlocking PROVE FoundInv'
  <2>1. /\ worker.at = "admit" /\ worker'.at = "enqueue" /\ worker'.request = worker.request
        /\ UNCHANGED <<requests, stream, decoded, presenter, port>>
    BY <1>21 DEF AcquireBlocking, PortInv, TypeOK
  <2>2. QED
    BY ONLY <2>1, FoundInv DEF FoundInv, Accessible, Flippable, RequestFor, Leaving, port
<1>22. ASSUME Enqueue PROVE FoundInv'
  <2>1. /\ worker.at = "enqueue" /\ worker'.at = "idle" /\ requests' = Append(requests, worker.request)
        /\ UNCHANGED <<stream, decoded, presenter, port>>
    BY ONLY <1>22 DEF Enqueue
  <2>2. worker.request \in Request /\ requests \in Seq(Request)
    BY DEF PortInv, TypeOK
  <2>3. Accessible(worker.request)
    BY ONLY <2>1, FoundInv DEF FoundInv
  <2>4. \A i \in DOMAIN requests' : Accessible(requests[i])' \/ Leaving(i)'
    BY ONLY <2>1, <2>2, <2>3, FoundInv, AppendFound
  <2>5. UNCHANGED <<stream, decoded, port>> /\ worker'.at = "idle"
    BY ONLY <2>1
  <2>6. QED
    BY ONLY <2>4, <2>5, FoundInv DEF FoundInv, Accessible, Flippable, RequestFor, port
<1>23. ASSUME Vblank PROVE FoundInv'
  <2>1. UNCHANGED <<requests, stream, decoded, worker, opened, session, reserved, buffers>>
    BY ONLY <1>23 DEF Vblank, port, queue, gpu
  <2>2. presenter.at = "remove" => presenter'.at = "remove"
    BY ONLY <1>23 DEF Vblank, PresenterTo
  <2>3. QED
    BY ONLY <2>1, <2>2, FoundInv, FoundKept
<1>24. ASSUME VblankDone PROVE FoundInv'
  <2>1. UNCHANGED <<requests, stream, decoded, worker, opened, session, reserved, buffers>>
    BY ONLY <1>24 DEF VblankDone, port, queue, gpu
  <2>2. presenter.at = "remove" => presenter'.at = "remove"
    BY ONLY <1>24 DEF VblankDone, PresenterTo
  <2>3. QED
    BY ONLY <2>1, <2>2, FoundInv, FoundKept
<1>25. ASSUME NoFlip PROVE FoundInv'
  <2>1. UNCHANGED <<requests, stream, decoded, worker, opened, session, reserved, buffers>>
    BY ONLY <1>25 DEF NoFlip, port, queue, gpu
  <2>2. presenter.at = "remove" => presenter'.at = "remove"
    BY ONLY <1>25 DEF NoFlip, PresenterTo
  <2>3. QED
    BY ONLY <2>1, <2>2, FoundInv, FoundKept
<1>26. ASSUME TakeFlip PROVE FoundInv'
  <2>1. UNCHANGED <<requests, stream, decoded, worker, opened, session, reserved, buffers>>
    BY ONLY <1>26 DEF TakeFlip, port, queue, gpu
  <2>2. presenter.at = "remove" => presenter'.at = "remove"
    BY ONLY <1>26 DEF TakeFlip, PresenterTo
  <2>3. QED
    BY ONLY <2>1, <2>2, FoundInv, FoundKept
<1>27. ASSUME CaptureImage PROVE FoundInv'
  <2>1. UNCHANGED <<requests, stream, decoded, worker, opened, session, reserved, buffers>>
    BY ONLY <1>27 DEF CaptureImage, port, queue, gpu
  <2>2. presenter.at = "remove" => presenter'.at = "remove"
    BY ONLY <1>27 DEF CaptureImage, PresenterTo
  <2>3. QED
    BY ONLY <2>1, <2>2, FoundInv, FoundKept
<1>28. ASSUME DrawImage PROVE FoundInv'
  <2>1. UNCHANGED <<requests, stream, decoded, worker, opened, session, reserved, buffers>>
    BY ONLY <1>28 DEF DrawImage, port, queue, gpu
  <2>2. presenter.at = "remove" => presenter'.at = "remove"
    BY ONLY <1>28 DEF DrawImage, PresenterTo
  <2>3. QED
    BY ONLY <2>1, <2>2, FoundInv, FoundKept
<1>29. ASSUME PublishStatus PROVE FoundInv'
  <2>1. UNCHANGED <<requests, stream, decoded, worker, opened, session, reserved, buffers>>
    BY ONLY <1>29 DEF PublishStatus, port, queue, gpu
  <2>2. presenter.at = "remove" => presenter'.at = "remove"
    BY ONLY <1>29 DEF PublishStatus, PresenterTo
  <2>3. QED
    BY ONLY <2>1, <2>2, FoundInv, FoundKept
<1>30. ASSUME RemoveFlip PROVE FoundInv'
  <2>1. /\ requests' = Tail(requests) /\ requests \in Seq(Request) /\ requests # <<>>
        /\ UNCHANGED <<stream, decoded, worker, port>>
    BY <1>30 DEF RemoveFlip, gpu, PortInv, TypeOK, CountInv
  <2>2. \A i \in DOMAIN requests' : i + 1 \in DOMAIN requests /\ i + 1 # 1 /\ requests'[i] = requests[i + 1]
    BY ONLY <2>1, TailIndices
  <2>3. \A i \in DOMAIN requests' : Accessible(requests'[i])
    BY ONLY <2>2, FoundInv DEF FoundInv, Leaving
  <2>4. UNCHANGED <<stream, decoded, worker, port>>
    BY ONLY <2>1
  <2>5. QED
    BY ONLY <2>3, <2>4, FoundInv DEF FoundInv, Accessible, Flippable, RequestFor, port
<1>31. ASSUME ReleaseAdmission PROVE FoundInv'
  <2>1. UNCHANGED <<requests, stream, decoded, worker, opened, session, reserved, buffers>>
    BY ONLY <1>31 DEF ReleaseAdmission, port, queue, gpu
  <2>2. presenter.at = "remove" => presenter'.at = "remove"
    BY ONLY <1>31 DEF ReleaseAdmission, PresenterTo
  <2>3. QED
    BY ONLY <2>1, <2>2, FoundInv, FoundKept
<1>32. QED
  BY ONLY Next, <1>1, <1>2, <1>3, <1>4, <1>5, <1>6, <1>7, <1>7a, <1>8, <1>9, <1>10, <1>11, <1>12, <1>13, <1>14, <1>15, <1>16, <1>17, <1>17a, <1>18, <1>19, <1>20, <1>21, <1>22, <1>23, <1>24, <1>25, <1>26, <1>27, <1>28, <1>29, <1>30, <1>31 DEF Next, Call, Transaction, WorkerStep, PresenterStep

(* A removal under way goes on to its other half.                          *)
LEMMA RemovalStays ==
  ASSUME PortInv, Next, ~Unregister(Flipper), ~Unregistered(Flipper)
  PROVE  /\ pc'[Flipper] = "unregistered" <=> pc[Flipper] = "unregistered"
         /\ pc[Flipper] = "unregistered" => slot'[Flipper] = slot[Flipper]
<1> DEFINE Stays == /\ pc'[Flipper] = "unregistered" <=> pc[Flipper] = "unregistered"
                    /\ pc[Flipper] = "unregistered" => slot'[Flipper] = slot[Flipper]
<1> SUFFICES Stays
  OBVIOUS
<1>1. ASSUME NEW t \in Guests, NEW call \in CallPcs \ {"unregistered", "order", "recheck", "commit"}, NEW i \in Indices,
        NEW a \in Addresses \cup {Nobody}, Enter(t, call, i, a) PROVE Stays
  BY ONLY <1>1, RegistrationPlaces, PortInv, VideoNames DEF Enter, GoTo, Leave, calls
<1>2. ASSUME NEW t \in Guests, NEW i \in Slots, NEW waits \in BOOLEAN, SubmitToGpu(t, i, waits) PROVE Stays
  BY ONLY <1>2, RegistrationPlaces, PortInv, VideoNames DEF SubmitToGpu, GoTo, Leave, calls
<1>3. ASSUME NEW t \in Guests, NEW a \in Addresses \cup {Nobody}, Transact(t, a) PROVE Stays
  BY ONLY <1>3, RegistrationPlaces, PortInv, VideoNames DEF Transact, GoTo, Leave, calls
<1>4. ASSUME NEW t \in Guests, Open(t) PROVE Stays
  BY ONLY <1>4, RegistrationPlaces, PortInv, VideoNames DEF Open, GoTo, Leave, calls
<1>5. ASSUME NEW t \in Guests, SubmitFlip(t) PROVE Stays
  BY ONLY <1>5, RegistrationPlaces, PortInv, VideoNames DEF SubmitFlip, GoTo, Leave, calls
<1>6. ASSUME NEW t \in Guests, IsFlipPending(t) PROVE Stays
  BY ONLY <1>6, RegistrationPlaces, PortInv, VideoNames DEF IsFlipPending, GoTo, Leave, calls
<1>7. ASSUME NEW t \in Guests, Unregister(t) PROVE Stays
  BY <1>7 DEF Unregister, PortInv, PlaceInv
<1>7a. ASSUME NEW t \in Guests, Unregistered(t) PROVE Stays
  BY <1>7a DEF Unregistered, PortInv, PlaceInv
<1>8. ASSUME NEW t \in Guests, Reserve(t) PROVE Stays
  BY ONLY <1>8, RegistrationPlaces, PortInv, VideoNames DEF Reserve, GoTo, Leave, calls
<1>9. ASSUME NEW t \in Guests, Order(t) PROVE Stays
  BY ONLY <1>9, RegistrationPlaces, PortInv, VideoNames DEF Order, GoTo, Leave, calls
<1>10. ASSUME NEW t \in Guests, Recheck(t) PROVE Stays
  BY ONLY <1>10, RegistrationPlaces, PortInv, VideoNames DEF Recheck, GoTo, Leave, calls
<1>11. ASSUME NEW t \in Guests, Commit(t) PROVE Stays
  BY ONLY <1>11, RegistrationPlaces, PortInv, VideoNames DEF Commit, GoTo, Leave, calls
<1>12. ASSUME NEW t \in Guests, Await(t) PROVE Stays
  <2>1. pc' = [pc EXCEPT ![t] = Follows[pc[t]]] /\ Follows[pc[t]] \in TransactionPcs /\ slot' = slot /\ pc[t] \in TransactionPcs
    BY <1>12, FollowsPlaces DEF Await, GoTo, TransactionPcs
  <2>2. QED
    BY ONLY <2>1, RegistrationPlaces, PortInv, VideoNames DEF TransactionPcs
<1>13. ASSUME NEW t \in Guests, Gates(t) PROVE Stays
  <2>1. pc' = [pc EXCEPT ![t] = Follows[pc[t]]] /\ Follows[pc[t]] \in TransactionPcs /\ slot' = slot /\ pc[t] \in TransactionPcs
    BY <1>13, FollowsPlaces DEF Gates, GoTo, TransactionPcs
  <2>2. QED
    BY ONLY <2>1, RegistrationPlaces, PortInv, VideoNames DEF TransactionPcs
<1>14. ASSUME NEW t \in Guests, Mark(t) PROVE Stays
  BY ONLY <1>14, RegistrationPlaces, PortInv, VideoNames DEF Mark, GoTo, Leave, calls
<1>15. ASSUME NEW t \in Guests, Shut(t) PROVE Stays
  BY ONLY <1>15, RegistrationPlaces, PortInv, VideoNames DEF Shut, GoTo, Leave, calls
<1>16. ASSUME NEW t \in Guests, Clear(t) PROVE Stays
  BY ONLY <1>16, RegistrationPlaces, PortInv, VideoNames DEF Clear, GoTo, Leave, calls
<1>17. ASSUME NEW t \in Guests, Finish(t) PROVE Stays
  BY ONLY <1>17, RegistrationPlaces, PortInv, VideoNames DEF Finish, GoTo, Leave, calls
<1>17a. ASSUME ReleaseDecode PROVE Stays
  BY ONLY <1>17a, RegistrationPlaces, PortInv, VideoNames DEF ReleaseDecode, DecodeWaiter, SubmitterReturns, GoTo
<1>18. ASSUME Decode PROVE Stays
  BY ONLY <1>18, RegistrationPlaces, PortInv, VideoNames DEF Decode, DecodeWaiter, SubmitterReturns, GoTo
<1>19. ASSUME Fire PROVE Stays
  BY ONLY <1>19 DEF Fire, calls
<1>20. ASSUME ReserveInternal PROVE Stays
  BY ONLY <1>20 DEF ReserveInternal, calls
<1>21. ASSUME AcquireBlocking PROVE Stays
  BY ONLY <1>21 DEF AcquireBlocking, calls
<1>22. ASSUME Enqueue PROVE Stays
  BY ONLY <1>22 DEF Enqueue, calls
<1>23. ASSUME Vblank PROVE Stays
  BY ONLY <1>23 DEF Vblank, calls
<1>24. ASSUME VblankDone PROVE Stays
  BY ONLY <1>24 DEF VblankDone, calls
<1>25. ASSUME NoFlip PROVE Stays
  BY ONLY <1>25 DEF NoFlip, calls
<1>26. ASSUME TakeFlip PROVE Stays
  BY ONLY <1>26 DEF TakeFlip, calls
<1>27. ASSUME CaptureImage PROVE Stays
  BY ONLY <1>27 DEF CaptureImage, calls
<1>28. ASSUME DrawImage PROVE Stays
  BY ONLY <1>28 DEF DrawImage, calls
<1>29. ASSUME PublishStatus PROVE Stays
  BY ONLY <1>29 DEF PublishStatus, calls
<1>30. ASSUME RemoveFlip PROVE Stays
  BY ONLY <1>30 DEF RemoveFlip, calls
<1>31. ASSUME ReleaseAdmission PROVE Stays
  BY ONLY <1>31 DEF ReleaseAdmission, calls
<1>32. QED
  BY ONLY Next, <1>1, <1>2, <1>3, <1>4, <1>5, <1>6, <1>7, <1>7a, <1>8, <1>9, <1>10, <1>11, <1>12, <1>13, <1>14, <1>15, <1>16, <1>17, <1>17a, <1>18, <1>19, <1>20, <1>21, <1>22, <1>23, <1>24, <1>25, <1>26, <1>27, <1>28, <1>29, <1>30, <1>31 DEF Next, Call, Transaction, WorkerStep, PresenterStep

(* No other step touches the buffers.                                      *)
LEMMA BuffersKept ==
  ASSUME Next, \A t \in Guests : ~Unregister(t) /\ ~Unregistered(t) /\ ~Commit(t) /\ ~Clear(t)
  PROVE  buffers' = buffers
<1>1. ASSUME NEW t \in Guests, NEW call \in CallPcs \ {"unregistered", "order", "recheck", "commit"}, NEW i \in Indices,
        NEW a \in Addresses \cup {Nobody}, Enter(t, call, i, a) PROVE buffers' = buffers
  BY ONLY <1>1 DEF port, Enter
<1>2. ASSUME NEW t \in Guests, NEW i \in Slots, NEW waits \in BOOLEAN, SubmitToGpu(t, i, waits) PROVE buffers' = buffers
  BY ONLY <1>2 DEF port, SubmitToGpu
<1>3. ASSUME NEW t \in Guests, NEW a \in Addresses \cup {Nobody}, Transact(t, a) PROVE buffers' = buffers
  BY ONLY <1>3 DEF port, Transact
<1>4. ASSUME NEW t \in Guests, Open(t) PROVE buffers' = buffers
  BY ONLY <1>4 DEF port, Open
<1>5. ASSUME NEW t \in Guests, SubmitFlip(t) PROVE buffers' = buffers
  BY ONLY <1>5 DEF port, SubmitFlip
<1>6. ASSUME NEW t \in Guests, IsFlipPending(t) PROVE buffers' = buffers
  BY ONLY <1>6 DEF port, IsFlipPending
<1>7. ASSUME NEW t \in Guests, Unregister(t) PROVE buffers' = buffers
  BY <1>7
<1>7a. ASSUME NEW t \in Guests, Unregistered(t) PROVE buffers' = buffers
  BY <1>7a
<1>8. ASSUME NEW t \in Guests, Reserve(t) PROVE buffers' = buffers
  BY ONLY <1>8 DEF port, Reserve
<1>9. ASSUME NEW t \in Guests, Order(t) PROVE buffers' = buffers
  BY ONLY <1>9 DEF port, Order
<1>10. ASSUME NEW t \in Guests, Recheck(t) PROVE buffers' = buffers
  BY ONLY <1>10 DEF port, Recheck
<1>11. ASSUME NEW t \in Guests, Commit(t) PROVE buffers' = buffers
  BY <1>11
<1>12. ASSUME NEW t \in Guests, Await(t) PROVE buffers' = buffers
  BY ONLY <1>12 DEF port, Await
<1>13. ASSUME NEW t \in Guests, Gates(t) PROVE buffers' = buffers
  BY ONLY <1>13 DEF port, Gates
<1>14. ASSUME NEW t \in Guests, Mark(t) PROVE buffers' = buffers
  BY ONLY <1>14 DEF port, Mark
<1>15. ASSUME NEW t \in Guests, Shut(t) PROVE buffers' = buffers
  BY ONLY <1>15 DEF port, Shut
<1>16. ASSUME NEW t \in Guests, Clear(t) PROVE buffers' = buffers
  BY <1>16
<1>17. ASSUME NEW t \in Guests, Finish(t) PROVE buffers' = buffers
  BY ONLY <1>17 DEF port, Finish
<1>17a. ASSUME ReleaseDecode PROVE buffers' = buffers
  BY ONLY <1>17a DEF port, ReleaseDecode
<1>18. ASSUME Decode PROVE buffers' = buffers
  BY ONLY <1>18 DEF port, Decode
<1>19. ASSUME Fire PROVE buffers' = buffers
  BY ONLY <1>19 DEF port, Fire
<1>20. ASSUME ReserveInternal PROVE buffers' = buffers
  BY ONLY <1>20 DEF port, ReserveInternal
<1>21. ASSUME AcquireBlocking PROVE buffers' = buffers
  BY ONLY <1>21 DEF port, AcquireBlocking
<1>22. ASSUME Enqueue PROVE buffers' = buffers
  BY ONLY <1>22 DEF port, Enqueue
<1>23. ASSUME Vblank PROVE buffers' = buffers
  BY ONLY <1>23 DEF port, Vblank
<1>24. ASSUME VblankDone PROVE buffers' = buffers
  BY ONLY <1>24 DEF port, VblankDone
<1>25. ASSUME NoFlip PROVE buffers' = buffers
  BY ONLY <1>25 DEF port, NoFlip
<1>26. ASSUME TakeFlip PROVE buffers' = buffers
  BY ONLY <1>26 DEF port, TakeFlip
<1>27. ASSUME CaptureImage PROVE buffers' = buffers
  BY ONLY <1>27 DEF port, CaptureImage
<1>28. ASSUME DrawImage PROVE buffers' = buffers
  BY ONLY <1>28 DEF port, DrawImage
<1>29. ASSUME PublishStatus PROVE buffers' = buffers
  BY ONLY <1>29 DEF port, PublishStatus
<1>30. ASSUME RemoveFlip PROVE buffers' = buffers
  BY ONLY <1>30 DEF port, RemoveFlip
<1>31. ASSUME ReleaseAdmission PROVE buffers' = buffers
  BY ONLY <1>31 DEF port, ReleaseAdmission
<1>32. QED
  BY ONLY Next, <1>1, <1>2, <1>3, <1>4, <1>5, <1>6, <1>7, <1>7a, <1>8, <1>9, <1>10, <1>11, <1>12, <1>13, <1>14, <1>15, <1>16, <1>17, <1>17a, <1>18, <1>19, <1>20, <1>21, <1>22, <1>23, <1>24, <1>25, <1>26, <1>27, <1>28, <1>29, <1>30, <1>31 DEF Next, Call, Transaction, WorkerStep, PresenterStep

(* A buffer has both of its marks after every step, unless its removal was *)
(* raced.                                                                  *)
LEMMA MarkedStep ==
  ASSUME PortInv, MarkedInv, Next, ~raced'
  PROVE  MarkedInv'
<1>1. ASSUME Unregister(Flipper) PROVE MarkedInv'
  <2>1. slot[Flipper] \in Slots /\ pc[Flipper] = "unregister"
    BY <1>1, VideoNames DEF Unregister, PortInv, PlaceInv
  <2>2. CASE Leave(Flipper) /\ buffers' = buffers
    <3>1. \A i \in Slots : ~Removing(i) /\ ~Removing(i)'
      BY ONLY <2>1, <2>2, RegistrationPlaces, PortInv, VideoNames DEF Removing, Leave, GoTo
    <3>2. QED
      BY ONLY <2>2, <3>1, MarkedInv DEF MarkedInv
  <2>3. CASE /\ \/ buffers' = [buffers EXCEPT ![slot[Flipper]].address = Nobody]
                \/ buffers' = [buffers EXCEPT ![slot[Flipper]].registration = 0]
             /\ GoTo(Flipper, "unregistered") /\ slot' = slot
    <3>1. \A i \in Slots : ~Removing(i) /\ (Removing(i)' <=> i = slot[Flipper])
      BY ONLY <2>1, <2>3, RegistrationPlaces, PortInv, VideoNames DEF Removing, GoTo
    <3>2. /\ \A i \in Slots \ {slot[Flipper]} : buffers'[i] = buffers[i]
          /\ buffers'[slot[Flipper]].address = Nobody \/ buffers'[slot[Flipper]].registration = 0
      BY ONLY <2>1, <2>3, RegistrationPlaces, PortInv
    <3>3. QED
      BY ONLY <3>1, <3>2, MarkedInv DEF MarkedInv
  <2>4. QED
    BY ONLY <1>1, <2>2, <2>3 DEF Unregister
<1>2. ASSUME Unregistered(Flipper) PROVE MarkedInv'
  <2>1. slot[Flipper] \in Slots /\ pc[Flipper] = "unregistered"
    BY <1>2, VideoNames DEF Unregistered, PortInv, PlaceInv
  <2>2. \A i \in Slots : (Removing(i) <=> i = slot[Flipper]) /\ ~Removing(i)'
    BY ONLY <1>2, <2>1, RegistrationPlaces, PortInv, VideoNames DEF Unregistered, Removing, Leave, GoTo
  <2>3. /\ buffers' = IF buffers[slot[Flipper]].registration # 0
                        THEN [buffers EXCEPT ![slot[Flipper]].registration = 0]
                        ELSE [buffers EXCEPT ![slot[Flipper]].address = Nobody]
        /\ buffers[slot[Flipper]].address = Nobody \/ buffers[slot[Flipper]].registration = 0
    BY ONLY <1>2, <2>1, <2>2, MarkedInv DEF Unregistered, MarkedInv
  <2>4. /\ \A i \in Slots \ {slot[Flipper]} : buffers'[i] = buffers[i]
        /\ buffers'[slot[Flipper]].address = Nobody
    BY ONLY <2>1, <2>3, RegistrationPlaces, PortInv
  <2>5. QED
    BY ONLY <2>2, <2>4, MarkedInv DEF MarkedInv
<1>3. ASSUME ~Unregister(Flipper), ~Unregistered(Flipper) PROVE MarkedInv'
  <2>1. \A i \in Slots : Removing(i)' <=> Removing(i)
    BY ONLY <1>3, RemovalStays, PortInv, Next DEF Removing
  <2>2. CASE buffers' = buffers
    BY ONLY <2>1, <2>2, MarkedInv DEF MarkedInv
  <2>3. ASSUME NEW t \in Guests, Commit(t) PROVE MarkedInv'
    <3>1. slot[t] \in Slots /\ sequence + 1 # 0
      BY <2>3, VideoNumbers DEF Commit, PortInv, PlaceInv, Registers
    <3>2. ~Removing(slot[t])
      BY ONLY <2>3, ~raced', VideoNames DEF Commit, Removing
    <3>3. /\ \A i \in Slots \ {slot[t]} : buffers'[i] = buffers[i]
          /\ buffers'[slot[t]].registration = sequence + 1
      BY ONLY <2>3, <3>1, RegistrationPlaces, PortInv DEF Commit
    <3>4. QED
      BY ONLY <2>1, <3>1, <3>2, <3>3, MarkedInv DEF MarkedInv
  <2>4. ASSUME NEW t \in Guests, Clear(t) PROVE MarkedInv'
    <3>1. \A i \in Slots : buffers'[i] = buffers[i] \/ buffers'[i].address = Nobody
      BY ONLY <2>4 DEF Clear, NoBuffer
    <3>2. QED
      BY ONLY <2>1, <3>1, MarkedInv DEF MarkedInv
  <2>5. ASSUME NEW t \in Guests, Unregister(t) \/ Unregistered(t) PROVE FALSE
    <3>1. t = Flipper
      BY <2>5 DEF Unregister, Unregistered, PortInv, PlaceInv
    <3>2. QED
      BY ONLY <1>3, <2>5, <3>1
  <2>6. QED
    BY ONLY <2>2, <2>3, <2>4, <2>5, BuffersKept, Next
<1>4. QED
  BY ONLY <1>1, <1>2, <1>3

(* What was raced stays so.                                                *)
LEMMA RacedStays ==
  ASSUME Next
  PROVE  raced => raced'
<1>1. ASSUME NEW t \in Guests, NEW call \in CallPcs \ {"unregistered", "order", "recheck", "commit"}, NEW i \in Indices,
        NEW a \in Addresses \cup {Nobody}, Enter(t, call, i, a) PROVE raced => raced'
  BY ONLY <1>1 DEF Enter, calls
<1>2. ASSUME NEW t \in Guests, NEW i \in Slots, NEW waits \in BOOLEAN, SubmitToGpu(t, i, waits) PROVE raced => raced'
  BY ONLY <1>2 DEF SubmitToGpu, calls
<1>3. ASSUME NEW t \in Guests, NEW a \in Addresses \cup {Nobody}, Transact(t, a) PROVE raced => raced'
  BY ONLY <1>3 DEF Transact, calls
<1>4. ASSUME NEW t \in Guests, Open(t) PROVE raced => raced'
  BY ONLY <1>4 DEF Open, calls
<1>5. ASSUME NEW t \in Guests, SubmitFlip(t) PROVE raced => raced'
  BY ONLY <1>5 DEF SubmitFlip, calls
<1>6. ASSUME NEW t \in Guests, IsFlipPending(t) PROVE raced => raced'
  BY ONLY <1>6 DEF IsFlipPending, calls
<1>7. ASSUME NEW t \in Guests, Unregister(t) PROVE raced => raced'
  BY ONLY <1>7 DEF Unregister, calls
<1>7a. ASSUME NEW t \in Guests, Unregistered(t) PROVE raced => raced'
  BY ONLY <1>7a DEF Unregistered, calls
<1>8. ASSUME NEW t \in Guests, Reserve(t) PROVE raced => raced'
  BY ONLY <1>8 DEF Reserve, calls
<1>9. ASSUME NEW t \in Guests, Order(t) PROVE raced => raced'
  BY ONLY <1>9 DEF Order, calls
<1>10. ASSUME NEW t \in Guests, Recheck(t) PROVE raced => raced'
  BY ONLY <1>10 DEF Recheck, calls
<1>11. ASSUME NEW t \in Guests, Commit(t) PROVE raced => raced'
  BY ONLY <1>11 DEF Commit, calls
<1>12. ASSUME NEW t \in Guests, Await(t) PROVE raced => raced'
  BY ONLY <1>12 DEF Await, calls
<1>13. ASSUME NEW t \in Guests, Gates(t) PROVE raced => raced'
  BY ONLY <1>13 DEF Gates, calls
<1>14. ASSUME NEW t \in Guests, Mark(t) PROVE raced => raced'
  BY ONLY <1>14 DEF Mark, calls
<1>15. ASSUME NEW t \in Guests, Shut(t) PROVE raced => raced'
  BY ONLY <1>15 DEF Shut, calls
<1>16. ASSUME NEW t \in Guests, Clear(t) PROVE raced => raced'
  BY ONLY <1>16 DEF Clear, calls
<1>17. ASSUME NEW t \in Guests, Finish(t) PROVE raced => raced'
  BY ONLY <1>17 DEF Finish, calls
<1>17a. ASSUME ReleaseDecode PROVE raced => raced'
  BY ONLY <1>17a DEF ReleaseDecode, calls
<1>18. ASSUME Decode PROVE raced => raced'
  BY ONLY <1>18 DEF Decode, calls
<1>19. ASSUME Fire PROVE raced => raced'
  BY ONLY <1>19 DEF Fire, calls
<1>20. ASSUME ReserveInternal PROVE raced => raced'
  BY ONLY <1>20 DEF ReserveInternal, calls
<1>21. ASSUME AcquireBlocking PROVE raced => raced'
  BY ONLY <1>21 DEF AcquireBlocking, calls
<1>22. ASSUME Enqueue PROVE raced => raced'
  BY ONLY <1>22 DEF Enqueue, calls
<1>23. ASSUME Vblank PROVE raced => raced'
  BY ONLY <1>23 DEF Vblank, calls
<1>24. ASSUME VblankDone PROVE raced => raced'
  BY ONLY <1>24 DEF VblankDone, calls
<1>25. ASSUME NoFlip PROVE raced => raced'
  BY ONLY <1>25 DEF NoFlip, calls
<1>26. ASSUME TakeFlip PROVE raced => raced'
  BY ONLY <1>26 DEF TakeFlip, calls
<1>27. ASSUME CaptureImage PROVE raced => raced'
  BY ONLY <1>27 DEF CaptureImage, calls
<1>28. ASSUME DrawImage PROVE raced => raced'
  BY ONLY <1>28 DEF DrawImage, calls
<1>29. ASSUME PublishStatus PROVE raced => raced'
  BY ONLY <1>29 DEF PublishStatus, calls
<1>30. ASSUME RemoveFlip PROVE raced => raced'
  BY ONLY <1>30 DEF RemoveFlip, calls
<1>31. ASSUME ReleaseAdmission PROVE raced => raced'
  BY ONLY <1>31 DEF ReleaseAdmission, calls
<1>32. QED
  BY ONLY Next, <1>1, <1>2, <1>3, <1>4, <1>5, <1>6, <1>7, <1>7a, <1>8, <1>9, <1>10, <1>11, <1>12, <1>13, <1>14, <1>15, <1>16, <1>17, <1>17a, <1>18, <1>19, <1>20, <1>21, <1>22, <1>23, <1>24, <1>25, <1>26, <1>27, <1>28, <1>29, <1>30, <1>31 DEF Next, Call, Transaction, WorkerStep, PresenterStep

(* The invariants imply what the code insists on.                          *)
LEMMA VideoRequirements ==
  ASSUME PortInv, KnownInv, UnracedInv
  PROVE  RequirementsHold
<1>1. TypeOK
  BY DEF PortInv
<1>2. ~GpuIdle => Usable
  BY DEF PortInv, StageInv, Usable, Drained
<1>3. ASSUME ~raced PROVE DecodedFlipsKeepBuffers
  BY <1>2, <1>3 DEF UnracedInv, FoundInv, DecodedFlipsKeepBuffers, GpuIdle
<1>4. ASSUME ~raced, presenter.at \in {"present", "draw"} PROVE Accessible(presenter.request)
  <2>1. requests # <<>> /\ presenter.request = Head(requests) /\ requests \in Seq(Request)
    BY <1>4 DEF PortInv, CountInv, TypeOK
  <2>2. 1 \in DOMAIN requests /\ Head(requests) = requests[1]
    BY ONLY <2>1, HeadIndex
  <2>3. Accessible(requests[1]) \/ Leaving(1)
    BY ONLY <1>4, <2>2, UnracedInv DEF UnracedInv, FoundInv
  <2>4. QED
    BY ONLY <1>4, <2>1, <2>2, <2>3 DEF Leaving
<1>4a. ASSUME ~raced, worker.at = "enqueue", worker.request.index # Blank PROVE worker.request.registration # 0
  <2>1. Accessible(worker.request) /\ MarkedInv
    BY ONLY <1>4a, UnracedInv DEF UnracedInv, FoundInv
  <2>2. worker.request.index \in Slots
    BY <1>4a DEF PortInv, TypeOK, Request, Indices
  <2>3. /\ buffers[worker.request.index].address # Nobody
        /\ worker.request.registration = buffers[worker.request.index].registration
    BY ONLY <1>4a, <2>1, <2>2 DEF Accessible, Flippable, RequestFor
  <2>4. ~Removing(worker.request.index)
    BY ONLY <1>4a, KnownInv DEF KnownInv, GpuIdle, Removing
  <2>5. QED
    BY ONLY <2>1, <2>2, <2>3, <2>4 DEF MarkedInv
<1>5. ASSUME worker.at = "enqueue" PROVE gpuQueued > 0 /\ Len(requests) < Capacity
  <2>1. gpuQueued = Len(decoded) + 1 /\ Len(decoded) \in Nat /\ Len(requests) \in Nat /\ admitted \in 0 .. 2
    BY <1>5, VideoNumbers DEF PortInv, CountInv
  <2>2. admitted = Len(requests) + 1 + (IF presenter.at = "release" THEN 1 ELSE 0)
    BY <1>5 DEF PortInv, CountInv
  <2>3. admitted >= Len(requests) + 1
    BY ONLY <2>1, <2>2
  <2>4. QED
    BY ONLY <2>1, <2>3 DEF Capacity
<1>6. stream # <<>> => Usable
  BY <1>2 DEF GpuIdle
<1>7. ASSUME NEW t \in Guests
      PROVE  /\ pc[t] = "recheck" => opened
             /\ pc[t] = "commit" => opened /\ slot[t] \in reserved /\ buffers[slot[t]].address = Nobody
             /\ pc[t] = "clear" /\ IsClose(t) => ~opened /\ closing /\ reserved = {}
  <2>1. pc[t] \in {"recheck", "commit"} => t \in registering
    BY DEF PortInv, PlaceInv
  <2>2. t \in registering => opened /\ slot[t] \in reserved /\ buffers[slot[t]].address = Nobody
    BY DEF PortInv, SlotsInv
  <2>3. ASSUME pc[t] = "clear", IsClose(t) PROVE ~opened /\ closing /\ reserved = {}
    <3>1. t = Closer
      BY <2>3 DEF PortInv, PlaceInv, TransactionPcs
    <3>2. ~opened /\ closing
      BY <2>3, <3>1 DEF PortInv, StageInv, Drained
    <3>3. reserved = {}
      BY <2>3, <3>1, NoRegistrations DEF Drained
    <3>4. QED
      BY ONLY <3>2, <3>3
  <2>4. QED
    BY ONLY <2>1, <2>2, <2>3
<1>8. QED
  BY ONLY <1>1, <1>3, <1>4, <1>4a, <1>5, <1>6, <1>7 DEF RequirementsHold, FlipsKeepBuffers

(* A step that changes nothing keeps them.                                 *)
LEMMA FlipsStutter ==
  ASSUME KnownInv, UnracedInv, UNCHANGED vars
  PROVE  KnownInv' /\ UnracedInv'
<1>1. /\ UNCHANGED <<requests, stream, decoded, worker, presenter, opened, session, reserved, buffers>>
      /\ UNCHANGED <<sawIdle, misled, raced, pc, slot>>
  BY ONLY UNCHANGED vars DEF vars, port, queue, gpu, calls
<1>2. KnownInv'
  BY ONLY <1>1, KnownInv DEF KnownInv, Knows, GpuIdle, Leaving
<1>3. FoundInv => FoundInv'
  BY ONLY <1>1 DEF FoundInv, Leaving, Accessible, Flippable, RequestFor
<1>4. MarkedInv => MarkedInv'
  BY ONLY <1>1 DEF MarkedInv, Removing
<1>5. QED
  BY ONLY <1>1, <1>2, <1>3, <1>4, UnracedInv DEF UnracedInv

(* What the guest knows, and what the flips find unless a removal was      *)
(* raced.                                                                  *)
LEMMA FlipsInvariance == Spec => [](KnownInv /\ UnracedInv)
<1>1. Init => KnownInv /\ UnracedInv
  <2>1. ASSUME Init
        PROVE  /\ sawIdle = FALSE /\ pc[Flipper] = "idle" /\ worker.at = "idle"
               /\ DOMAIN requests = {} /\ DOMAIN stream = {} /\ DOMAIN decoded = {}
               /\ \A i \in Slots : buffers[i].address = Nobody
    BY <2>1, VideoNames DEF Init, NoBuffer
  <2>2. QED
    BY ONLY <2>1 DEF KnownInv, Knows, UnracedInv, FoundInv, MarkedInv, Removing
<1>2. ASSUME PortInv, KnownInv, UnracedInv, Next PROVE KnownInv' /\ UnracedInv'
  <2>1. KnownInv'
    BY <1>2, KnownStep
  <2>2. ASSUME ~raced' PROVE FoundInv' /\ MarkedInv'
    <3>1. FoundInv /\ MarkedInv
      BY <1>2, <2>2, RacedStays DEF UnracedInv
    <3>2. QED
      BY <1>2, <2>2, <3>1, FoundStep, MarkedStep
  <2>3. QED
    BY ONLY <2>1, <2>2 DEF UnracedInv
<1>3. PortInv /\ KnownInv /\ UnracedInv /\ [Next]_vars => KnownInv' /\ UnracedInv'
  BY <1>2, FlipsStutter
<1>4. QED
  BY PortInvariance, <1>1, <1>3, PTL DEF Spec

(* What the code insists on: the conditions on which it ends the process   *)
(* do not arise, whatever guests submit and remove and whether or not they *)
(* wait for their submissions, but for the flips' when a count of 0 misled *)
(* the guest into a removal or a registration raced one (VideoOut.cpp,     *)
(* FlipQueue::Flip, RegisterBuffers, Close).                               *)
THEOREM RequirementsCorrect == Spec => []RequirementsHold
<1>1. PortInv /\ KnownInv /\ UnracedInv => RequirementsHold
  BY VideoRequirements
<1>2. QED
  BY PortInvariance, FlipsInvariance, <1>1, PTL
=============================================================================
