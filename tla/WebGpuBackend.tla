---------------------------- MODULE WebGpuBackend ----------------------------
(***************************************************************************)
(* packages/webgpu/src: WebGpuDeviceManager (runtime.ts) opens a device,    *)
(* replaces it when it is lost, and runs one operation at a time between    *)
(* pushed and popped error scopes; WebGpuPhysicalBackend (backend.ts) keeps *)
(* vectors resident on the device under a byte capacity, leases them to     *)
(* callers, and executes fragments over them or over a batch it uploads;    *)
(* executePlannedPhysicalFragment (core/src/physical.ts) repeats a lost     *)
(* batch fragment on the CPU.                                              *)
(*                                                                         *)
(* At most one device is open at a time, so a device is named by the        *)
(* generation of its lease.  A step is a stretch between two awaits.        *)
(***************************************************************************)
EXTENDS Integers, FiniteSets, FiniteSetsExt, SequencesExt

CONSTANTS Callers, Keys,
          NoOne,             \* no caller, no key
          Bytes,             \* byteSize of the block cached under each key
          MaxResidentBytes,  \* maxResidentBytes
          MaxGeneration,     \* bound: the generation from which no device is lost
          MaxCalls           \* bound: how many calls are made

ASSUME CallersAssumption == IsFiniteSet(Callers) /\ IsFiniteSet(Keys)
ASSUME SizesAssumption == Bytes \in [Keys -> Nat \ {0}]
ASSUME NoOneAssumption == NoOne \notin Callers \cup Keys
ASSUME LimitsAssumption == MaxResidentBytes \in Nat /\ MaxGeneration \in Nat /\ MaxCalls \in Nat

VARIABLES generation, closed,
          device,        \* none: no lease; lost: the lost handler has not run
          scopes,        \* callers from the holder of the scope to the last waiter
          frames,        \* error scopes pushed on the device: has one caught an error?
          entries,       \* every resident entry made: its key, generation, references
          recency,       \* entries by lastUsed, the least recent first
          cached,        \* residentVectors
          residentBytes, reserved,
          openings,      \* residentOpenings: the caller that opens the key
          call, lease, calls

deviceVars == <<generation, closed, device, frames>>
cacheVars == <<entries, recency, cached, residentBytes, reserved, openings>>
vars == <<deviceVars, scopes, cacheVars, call, lease, calls>>

None == 0

(* at: where the call stands.  on: the generation of the device it works    *)
(* on.  garbage: what it read back is not what the fragment computes.       *)
(* outcome: the words handed out are exact, or garbage, or none are (the call *)
(* leased an entry, or ended with an error).                                *)
Idle(outcome) ==
  [at |-> "idle", kind |-> "none", key |-> NoOne, entry |-> None, on |-> 0,
   garbage |-> FALSE, failure |-> "none", caught |-> FALSE, aborted |-> FALSE, outcome |-> outcome]
Started(kind, key, entry) ==
  [Idle("none") EXCEPT !.at = "queued", !.kind = kind, !.key = key, !.entry = entry]

Init ==
  /\ generation = 0 /\ closed = FALSE /\ device = "none" /\ frames = <<>>
  /\ scopes = <<>>
  /\ entries = <<>> /\ recency = <<>> /\ cached = [k \in Keys |-> None]
  /\ residentBytes = 0 /\ reserved = 0 /\ openings = [k \in Keys |-> NoOne]
  /\ call = [c \in Callers |-> Idle("none")]
  /\ lease = [c \in Callers |-> None]
  /\ calls = 0

(* The device a call works on is the one open now, and it is not lost.      *)
Standing(c) == device = "up" /\ call[c].on = generation

Touch(e) == Append(RemoveFirst(recency, e), e)
Destroyed(es) == [e \in DOMAIN entries |-> IF e \in es THEN [entries[e] EXCEPT !.live = FALSE]
                                           ELSE entries[e]]
CachedKeys == {k \in Keys : cached[k] # None}
BytesOf(ks) == MapThenSumSet(LAMBDA k : Bytes[k], ks)

-----------------------------------------------------------------------------
(* Calls.                                                                  *)

Place(c, record) == call' = [call EXCEPT ![c] = record]
CanCall(c) == call[c].at = "idle" /\ calls < MaxCalls
Queue(c, record) == Place(c, record) /\ scopes' = Append(scopes, c)

(* A fragment over a batch: the operation uploads what it needs.            *)
StartBatch(c) ==
  /\ CanCall(c)
  /\ Queue(c, Started("batch", NoOne, None))
  /\ calls' = calls + 1
  /\ UNCHANGED <<deviceVars, cacheVars, lease>>

(* A fragment over leased vectors: the entry is compared with the cache and  *)
(* the generation before the wait for the scope, never after it.            *)
IsResident(e) == entries[e].gen = generation /\ cached[entries[e].key] = e

StartResident(c) ==
  LET e == lease[c] IN
  /\ CanCall(c) /\ e # None
  /\ calls' = calls + 1
  /\ \/ /\ IsResident(e)
        /\ Queue(c, Started("resident", entries[e].key, e))
        /\ recency' = Touch(e)
     \/ /\ ~IsResident(e)
        /\ Place(c, Idle("none"))
        /\ UNCHANGED <<scopes, recency>>
  /\ UNCHANGED <<deviceVars, entries, cached, residentBytes, reserved, openings, lease>>

(* The caller's lease of entry e.                                          *)
Grant(c, e, before) ==
  /\ entries' = [before EXCEPT ![e].refs = @ + 1]
  /\ lease' = [lease EXCEPT ![c] = e]

(* A defect: what is being uploaded is not counted. *)
HasRoomUnreserved(gone, bytes) == residentBytes - BytesOf(gone) + bytes <= MaxResidentBytes

HasRoom(gone, bytes) == residentBytes - BytesOf(gone) + reserved + bytes <= MaxResidentBytes

(* Evicted in the order of lastUsed, until the block fits.                  *)
Position(k) == CHOOSE i \in DOMAIN recency : recency[i] = cached[k]
Older(ks, k) == {j \in ks : Position(j) < Position(k)}

(* A defect: leased entries are evicted. *)
EvictedLeasesToo(bytes) == {k \in CachedKeys : ~HasRoom(Older(CachedKeys, k), bytes)}

Evicted(bytes) ==
  LET free == {k \in CachedKeys : entries[cached[k]].refs = 0} IN
  {k \in free : ~HasRoom(Older(free, k), bytes)}

CacheMiss(c, k) ==
  LET gone == Evicted(Bytes[k]) IN
  /\ cached' = [j \in Keys |-> IF j \in gone THEN None ELSE cached[j]]
  /\ residentBytes' = residentBytes - BytesOf(gone)
  /\ entries' = Destroyed({cached[j] : j \in gone})
  /\ \/ /\ HasRoom(gone, Bytes[k])
        /\ reserved' = reserved + Bytes[k]
        /\ openings' = [openings EXCEPT ![k] = c]
        /\ Queue(c, Started("cache", k, None))
     \/ /\ ~HasRoom(gone, Bytes[k])
        /\ Place(c, Idle("none"))
        /\ UNCHANGED <<scopes, reserved, openings>>
  /\ UNCHANGED <<recency, lease>>

(* cacheVectorCandidates; a caller asks for a block only when it holds none. *)
StartCache(c, k) ==
  /\ CanCall(c) /\ lease[c] = None
  /\ calls' = calls + 1
  /\ \/ /\ closed
        /\ Place(c, Idle("none"))
        /\ UNCHANGED <<scopes, cacheVars, lease>>
     \/ /\ ~closed /\ cached[k] # None
        /\ Grant(c, cached[k], entries) /\ recency' = Touch(cached[k])
        /\ Place(c, Idle("none"))
        /\ UNCHANGED <<scopes, cached, residentBytes, reserved, openings>>
     \/ /\ ~closed /\ cached[k] = None /\ openings[k] # NoOne
        /\ Place(c, [Started("join", k, None) EXCEPT !.at = "joining"])
        /\ UNCHANGED <<scopes, cacheVars, lease>>
     \/ /\ ~closed /\ cached[k] = None /\ openings[k] = NoOne
        /\ CacheMiss(c, k)
  /\ UNCHANGED deviceVars

(* release() of a lease; a second release of it does nothing.               *)
Release(c) ==
  /\ call[c].at = "idle" /\ lease[c] # None
  /\ entries' = [entries EXCEPT ![lease[c]].refs = @ - 1]
  /\ recency' = Touch(lease[c])
  /\ lease' = [lease EXCEPT ![c] = None]
  /\ UNCHANGED <<deviceVars, scopes, cached, residentBytes, reserved, openings, call, calls>>

(* The caller's signal is aborted while something still reads it; the upload *)
(* itself has no signal.                                                    *)
Abort(c) ==
  /\ ~call[c].aborted
  /\ call[c].at \in {"queued", "opening", "working", "joining", "cached"}
  /\ Place(c, [call[c] EXCEPT !.aborted = TRUE])
  /\ UNCHANGED <<deviceVars, scopes, cacheVars, lease, calls>>

Signalled(c) == call[c].aborted /\ call[c].kind # "cache"

-----------------------------------------------------------------------------
(* The scope and the device.                                               *)

(* The call leaves the queue of scopes.  An upload still has its reservation *)
(* to return; a join follows the opening it waits for.                      *)
LeaveScope(c, outcome) ==
  /\ scopes' = RemoveFirst(scopes, c)
  /\ Place(c, IF call[c].kind = "cache" THEN [call[c] EXCEPT !.at = "refused"]
              ELSE Idle(outcome))

(* A defect: an aborted waiter keeps its place and passes no turn. *)
WaitAbortedInPlace(c) ==
  /\ call[c].at = "queued" /\ Signalled(c)
  /\ Place(c, Idle("none")) /\ UNCHANGED scopes
  /\ UNCHANGED <<deviceVars, cacheVars, lease, calls>>

WaitAborted(c) ==
  /\ call[c].at = "queued" /\ Signalled(c)
  /\ LeaveScope(c, "none")
  /\ UNCHANGED <<deviceVars, cacheVars, lease, calls>>

IsFirst(c) == Head(scopes) = c

(* The turn comes: on a device, straight on to the operation.               *)
Enter(c) ==
  /\ call[c].at = "queued" /\ ~Signalled(c) /\ IsFirst(c)
  /\ \/ /\ closed
        /\ LeaveScope(c, "none") /\ UNCHANGED frames
     \/ /\ ~closed /\ device = "none"
        /\ Place(c, [call[c] EXCEPT !.at = "opening"]) /\ UNCHANGED <<scopes, frames>>
     \/ /\ ~closed /\ device # "none"
        /\ Place(c, [call[c] EXCEPT !.at = "working", !.on = generation])
        /\ frames' = Append(frames, FALSE) /\ UNCHANGED scopes
  /\ UNCHANGED <<generation, closed, device, cacheVars, lease, calls>>

(* open() settles: refused, closed meanwhile, or a device of the generation  *)
(* of this moment, which stays open for others if this caller is aborted.   *)
Opened(c) ==
  /\ call[c].at = "opening"
  /\ \/ LeaveScope(c, "none") /\ UNCHANGED <<device, frames>>
     \/ closed /\ LeaveScope(c, "none") /\ UNCHANGED <<device, frames>>
     \/ /\ ~closed /\ device' = "up"
        /\ \/ Signalled(c) /\ LeaveScope(c, "none") /\ frames' = <<>>
           \/ /\ ~Signalled(c)
              /\ Place(c, [call[c] EXCEPT !.at = "working", !.on = generation])
              /\ frames' = <<FALSE>> /\ UNCHANGED scopes
  /\ UNCHANGED <<generation, closed, cacheVars, lease, calls>>

(* The error goes to the scope pushed last, whoever pushed it.              *)
Raise(error) == frames' = IF error /\ frames # <<>> THEN [frames EXCEPT ![Len(frames)] = TRUE] ELSE frames

(* The bound buffers are of this device and not destroyed.                  *)
Readable(c) ==
  call[c].kind = "resident" =>
    LET entry == entries[call[c].entry] IN entry.gen = call[c].on /\ entry.live /\ entry.whole

Worked(c, garbage, failure) ==
  Place(c, [call[c] EXCEPT !.at = "popping", !.garbage = garbage,
              !.failure = IF failure = "none" /\ Signalled(c) THEN "lakeql" ELSE failure])

(* The operation of execute, up to the words read back.  Buffers that cannot *)
(* be read are an error of the device, and zeros are read back; on a lost    *)
(* device the read-back rejects.  Any promise of the GPU may reject; the     *)
(* device's own limit, and the signal, end it with an error of lakeql.       *)
Execute(c) ==
  /\ call[c].at = "working" /\ call[c].kind # "cache"
  /\ \/ Standing(c) /\ Readable(c) /\ Worked(c, FALSE, "none") /\ UNCHANGED frames
     \/ Standing(c) /\ Worked(c, TRUE, "none") /\ Raise(TRUE)
     \/ Worked(c, FALSE, "other") /\ UNCHANGED frames
     \/ Worked(c, FALSE, "lakeql") /\ UNCHANGED frames
  /\ UNCHANGED <<generation, closed, device, scopes, cacheVars, lease, calls>>

(* The operation of cacheVectorCandidates: four buffers, and the entry.     *)
Upload(c) ==
  /\ call[c].at = "working" /\ call[c].kind = "cache"
  /\ \/ /\ \E whole \in BOOLEAN :                          \* or it is out of memory
             /\ entries' = Append(entries, [key |-> call[c].key, gen |-> call[c].on, refs |-> 0,
                                            live |-> Standing(c), whole |-> whole])
             /\ Raise(Standing(c) /\ ~whole)
        /\ recency' = Append(recency, Len(entries) + 1)
        /\ Place(c, [call[c] EXCEPT !.at = "popping", !.entry = Len(entries) + 1])
     \/ Worked(c, FALSE, "lakeql") /\ UNCHANGED <<entries, recency, frames>>
  /\ UNCHANGED <<generation, closed, device, scopes, cached, residentBytes, reserved, openings, lease, calls>>

(* The scopes are popped; a lost device has nothing to report, or rejects.  *)
Pop(c) ==
  /\ call[c].at = "popping"
  /\ \/ /\ Standing(c) /\ frames # <<>>
        /\ Place(c, [call[c] EXCEPT !.at = "popped", !.caught = Last(frames)])
        /\ frames' = Front(frames)
     \/ /\ ~Standing(c)
        /\ \E failure \in {call[c].failure, IF call[c].failure = "none" THEN "other" ELSE call[c].failure} :
             Place(c, [call[c] EXCEPT !.at = "popped", !.failure = failure])
        /\ UNCHANGED frames
  /\ UNCHANGED <<generation, closed, device, scopes, cacheVars, lease, calls>>

(* A defect: what the error scopes report is not looked at. *)
HasFailedUncaught(c) == call[c].failure # "none"

HasFailed(c) == call[c].failure # "none" \/ call[c].caught

(* A failure may say that the device is lost before its handler has run.     *)
Replayable(c) == {call[c].on # generation} \cup {~Standing(c) /\ call[c].failure = "other"}

(* scoped settles and passes the scope on; a batch fragment that may be      *)
(* replayed is repeated on the CPU.                                         *)
Settle(c) ==
  /\ call[c].at = "popped"
  /\ \/ HasFailed(c) /\ ~call[c].caught /\ call[c].failure = "lakeql" /\ LeaveScope(c, "none")
     \/ /\ HasFailed(c) /\ (call[c].caught \/ call[c].failure # "lakeql")
        /\ \E replayable \in Replayable(c) :
             LeaveScope(c, IF replayable /\ call[c].kind = "batch" THEN "exact" ELSE "none")
     \/ /\ ~HasFailed(c) /\ call[c].kind # "cache"
        /\ LeaveScope(c, IF call[c].garbage THEN "garbage" ELSE "exact")
     \/ /\ ~HasFailed(c) /\ call[c].kind = "cache"
        /\ Place(c, [call[c] EXCEPT !.at = "caching"])
        /\ scopes' = RemoveFirst(scopes, c)
  /\ UNCHANGED <<deviceVars, cacheVars, lease, calls>>

-----------------------------------------------------------------------------
(* The cache, after the upload.                                            *)

(* A defect: the generation is not compared again. *)
IsOfTheDeviceStale(e) == ~closed

IsOfTheDevice(e) == ~closed /\ entries[e].gen = generation

(* The continuation of the upload: the entry is cached, without a reference, *)
(* or destroyed when the device has changed.                                *)
Cached(c) ==
  LET e == call[c].entry
      k == call[c].key IN
  /\ call[c].at = "caching"
  /\ \/ /\ IsOfTheDevice(e)
        /\ cached' = [cached EXCEPT ![k] = e]
        /\ residentBytes' = residentBytes + Bytes[k]
        /\ Place(c, [call[c] EXCEPT !.at = "cached"])
        /\ UNCHANGED entries
     \/ /\ ~IsOfTheDevice(e)
        /\ entries' = Destroyed({e})
        /\ Place(c, [call[c] EXCEPT !.at = "refused"])
        /\ UNCHANGED <<cached, residentBytes>>
  /\ UNCHANGED <<deviceVars, scopes, recency, reserved, openings, lease, calls>>

(* The caller resumes: the opening is over, whatever came of it, and so are  *)
(* the calls that joined it, which resume right after it.                   *)
Joiners(k) == {c \in Callers : call[c].at = "joining" /\ call[c].key = k}

Reservation(c) == reserved - Bytes[call[c].key]

Served(c) == call[c].at = "cached"
Finish(c) ==
  LET k == call[c].key
      leased == {d \in Joiners(k) \cup {c} : Served(c) /\ ~call[d].aborted}
      e == call[c].entry IN
  /\ call[c].at \in {"cached", "refused"}
  /\ openings' = [openings EXCEPT ![k] = NoOne]
  /\ reserved' = Reservation(c)
  /\ entries' = IF leased = {} THEN entries ELSE [entries EXCEPT ![e].refs = @ + Cardinality(leased)]
  /\ recency' = IF leased = {} THEN recency ELSE Touch(e)
  /\ lease' = [d \in Callers |-> IF d \in leased THEN e ELSE lease[d]]
  /\ call' = [d \in Callers |->
       IF d \notin Joiners(k) \cup {c} THEN call[d]
       ELSE Idle("none")]
  /\ UNCHANGED <<deviceVars, scopes, cached, residentBytes, calls>>

-----------------------------------------------------------------------------
(* The device and the owner of the backend.                                *)

(* The device is lost; its buffers are gone with it.                        *)
LoseDevice ==
  /\ device = "up" /\ generation < MaxGeneration
  /\ device' = "lost"
  /\ entries' = Destroyed({e \in DOMAIN entries : entries[e].gen = generation})
  /\ UNCHANGED <<generation, closed, frames, scopes, recency, cached, residentBytes, reserved, openings,
                 call, lease, calls>>

Emptied == cached' = [k \in Keys |-> None] /\ residentBytes' = 0

(* The lost handler: a new generation, and the listener empties the caches.  *)
LostHandled ==
  /\ device = "lost"
  /\ device' = "none" /\ generation' = generation + 1
  /\ Emptied
  /\ UNCHANGED <<closed, frames, scopes, entries, recency, reserved, openings, call, lease, calls>>

(* close() of the backend.                                                 *)
Close ==
  /\ ~closed
  /\ closed' = TRUE
  /\ device' = "none" /\ generation' = generation + 1
  /\ entries' = Destroyed({e \in DOMAIN entries : device # "none" /\ entries[e].gen = generation})
  /\ Emptied
  /\ UNCHANGED <<frames, scopes, recency, reserved, openings, call, lease, calls>>

-----------------------------------------------------------------------------
(* Waits that end: the scope's, the GPU's promises, and microtasks.         *)
Resume(c) ==
  WaitAborted(c) \/ Enter(c) \/ Opened(c) \/ Execute(c) \/ Upload(c) \/ Pop(c) \/ Settle(c)
    \/ Cached(c) \/ Finish(c)

Next ==
  \/ \E c \in Callers :
       \/ StartBatch(c) \/ StartResident(c) \/ Release(c) \/ Abort(c)
       \/ \E k \in Keys : StartCache(c, k)
       \/ Resume(c)
  \/ LoseDevice \/ LostHandled \/ Close

Spec == Init /\ [][Next]_vars /\ \A c \in Callers : WF_vars(Resume(c))

-----------------------------------------------------------------------------
Places == {"idle", "queued", "joining", "opening", "working", "popping", "popped", "caching", "cached", "refused"}

Entry == [key : Keys, gen : Nat, refs : Nat, live : BOOLEAN, whole : BOOLEAN]
Call == [at : Places, kind : {"none", "batch", "resident", "cache", "join"}, key : Keys \cup {NoOne},
         entry : Nat, on : Nat, garbage : BOOLEAN, failure : {"none", "other", "lakeql"},
         caught : BOOLEAN, aborted : BOOLEAN, outcome : {"none", "exact", "garbage"}]

(* The type of the state.                                                  *)
TypeOK ==
  /\ generation \in Nat /\ closed \in BOOLEAN /\ device \in {"none", "up", "lost"}
  /\ scopes \in Seq(Callers) /\ frames \in Seq(BOOLEAN)
  /\ entries \in Seq(Entry) /\ recency \in Seq(DOMAIN entries)
  /\ cached \in [Keys -> {None} \cup DOMAIN entries] /\ openings \in [Keys -> Callers \cup {NoOne}]
  /\ residentBytes \in Int /\ reserved \in Int /\ calls \in Nat
  /\ call \in [Callers -> Call] /\ lease \in [Callers -> {None} \cup DOMAIN entries]

(* Words read back from buffers that were destroyed, lost, or of another     *)
(* device are never handed out as the result of a fragment while the device  *)
(* they were read from stands: the lease was checked before the wait for the *)
(* scope, so it is the error scopes, popped by the operation that pushed     *)
(* them, that keep them back ("Stale resident descriptors fail instead of    *)
(* reading unrelated allocations", docs/webgpu.md:117).                      *)
ResultsAreExact ==
  [][\A c \in Callers :
       call[c].at = "popped" /\ call'[c].at = "idle" /\ call'[c].outcome = "garbage" => ~Standing(c)]_vars

(* What is cached and what is being uploaded fit in maxResidentBytes         *)
(* together, however the uploads, evictions and losses interleave.           *)
InFlight == {k \in Keys : openings[k] # NoOne /\ call[openings[k]].at # "cached"}
ResidencyIsBounded ==
  BytesOf(CachedKeys) + BytesOf(InFlight) <= MaxResidentBytes

(* residentBytes and residentReservedBytes are the bytes of the entries and  *)
(* of the openings there are, after any failure.                            *)
BytesAreCounted ==
  /\ residentBytes = BytesOf(CachedKeys)
  /\ reserved = BytesOf({k \in Keys : openings[k] # NoOne})

(* The cache holds nothing of a device that is gone: an entry uploaded while *)
(* the device was lost and replaced is not cached under the new one.        *)
CacheIsOfTheDevice ==
  \A k \in CachedKeys :
    LET entry == entries[cached[k]] IN entry.gen = generation /\ (device = "up" => entry.live)

(* An entry somebody leases is destroyed by the loss of the device or by     *)
(* close, never to make room ("Active leases are never evicted",             *)
(* docs/webgpu.md).                                                         *)
LeasesPin ==
  [][\A c \in Callers : lease[c] # None /\ lease'[c] = lease[c] /\ entries[lease[c]].live =>
       entries'[lease[c]].live \/ device' # "up"]_vars

(* Every call ends: a waiter that was aborted, an open that failed and a lost *)
(* device pass the scope on.                                                *)
EveryCallSettles == \A c \in Callers : call[c].at # "idle" ~> call[c].at = "idle"
=============================================================================
