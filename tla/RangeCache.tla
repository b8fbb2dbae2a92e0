------------------------------ MODULE RangeCache ------------------------------
(***************************************************************************)
(* cachedRangeBuffer of packages/parquet/src/range-cache.ts over the store   *)
(* buffer of store-buffer.ts: ranged reads of one Parquet file.            *)
(*                                                                         *)
(* A buffer is opened by a head and knows the file by its etag.  Its slices  *)
(* widen small requests to aligned windows, look them up in the cache, and   *)
(* share the read that is under way for a window.  Buffers share the cache   *)
(* and not the reads; with a private cache there is one buffer.  The reads   *)
(* are not conditional, and the file may be rewritten at any moment.        *)
(*                                                                         *)
(* The ranges of a file all have one priority, so the shared cache evicts    *)
(* the least recently used, as the private one does.                       *)
(***************************************************************************)
EXTENDS Integers, SequencesExt

CONSTANTS Buffer,         \* open buffers of the file
          Slice,          \* calls of slice, each on a buffer
          Request,        \* the ranges that are asked for
          FileLength,     \* byteLength, of every version of the file
          CoalesceBytes, MaxEntryBytes, MaxBytes,   \* RangeCacheOptions
          MaxVersion      \* bound: the last version of the file

ByteRange == [start : Nat, end : Nat]

ASSUME SizesAssumption ==
  /\ FileLength \in Nat /\ CoalesceBytes \in Nat /\ MaxVersion \in Nat
  /\ MaxEntryBytes \in Nat \ {0} /\ MaxBytes \in Nat \ {0}
ASSUME RequestsAssumption == Request \in SUBSET ByteRange

VARIABLES version,   \* the version of the file in the store, and its etag
          etag,      \* of each buffer: what its head saw
          cache,     \* the entries, least recently used first
          bytes,     \* cachedBytes
          pending,   \* of each buffer: the windows of its pending map
          call       \* each slice

vars == <<version, etag, cache, bytes, pending, call>>

Version == 0..MaxVersion

Smaller(a, b) == IF a <= b THEN a ELSE b
Larger(a, b) == IF a >= b THEN a ELSE b

(* A sharedRangeKey, and an entry: the version its bytes are of.            *)
Key == [etag : Version, start : Nat, end : Nat]
Entry == [key : Key, data : Version]

(* reading: the store has the request; read: it has served it and the        *)
(* continuation has not run; sharing: another call's read is awaited.  data  *)
(* is the version of the bytes, from and to are what the call got of them,   *)
(* and etag is what the head of its buffer saw.                             *)
Active == [pc : {"reading", "read", "sharing"}, buffer : Buffer, request : Request, key : Key,
           reader : Slice, data : Version]
Answer == [pc : {"resolved"}, request : Request, etag : Version, data : Version, from : Nat, to : Nat]

(* A call that has not been made, or was rejected.                          *)
Idle == [pc |-> "idle"]

InFlight(c) == call[c].pc \in {"reading", "read"}
Settled(c) == call[c].pc \in {"idle", "resolved"}

-----------------------------------------------------------------------------
(* coalescedRange *)

(* A defect: a request that reaches past its window is cut. *)
CoalescedShort(r) ==
  LET start == (r.start \div CoalesceBytes) * CoalesceBytes
  IN  IF CoalesceBytes = 0 \/ r.end - r.start >= CoalesceBytes THEN r
      ELSE [start |-> start, end |-> Smaller(FileLength, start + CoalesceBytes)]

(* The request, clipped to the file.                                        *)
Clipped(r) == [start |-> r.start, end |-> Smaller(FileLength, Larger(r.start, r.end))]

(* The window that starts at the multiple of CoalesceBytes before r.        *)
Window(r) ==
  LET start == (r.start \div CoalesceBytes) * CoalesceBytes
  IN  [start |-> start, end |-> Smaller(FileLength, start + CoalesceBytes)]

Coalesced(r) ==
  IF /\ CoalesceBytes > 0
     /\ Clipped(r).end - r.start < CoalesceBytes
     /\ Clipped(r).end <= Window(r).end
  THEN Window(r) ELSE Clipped(r)

-----------------------------------------------------------------------------
(* The cache *)

SizeOf(key) == key.end - key.start

TotalOf(entries) == FoldLeft(LAMBDA sum, e : sum + SizeOf(e.key), 0, entries)

(* A defect: the key of a file's range does not hold its etag. *)
KeyOfPath(b, r) == [etag |-> 0, start |-> Coalesced(r).start, end |-> Coalesced(r).end]

KeyOf(b, r) == [etag |-> etag[b], start |-> Coalesced(r).start, end |-> Coalesced(r).end]

Cached(key) == \E i \in DOMAIN cache : cache[i].key = key

Without(key) ==
  IF Cached(key) THEN RemoveAt(cache, CHOOSE i \in DOMAIN cache : cache[i].key = key)
  ELSE cache

(* A defect: an entry that is replaced is not given back. *)
RetainTwice(e) ==
  LET entries == Append(Without(e.key), e)
      total == bytes + SizeOf(e.key)
      Fits(n) == total - TotalOf(SubSeq(entries, 1, n)) <= MaxBytes
  IN  \E n \in 0..Len(entries) :
        /\ Fits(n) \/ n = Len(entries)
        /\ \A m \in 0..(n - 1) : ~Fits(m)
        /\ cache' = SubSeq(entries, n + 1, Len(entries))
        /\ bytes' = total - TotalOf(SubSeq(entries, 1, n))

(* SharedMemoryCache.set: an entry that is there is given back, and the      *)
(* least recently used are evicted until the bytes fit.                     *)
Retain(e) ==
  LET entries == Append(Without(e.key), e)
      total == bytes + SizeOf(e.key) - (IF Cached(e.key) THEN SizeOf(e.key) ELSE 0)
      Fits(n) == total - TotalOf(SubSeq(entries, 1, n)) <= MaxBytes
  IN  \E n \in 0..Len(entries) :
        /\ Fits(n) \/ n = Len(entries)
        /\ \A m \in 0..(n - 1) : ~Fits(m)
        /\ cache' = SubSeq(entries, n + 1, Len(entries))
        /\ bytes' = total - TotalOf(SubSeq(entries, 1, n))

-----------------------------------------------------------------------------
(* slice *)

(* sliceBuffer: what a request gets of the bytes of its window.             *)
Answered(b, r, key, data) ==
  [pc |-> "resolved", request |-> r, etag |-> etag[b], data |-> data,
   from |-> Larger(key.start, r.start), to |-> Smaller(key.end, r.end)]

Asked(pc, b, r, d) ==
  [pc |-> pc, buffer |-> b, request |-> r, key |-> KeyOf(b, r), reader |-> d, data |-> 0]

(* The call up to its first await: a cached window answers and is the most    *)
(* recently used, a window that is being read is awaited, else it is read.  *)
Hit(c, b, r) ==
  /\ Settled(c)
  /\ \E i \in DOMAIN cache :
       /\ cache[i].key = KeyOf(b, r)
       /\ cache' = Append(RemoveAt(cache, i), cache[i])
       /\ call' = [call EXCEPT ![c] = Answered(b, r, KeyOf(b, r), cache[i].data)]
  /\ UNCHANGED <<version, etag, bytes, pending>>

Share(c, b, r) ==
  /\ Settled(c)
  /\ ~Cached(KeyOf(b, r)) /\ KeyOf(b, r) \in pending[b]
  /\ \E d \in Slice :
       /\ InFlight(d) /\ call[d].buffer = b /\ call[d].key = KeyOf(b, r)
       /\ call' = [call EXCEPT ![c] = Asked("sharing", b, r, d)]
  /\ UNCHANGED <<version, etag, cache, bytes, pending>>

Read(c, b, r) ==
  /\ Settled(c)
  /\ ~Cached(KeyOf(b, r)) /\ KeyOf(b, r) \notin pending[b]
  /\ pending' = [pending EXCEPT ![b] = @ \cup {KeyOf(b, r)}]
  /\ call' = [call EXCEPT ![c] = Asked("reading", b, r, c)]
  /\ UNCHANGED <<version, etag, cache, bytes>>

(* getRange is served: of whatever version the store has now.               *)
Serve(c) ==
  /\ call[c].pc = "reading"
  /\ call' = [call EXCEPT ![c].pc = "read", ![c].data = version]
  /\ UNCHANGED <<version, etag, cache, bytes, pending>>

Forget(c) == pending' = [pending EXCEPT ![call[c].buffer] = @ \ {call[c].key}]

(* Those who share a read settle with it.                                   *)
Sharers(c) == {d \in Slice : call[d].pc = "sharing" /\ call[d].reader = c}

(* The continuation of the read: it is no longer pending, its bytes are       *)
(* kept if they may be, and it answers the call and those who share it.     *)
Arrive(c) ==
  /\ call[c].pc = "read"
  /\ Forget(c)
  /\ IF SizeOf(call[c].key) <= Smaller(MaxEntryBytes, MaxBytes)
     THEN Retain([key |-> call[c].key, data |-> call[c].data])
     ELSE UNCHANGED <<cache, bytes>>
  /\ call' = [d \in Slice |->
       IF d = c \/ d \in Sharers(c)
       THEN Answered(call[d].buffer, call[d].request, call[d].key, call[c].data)
       ELSE call[d]]
  /\ UNCHANGED <<version, etag>>

(* A defect: a read that failed stays in the pending map. *)
FailPending(c) ==
  /\ call[c].pc = "reading"
  /\ call' = [d \in Slice |-> IF d = c \/ d \in Sharers(c) THEN Idle ELSE call[d]]
  /\ UNCHANGED <<version, etag, cache, bytes, pending>>

(* The read fails, is aborted, or is over the read budget and not issued.   *)
Fail(c) ==
  /\ call[c].pc = "reading"
  /\ Forget(c)
  /\ call' = [d \in Slice |-> IF d = c \/ d \in Sharers(c) THEN Idle ELSE call[d]]
  /\ UNCHANGED <<version, etag, cache, bytes>>

-----------------------------------------------------------------------------
(* The file is rewritten by another process.                                *)
Rewrite ==
  /\ version < MaxVersion
  /\ version' = version + 1
  /\ UNCHANGED <<etag, cache, bytes, pending, call>>

(* A scan opens a buffer of its own: head, and an empty pending map.        *)
Open(b) ==
  /\ \A c \in Slice : ~Settled(c) => call[c].buffer # b
  /\ etag[b] # version
  /\ etag' = [etag EXCEPT ![b] = version]
  /\ pending' = [pending EXCEPT ![b] = {}]
  /\ UNCHANGED <<version, cache, bytes, call>>

Init ==
  /\ version = 0
  /\ etag = [b \in Buffer |-> 0]
  /\ cache = <<>> /\ bytes = 0
  /\ pending = [b \in Buffer |-> {}]
  /\ call = [c \in Slice |-> Idle]

Next ==
  \/ Rewrite
  \/ \E b \in Buffer : Open(b)
  \/ \E c \in Slice : Serve(c) \/ Arrive(c) \/ Fail(c)
  \/ \E c \in Slice, b \in Buffer, r \in Request : Hit(c, b, r) \/ Share(c, b, r) \/ Read(c, b, r)

Spec == Init /\ [][Next]_vars

-----------------------------------------------------------------------------
(* Properties *)

(* Every variable has its type. *)
TypeOK ==
  /\ version \in Version
  /\ etag \in [Buffer -> Version]
  /\ cache \in Seq(Entry) /\ bytes \in Nat
  /\ pending \in [Buffer -> SUBSET Key]
  /\ call \in [Slice -> {Idle} \cup Active \cup Answer]

(* The bytes are those of the entries, within the budget, and no window is   *)
(* kept twice, also when two buffers have read it at once.                  *)
BytesAreCounted ==
  /\ bytes = TotalOf(cache) /\ bytes <= MaxBytes
  /\ \A i, j \in DOMAIN cache : cache[i].key = cache[j].key => i = j

(* A buffer reads a window once at a time, what is pending is being read, and *)
(* who shares a read shares one of its own window that is still to settle:   *)
(* after a failure the window can be asked for again.                       *)
OneReadPerWindow ==
  /\ \A b \in Buffer : pending[b] = {call[c].key : c \in {d \in Slice : InFlight(d) /\ call[d].buffer = b}}
  /\ \A c, d \in Slice : InFlight(c) /\ InFlight(d) =>
       c = d \/ call[c].buffer # call[d].buffer \/ call[c].key # call[d].key
  /\ \A c \in Slice : call[c].pc = "sharing" =>
       /\ InFlight(call[c].reader)
       /\ call[call[c].reader].buffer = call[c].buffer /\ call[call[c].reader].key = call[c].key

(* A slice gets the bytes it asked for, up to the end of the file, whatever   *)
(* window they came in.                                                     *)
AnswersAreExact ==
  \A c \in Slice : call[c].pc = "resolved" =>
    /\ call[c].from = call[c].request.start
    /\ call[c].to = Smaller(FileLength, call[c].request.end)

(* A reader whose head saw the version the store still has gets no other,     *)
(* whoever filled the cache, and before or after which rewrite.             *)
CurrentReadersAreCurrent ==
  \A c \in Slice : call[c].pc = "resolved" /\ call[c].etag = version => call[c].data = version
=============================================================================
