----------------------------- MODULE ObjectCache -----------------------------
(***************************************************************************)
(* cachedObjectStore over SharedMemoryCache, packages/core/src/             *)
(* object-store-cache.ts: a read-through cache in front of an object store. *)
(*                                                                         *)
(* A read that misses awaits the inner store and then fills the cache; a    *)
(* put or delete invalidates, awaits the inner store and invalidates again. *)
(* What an object holds is abstracted to its version: how many puts and     *)
(* deletes of its path have taken effect.  The cache is the Map of the code: *)
(* entries in insertion order, the least recently used first.              *)
(***************************************************************************)
EXTENDS Integers, SequencesExt

CONSTANTS Path,
          Client,       \* callers of the cached store, one operation at a time
          SizeOf,       \* bytes cached of each kind and version of an object
          PriorityOf,   \* objectCachePriority under the cache's policy
          MaxBytes,     \* maxBytes
          MaxVersion    \* bound: puts and deletes that take effect per path

Kind == {"object", "range", "head"}

Version == 0..MaxVersion

ASSUME SizesAssumption ==
  /\ SizeOf \in [Kind -> [Version -> Nat]]
  /\ \A v \in Version : SizeOf["head"][v] = 0
  /\ PriorityOf \in [Kind -> Nat]
  /\ MaxBytes \in Nat /\ MaxVersion \in Nat
ASSUME PathsAssumption == Path # {}

VARIABLES version,     \* the inner store
          entries,     \* SharedMemoryCache.entries
          cachedBytes, \* SharedMemoryCache.cachedBytes
          op,          \* the operation each client runs
          unsure       \* history: paths with a put that threw

cacheVars == <<version, entries, cachedBytes, op, unsure>>

(* overtaken is history: the path changed between the inner read and the    *)
(* fill.                                                                    *)
Entry == [path: Path, kind: Kind, version: Version, overtaken: BOOLEAN]

Phases == {"idle", "reading", "read", "writing", "written"}

Op == [pc: Phases, path: Path, kind: Kind, version: Version]

(* No read and no write is under way. *)
Idle == [pc |-> "idle", path |-> CHOOSE p \in Path : TRUE, kind |-> "head", version |-> 0]

-----------------------------------------------------------------------------
(* SharedMemoryCache *)

Bytes(e) == SizeOf[e.kind][e.version]

BytesOf(es) == MapThenSumSet(Bytes, es)

SameKey(e, p, k) == e.path = p /\ e.kind = k

Cached(p, k) == {e \in ToSet(entries) : SameKey(e, p, k)}

(* What is left of a Map, in its order, when some entries are deleted.       *)
Without(es, dropped) ==
  LET kept[n \in 0..Len(es)] ==
        IF n = 0 THEN <<>>
        ELSE IF es[n] \in dropped THEN kept[n - 1] ELSE Append(kept[n - 1], es[n])
  IN  kept[Len(es)]

(* A defect: the newest entry goes first. *)
GoesBeforeNewest(es, i, j) ==
  \/ PriorityOf[es[i].kind] < PriorityOf[es[j].kind]
  \/ PriorityOf[es[i].kind] = PriorityOf[es[j].kind] /\ i > j

(* evict drops, while the bytes exceed maxBytes, the first entry of the      *)
(* lowest priority.  So an entry goes exactly if it and all that would go   *)
(* after it are too much.                                                   *)
GoesBefore(es, i, j) ==
  \/ PriorityOf[es[i].kind] < PriorityOf[es[j].kind]
  \/ PriorityOf[es[i].kind] = PriorityOf[es[j].kind] /\ i < j

Goes(es, i) ==
  BytesOf({es[j] : j \in {j \in DOMAIN es : j = i \/ GoesBefore(es, i, j)}}) > MaxBytes

EvictedFrom(es) == {es[i] : i \in {i \in DOMAIN es : Goes(es, i)}}

(* A defect: the bytes of the replaced entry stay counted. *)
SetUncounted(e) ==
  LET old == Cached(e.path, e.kind)
      new == Append(Without(entries, old), e)
      gone == EvictedFrom(new)
  IN  /\ entries' = Without(new, gone)
      /\ cachedBytes' = cachedBytes + Bytes(e) - BytesOf(gone)

(* set: a value larger than the cache leaves the cache as it is, also an    *)
(* older value under its key.                                               *)
Set(e) ==
  IF Bytes(e) > MaxBytes THEN UNCHANGED <<entries, cachedBytes>>
  ELSE LET old == Cached(e.path, e.kind)
           new == Append(Without(entries, old), e)
           gone == EvictedFrom(new)
       IN  /\ entries' = Without(new, gone)
           /\ cachedBytes' = cachedBytes - BytesOf(old) + Bytes(e) - BytesOf(gone)

Delete(gone) ==
  /\ entries' = Without(entries, gone)
  /\ cachedBytes' = cachedBytes - BytesOf(gone)

-----------------------------------------------------------------------------
(* cachedObjectStore: get, getRange and head *)

(* A hit moves the entry to the end of the Map. *)
Hit(c, p, k) ==
  /\ op[c].pc = "idle"
  /\ \E e \in Cached(p, k) : entries' = Append(Without(entries, {e}), e)
  /\ UNCHANGED <<version, cachedBytes, op, unsure>>

(* A miss: no entry, or one whose ttl has passed, which is deleted.         *)
Miss(c, p, k) ==
  /\ op[c].pc = "idle"
  /\ Delete(Cached(p, k))
  /\ op' = [op EXCEPT ![c] = [Idle EXCEPT !.pc = "reading", !.path = p, !.kind = k]]
  /\ UNCHANGED <<version, unsure>>

(* The inner store reads the object. *)
InnerRead(c) ==
  /\ op[c].pc = "reading"
  /\ op' = [op EXCEPT ![c].pc = "read", ![c].version = version[op[c].path]]
  /\ UNCHANGED <<version, entries, cachedBytes, unsure>>

(* The inner store fails: nothing is cached. *)
InnerReadFails(c) ==
  /\ op[c].pc = "reading"
  /\ op' = [op EXCEPT ![c] = Idle]
  /\ UNCHANGED <<version, entries, cachedBytes, unsure>>

Filling(c) ==
  [path |-> op[c].path, kind |-> op[c].kind, version |-> op[c].version,
   overtaken |-> op[c].version # version[op[c].path]]

(* What follows the inner read's await: the value is cached and returned.   *)
Fill(c) ==
  /\ op[c].pc = "read"
  /\ Set(Filling(c))
  /\ op' = [op EXCEPT ![c] = Idle]
  /\ UNCHANGED <<version, unsure>>

-----------------------------------------------------------------------------
(* cachedObjectStore: put and delete *)

OfPath(p) == {e \in ToSet(entries) : e.path = p}

Write(c, p) ==
  /\ op[c].pc = "idle"
  /\ Delete(OfPath(p))
  /\ op' = [op EXCEPT ![c] = [Idle EXCEPT !.pc = "writing", !.path = p]]
  /\ UNCHANGED <<version, unsure>>

(* The inner put or delete takes effect. *)
InnerWrite(c) ==
  /\ op[c].pc = "writing" /\ version[op[c].path] < MaxVersion
  /\ version' = [version EXCEPT ![op[c].path] = @ + 1]
  /\ op' = [op EXCEPT ![c].pc = "written"]
  /\ UNCHANGED <<entries, cachedBytes, unsure>>

(* It throws, before it took effect or after: no second invalidation.       *)
InnerWriteFails(c) ==
  /\ op[c].pc \in {"writing", "written"}
  /\ unsure' = IF op[c].pc = "written" THEN unsure \cup {op[c].path} ELSE unsure
  /\ op' = [op EXCEPT ![c] = Idle]
  /\ UNCHANGED <<version, entries, cachedBytes>>

(* A defect: the path is invalidated before the inner put only. *)
WrittenOnce(c) ==
  /\ op[c].pc = "written"
  /\ op' = [op EXCEPT ![c] = Idle]
  /\ UNCHANGED <<version, entries, cachedBytes, unsure>>

(* What follows the inner store's await. *)
Written(c) ==
  /\ op[c].pc = "written"
  /\ Delete(OfPath(op[c].path))
  /\ op' = [op EXCEPT ![c] = Idle]
  /\ UNCHANGED <<version, unsure>>

-----------------------------------------------------------------------------
CacheInit ==
  /\ version = [p \in Path |-> 0]
  /\ entries = <<>> /\ cachedBytes = 0
  /\ op = [c \in Client |-> Idle]
  /\ unsure = {}

CacheNext == \E c \in Client :
  \/ \E p \in Path, k \in Kind : Hit(c, p, k) \/ Miss(c, p, k)
  \/ \E p \in Path : Write(c, p)
  \/ InnerRead(c) \/ InnerReadFails(c) \/ Fill(c)
  \/ InnerWrite(c) \/ InnerWriteFails(c) \/ Written(c)

CacheSpec == CacheInit /\ [][CacheNext]_cacheVars

-----------------------------------------------------------------------------
(* Properties *)

(* Every variable has its type, and no key has two entries. *)
CacheTypeOK ==
  /\ version \in [Path -> Version]
  /\ entries \in Seq(Entry)
  /\ \A i, j \in DOMAIN entries :
       i # j => ~SameKey(entries[i], entries[j].path, entries[j].kind)
  /\ cachedBytes \in Int
  /\ op \in [Client -> Op]
  /\ unsure \in SUBSET Path

(* The count of the cached bytes is what the entries hold, and within the   *)
(* budget, whatever fills, replacements, evictions and invalidations have   *)
(* interleaved.                                                             *)
BytesAreCounted ==
  /\ cachedBytes = BytesOf(ToSet(entries))
  /\ cachedBytes <= MaxBytes

(* An entry is stale only while a write of its path awaits its second       *)
(* invalidation, or if the path changed between its own inner read and its   *)
(* fill, or if a write of the path threw after it took effect.              *)
StaleIsExplained ==
  \A e \in ToSet(entries) : e.version # version[e.path] =>
    \/ e.overtaken \/ e.path \in unsure
    \/ \E c \in Client : op[c].pc = "written" /\ op[c].path = e.path

(* A fill makes room by priority and then by age: an entry it drops, the new  *)
(* value included, is of lower priority than every entry it keeps, or of the *)
(* same priority and longer unused; and it drops no entry it had room for.  *)
EvictsFairly ==
  \A c \in Client : op[c].pc = "read" /\ op'[c].pc = "idle" =>
    LET kept == ToSet(entries')
        offered == Append(Without(entries, Cached(op[c].path, op[c].kind)), Filling(c))
        dropped == {i \in DOMAIN offered : offered[i] \notin kept}
    IN  Bytes(Filling(c)) <= MaxBytes /\ dropped # {} =>
          /\ \A i \in dropped, j \in DOMAIN offered \ dropped : GoesBefore(offered, i, j)
          /\ \E i \in dropped : BytesOf(kept) + Bytes(offered[i]) > MaxBytes

FillsEvictFairly == [][EvictsFairly]_cacheVars
=============================================================================
