------------------------- MODULE WebGpuBackendProofs -------------------------
(***************************************************************************)
(* Proofs about WebGpuBackend, for any finite sets of callers and of blocks, *)
(* any sizes and capacity, and any number of devices and of calls.          *)
(***************************************************************************)
EXTENDS WebGpuBackend, SumsAndFolds, SequenceTheorems

(* The scope is held by one call at a time, the first of the queue.          *)
Holding == {"opening", "working", "popping", "popped"}
First(c) == scopes # <<>> /\ Head(scopes) = c
Among(c, s) == \E i \in DOMAIN s : s[i] = c
Turn(c, r) ==
  /\ r.at \in Holding => First(c)
  /\ r.at = "queued" => Among(c, scopes)
  /\ r.at = "opening" => device = "none"
TurnsAreTaken == \A c \in Callers : Turn(c, call[c])

(* The error scope of the operation is the last, until it is popped; words   *)
(* that are not exact have left an error in it.                             *)
Kept(r) ==
  /\ r.at \in {"working", "popping"} => frames # <<>>
  /\ r.garbage => r.at \in {"popping", "popped"} /\ r.kind # "cache"
  /\ r.garbage /\ r.at = "popping" => frames[Len(frames)]
  /\ r.garbage /\ r.at = "popped" => r.caught \/ device # "up" \/ r.on # generation
ErrorsAreKept == \A c \in Callers : Kept(call[c])

(* A device that is gone has a generation that is over.                     *)
Past(gen) == gen <= generation /\ (device = "none" => gen < generation)
GenerationsPass ==
  /\ \A e \in DOMAIN entries : Past(entries[e].gen)
  /\ \A c \in Callers : call[c].at = "working" => Past(call[c].on)

(* What each kind of call has, at each place.                               *)
Shape(c, r) ==
  /\ r.at = "idle" => r.kind = "none"
  /\ r.at = "joining" => r.kind = "join"
  /\ r.at \in {"caching", "cached", "refused"} => r.kind = "cache"
  /\ r.at \in {"caching", "cached"} => r.entry # None
  /\ r.at \in {"popping", "popped"} /\ r.kind = "cache" /\ r.failure = "none" => r.entry # None
  /\ r.kind = "cache" /\ r.entry # None => r.entry \in DOMAIN entries /\ r.at \notin {"queued", "opening", "working"}
  /\ r.kind \in {"cache", "join"} => r.key \in Keys /\ lease[c] = None
CallsAreShaped == \A c \in Callers : Shape(c, call[c])

(* An upload that is not cached yet is nobody else's: no key leads to it and  *)
(* nobody leases it.                                                        *)
Uploaded(r) == r.kind = "cache" /\ r.entry # None
Pending(r) == Uploaded(r) /\ r.at \in {"popping", "popped", "caching"}
Own(r) ==
  /\ entries[r.entry].key = r.key
  /\ entries[r.entry].gen = generation /\ device = "up" => entries[r.entry].live
  /\ \A k \in Keys : cached[k] # r.entry
  /\ \A d \in Callers : lease[d] # r.entry
UploadsAreOwned ==
  /\ \A c, d \in Callers :
       Uploaded(call[c]) /\ Uploaded(call[d]) /\ c # d => call[c].entry # call[d].entry
  /\ \A c \in Callers : Pending(call[c]) => Own(call[c])

(* A key leads to its own block.                                            *)
CacheIsKeyed == \A k \in CachedKeys : entries[cached[k]].key = k

(* A key is opened by one call, and is not cached while it is opened.        *)
OpeningsAreCalls ==
  /\ \A k \in Keys : openings[k] # NoOne => call[openings[k]].kind = "cache" /\ call[openings[k]].key = k
  /\ \A c \in Callers : call[c].kind = "cache" => openings[call[c].key] = c
  /\ \A k \in InFlight : cached[k] = None

(* references is the number of callers that lease the entry.                *)
Lessees(e) == {c \in Callers : lease[c] = e}
RefsCountLessees == \A e \in DOMAIN entries : entries[e].refs = Cardinality(Lessees(e))

(* The parts about the calls and the scope, and those about the cache.       *)
ScopeInv == TypeOK /\ TurnsAreTaken /\ ErrorsAreKept
CacheInv ==
  /\ GenerationsPass /\ CallsAreShaped /\ UploadsAreOwned
  /\ CacheIsKeyed /\ CacheIsOfTheDevice /\ OpeningsAreCalls /\ RefsCountLessees
IInv == ScopeInv /\ CacheInv
-----------------------------------------------------------------------------
(* The queue of scopes, when a call joins it or leaves it.                  *)

LEMMA Joined ==
  ASSUME NEW s \in Seq(Callers), NEW c \in Callers
  PROVE  /\ Append(s, c) \in Seq(Callers) /\ Append(s, c) # <<>>
         /\ Among(c, Append(s, c))
         /\ \A d \in Callers : Among(d, s) => Among(d, Append(s, c))
         /\ s # <<>> => Head(Append(s, c)) = Head(s)
<1> DEFINE t == Append(s, c)
<1>1. /\ t \in Seq(Callers) /\ Len(t) = Len(s) + 1 /\ t[Len(t)] = c /\ Len(s) \in Nat
      /\ \A i \in 1..Len(s) : t[i] = s[i]
      /\ DOMAIN t = 1..Len(t) /\ DOMAIN s = 1..Len(s)
  OBVIOUS
<1>2. t # <<>> /\ Among(c, t)
  BY <1>1 DEF Among
<1>3. \A d \in Callers : Among(d, s) => Among(d, t)
  BY <1>1 DEF Among
<1>4. s # <<>> => Head(t) = Head(s)
  BY <1>1
<1> QED BY <1>1, <1>2, <1>3, <1>4

(* The least of a set of naturals is in it.                                 *)
LEMMA FirstOf ==
  ASSUME NEW T, T \subseteq Nat, T # {}
  PROVE  Min(T) \in T /\ \A n \in T : Min(T) <= n
BY LeastNatural DEF Min

(* What is left of a sequence without the first c in it.                    *)
LEMMA WithoutFirst ==
  ASSUME NEW S, NEW s \in Seq(S), NEW c
  PROVE  /\ RemoveFirst(s, c) \in Seq(S)
         /\ \A d \in S \ {c} : Among(d, s) => Among(d, RemoveFirst(s, c))
         /\ s # <<>> /\ Head(s) # c => RemoveFirst(s, c) # <<>> /\ Head(RemoveFirst(s, c)) = Head(s)
<1> DEFINE n == Len(s)
           I == {i \in 1..n : s[i] = c}
           m == Min(I)
<1>1. n \in Nat /\ DOMAIN s = 1..n /\ \A i \in 1..n : s[i] \in S
  OBVIOUS
<1>2. CASE I = {}
  <2>1. RemoveFirst(s, c) = s
    BY <1>2 DEF RemoveFirst
  <2> QED BY <2>1
<1>3. CASE I # {}
  <2> DEFINE left == SubSeq(s, 1, m - 1)
             right == SubSeq(s, m + 1, n)
  <2>1. RemoveFirst(s, c) = left \o right
    BY <1>3 DEF RemoveFirst, RemoveAt, SelectInSeq
  <2>2. m \in I
    <3>1. I \subseteq Nat
      BY <1>1
    <3> HIDE DEF I
    <3> QED BY <1>3, <3>1, FirstOf
  <2>3. m \in 1..n /\ s[m] = c
    BY <2>2
  <2> HIDE DEF m
  <2>4. /\ left \in Seq(S) /\ Len(left) = m - 1
        /\ \A i \in 1..(m - 1) : left[i] = s[i]
    <3>1. /\ 1 \in Int /\ m - 1 \in Int
          /\ \A i \in 1..(m - 1) : s[i] \in S
      BY <1>1, <2>3
    <3>2. /\ left \in Seq(S)
          /\ Len(left) = IF 1 <= m - 1 THEN (m - 1) - 1 + 1 ELSE 0
          /\ \A i \in 1..((m - 1) - 1 + 1) : left[i] = s[1 + i - 1]
      BY <3>1, SubSeqProperties
    <3> HIDE DEF left
    <3> QED BY <2>3, <3>2
  <2>5. /\ right \in Seq(S) /\ Len(right) = n - m
        /\ \A i \in 1..(n - m) : right[i] = s[m + i]
    <3>1. /\ n \in Int /\ m + 1 \in Int
          /\ \A i \in (m + 1)..n : s[i] \in S
      BY <1>1, <2>3
    <3>2. /\ right \in Seq(S)
          /\ Len(right) = IF m + 1 <= n THEN n - (m + 1) + 1 ELSE 0
          /\ \A i \in 1..(n - (m + 1) + 1) : right[i] = s[(m + 1) + i - 1]
      BY <3>1, SubSeqProperties
    <3> HIDE DEF right
    <3> HIDE DEF n, I
    <3>3. n - (m + 1) + 1 = n - m /\ (m + 1 <= n \/ n - m = 0) /\ n - m \in Nat
      <4>1. n \in Nat /\ m \in Nat /\ m <= n
        BY <1>1, <2>3
      <4> QED BY <4>1
    <3>4. Len(right) = n - m /\ \A i \in 1..(n - m) : right[i] = s[(m + 1) + i - 1]
      BY <3>2, <3>3
    <3>5. \A i \in 1..(n - m) : (m + 1) + i - 1 = m + i
      BY <1>1, <2>3
    <3> QED BY <3>2, <3>4, <3>5
  <2> HIDE DEF left, right
  <2> DEFINE t == left \o right
  <2>6. /\ t \in Seq(S) /\ Len(t) = n - 1 /\ DOMAIN t = 1..(n - 1)
        /\ \A i \in 1..(n - 1) : t[i] = IF i < m THEN s[i] ELSE s[i + 1]
    <3>1. /\ t \in Seq(S) /\ Len(t) = Len(left) + Len(right)
          /\ \A i \in 1..(Len(left) + Len(right)) :
               t[i] = IF i <= Len(left) THEN left[i] ELSE right[i - Len(left)]
      BY <2>4, <2>5, ConcatProperties
    <3> HIDE DEF t
    <3>3. (m - 1) + (n - m) = n - 1 /\ n - 1 \in Nat
      BY <1>1, <2>3
    <3>4. /\ Len(t) = n - 1
          /\ \A i \in 1..(n - 1) : t[i] = IF i <= m - 1 THEN left[i] ELSE right[i - (m - 1)]
      BY <2>4, <2>5, <3>1, <3>3
    <3>2. ASSUME NEW i \in 1..(n - 1), i >= m PROVE right[i - (m - 1)] = s[i + 1]
      BY <1>1, <2>3, <2>5, <3>2
    <3>5. ASSUME NEW i \in 1..(n - 1) PROVE t[i] = IF i < m THEN s[i] ELSE s[i + 1]
      BY <1>1, <2>3, <2>4, <3>2, <3>4
    <3> QED BY <3>1, <3>4, <3>5
  <2> HIDE DEF t
  <2>7. ASSUME NEW d \in S \ {c}, Among(d, s) PROVE Among(d, t)
    <3>1. PICK i \in 1..n : s[i] = d
      BY <1>1, <2>7 DEF Among
    <3>2. CASE i < m
      BY <1>1, <2>3, <2>6, <3>1, <3>2 DEF Among
    <3>3. CASE i > m
      <4>1. i - 1 \in 1..(n - 1) /\ t[i - 1] = s[i]
        BY <1>1, <2>3, <2>6, <3>1, <3>3
      <4> QED BY <2>6, <3>1, <4>1 DEF Among
    <3> QED BY <1>1, <2>3, <3>1, <3>2, <3>3
  <2>8. ASSUME s # <<>>, Head(s) # c PROVE t # <<>> /\ Head(t) = Head(s)
    <3>1. m > 1 /\ n > 1
      BY <1>1, <2>3, <2>8
    <3>2. t[1] = s[1] /\ Len(t) > 0
      BY <1>1, <2>3, <2>6, <3>1
    <3> QED BY <2>6, <2>8, <3>2
  <2> QED BY <2>1, <2>6, <2>7, <2>8 DEF t
<1> QED BY <1>2, <1>3

-----------------------------------------------------------------------------
(* A call moves.                                                           *)

LEMMA Placed ==
  ASSUME TypeOK, NEW c \in Callers, NEW r \in Call, Place(c, r)
  PROVE  /\ call' \in [Callers -> Call] /\ call'[c] = r
         /\ \A d \in Callers : d # c => call'[d] = call[d]
BY DEF TypeOK, Place

(* Nobody but the first of the queue holds the scope.                       *)
LEMMA FirstIsAlone ==
  ASSUME TurnsAreTaken, NEW c \in Callers, First(c)
  PROVE  \A d \in Callers : d # c => call[d].at \notin Holding
BY DEF TurnsAreTaken, Turn, First

(* The turns, when one call moves and the others keep their places.         *)
LEMMA TurnsMove ==
  ASSUME TypeOK, TurnsAreTaken, NEW c \in Callers, NEW r \in Call, Place(c, r), Turn(c, r)',
         \A d \in Callers : d # c => (First(d) => First(d)') /\ (Among(d, scopes) => Among(d, scopes)'),
         device' = device \/ First(c)
  PROVE  TurnsAreTaken'
<1> SUFFICES ASSUME NEW d \in Callers, d # c PROVE Turn(d, call[d])'
  BY Placed DEF TurnsAreTaken
<1>1. call'[d] = call[d] /\ Turn(d, call[d])
  BY Placed DEF TurnsAreTaken
<1>2. CASE device' = device
  BY <1>1, <1>2 DEF Turn
<1>3. CASE First(c)
  <2>1. call[d].at \notin Holding
    BY <1>3, FirstIsAlone
  <2> QED BY <1>1, <2>1 DEF Turn, Holding
<1> QED BY <1>2, <1>3

(* The errors, when one call moves and either the device and the error scopes *)
(* are as they were, or nobody else holds the scope.                        *)
LEMMA ErrorsMove ==
  ASSUME ScopeInv, NEW c \in Callers, NEW r \in Call, Place(c, r), Kept(r)',
         UNCHANGED <<frames, device, generation>> \/ First(c)
  PROVE  ErrorsAreKept'
<1> SUFFICES ASSUME NEW d \in Callers, d # c PROVE Kept(call[d])'
  BY Placed DEF ErrorsAreKept, ScopeInv
<1>1. call'[d] = call[d] /\ Kept(call[d])
  BY Placed DEF ErrorsAreKept, ScopeInv
<1>2. CASE UNCHANGED <<frames, device, generation>>
  BY <1>1, <1>2 DEF Kept
<1>3. CASE First(c)
  <2>1. call[d].at \notin Holding
    BY <1>3, FirstIsAlone DEF ScopeInv
  <2> QED BY <1>1, <2>1 DEF Kept, Holding
<1> QED BY <1>2, <1>3

(* The call goes on with the upload it makes, if it makes one.              *)
Continues(r, q) ==
  /\ r.kind = "cache" <=> q.kind = "cache"
  /\ r.kind = "cache" => /\ r.key = q.key /\ r.entry = q.entry
                         /\ r.at = "cached" <=> q.at = "cached"
                         /\ Pending(r) => Pending(q)

(* Nothing is asked of the cache; a device may be opened.                   *)
LEMMA CacheRests ==
  ASSUME IInv, NEW c \in Callers, NEW r \in Call, Place(c, r),
         Continues(r, call[c]), Shape(c, r), r.at = "working" => Past(r.on)',
         UNCHANGED <<generation, entries, cached, openings, lease>>,
         device' = device \/ (device = "none" /\ device' = "up")
  PROVE  CacheInv'
<1>0. TypeOK /\ CacheInv
  BY DEF IInv, ScopeInv
<1>1. call'[c] = r /\ \A d \in Callers : d # c => call'[d] = call[d]
  BY <1>0, Placed
<1>2. \A gen : Past(gen) => Past(gen)'
  BY <1>0 DEF Past
<1>3. GenerationsPass'
  BY <1>0, <1>1, <1>2 DEF CacheInv, GenerationsPass
<1>4. CallsAreShaped'
  BY <1>0, <1>1 DEF CacheInv, CallsAreShaped, Shape
<1>5. CacheIsKeyed'
  BY <1>0 DEF CacheInv, CacheIsKeyed, CachedKeys
<1>6. RefsCountLessees'
  BY <1>0 DEF CacheInv, RefsCountLessees, Lessees
<1>7. \A e \in DOMAIN entries : entries[e].gen = generation => device # "none"
  BY <1>0 DEF CacheInv, GenerationsPass, Past, TypeOK, Entry
<1>8. CacheIsOfTheDevice'
  <2> SUFFICES ASSUME NEW k \in CachedKeys
               PROVE  /\ entries[cached[k]].gen = generation
                      /\ device' = "up" => entries[cached[k]].live
    BY DEF CacheIsOfTheDevice, CachedKeys
  <2>1. cached[k] \in DOMAIN entries
    BY <1>0 DEF TypeOK, CachedKeys
  <2> QED BY <1>0, <1>7, <2>1 DEF CacheInv, CacheIsOfTheDevice
<1>9. UploadsAreOwned'
  <2>1. \A d \in Callers : Uploaded(call'[d]) => Uploaded(call[d]) /\ call'[d].entry = call[d].entry
    BY <1>1 DEF Continues, Uploaded
  <2>2. \A d \in Callers : Pending(call'[d]) => Pending(call[d]) /\ call'[d].entry = call[d].entry
                                                /\ call'[d].key = call[d].key
    BY <1>1 DEF Continues, Pending, Uploaded
  <2>3. ASSUME NEW d \in Callers, Pending(call[d])'  PROVE Own(call[d])'
    <3>1. Pending(call[d]) /\ call'[d].entry = call[d].entry /\ call'[d].key = call[d].key
      BY <2>2, <2>3 DEF Pending, Uploaded
    <3>2. Own(call[d]) /\ call[d].entry \in DOMAIN entries
      BY <1>0, <3>1 DEF CacheInv, UploadsAreOwned, CallsAreShaped, Shape, Pending, Uploaded
    <3> QED BY <1>7, <3>1, <3>2 DEF Own
  <2>4. \A d, f \in Callers :
          Uploaded(call[d])' /\ Uploaded(call[f])' /\ d # f => call'[d].entry # call'[f].entry
    BY <1>0, <2>1 DEF CacheInv, UploadsAreOwned, Uploaded
  <2> QED BY <2>3, <2>4 DEF UploadsAreOwned
<1>10. OpeningsAreCalls'
  <2>1. \A d \in Callers : /\ call'[d].kind = "cache" <=> call[d].kind = "cache"
                           /\ call[d].kind = "cache" =>
                                call'[d].key = call[d].key /\ (call'[d].at = "cached" <=> call[d].at = "cached")
    BY <1>1 DEF Continues
  <2>2. \A k \in Keys : openings[k] # NoOne => openings[k] \in Callers
    BY <1>0 DEF TypeOK
  <2>3. InFlight' = InFlight
    BY <1>0, <2>1, <2>2 DEF CacheInv, OpeningsAreCalls, InFlight
  <2> QED BY <1>0, <2>1, <2>2, <2>3 DEF CacheInv, OpeningsAreCalls
<1> QED BY <1>3, <1>4, <1>5, <1>6, <1>8, <1>9, <1>10 DEF CacheInv

-----------------------------------------------------------------------------
(* The steps that ask nothing of the cache.                                *)

(* The queue without the call that leaves it.                               *)
LEMMA ScopeLeft ==
  ASSUME TypeOK, NEW c \in Callers, scopes' = RemoveFirst(scopes, c)
  PROVE  /\ scopes' \in Seq(Callers)
         /\ \A d \in Callers : d # c => (First(d) => First(d)') /\ (Among(d, scopes) => Among(d, scopes)')
BY WithoutFirst DEF TypeOK, First

(* A call that leaves the scope takes no one's turn.                        *)
LEMMA LeavesScope ==
  ASSUME IInv, NEW c \in Callers, call[c].at \in {"queued", "opening", "popped"},
         NEW outcome \in {"none", "exact", "garbage"}, LeaveScope(c, outcome),
         UNCHANGED <<generation, entries, cached, openings, lease>>,
         device' = device \/ (device = "none" /\ device' = "up"),
         First(c) \/ UNCHANGED <<device, frames>>
  PROVE  /\ TurnsAreTaken' /\ ErrorsAreKept' /\ CacheInv'
         /\ call' \in [Callers -> Call] /\ scopes' \in Seq(Callers)
<1>0. PICK r : r = IF call[c].kind = "cache" THEN [call[c] EXCEPT !.at = "refused"] ELSE Idle(outcome)
  OBVIOUS
<1>1. TypeOK /\ ScopeInv /\ TurnsAreTaken /\ Place(c, r) /\ scopes' = RemoveFirst(scopes, c)
  BY <1>0 DEF IInv, ScopeInv, LeaveScope
<1>2. call[c] \in Call /\ Shape(c, call[c]) /\ Kept(call[c])
  BY DEF IInv, ScopeInv, TypeOK, CacheInv, CallsAreShaped, ErrorsAreKept
<1>3. r \in Call
  BY <1>0, <1>2 DEF Call, Idle, Places, None
<1>4. /\ r.at \in {"idle", "refused"} /\ r.garbage = FALSE
      /\ Continues(r, call[c]) /\ Shape(c, r)
  <2>1. CASE call[c].kind = "cache"
    BY <1>0, <1>2, <2>1 DEF Call, Continues, Shape, Kept, Pending
  <2>2. CASE call[c].kind # "cache"
    BY <1>0, <2>2 DEF Idle, Continues, Shape
  <2> QED BY <2>1, <2>2
<1>5. Turn(c, r)' /\ Kept(r)'
  BY <1>4 DEF Turn, Kept, Holding
<1>6. scopes' \in Seq(Callers) /\ TurnsAreTaken'
  BY <1>1, <1>3, <1>5, ScopeLeft, TurnsMove
<1>7. ErrorsAreKept'
  BY <1>1, <1>3, <1>5, ErrorsMove
<1>8. CacheInv'
  BY <1>1, <1>3, <1>4, CacheRests
<1> QED BY <1>1, <1>3, <1>6, <1>7, <1>8, Placed

(* A call that joins the queue.                                             *)
LEMMA QueueJoined ==
  ASSUME TypeOK, NEW c \in Callers, scopes' = Append(scopes, c)
  PROVE  /\ scopes' \in Seq(Callers) /\ Among(c, scopes)'
         /\ \A d \in Callers : (First(d) => First(d)') /\ (Among(d, scopes) => Among(d, scopes)')
BY Joined DEF TypeOK, First

(* A call over a batch only joins the queue.                                *)
LEMMA StartBatchStep ==
  ASSUME IInv, NEW c \in Callers, StartBatch(c)
  PROVE  IInv'
<1> DEFINE r == Started("batch", NoOne, None)
<1>1. ScopeInv /\ TypeOK /\ TurnsAreTaken /\ Place(c, r) /\ scopes' = Append(scopes, c)
  BY DEF IInv, ScopeInv, StartBatch, Queue
<1>2. call[c].kind # "cache" /\ calls' \in Nat
  BY DEF IInv, ScopeInv, TypeOK, CacheInv, CallsAreShaped, Shape, StartBatch, CanCall
<1>3. r \in Call /\ r.at = "queued" /\ r.kind = "batch" /\ r.garbage = FALSE
  BY DEF Started, Idle, Call, Places, None
<1> HIDE DEF r
<1>4. Turn(c, r)' /\ Kept(r)' /\ Shape(c, r) /\ Continues(r, call[c]) /\ scopes' \in Seq(Callers)
  BY <1>1, <1>2, <1>3, QueueJoined DEF Turn, Kept, Shape, Continues, Holding
<1>5. UNCHANGED <<deviceVars, cacheVars, lease>>
  BY DEF StartBatch
<1>6. TurnsAreTaken'
  BY <1>1, <1>3, <1>4, <1>5, QueueJoined, TurnsMove DEF deviceVars
<1>7. ErrorsAreKept'
  BY <1>1, <1>3, <1>4, <1>5, ErrorsMove DEF deviceVars
<1>8. CacheInv'
  BY <1>1, <1>3, <1>4, <1>5, CacheRests DEF deviceVars, cacheVars
<1>9. TypeOK'
  BY <1>1, <1>2, <1>3, <1>4, <1>5, Placed DEF TypeOK, deviceVars, cacheVars
<1> QED BY <1>6, <1>7, <1>8, <1>9 DEF IInv, ScopeInv

(* What a touched entry is moved behind.                                    *)
LEMMA Touched ==
  ASSUME TypeOK, NEW e \in DOMAIN entries
  PROVE  Touch(e) \in Seq(DOMAIN entries)
<1>1. RemoveFirst(recency, e) \in Seq(DOMAIN entries)
  BY WithoutFirst DEF TypeOK
<1> QED BY <1>1 DEF Touch

(* A call over a lease joins the queue, or is refused.                      *)
LEMMA StartResidentStep ==
  ASSUME IInv, NEW c \in Callers, StartResident(c)
  PROVE  IInv'
<1> DEFINE e == lease[c]
<1>1. ScopeInv /\ TypeOK /\ TurnsAreTaken
  BY DEF IInv, ScopeInv
<1>2. /\ call[c].kind # "cache" /\ calls' \in Nat /\ e \in DOMAIN entries
      /\ entries[e].key \in Keys /\ e \in Nat
  <2>1. call[c].kind # "cache" /\ calls' \in Nat /\ e # None
    BY DEF IInv, ScopeInv, TypeOK, CacheInv, CallsAreShaped, Shape, StartResident, CanCall
  <2>2. e \in DOMAIN entries
    BY <1>1, <2>1 DEF TypeOK
  <2>3. entries \in Seq(Entry) /\ DOMAIN entries = 1..Len(entries)
    BY <1>1 DEF TypeOK
  <2>4. entries[e] \in Entry /\ e \in Nat
    BY <2>2, <2>3
  <2> QED BY <2>1, <2>2, <2>4 DEF Entry
<1>3. UNCHANGED <<deviceVars, entries, cached, residentBytes, reserved, openings, lease>>
  BY DEF StartResident
<1>4. CASE IsResident(e)
  <2>0. PICK r : r = Started("resident", entries[e].key, e)
    OBVIOUS
  <2>1. Place(c, r) /\ scopes' = Append(scopes, c) /\ recency' = Touch(e)
    BY <1>4, <2>0 DEF StartResident, Queue
  <2>2. r \in Call /\ r.at = "queued" /\ r.kind = "resident" /\ r.garbage = FALSE
    BY <1>2, <2>0 DEF Started, Idle, Call, Places, None
  <2>3. Turn(c, r)' /\ Kept(r)' /\ Shape(c, r) /\ Continues(r, call[c]) /\ scopes' \in Seq(Callers)
    BY <1>1, <1>2, <2>1, <2>2, QueueJoined DEF Turn, Kept, Shape, Continues, Holding
  <2>4. TurnsAreTaken'
    BY <1>1, <1>3, <2>1, <2>2, <2>3, QueueJoined, TurnsMove DEF deviceVars
  <2>5. ErrorsAreKept'
    BY <1>1, <1>3, <2>1, <2>2, <2>3, ErrorsMove DEF deviceVars
  <2>6. CacheInv'
    BY <1>1, <1>3, <2>1, <2>2, <2>3, CacheRests DEF deviceVars
  <2>7. TypeOK'
    BY <1>1, <1>2, <1>3, <2>1, <2>2, <2>3, Placed, Touched DEF TypeOK, deviceVars
  <2> QED BY <2>4, <2>5, <2>6, <2>7 DEF IInv, ScopeInv
<1>5. CASE ~IsResident(e)
  <2> DEFINE r == Idle("none")
  <2>1. Place(c, r) /\ UNCHANGED <<scopes, recency>>
    BY <1>5 DEF StartResident
  <2>2. r \in Call /\ r.at = "idle" /\ r.kind = "none" /\ r.garbage = FALSE
    BY DEF Idle, Call, Places, None
  <2> HIDE DEF r
  <2>3. Turn(c, r)' /\ Kept(r)' /\ Shape(c, r) /\ Continues(r, call[c])
    BY <1>2, <2>2 DEF Turn, Kept, Shape, Continues, Holding
  <2>4. TurnsAreTaken'
    BY <1>1, <1>3, <2>1, <2>2, <2>3, TurnsMove DEF deviceVars, First
  <2>5. ErrorsAreKept'
    BY <1>1, <1>3, <2>1, <2>2, <2>3, ErrorsMove DEF deviceVars
  <2>6. CacheInv'
    BY <1>1, <1>3, <2>1, <2>2, <2>3, CacheRests DEF deviceVars
  <2>7. TypeOK'
    BY <1>1, <1>2, <1>3, <2>1, <2>2, <2>3, Placed DEF TypeOK, deviceVars
  <2> QED BY <2>4, <2>5, <2>6, <2>7 DEF IInv, ScopeInv
<1> QED BY <1>4, <1>5 DEF StartResident

(* A call that keeps its place in the queue.                                *)
LEMMA CallMoves ==
  ASSUME IInv, NEW c \in Callers, NEW r \in Call, Place(c, r),
         UNCHANGED <<scopes, generation, closed, cacheVars, lease>>, calls' \in {calls, calls + 1},
         Turn(c, r)', Kept(r)', Shape(c, r), Continues(r, call[c]), r.at = "working" => Past(r.on)',
         device' = device \/ (device = "none" /\ device' = "up"), frames' \in Seq(BOOLEAN),
         First(c) \/ UNCHANGED <<frames, device>>
  PROVE  IInv'
<1>1. ScopeInv /\ TypeOK /\ TurnsAreTaken
  BY DEF IInv, ScopeInv
<1>2. TurnsAreTaken'
  BY <1>1, TurnsMove DEF First
<1>3. ErrorsAreKept'
  BY <1>1, ErrorsMove
<1>4. CacheInv'
  BY CacheRests DEF cacheVars
<1>5. TypeOK'
  BY <1>1, Placed DEF TypeOK, cacheVars
<1> QED BY <1>2, <1>3, <1>4, <1>5 DEF IInv, ScopeInv

(* What is known of a call.                                                 *)
LEMMA CallOf ==
  ASSUME IInv, NEW c \in Callers
  PROVE  /\ call[c] \in Call /\ Turn(c, call[c]) /\ Kept(call[c]) /\ Shape(c, call[c])
         /\ frames \in Seq(BOOLEAN) /\ generation \in Nat /\ device \in {"none", "up", "lost"}
         /\ call[c].at = "queued" => scopes # <<>>
BY DEF IInv, ScopeInv, TypeOK, TurnsAreTaken, Turn, Among, ErrorsAreKept, CacheInv, CallsAreShaped

(* An abort moves nothing.                                                  *)
LEMMA AbortStep ==
  ASSUME IInv, NEW c \in Callers, Abort(c)
  PROVE  IInv'
<1>1. PICK r : r = [call[c] EXCEPT !.aborted = TRUE]
  OBVIOUS
<1>2. /\ call[c] \in Call /\ Turn(c, call[c]) /\ Kept(call[c]) /\ Shape(c, call[c])
      /\ frames \in Seq(BOOLEAN)
  BY CallOf
<1>3. UNCHANGED <<deviceVars, scopes, cacheVars, lease, calls>> /\ Place(c, r)
  BY <1>1 DEF Abort
<1>4. /\ r \in Call /\ r.at = call[c].at /\ r.kind = call[c].kind /\ r.key = call[c].key
      /\ r.entry = call[c].entry /\ r.on = call[c].on /\ r.garbage = call[c].garbage
      /\ r.failure = call[c].failure /\ r.caught = call[c].caught
  BY <1>1, <1>2 DEF Call
<1>5. Turn(c, r)' /\ Kept(r)'
  BY <1>2, <1>3, <1>4 DEF Turn, Kept, First, deviceVars
<1>6. Shape(c, r) /\ Continues(r, call[c])
  BY <1>2, <1>4 DEF Shape, Continues, Pending, Uploaded
<1>7. r.at = "working" => Past(r.on)'
  BY <1>3, <1>4 DEF IInv, CacheInv, GenerationsPass, Past, deviceVars
<1> QED BY <1>2, <1>3, <1>4, <1>5, <1>6, <1>7, CallMoves DEF deviceVars

(* A waiter that is aborted leaves the queue.                               *)
LEMMA WaitAbortedStep ==
  ASSUME IInv, NEW c \in Callers, WaitAborted(c)
  PROVE  IInv'
<1>1. call[c].at = "queued" /\ LeaveScope(c, "none") /\ UNCHANGED <<deviceVars, cacheVars, lease, calls>>
  BY DEF WaitAborted
<1>2. /\ TurnsAreTaken' /\ ErrorsAreKept' /\ CacheInv'
      /\ call' \in [Callers -> Call] /\ scopes' \in Seq(Callers)
  BY <1>1, LeavesScope DEF deviceVars, cacheVars
<1>3. TypeOK'
  BY <1>1, <1>2 DEF IInv, ScopeInv, TypeOK, deviceVars, cacheVars
<1> QED BY <1>2, <1>3 DEF IInv, ScopeInv

(* The first of the queue opens a device or works on the one there is.      *)
LEMMA EnterStep ==
  ASSUME IInv, NEW c \in Callers, Enter(c)
  PROVE  IInv'
<1>1. /\ call[c].at = "queued" /\ UNCHANGED <<generation, closed, device, cacheVars, lease, calls>>
      /\ First(c)
  BY CallOf DEF Enter, IsFirst, First
<1>2. /\ call[c] \in Call /\ Kept(call[c]) /\ Shape(c, call[c]) /\ frames \in Seq(BOOLEAN)
      /\ generation \in Nat /\ device \in {"none", "up", "lost"}
  BY CallOf
<1>3. ASSUME LeaveScope(c, "none"), UNCHANGED frames PROVE IInv'
  <2>1. /\ TurnsAreTaken' /\ ErrorsAreKept' /\ CacheInv'
        /\ call' \in [Callers -> Call] /\ scopes' \in Seq(Callers)
    BY <1>1, <1>3, LeavesScope DEF cacheVars
  <2>2. TypeOK'
    BY <1>1, <1>3, <2>1 DEF IInv, ScopeInv, TypeOK, cacheVars
  <2> QED BY <2>1, <2>2 DEF IInv, ScopeInv
<1>4. ASSUME device = "none", Place(c, [call[c] EXCEPT !.at = "opening"]), UNCHANGED <<scopes, frames>>
      PROVE  IInv'
  <2>1. PICK r : r = [call[c] EXCEPT !.at = "opening"]
    OBVIOUS
  <2>2. /\ r \in Call /\ r.at = "opening" /\ r.kind = call[c].kind /\ r.key = call[c].key
        /\ r.entry = call[c].entry /\ r.garbage = FALSE
    BY <1>1, <1>2, <2>1 DEF Call, Places, Kept
  <2>3. Turn(c, r)' /\ Kept(r)'
    BY <1>1, <1>4, <2>2 DEF Turn, Kept, First
  <2>4. Shape(c, r) /\ Continues(r, call[c])
    BY <1>1, <1>2, <2>2 DEF Shape, Continues, Pending, Uploaded
  <2> QED BY <1>1, <1>2, <1>4, <2>1, <2>2, <2>3, <2>4, CallMoves
<1>5. ASSUME device # "none", Place(c, [call[c] EXCEPT !.at = "working", !.on = generation]),
             frames' = Append(frames, FALSE), UNCHANGED scopes
      PROVE  IInv'
  <2>1. PICK r : r = [call[c] EXCEPT !.at = "working", !.on = generation]
    OBVIOUS
  <2>2. /\ r \in Call /\ r.at = "working" /\ r.kind = call[c].kind /\ r.key = call[c].key
        /\ r.entry = call[c].entry /\ r.garbage = FALSE /\ r.on = generation
    BY <1>1, <1>2, <2>1 DEF Call, Places, Kept
  <2>3. frames' \in Seq(BOOLEAN) /\ frames' # <<>>
    <3>1. Len(frames') = Len(frames) + 1 /\ Len(frames) \in Nat /\ frames' \in Seq(BOOLEAN)
      BY <1>2, <1>5
    <3>2. Len(frames') # 0
      BY <3>1
    <3> QED BY <3>1, <3>2
  <2>4. Turn(c, r)' /\ Kept(r)'
    BY <1>1, <1>5, <2>2, <2>3 DEF Turn, Kept, First
  <2>6. Past(r.on)'
    BY <1>1, <1>2, <1>5, <2>2 DEF Past
  <2>5. Shape(c, r) /\ Continues(r, call[c])
    BY <1>1, <1>2, <2>2 DEF Shape, Continues, Pending, Uploaded
  <2> QED BY <1>1, <1>5, <2>1, <2>2, <2>3, <2>4, <2>5, <2>6, CallMoves
<1> QED BY <1>3, <1>4, <1>5 DEF Enter

(* A device is opened under a generation no entry has yet.                  *)
LEMMA OpenedStep ==
  ASSUME IInv, NEW c \in Callers, Opened(c)
  PROVE  IInv'
<1>1. /\ call[c].at = "opening" /\ UNCHANGED <<generation, closed, cacheVars, lease, calls>>
      /\ First(c) /\ device = "none"
  BY CallOf DEF Opened, Turn, Holding
<1>2. /\ call[c] \in Call /\ Kept(call[c]) /\ Shape(c, call[c]) /\ frames \in Seq(BOOLEAN)
      /\ generation \in Nat
  BY CallOf
<1>3. ASSUME LeaveScope(c, "none"), device' \in {"none", "up"}, frames' \in Seq(BOOLEAN) PROVE IInv'
  <2>1. /\ TurnsAreTaken' /\ ErrorsAreKept' /\ CacheInv'
        /\ call' \in [Callers -> Call] /\ scopes' \in Seq(Callers)
    BY <1>1, <1>3, LeavesScope DEF cacheVars
  <2>2. TypeOK'
    BY <1>1, <1>3, <2>1 DEF IInv, ScopeInv, TypeOK, cacheVars
  <2> QED BY <2>1, <2>2 DEF IInv, ScopeInv
<1>4. ASSUME device' = "up", Place(c, [call[c] EXCEPT !.at = "working", !.on = generation]),
             frames' = <<FALSE>>, UNCHANGED scopes
      PROVE  IInv'
  <2>1. PICK r : r = [call[c] EXCEPT !.at = "working", !.on = generation]
    OBVIOUS
  <2>2. /\ r \in Call /\ r.at = "working" /\ r.kind = call[c].kind /\ r.key = call[c].key
        /\ r.entry = call[c].entry /\ r.garbage = FALSE /\ r.on = generation
    BY <1>1, <1>2, <2>1 DEF Call, Places, Kept
  <2>3. frames' \in Seq(BOOLEAN) /\ frames' # <<>>
    BY <1>4
  <2>4. Turn(c, r)' /\ Kept(r)' /\ Past(r.on)'
    BY <1>1, <1>2, <1>4, <2>2, <2>3 DEF Turn, Kept, First, Past
  <2>5. Shape(c, r) /\ Continues(r, call[c])
    BY <1>1, <1>2, <2>2 DEF Shape, Continues, Pending, Uploaded
  <2> QED BY <1>1, <1>4, <2>1, <2>2, <2>3, <2>4, <2>5, CallMoves
<1>5. <<>> \in Seq(BOOLEAN)
  OBVIOUS
<1> QED BY <1>1, <1>2, <1>3, <1>4, <1>5 DEF Opened

(* An error that is raised is in the last error scope.                      *)
LEMMA Raised ==
  ASSUME frames \in Seq(BOOLEAN), frames # <<>>, NEW error \in BOOLEAN, Raise(error)
  PROVE  /\ frames' \in Seq(BOOLEAN) /\ frames' # <<>>
         /\ error => frames'[Len(frames')] = TRUE
<1>1. Len(frames) \in Nat /\ Len(frames) > 0
  OBVIOUS
<1>2. CASE ~error
  BY <1>2 DEF Raise
<1>3. CASE error
  <2>1. frames' = [frames EXCEPT ![Len(frames)] = TRUE]
    BY <1>3 DEF Raise
  <2>2. Len(frames) \in 1..Len(frames)
    BY <1>1
  <2>3. frames' \in Seq(BOOLEAN) /\ Len(frames') = Len(frames) /\ frames'[Len(frames)] = TRUE
    BY <2>1, <2>2, ExceptSeq
  <2>4. frames' # <<>>
    BY <1>1, <2>3
  <2> QED BY <2>3, <2>4
<1> QED BY <1>2, <1>3

(* Words that are not exact leave an error in the scope.                    *)
LEMMA ExecuteStep ==
  ASSUME IInv, NEW c \in Callers, Execute(c)
  PROVE  IInv'
<1>1. /\ call[c].at = "working" /\ call[c].kind # "cache"
      /\ UNCHANGED <<generation, closed, device, scopes, cacheVars, lease, calls>>
  BY DEF Execute
<1>2. /\ call[c] \in Call /\ Shape(c, call[c]) /\ frames \in Seq(BOOLEAN) /\ frames # <<>>
      /\ First(c)
  BY <1>1, CallOf DEF Turn, Holding, Kept
<1>3. PICK garbage \in BOOLEAN, failure \in {"none", "other", "lakeql"} :
        /\ Worked(c, garbage, failure)
        /\ frames' \in Seq(BOOLEAN) /\ frames' # <<>>
        /\ garbage => frames'[Len(frames')] = TRUE
  <2>1. Raise(TRUE) => frames' \in Seq(BOOLEAN) /\ frames' # <<>> /\ frames'[Len(frames')] = TRUE
    BY <1>2, Raised
  <2> QED BY <1>2, <2>1 DEF Execute
<1>4. PICK r : r = [call[c] EXCEPT !.at = "popping", !.garbage = garbage,
                      !.failure = IF failure = "none" /\ Signalled(c) THEN "lakeql" ELSE failure]
  OBVIOUS
<1>5. Place(c, r)
  BY <1>3, <1>4 DEF Worked
<1>6. /\ r \in Call /\ r.at = "popping" /\ r.kind = call[c].kind /\ r.key = call[c].key
      /\ r.garbage = garbage
  BY <1>2, <1>4 DEF Call, Places
<1>7. Turn(c, r)' /\ Kept(r)'
  BY <1>1, <1>2, <1>3, <1>6 DEF Turn, Kept, First, Holding
<1>8. Shape(c, r) /\ Continues(r, call[c])
  BY <1>1, <1>2, <1>6 DEF Shape, Continues
<1> QED BY <1>1, <1>2, <1>3, <1>5, <1>6, <1>7, <1>8, CallMoves

(* The error popped is that of the call.                                    *)
LEMMA PopStep ==
  ASSUME IInv, NEW c \in Callers, Pop(c)
  PROVE  IInv'
<1>1. call[c].at = "popping" /\ UNCHANGED <<generation, closed, device, scopes, cacheVars, lease, calls>>
  BY DEF Pop
<1>2. /\ call[c] \in Call /\ Shape(c, call[c]) /\ Kept(call[c]) /\ frames \in Seq(BOOLEAN) /\ frames # <<>>
      /\ First(c)
  BY <1>1, CallOf DEF Turn, Holding, Kept
<1>3. PICK failure \in {"none", "other", "lakeql"}, caught \in BOOLEAN :
        /\ Place(c, [call[c] EXCEPT !.at = "popped", !.failure = failure, !.caught = caught])
        /\ frames' \in Seq(BOOLEAN)
        /\ Standing(c) => caught = frames[Len(frames)]
        /\ failure = "none" => call[c].failure = "none"
  <2>1. CASE Standing(c)
    <3>1. /\ Place(c, [call[c] EXCEPT !.at = "popped", !.caught = Last(frames)])
          /\ frames' = Front(frames)
      BY <2>1 DEF Pop
    <3>2. Last(frames) = frames[Len(frames)] /\ Last(frames) \in BOOLEAN
      BY <1>2 DEF Last
    <3>3. Front(frames) \in Seq(BOOLEAN)
      <4>1. Len(frames) \in Nat /\ \A i \in 1..(Len(frames) - 1) : frames[i] \in BOOLEAN
        BY <1>2
      <4> QED BY <4>1, SubSeqProperties DEF Front
    <3>4. call[c].failure \in {"none", "other", "lakeql"}
      BY <1>2 DEF Call
    <3>5. [call[c] EXCEPT !.at = "popped", !.caught = Last(frames)]
            = [call[c] EXCEPT !.at = "popped", !.failure = call[c].failure, !.caught = Last(frames)]
      BY <1>2 DEF Call
    <3> QED BY <3>1, <3>2, <3>3, <3>4, <3>5
  <2>2. CASE ~Standing(c)
    <3>1. PICK failure \in {call[c].failure, IF call[c].failure = "none" THEN "other" ELSE call[c].failure} :
            Place(c, [call[c] EXCEPT !.at = "popped", !.failure = failure]) /\ UNCHANGED frames
      BY <2>2 DEF Pop
    <3>2. failure \in {"none", "other", "lakeql"} /\ call[c].caught \in BOOLEAN
      BY <1>2 DEF Call
    <3>3. [call[c] EXCEPT !.at = "popped", !.failure = failure]
            = [call[c] EXCEPT !.at = "popped", !.failure = failure, !.caught = call[c].caught]
      BY <1>2 DEF Call
    <3> QED BY <1>2, <2>2, <3>1, <3>2, <3>3
  <2> QED BY <2>1, <2>2
<1>4. PICK r : r = [call[c] EXCEPT !.at = "popped", !.failure = failure, !.caught = caught]
  OBVIOUS
<1>5. /\ r \in Call /\ r.at = "popped" /\ r.kind = call[c].kind /\ r.key = call[c].key
      /\ r.entry = call[c].entry /\ r.on = call[c].on /\ r.garbage = call[c].garbage
      /\ r.failure = failure /\ r.caught = caught
  BY <1>2, <1>4 DEF Call, Places
<1>6. Turn(c, r)'
  BY <1>1, <1>2, <1>5 DEF Turn, First
<1>7. Kept(r)'
  BY <1>1, <1>2, <1>3, <1>5 DEF Kept, Standing
<1>8. Shape(c, r) /\ Continues(r, call[c])
  BY <1>1, <1>2, <1>3, <1>5 DEF Shape, Continues, Pending, Uploaded
<1> QED BY <1>1, <1>2, <1>3, <1>4, <1>5, <1>6, <1>7, <1>8, CallMoves

(* The scope is passed on, an upload kept for the cache.                    *)
LEMMA SettleStep ==
  ASSUME IInv, NEW c \in Callers, Settle(c)
  PROVE  IInv'
<1>1. call[c].at = "popped" /\ UNCHANGED <<deviceVars, cacheVars, lease, calls>> /\ First(c)
  BY CallOf DEF Settle, Turn, Holding
<1>2. ASSUME NEW outcome \in {"none", "exact", "garbage"}, LeaveScope(c, outcome) PROVE IInv'
  <2>1. /\ TurnsAreTaken' /\ ErrorsAreKept' /\ CacheInv'
        /\ call' \in [Callers -> Call] /\ scopes' \in Seq(Callers)
    BY <1>1, <1>2, LeavesScope DEF cacheVars, deviceVars
  <2>2. TypeOK'
    BY <1>1, <2>1 DEF IInv, ScopeInv, TypeOK, cacheVars, deviceVars
  <2> QED BY <2>1, <2>2 DEF IInv, ScopeInv
<1>3. ASSUME ~HasFailed(c), call[c].kind = "cache", Place(c, [call[c] EXCEPT !.at = "caching"]),
             scopes' = RemoveFirst(scopes, c)
      PROVE  IInv'
  <2>1. PICK r : r = [call[c] EXCEPT !.at = "caching"]
    OBVIOUS
  <2>2. /\ call[c] \in Call /\ Shape(c, call[c]) /\ Kept(call[c]) /\ ScopeInv /\ TypeOK /\ TurnsAreTaken
    BY CallOf DEF IInv, ScopeInv
  <2>3. /\ r \in Call /\ r.at = "caching" /\ r.kind = call[c].kind /\ r.key = call[c].key
        /\ r.entry = call[c].entry /\ r.garbage = FALSE
    BY <1>3, <2>1, <2>2 DEF Call, Places, Kept
  <2>4. Turn(c, r)' /\ Kept(r)'
    BY <2>3 DEF Turn, Kept, Holding
  <2>5. Shape(c, r) /\ Continues(r, call[c])
    BY <1>1, <1>3, <2>2, <2>3 DEF Shape, Continues, Pending, Uploaded, HasFailed
  <2>6. scopes' \in Seq(Callers) /\ TurnsAreTaken'
    BY <1>1, <1>3, <2>1, <2>2, <2>3, <2>4, ScopeLeft, TurnsMove DEF deviceVars
  <2>7. ErrorsAreKept'
    BY <1>1, <1>3, <2>1, <2>2, <2>3, <2>4, ErrorsMove DEF deviceVars
  <2>8. CacheInv'
    BY <1>1, <1>3, <2>1, <2>3, <2>5, CacheRests DEF deviceVars, cacheVars
  <2>9. TypeOK'
    BY <1>1, <1>3, <2>1, <2>2, <2>3, <2>6, Placed DEF TypeOK, cacheVars, deviceVars
  <2> QED BY <2>6, <2>7, <2>8, <2>9 DEF IInv, ScopeInv
<1> QED BY <1>2, <1>3 DEF Settle

-----------------------------------------------------------------------------
(* The entries.                                                            *)

LEMMA EntryOf ==
  ASSUME TypeOK, NEW e \in DOMAIN entries
  PROVE  entries[e] \in Entry /\ e \in Nat /\ e # None
<1>1. entries \in Seq(Entry) /\ DOMAIN entries = 1..Len(entries)
  BY DEF TypeOK
<1> QED BY <1>1 DEF None

(* A new entry leaves the others as they are.                               *)
LEMMA EntryAdded ==
  ASSUME TypeOK, NEW x \in Entry, entries' = Append(entries, x)
  PROVE  LET n == Len(entries) + 1 IN
         /\ entries' \in Seq(Entry) /\ n \in Nat /\ n # None /\ n \notin DOMAIN entries
         /\ DOMAIN entries' = DOMAIN entries \cup {n} /\ entries'[n] = x
         /\ \A e \in DOMAIN entries : entries'[e] = entries[e]
<1>1. entries \in Seq(Entry) /\ Len(entries) \in Nat /\ DOMAIN entries = 1..Len(entries)
  BY DEF TypeOK
<1>2. /\ entries' \in Seq(Entry) /\ Len(entries') = Len(entries) + 1
      /\ DOMAIN entries' = 1..(Len(entries) + 1) /\ entries'[Len(entries) + 1] = x
      /\ \A e \in 1..Len(entries) : entries'[e] = entries[e]
  BY <1>1
<1> QED BY <1>1, <1>2 DEF None

(* A destroyed entry keeps its key, its generation and its references.      *)
LEMMA EntriesDestroyed ==
  ASSUME TypeOK, NEW es, entries' = Destroyed(es)
  PROVE  /\ entries' \in Seq(Entry) /\ DOMAIN entries' = DOMAIN entries
         /\ \A e \in DOMAIN entries :
              /\ entries'[e].key = entries[e].key /\ entries'[e].gen = entries[e].gen
              /\ entries'[e].refs = entries[e].refs
              /\ entries'[e].live = (entries[e].live /\ e \notin es)
<1>1. entries \in Seq(Entry) /\ Len(entries) \in Nat /\ DOMAIN entries = 1..Len(entries)
      /\ \A e \in 1..Len(entries) : entries[e] \in Entry
  BY DEF TypeOK
<1>2. /\ DOMAIN entries' = 1..Len(entries)
      /\ \A e \in 1..Len(entries) :
           entries'[e] = IF e \in es THEN [entries[e] EXCEPT !.live = FALSE] ELSE entries[e]
  BY <1>1 DEF Destroyed
<1>3. \A e \in 1..Len(entries) :
        /\ entries'[e] \in Entry
        /\ entries'[e].key = entries[e].key /\ entries'[e].gen = entries[e].gen
        /\ entries'[e].refs = entries[e].refs
        /\ entries'[e].live = (entries[e].live /\ e \notin es)
  BY <1>1, <1>2 DEF Entry
<1>4. entries' = [e \in 1..Len(entries) |-> entries'[e]]
  BY <1>1 DEF Destroyed
<1>5. entries' \in Seq(Entry)
  BY <1>1, <1>3, <1>4
<1> QED BY <1>1, <1>2, <1>3, <1>5

-----------------------------------------------------------------------------
(* Bytes.                                                                  *)

LEMMA BytesAreNatural ==
  ASSUME NEW ks \in SUBSET Keys
  PROVE  /\ IsFiniteSet(ks) /\ Naturals(Bytes, ks) /\ BytesOf(ks) = SumOver(Bytes, ks) /\ BytesOf(ks) \in Nat
<1>1. IsFiniteSet(ks)
  BY CallersAssumption, FS_Subset
<1>2. Naturals(Bytes, ks)
  BY SizesAssumption DEF Naturals
<1>3. BytesOf(ks) = SumOver(Bytes, ks)
  BY DEF BytesOf, SumOver
<1> QED BY <1>1, <1>2, <1>3, SumSplits

-----------------------------------------------------------------------------
(* The device goes: what is left of it is destroyed, and the cache is emptied *)
(* with the generation.                                                     *)

EntriesStay ==
  /\ entries' \in Seq(Entry) /\ DOMAIN entries' = DOMAIN entries
  /\ \A e \in DOMAIN entries : entries'[e].key = entries[e].key /\ entries'[e].gen = entries[e].gen
                               /\ entries'[e].refs = entries[e].refs

(* What is of the device that goes is past.                                 *)
LEMMA DeviceGoes ==
  ASSUME IInv, EntriesStay, closed' \in BOOLEAN, residentBytes' \in Int,
         UNCHANGED <<frames, scopes, recency, reserved, openings, call, lease, calls>>,
         \/ /\ device = "up" /\ device' = "lost" /\ UNCHANGED <<generation, cached>>
         \/ /\ device' = "none" /\ generation' = generation + 1 /\ cached' = [k \in Keys |-> None]
  PROVE  IInv'
<1>1. /\ TypeOK /\ TurnsAreTaken /\ ErrorsAreKept /\ GenerationsPass /\ CallsAreShaped /\ UploadsAreOwned
      /\ CacheIsKeyed /\ CacheIsOfTheDevice /\ OpeningsAreCalls /\ RefsCountLessees
  BY DEF IInv, ScopeInv, CacheInv
<1>2. \A gen \in Nat : Past(gen) => Past(gen)'
  BY <1>1 DEF Past, TypeOK
<1>3. TypeOK'
  BY <1>1 DEF TypeOK, EntriesStay
<1>4. TurnsAreTaken'
  BY <1>1 DEF TurnsAreTaken, Turn, First, Holding
<1>5. ErrorsAreKept'
  BY <1>1 DEF ErrorsAreKept, Kept
<1>6. GenerationsPass'
  <2>1. \A e \in DOMAIN entries : entries[e].gen \in Nat
    BY <1>1, EntryOf DEF Entry
  <2>2. \A c \in Callers : call[c].on \in Nat
    BY <1>1 DEF TypeOK, Call
  <2> QED BY <1>1, <1>2, <2>1, <2>2 DEF GenerationsPass, EntriesStay
<1>7. CallsAreShaped'
  BY <1>1 DEF CallsAreShaped, Shape, EntriesStay
<1>8. UploadsAreOwned'
  <2>1. \A c \in Callers : Pending(call[c]) => call[c].entry \in DOMAIN entries /\ call[c].entry # None
    BY <1>1 DEF CallsAreShaped, Shape, Pending, Uploaded
  <2>2. device' # "up" /\ \A k \in Keys : cached'[k] \in {None, cached[k]}
    OBVIOUS
  <2>3. ASSUME NEW c \in Callers, Pending(call[c]) PROVE Own(call[c])'
    <3>1. Own(call[c])
      BY <1>1, <2>3 DEF UploadsAreOwned
    <3> QED BY <2>1, <2>2, <2>3, <3>1 DEF Own, EntriesStay
  <2> QED BY <1>1, <2>3 DEF UploadsAreOwned, Pending, Uploaded
<1>9. CacheIsKeyed' /\ CacheIsOfTheDevice'
  <2>1. \A k \in CachedKeys' : k \in CachedKeys /\ cached'[k] = cached[k] /\ generation' = generation
                               /\ cached[k] \in DOMAIN entries
    BY <1>1 DEF CachedKeys, TypeOK
  <2> QED BY <1>1, <2>1 DEF CacheIsKeyed, CacheIsOfTheDevice, EntriesStay
<1>10. OpeningsAreCalls'
  <2>1. InFlight' = InFlight /\ \A k \in Keys : cached'[k] \in {None, cached[k]}
    BY DEF InFlight
  <2> QED BY <1>1, <2>1 DEF OpeningsAreCalls, InFlight
<1>11. RefsCountLessees'
  BY <1>1 DEF RefsCountLessees, Lessees, EntriesStay
<1> QED BY <1>3, <1>4, <1>5, <1>6, <1>7, <1>8, <1>9, <1>10, <1>11 DEF IInv, ScopeInv, CacheInv

(* The loss destroys what is of the device.                                 *)
LEMMA LoseDeviceStep ==
  ASSUME IInv, LoseDevice
  PROVE  IInv'
<1>1. EntriesStay
  BY EntriesDestroyed DEF IInv, ScopeInv, LoseDevice, EntriesStay
<1>2. closed' \in BOOLEAN /\ residentBytes' \in Int
  BY DEF IInv, ScopeInv, TypeOK, LoseDevice
<1> QED BY <1>1, <1>2, DeviceGoes DEF LoseDevice

(* The handler empties the cache under a new generation.                    *)
LEMMA LostHandledStep ==
  ASSUME IInv, LostHandled
  PROVE  IInv'
<1>1. EntriesStay /\ closed' \in BOOLEAN
  BY DEF IInv, ScopeInv, TypeOK, LostHandled, EntriesStay
<1> QED BY <1>1, DeviceGoes DEF LostHandled, Emptied

(* So does the owner.                                                       *)
LEMMA CloseStep ==
  ASSUME IInv, Close
  PROVE  IInv'
<1>1. EntriesStay
  BY EntriesDestroyed DEF IInv, ScopeInv, Close, EntriesStay
<1> QED BY <1>1, DeviceGoes DEF Close, Emptied

-----------------------------------------------------------------------------
(* Leases.                                                                 *)

LEMMA RefsChange ==
  ASSUME TypeOK, NEW e \in DOMAIN entries, NEW n \in Nat, entries' = [entries EXCEPT ![e].refs = n]
  PROVE  /\ entries' \in Seq(Entry) /\ DOMAIN entries' = DOMAIN entries
         /\ \A f \in DOMAIN entries :
              /\ entries'[f].key = entries[f].key /\ entries'[f].gen = entries[f].gen
              /\ entries'[f].live = entries[f].live
              /\ entries'[f].refs = IF f = e THEN n ELSE entries[f].refs
<1> DEFINE x == [entries[e] EXCEPT !.refs = n]
<1>1. entries[e] \in Entry
  BY EntryOf
<1>2. /\ x \in Entry /\ x.key = entries[e].key /\ x.gen = entries[e].gen /\ x.live = entries[e].live
      /\ x.refs = n
  BY <1>1 DEF Entry
<1>3. entries' = [entries EXCEPT ![e] = x]
  OBVIOUS
<1>4. entries \in Seq(Entry) /\ e \in 1..Len(entries) /\ DOMAIN entries = 1..Len(entries)
  BY DEF TypeOK
<1> HIDE DEF x
<1>5. /\ entries' \in Seq(Entry) /\ Len(entries') = Len(entries)
      /\ \A f \in 1..Len(entries) : entries'[f] = IF f = e THEN x ELSE entries[f]
  BY <1>2, <1>3, <1>4, ExceptSeq
<1> QED BY <1>2, <1>4, <1>5

(* Callers are counted one by one, as references are.                       *)
LEMMA LesseesAreCounted ==
  ASSUME NEW S \in SUBSET Callers
  PROVE  IsFiniteSet(S) /\ Cardinality(S) \in Nat
BY CallersAssumption, FS_Subset, FS_CardinalityType

(* A step that moves leases, of entries that no upload owns.                *)
LEMMA LeasesMove ==
  ASSUME IInv, UNCHANGED <<generation, device, cached, openings>>,
         entries' \in Seq(Entry), DOMAIN entries' = DOMAIN entries,
         \A e \in DOMAIN entries : entries'[e].key = entries[e].key /\ entries'[e].gen = entries[e].gen
                                   /\ entries'[e].live = entries[e].live,
         \A d \in Callers : lease'[d] \in {None, lease[d]} \/ \E k \in Keys : lease'[d] = cached[k],
         RefsCountLessees', NEW c \in Callers, NEW r \in Call, Place(c, r),
         call[c].at = "idle", r.at = "idle", r.kind = "none",
         \A d \in Callers : lease'[d] = lease[d] \/ d = c
  PROVE  CacheInv'
<1>1. /\ TypeOK /\ GenerationsPass /\ CallsAreShaped /\ UploadsAreOwned
      /\ CacheIsKeyed /\ CacheIsOfTheDevice /\ OpeningsAreCalls
  BY DEF IInv, ScopeInv, CacheInv
<1>2. call'[c] = r /\ \A d \in Callers : d # c => call'[d] = call[d]
  BY <1>1, Placed
<1>3. call[c].kind = "none"
  BY <1>1 DEF CallsAreShaped, Shape
<1>4. GenerationsPass'
  BY <1>1, <1>2 DEF GenerationsPass, Past
<1>5. CallsAreShaped'
  <2> SUFFICES ASSUME NEW d \in Callers PROVE Shape(d, call[d])'
    BY DEF CallsAreShaped
  <2>1. CASE d = c
    BY <1>2, <2>1 DEF Shape
  <2>2. CASE d # c
    BY <1>1, <1>2, <2>2 DEF CallsAreShaped, Shape
  <2> QED BY <2>1, <2>2
<1>6. UploadsAreOwned'
  <2>1. \A d \in Callers : Uploaded(call'[d]) => d # c /\ Uploaded(call[d]) /\ call'[d] = call[d]
    BY <1>2 DEF Uploaded
  <2>2. ASSUME NEW d \in Callers, Pending(call[d])' PROVE Own(call[d])'
    <3>1. d # c /\ Pending(call[d]) /\ call'[d] = call[d]
      BY <2>1, <2>2 DEF Pending, Uploaded
    <3>2. Own(call[d]) /\ call[d].entry \in DOMAIN entries /\ call[d].entry # None
      BY <1>1, <3>1 DEF UploadsAreOwned, CallsAreShaped, Shape, Pending, Uploaded
    <3> QED BY <3>1, <3>2 DEF Own
  <2>3. \A d, f \in Callers :
          Uploaded(call[d])' /\ Uploaded(call[f])' /\ d # f => call'[d].entry # call'[f].entry
    BY <1>1, <2>1 DEF UploadsAreOwned, Uploaded
  <2> QED BY <2>2, <2>3 DEF UploadsAreOwned
<1>7. CacheIsKeyed' /\ CacheIsOfTheDevice'
  <2>1. \A k \in CachedKeys' : k \in CachedKeys /\ cached[k] \in DOMAIN entries
    BY <1>1 DEF CachedKeys, TypeOK
  <2> QED BY <1>1, <2>1 DEF CacheIsKeyed, CacheIsOfTheDevice
<1>8. OpeningsAreCalls'
  <2>1. \A k \in Keys : openings[k] # NoOne => openings[k] \in Callers /\ openings[k] # c
    BY <1>1, <1>3 DEF TypeOK, OpeningsAreCalls
  <2>2. InFlight' = InFlight
    BY <1>2, <2>1 DEF InFlight
  <2> QED BY <1>1, <1>2, <2>1, <2>2 DEF OpeningsAreCalls
<1> QED BY <1>4, <1>5, <1>6, <1>7, <1>8 DEF CacheInv

(* A release takes one reference and one lessee.                            *)
LEMMA ReleaseStep ==
  ASSUME IInv, NEW c \in Callers, Release(c)
  PROVE  IInv'
<1> DEFINE e == lease[c]
<1>1. /\ TypeOK /\ RefsCountLessees /\ TurnsAreTaken /\ ErrorsAreKept
  BY DEF IInv, ScopeInv, CacheInv
<1>2. /\ call[c].at = "idle" /\ call[c] \in Call /\ e \in DOMAIN entries
      /\ UNCHANGED <<deviceVars, scopes, cached, residentBytes, reserved, openings, call, calls>>
      /\ lease' = [lease EXCEPT ![c] = None] /\ recency' = Touch(e)
  BY <1>1 DEF Release, TypeOK
<1>3. Lessees(e) \in SUBSET Callers /\ c \in Lessees(e)
  BY DEF Lessees
<1>4. PICK n : n = entries[e].refs - 1
  OBVIOUS
<1>5. n \in Nat /\ n = Cardinality(Lessees(e) \ {c})
  <2>1. entries[e].refs = Cardinality(Lessees(e))
    BY <1>1, <1>2 DEF RefsCountLessees
  <2>2. Cardinality(Lessees(e) \ {c}) = Cardinality(Lessees(e)) - 1
    BY <1>3, LesseesAreCounted, FS_RemoveElement
  <2>3. Cardinality(Lessees(e) \ {c}) \in Nat
    BY <1>3, LesseesAreCounted
  <2> QED BY <1>4, <2>1, <2>2, <2>3
<1>6. entries' = [entries EXCEPT ![e].refs = n]
  BY <1>4 DEF Release
<1>7. /\ entries' \in Seq(Entry) /\ DOMAIN entries' = DOMAIN entries
      /\ \A f \in DOMAIN entries :
           /\ entries'[f].key = entries[f].key /\ entries'[f].gen = entries[f].gen
           /\ entries'[f].live = entries[f].live
           /\ entries'[f].refs = IF f = e THEN n ELSE entries[f].refs
  BY <1>1, <1>2, <1>5, <1>6, RefsChange
<1>8. \A d \in Callers : lease'[d] = IF d = c THEN None ELSE lease[d]
  BY <1>1, <1>2 DEF TypeOK
<1>9. RefsCountLessees'
  <2> SUFFICES ASSUME NEW f \in DOMAIN entries PROVE entries'[f].refs = Cardinality(Lessees(f)')
    BY <1>7 DEF RefsCountLessees
  <2>0. f # None
    BY <1>1, EntryOf
  <2>1. CASE f = e
    <3>1. Lessees(f)' = Lessees(e) \ {c}
      BY <1>8, <2>0, <2>1 DEF Lessees
    <3> QED BY <1>5, <1>7, <2>1, <3>1
  <2>2. CASE f # e
    <3>1. Lessees(f)' = Lessees(f)
      BY <1>8, <2>0, <2>2 DEF Lessees
    <3> QED BY <1>1, <1>7, <2>2, <3>1 DEF RefsCountLessees
  <2> QED BY <2>1, <2>2
<1>10. CacheInv'
  <2>1. PICK r : r = call[c]
    OBVIOUS
  <2>2. r \in Call /\ Place(c, r) /\ r.at = "idle" /\ r.kind = "none"
    BY <1>1, <1>2, <2>1 DEF Place, TypeOK, IInv, CacheInv, CallsAreShaped, Shape
  <2>3. \A d \in Callers : /\ lease'[d] \in {None, lease[d]}
                           /\ lease'[d] = lease[d] \/ d = c
    BY <1>8
  <2>4. UNCHANGED <<generation, device, cached, openings>>
    BY <1>2 DEF deviceVars
  <2>5. \A f \in DOMAIN entries : entries'[f].key = entries[f].key /\ entries'[f].gen = entries[f].gen
                                  /\ entries'[f].live = entries[f].live
    BY <1>7
  <2> HIDE DEF e
  <2> QED BY <1>2, <1>7, <1>9, <2>2, <2>3, <2>4, <2>5, LeasesMove
<1>11. TypeOK'
  <2>1. recency' \in Seq(DOMAIN entries)
    BY <1>1, <1>2, Touched
  <2>2. lease' \in [Callers -> {None} \cup DOMAIN entries]
    BY <1>1, <1>2 DEF TypeOK
  <2> QED BY <1>1, <1>2, <1>7, <2>1, <2>2 DEF TypeOK, deviceVars
<1>12. TurnsAreTaken' /\ ErrorsAreKept'
  BY <1>1, <1>2 DEF TurnsAreTaken, Turn, First, ErrorsAreKept, Kept, deviceVars
<1> QED BY <1>10, <1>11, <1>12 DEF IInv, ScopeInv

-----------------------------------------------------------------------------
(* A block is asked for.                                                   *)

(* The call of an idle caller ends at once.                                 *)
LEMMA IdleCall ==
  ASSUME IInv, NEW c \in Callers, CanCall(c)
  PROVE  /\ Idle("none") \in Call /\ Idle("none").at = "idle" /\ Idle("none").kind = "none"
         /\ Idle("none").garbage = FALSE
         /\ call[c].kind = "none" /\ calls \in Nat /\ call[c].at = "idle"
BY CallOf DEF Idle, Call, Places, None, CanCall, Shape, IInv, ScopeInv, TypeOK

(* The block is on the device: it is leased.                                *)
LEMMA CacheHitStep ==
  ASSUME IInv, NEW c \in Callers, NEW k \in Keys, CanCall(c), lease[c] = None, cached[k] # None,
         Grant(c, cached[k], entries), recency' = Touch(cached[k]), Place(c, Idle("none")), calls' = calls + 1,
         UNCHANGED <<deviceVars, scopes, cached, residentBytes, reserved, openings>>
  PROVE  IInv'
<1>0. PICK r : r = Idle("none")
  OBVIOUS
<1>1. /\ TypeOK /\ ScopeInv /\ RefsCountLessees /\ TurnsAreTaken /\ ErrorsAreKept
      /\ cached[k] \in DOMAIN entries
  BY DEF IInv, ScopeInv, CacheInv, TypeOK
<1>2. PICK e \in DOMAIN entries : e = cached[k]
  BY <1>1
<1>3. /\ Place(c, r) /\ r \in Call /\ r.at = "idle" /\ r.kind = "none" /\ r.garbage = FALSE
      /\ call[c].kind = "none" /\ call[c].at = "idle" /\ calls \in Nat
  BY <1>0, IdleCall
<1>4. Lessees(e) \in SUBSET Callers /\ c \notin Lessees(e)
  <2>1. e # None
    BY <1>1, <1>2, EntryOf
  <2> QED BY <2>1 DEF Lessees
<1>5. PICK n : n = entries[e].refs + 1
  OBVIOUS
<1>6. n \in Nat /\ n = Cardinality(Lessees(e) \cup {c})
  <2>1. entries[e].refs = Cardinality(Lessees(e))
    BY <1>1, <1>2 DEF RefsCountLessees
  <2>2. Cardinality(Lessees(e) \cup {c}) = Cardinality(Lessees(e)) + 1
    BY <1>4, LesseesAreCounted, FS_AddElement
  <2>3. Cardinality(Lessees(e)) \in Nat
    BY <1>4, LesseesAreCounted
  <2> QED BY <1>5, <2>1, <2>2, <2>3
<1>7. entries' = [entries EXCEPT ![e].refs = n] /\ lease' = [lease EXCEPT ![c] = e]
  BY <1>2, <1>5 DEF Grant
<1>8. /\ entries' \in Seq(Entry) /\ DOMAIN entries' = DOMAIN entries
      /\ \A f \in DOMAIN entries :
           /\ entries'[f].key = entries[f].key /\ entries'[f].gen = entries[f].gen
           /\ entries'[f].live = entries[f].live
           /\ entries'[f].refs = IF f = e THEN n ELSE entries[f].refs
  BY <1>1, <1>6, <1>7, RefsChange
<1>9. \A d \in Callers : lease'[d] = IF d = c THEN e ELSE lease[d]
  BY <1>1, <1>7 DEF TypeOK
<1>10. RefsCountLessees'
  <2> SUFFICES ASSUME NEW f \in DOMAIN entries PROVE entries'[f].refs = Cardinality(Lessees(f)')
    BY <1>8 DEF RefsCountLessees
  <2>0. f # None
    BY <1>1, EntryOf
  <2>1. CASE f = e
    <3>1. Lessees(f)' = Lessees(e) \cup {c}
      BY <1>9, <2>1 DEF Lessees
    <3> QED BY <1>6, <1>8, <2>1, <3>1
  <2>2. CASE f # e
    <3>1. Lessees(f)' = Lessees(f)
      BY <1>9, <2>0, <2>2 DEF Lessees
    <3> QED BY <1>1, <1>8, <2>2, <3>1 DEF RefsCountLessees
  <2> QED BY <2>1, <2>2
<1>11. CacheInv'
  <2>1. \A d \in Callers : /\ lease'[d] \in {None, lease[d]} \/ \E j \in Keys : lease'[d] = cached[j]
                           /\ lease'[d] = lease[d] \/ d = c
    BY <1>2, <1>9
  <2>2. UNCHANGED <<generation, device, cached, openings>>
    BY DEF deviceVars
  <2>3. \A f \in DOMAIN entries : entries'[f].key = entries[f].key /\ entries'[f].gen = entries[f].gen
                                  /\ entries'[f].live = entries[f].live
    BY <1>8
  <2> QED BY <1>3, <1>8, <1>10, <2>1, <2>2, <2>3, LeasesMove
<1>12. TypeOK'
  <2>1. recency' \in Seq(DOMAIN entries)
    BY <1>1, <1>2, Touched
  <2>2. lease' \in [Callers -> {None} \cup DOMAIN entries] /\ call' \in [Callers -> Call]
    BY <1>1, <1>3, <1>7, Placed DEF TypeOK
  <2> QED BY <1>1, <1>3, <1>8, <2>1, <2>2 DEF TypeOK, deviceVars
<1>13. Turn(c, r)' /\ Kept(r)'
  BY <1>3 DEF Turn, Kept, Holding
<1>14. TurnsAreTaken'
  BY <1>1, <1>3, <1>13, TurnsMove DEF deviceVars, First
<1>15. ErrorsAreKept'
  BY <1>1, <1>3, <1>13, ErrorsMove DEF deviceVars
<1> QED BY <1>11, <1>12, <1>14, <1>15 DEF IInv, ScopeInv

(* Room is made, and the upload is queued or refused.                       *)
LEMMA CacheMissStep ==
  ASSUME IInv, NEW c \in Callers, NEW k \in Keys, CanCall(c), lease[c] = None, cached[k] = None,
         openings[k] = NoOne, CacheMiss(c, k), calls' = calls + 1, UNCHANGED deviceVars
  PROVE  IInv'
<1>1. /\ TypeOK /\ ScopeInv /\ TurnsAreTaken /\ ErrorsAreKept /\ GenerationsPass /\ CallsAreShaped
      /\ UploadsAreOwned /\ CacheIsKeyed /\ CacheIsOfTheDevice /\ OpeningsAreCalls /\ RefsCountLessees
  BY DEF IInv, ScopeInv, CacheInv
<1>2. call[c].at = "idle" /\ call[c].kind = "none" /\ calls \in Nat
  BY IdleCall
<1>3. PICK gone : gone = Evicted(Bytes[k])
  OBVIOUS
<1>4. gone \subseteq CachedKeys
  BY <1>3 DEF Evicted
<1>5. /\ cached' = [j \in Keys |-> IF j \in gone THEN None ELSE cached[j]]
      /\ residentBytes' = residentBytes - BytesOf(gone)
      /\ entries' = Destroyed({cached[j] : j \in gone}) /\ UNCHANGED <<recency, lease>>
  BY <1>3 DEF CacheMiss
<1>6. /\ entries' \in Seq(Entry) /\ DOMAIN entries' = DOMAIN entries
      /\ \A e \in DOMAIN entries :
           /\ entries'[e].key = entries[e].key /\ entries'[e].gen = entries[e].gen
           /\ entries'[e].refs = entries[e].refs
           /\ entries'[e].live = (entries[e].live /\ e \notin {cached[j] : j \in gone})
  BY <1>1, <1>5, EntriesDestroyed
<1>7. PICK r \in Call :
        /\ Place(c, r) /\ r.garbage = FALSE /\ r.entry = None
        /\ \/ /\ r.at = "queued" /\ r.kind = "cache" /\ r.key = k
              /\ openings' = [openings EXCEPT ![k] = c] /\ reserved' = reserved + Bytes[k]
              /\ scopes' = Append(scopes, c)
           \/ r.at = "idle" /\ r.kind = "none" /\ UNCHANGED <<scopes, reserved, openings>>
  <2>1. CASE HasRoom(gone, Bytes[k])
    <3>1. PICK r : r = Started("cache", k, None)
      OBVIOUS
    <3>2. r \in Call /\ r.garbage = FALSE /\ r.entry = None /\ r.at = "queued" /\ r.kind = "cache" /\ r.key = k
      BY <3>1 DEF Started, Idle, Call, Places, None
    <3> QED BY <1>3, <2>1, <3>1, <3>2 DEF CacheMiss, Queue
  <2>2. CASE ~HasRoom(gone, Bytes[k])
    <3>1. PICK r : r = Idle("none")
      OBVIOUS
    <3>2. r \in Call /\ r.garbage = FALSE /\ r.entry = None /\ r.at = "idle" /\ r.kind = "none"
      BY <3>1 DEF Idle, Call, Places, None
    <3> QED BY <1>3, <2>2, <3>1, <3>2 DEF CacheMiss
  <2> QED BY <2>1, <2>2
<1>8. call'[c] = r /\ call' \in [Callers -> Call] /\ \A d \in Callers : d # c => call'[d] = call[d]
  BY <1>1, <1>7, Placed
<1>9. /\ openings' \in [Keys -> Callers \cup {NoOne}] /\ c # NoOne
      /\ \A j \in Keys : openings'[j] = IF j = k /\ r.kind = "cache" THEN c ELSE openings[j]
  BY <1>1, <1>7, NoOneAssumption DEF TypeOK
<1>10. \A j \in Keys : cached'[j] = (IF j \in gone THEN None ELSE cached[j])
                       /\ cached[j] \in {None} \cup DOMAIN entries
  BY <1>1, <1>5 DEF TypeOK
<1>11. /\ scopes' \in Seq(Callers) /\ Turn(c, r)' /\ Kept(r)'
       /\ \A d \in Callers : (First(d) => First(d)') /\ (Among(d, scopes) => Among(d, scopes)')
  <2>1. CASE scopes' = Append(scopes, c)
    <3>1. scopes' \in Seq(Callers) /\ Among(c, scopes)'
      BY <1>1, <2>1, QueueJoined
    <3>2. \A d \in Callers : (First(d) => First(d)') /\ (Among(d, scopes) => Among(d, scopes)')
      BY <1>1, <2>1, QueueJoined
    <3> QED BY <1>7, <3>1, <3>2 DEF Turn, Kept, Holding
  <2>2. CASE UNCHANGED scopes /\ r.at = "idle"
    BY <1>1, <1>7, <2>2 DEF TypeOK, Turn, Kept, First, Holding
  <2> QED BY <1>7, <2>1, <2>2
<1>12. TypeOK'
  <2>1. residentBytes' \in Int /\ reserved' \in Int
    <3>1. Bytes[k] \in Nat /\ BytesOf(gone) \in Nat
      BY <1>4, BytesAreNatural, SizesAssumption DEF CachedKeys
    <3> QED BY <1>1, <1>5, <1>7, <3>1 DEF TypeOK
  <2>2. cached' \in [Keys -> {None} \cup DOMAIN entries]
    BY <1>5, <1>10
  <2>3. /\ cached' \in [Keys -> {None} \cup DOMAIN entries'] /\ recency' \in Seq(DOMAIN entries')
        /\ lease' \in [Callers -> {None} \cup DOMAIN entries'] /\ entries' \in Seq(Entry)
    BY <1>1, <1>5, <1>6, <2>2 DEF TypeOK
  <2>4. calls' \in Nat
    BY <1>2
  <2> QED BY <1>1, <1>8, <1>9, <1>11, <2>1, <2>3, <2>4 DEF TypeOK, deviceVars
<1>13. TurnsAreTaken'
  BY <1>1, <1>7, <1>11, TurnsMove DEF deviceVars
<1>14. ErrorsAreKept'
  BY <1>1, <1>7, <1>11, ErrorsMove DEF deviceVars
<1>15. GenerationsPass'
  BY <1>1, <1>6, <1>7, <1>8 DEF GenerationsPass, Past, deviceVars
<1>16. CallsAreShaped'
  <2> SUFFICES ASSUME NEW d \in Callers PROVE Shape(d, call[d])'
    BY DEF CallsAreShaped
  <2>1. CASE d = c
    BY <1>5, <1>7, <1>8, <2>1 DEF Shape
  <2>2. CASE d # c
    BY <1>1, <1>5, <1>6, <1>8, <2>2 DEF CallsAreShaped, Shape
  <2> QED BY <2>1, <2>2
<1>17. UploadsAreOwned'
  <2>1. \A d \in Callers : Uploaded(call'[d]) => d # c /\ Uploaded(call[d]) /\ call'[d] = call[d]
    BY <1>7, <1>8 DEF Uploaded
  <2>2. ASSUME NEW d \in Callers, Pending(call[d])' PROVE Own(call[d])'
    <3>1. d # c /\ Pending(call[d]) /\ call'[d] = call[d]
      BY <2>1, <2>2 DEF Pending, Uploaded
    <3>2. Own(call[d]) /\ call[d].entry \in DOMAIN entries /\ call[d].entry # None
      BY <1>1, <3>1 DEF UploadsAreOwned, CallsAreShaped, Shape, Pending, Uploaded
    <3>3. call[d].entry \notin {cached[j] : j \in gone}
      BY <1>4, <3>2 DEF Own, CachedKeys
    <3>4. \A j \in Keys : cached'[j] # call[d].entry
      BY <1>10, <3>2 DEF Own
    <3>5. UNCHANGED <<generation, device, lease>>
      BY <1>5 DEF deviceVars
    <3>6. entries'[call[d].entry].live = entries[call[d].entry].live
      <4>1. entries[call[d].entry].live \in BOOLEAN
        BY <1>1, <3>2, EntryOf DEF Entry
      <4> QED BY <1>6, <3>2, <3>3, <4>1
    <3>7. /\ entries'[call[d].entry].key = entries[call[d].entry].key
          /\ entries'[call[d].entry].gen = entries[call[d].entry].gen
      BY <1>6, <3>2
    <3> QED BY <3>1, <3>2, <3>4, <3>5, <3>6, <3>7 DEF Own
  <2>3. \A d, f \in Callers :
          Uploaded(call[d])' /\ Uploaded(call[f])' /\ d # f => call'[d].entry # call'[f].entry
    BY <1>1, <2>1 DEF UploadsAreOwned, Uploaded
  <2> QED BY <2>2, <2>3 DEF UploadsAreOwned
<1>18. CacheIsKeyed' /\ CacheIsOfTheDevice'
  <2>1. ASSUME NEW j \in CachedKeys'
        PROVE  j \in CachedKeys /\ cached'[j] = cached[j] /\ cached[j] \in DOMAIN entries
               /\ cached[j] \notin {cached[i] : i \in gone}
    <3>1. j \in Keys /\ j \notin gone /\ cached[j] # None /\ cached'[j] = cached[j]
      BY <1>10 DEF CachedKeys
    <3>2. ASSUME NEW i \in gone PROVE cached[i] # cached[j]
      BY <1>1, <1>4, <3>1 DEF CacheIsKeyed, CachedKeys
    <3> QED BY <1>10, <3>1, <3>2 DEF CachedKeys
  <2>2. CacheIsKeyed'
    BY <1>1, <1>6, <2>1 DEF CacheIsKeyed
  <2>3. UNCHANGED <<generation, device>>
    BY DEF deviceVars
  <2>4. ASSUME NEW j \in CachedKeys'
        PROVE  entries'[cached'[j]].gen = generation /\ (device = "up" => entries'[cached'[j]].live)
    <3>1. entries[cached[j]].gen = generation /\ (device = "up" => entries[cached[j]].live)
      BY <1>1, <2>1 DEF CacheIsOfTheDevice
    <3> QED BY <1>6, <2>1, <3>1
  <2>5. CacheIsOfTheDevice'
    BY <2>3, <2>4 DEF CacheIsOfTheDevice
  <2> QED BY <2>2, <2>5
<1>19. OpeningsAreCalls'
  <2>1. \A j \in Keys : openings[j] # NoOne => openings[j] \in Callers /\ openings[j] # c /\ j # k
    BY <1>1, <1>2 DEF TypeOK, OpeningsAreCalls
  <2>2. \A j \in InFlight' : j = k \/ j \in InFlight
    BY <1>8, <1>9, <2>1 DEF InFlight
  <2>3. \A j \in InFlight' : cached'[j] = None
    BY <1>1, <1>10, <2>2 DEF OpeningsAreCalls, InFlight
  <2>4. \A j \in Keys : openings'[j] # NoOne => call'[openings'[j]].kind = "cache" /\ call'[openings'[j]].key = j
    BY <1>1, <1>7, <1>8, <1>9, <2>1 DEF OpeningsAreCalls
  <2>5. \A d \in Callers : d # c /\ call[d].kind = "cache" => call[d].key # k /\ call[d].key \in Keys /\ d # NoOne
    BY <1>1, NoOneAssumption DEF OpeningsAreCalls, CallsAreShaped, Shape
  <2>6. \A d \in Callers : call'[d].kind = "cache" => openings'[call'[d].key] = d
    BY <1>1, <1>7, <1>8, <1>9, <2>5 DEF OpeningsAreCalls
  <2> QED BY <2>3, <2>4, <2>6 DEF OpeningsAreCalls
<1>20. RefsCountLessees'
  BY <1>1, <1>5, <1>6 DEF RefsCountLessees, Lessees
<1> QED BY <1>12, <1>13, <1>14, <1>15, <1>16, <1>17, <1>18, <1>19, <1>20 DEF IInv, ScopeInv, CacheInv

(* A call for a block is refused, granted, joined or opened.                *)
LEMMA StartCacheStep ==
  ASSUME IInv, NEW c \in Callers, NEW k \in Keys, StartCache(c, k)
  PROVE  IInv'
<1>1. CanCall(c) /\ lease[c] = None /\ calls' = calls + 1 /\ UNCHANGED deviceVars
  BY DEF StartCache
<1>2. /\ Idle("none") \in Call /\ Idle("none").at = "idle" /\ Idle("none").kind = "none"
      /\ Idle("none").garbage = FALSE /\ call[c].kind = "none" /\ frames \in Seq(BOOLEAN)
  BY <1>1, IdleCall, CallOf
<1>3. CASE Place(c, Idle("none")) /\ UNCHANGED <<scopes, cacheVars, lease>>
  <2>1. PICK r : r = Idle("none")
    OBVIOUS
  <2>2. Turn(c, r)' /\ Kept(r)' /\ Shape(c, r) /\ Continues(r, call[c])
    BY <1>2, <2>1 DEF Turn, Kept, Shape, Continues, Holding
  <2> QED BY <1>1, <1>2, <1>3, <2>1, <2>2, CallMoves DEF deviceVars
<1>4. CASE Place(c, [Started("join", k, None) EXCEPT !.at = "joining"]) /\ UNCHANGED <<scopes, cacheVars, lease>>
  <2>1. PICK r : r = [Started("join", k, None) EXCEPT !.at = "joining"]
    OBVIOUS
  <2>2. r \in Call /\ r.at = "joining" /\ r.kind = "join" /\ r.garbage = FALSE /\ r.key = k
    BY <2>1 DEF Started, Idle, Call, Places, None
  <2>3. Turn(c, r)' /\ Kept(r)' /\ Shape(c, r) /\ Continues(r, call[c])
    BY <1>1, <1>2, <2>2 DEF Turn, Kept, Shape, Continues, Holding
  <2> QED BY <1>1, <1>2, <1>4, <2>1, <2>2, <2>3, CallMoves DEF deviceVars
<1> QED BY <1>1, <1>3, <1>4, CacheHitStep, CacheMissStep DEF StartCache

-----------------------------------------------------------------------------
(* An upload.                                                              *)

LEMMA UploadStep ==
  ASSUME IInv, NEW c \in Callers, Upload(c)
  PROVE  IInv'
<1>1. /\ TypeOK /\ ScopeInv /\ TurnsAreTaken /\ ErrorsAreKept /\ GenerationsPass /\ CallsAreShaped
      /\ UploadsAreOwned /\ CacheIsKeyed /\ CacheIsOfTheDevice /\ OpeningsAreCalls /\ RefsCountLessees
  BY DEF IInv, ScopeInv, CacheInv
<1>2. /\ call[c].at = "working" /\ call[c].kind = "cache"
      /\ UNCHANGED <<generation, closed, device, scopes, cached, residentBytes, reserved, openings, lease, calls>>
  BY DEF Upload
<1>3. /\ call[c] \in Call /\ First(c) /\ frames \in Seq(BOOLEAN) /\ frames # <<>> /\ Past(call[c].on)
      /\ call[c].key \in Keys /\ lease[c] = None /\ call[c].entry = None /\ call[c].garbage = FALSE
  BY <1>1, <1>2, CallOf DEF Turn, Holding, Kept, Shape, GenerationsPass
<1>4. CASE Worked(c, FALSE, "lakeql") /\ UNCHANGED <<entries, recency, frames>>
  <2>1. PICK r : r = [call[c] EXCEPT !.at = "popping", !.garbage = FALSE,
                        !.failure = IF "lakeql" = "none" /\ Signalled(c) THEN "lakeql" ELSE "lakeql"]
    OBVIOUS
  <2>2. Place(c, r)
    BY <1>4, <2>1 DEF Worked
  <2>3. /\ r \in Call /\ r.at = "popping" /\ r.kind = call[c].kind /\ r.key = call[c].key
        /\ r.entry = call[c].entry /\ r.garbage = FALSE /\ r.failure = "lakeql"
    BY <1>3, <2>1 DEF Call, Places
  <2>4. Turn(c, r)' /\ Kept(r)' /\ Shape(c, r) /\ Continues(r, call[c])
    BY <1>2, <1>3, <1>4, <2>3 DEF Turn, First, Kept, Shape, Continues, Pending, Uploaded
  <2> QED BY <1>2, <1>3, <1>4, <2>2, <2>3, <2>4, CallMoves DEF cacheVars
<1>5. CASE ~(Worked(c, FALSE, "lakeql") /\ UNCHANGED <<entries, recency, frames>>)
  <2> DEFINE n == Len(entries) + 1
  <2>1. PICK whole \in BOOLEAN :
          /\ entries' = Append(entries, [key |-> call[c].key, gen |-> call[c].on, refs |-> 0,
                                         live |-> Standing(c), whole |-> whole])
          /\ Raise(Standing(c) /\ ~whole)
          /\ recency' = Append(recency, n) /\ Place(c, [call[c] EXCEPT !.at = "popping", !.entry = n])
    BY <1>5 DEF Upload
  <2>2. PICK x \in Entry : /\ entries' = Append(entries, x)
                           /\ x.key = call[c].key /\ x.gen = call[c].on /\ x.refs = 0 /\ x.live = Standing(c)
    <3>1. Standing(c) \in BOOLEAN /\ call[c].on \in Nat
      BY <1>3 DEF Standing, Call
    <3>2. [key |-> call[c].key, gen |-> call[c].on, refs |-> 0, live |-> Standing(c), whole |-> whole] \in Entry
      BY <1>3, <3>1 DEF Entry
    <3> QED BY <2>1, <3>2
  <2>3. /\ entries' \in Seq(Entry) /\ n \in Nat /\ n # None /\ n \notin DOMAIN entries
        /\ DOMAIN entries' = DOMAIN entries \cup {n} /\ entries'[n] = x
        /\ \A e \in DOMAIN entries : entries'[e] = entries[e]
    BY <1>1, <2>2, EntryAdded
  <2>4. PICK m : m = n
    OBVIOUS
  <2> HIDE DEF n
  <2>5. PICK r : r = [call[c] EXCEPT !.at = "popping", !.entry = m]
    OBVIOUS
  <2>6. /\ r \in Call /\ r.at = "popping" /\ r.kind = "cache" /\ r.key = call[c].key
        /\ r.entry = m /\ r.garbage = FALSE /\ r.on = call[c].on
    BY <1>2, <1>3, <2>3, <2>4, <2>5 DEF Call, Places
  <2>7. Place(c, r)
    BY <2>1, <2>4, <2>5
  <2>8. call'[c] = r /\ call' \in [Callers -> Call] /\ \A d \in Callers : d # c => call'[d] = call[d]
    BY <1>1, <2>6, <2>7, Placed
  <2>9. frames' \in Seq(BOOLEAN) /\ frames' # <<>>
    BY <1>3, <2>1, Raised DEF Standing
  <2>10. Turn(c, r)' /\ Kept(r)'
    BY <1>2, <1>3, <2>6, <2>9 DEF Turn, First, Kept
  <2>11. TurnsAreTaken'
    BY <1>1, <1>2, <2>6, <2>7, <2>10, TurnsMove DEF First
  <2>12. ErrorsAreKept'
    BY <1>1, <1>2, <1>3, <2>6, <2>7, <2>10, ErrorsMove
  <2>13. TypeOK'
    <3>1. recency' \in Seq(DOMAIN entries')
      <4>1. recency \in Seq(DOMAIN entries) /\ DOMAIN entries \subseteq DOMAIN entries'
        BY <1>1, <2>3 DEF TypeOK
      <4>2. recency \in Seq(DOMAIN entries')
        BY <4>1, SeqMonotonic
      <4> QED BY <2>1, <2>3, <4>2
    <3>2. /\ cached' \in [Keys -> {None} \cup DOMAIN entries']
          /\ lease' \in [Callers -> {None} \cup DOMAIN entries']
      BY <1>1, <1>2, <2>3 DEF TypeOK
    <3> QED BY <1>1, <1>2, <2>3, <2>8, <2>9, <3>1, <3>2 DEF TypeOK
  <2>14. GenerationsPass'
    <3>1. \A gen : Past(gen)' = Past(gen)
      BY <1>2 DEF Past
    <3>2. \A e \in DOMAIN entries' : Past(entries'[e].gen)
      BY <1>1, <1>3, <2>2, <2>3 DEF GenerationsPass
    <3>3. \A d \in Callers : call'[d].at = "working" => Past(call'[d].on)
      BY <1>1, <2>6, <2>8 DEF GenerationsPass
    <3> QED BY <3>1, <3>2, <3>3 DEF GenerationsPass
  <2>15. CallsAreShaped'
    <3> SUFFICES ASSUME NEW d \in Callers PROVE Shape(d, call[d])'
      BY DEF CallsAreShaped
    <3>1. CASE d = c
      BY <1>2, <1>3, <2>3, <2>4, <2>6, <2>8, <3>1 DEF Shape
    <3>2. CASE d # c
      BY <1>1, <1>2, <2>3, <2>8, <3>2 DEF CallsAreShaped, Shape
    <3> QED BY <3>1, <3>2
  <2>16. UploadsAreOwned'
    <3>1. \A d \in Callers : d # c /\ Uploaded(call'[d]) =>
            call'[d] = call[d] /\ call[d].entry \in DOMAIN entries /\ call[d].entry # m
      BY <1>1, <2>3, <2>4, <2>8 DEF Uploaded, CallsAreShaped, Shape
    <3>2. \A d, f \in Callers :
            Uploaded(call[d])' /\ Uploaded(call[f])' /\ d # f => call'[d].entry # call'[f].entry
      BY <1>1, <2>6, <2>8, <3>1 DEF UploadsAreOwned, Uploaded
    <3>3. ASSUME NEW d \in Callers, Pending(call[d])' PROVE Own(call[d])'
      <4>1. CASE d = c
        <5>1. entries'[m] = x /\ \A k \in Keys : cached[k] # m
          BY <1>1, <2>3, <2>4 DEF TypeOK
        <5>2. \A f \in Callers : lease[f] # m
          BY <1>1, <2>3, <2>4 DEF TypeOK
        <5>3. call[c].on = generation /\ device = "up" => x.live
          BY <2>2 DEF Standing
        <5> QED BY <1>2, <2>2, <2>6, <2>8, <4>1, <5>1, <5>2, <5>3 DEF Own
      <4>2. CASE d # c
        <5>1. call'[d] = call[d] /\ call[d].entry \in DOMAIN entries /\ Own(call[d])
          BY <1>1, <3>1, <3>3, <4>2 DEF UploadsAreOwned, Pending, Uploaded
        <5> QED BY <1>2, <2>3, <5>1 DEF Own
      <4> QED BY <4>1, <4>2
    <3> QED BY <3>2, <3>3 DEF UploadsAreOwned
  <2>17. CacheIsKeyed' /\ CacheIsOfTheDevice'
    <3>1. \A k \in CachedKeys' : k \in CachedKeys /\ entries'[cached'[k]] = entries[cached[k]]
      BY <1>1, <1>2, <2>3 DEF CachedKeys, TypeOK
    <3> QED BY <1>1, <1>2, <3>1 DEF CacheIsKeyed, CacheIsOfTheDevice
  <2>18. OpeningsAreCalls'
    <3>1. InFlight' = InFlight
      BY <1>1, <1>2, <2>6, <2>8 DEF InFlight, TypeOK
    <3>2. \A d \in Callers : call'[d].kind = call[d].kind /\ call'[d].key = call[d].key
      BY <1>2, <2>6, <2>8
    <3>3. \A k \in Keys : openings[k] \in Callers \cup {NoOne}
      BY <1>1 DEF TypeOK
    <3> QED BY <1>1, <1>2, <3>1, <3>2, <3>3 DEF OpeningsAreCalls
  <2>19. RefsCountLessees'
    <3>1. \A e \in DOMAIN entries' : Lessees(e)' = Lessees(e)
      BY <1>2 DEF Lessees
    <3>2. Lessees(m) = {}
      BY <1>1, <2>3, <2>4 DEF Lessees, TypeOK
    <3> QED BY <1>1, <2>2, <2>3, <2>4, <3>1, <3>2, FS_EmptySet DEF RefsCountLessees
  <2> QED BY <2>11, <2>12, <2>13, <2>14, <2>15, <2>16, <2>17, <2>18, <2>19 DEF IInv, ScopeInv, CacheInv
<1> QED BY <1>4, <1>5

(* The entry is cached, or destroyed.                                       *)
LEMMA CachedStep ==
  ASSUME IInv, NEW c \in Callers, Cached(c)
  PROVE  IInv'
<1>1. /\ TypeOK /\ ScopeInv /\ TurnsAreTaken /\ ErrorsAreKept /\ GenerationsPass /\ CallsAreShaped
      /\ UploadsAreOwned /\ CacheIsKeyed /\ CacheIsOfTheDevice /\ OpeningsAreCalls /\ RefsCountLessees
  BY DEF IInv, ScopeInv, CacheInv
<1>2. PICK e, k : e = call[c].entry /\ k = call[c].key
  OBVIOUS
<1>3. /\ call[c].at = "caching" /\ UNCHANGED <<deviceVars, scopes, recency, reserved, openings, lease, calls>>
  BY DEF Cached
<1>4. /\ call[c] \in Call /\ call[c].kind = "cache" /\ e \in DOMAIN entries /\ e # None /\ k \in Keys
      /\ lease[c] = None /\ call[c].garbage = FALSE
  BY <1>2, <1>3, CallOf DEF Shape, Kept
<1>5. Uploaded(call[c]) /\ Pending(call[c]) /\ Own(call[c])
  BY <1>1, <1>2, <1>3, <1>4 DEF Uploaded, Pending, UploadsAreOwned
<1>6. openings[k] = c /\ c # NoOne
  BY <1>1, <1>2, <1>4, NoOneAssumption DEF OpeningsAreCalls
<1>7. PICK r \in Call :
        /\ Place(c, r) /\ r.garbage = FALSE /\ r.kind = "cache" /\ r.key = k /\ r.entry = e
        /\ \/ /\ r.at = "cached" /\ IsOfTheDevice(e) /\ UNCHANGED entries
              /\ cached' = [cached EXCEPT ![k] = e] /\ residentBytes' = residentBytes + Bytes[k]
           \/ /\ r.at = "refused" /\ ~IsOfTheDevice(e)
              /\ entries' = Destroyed({e}) /\ UNCHANGED <<cached, residentBytes>>
  <2>1. ASSUME NEW at \in {"cached", "refused"}
        PROVE  LET r == [call[c] EXCEPT !.at = at] IN
               r \in Call /\ r.at = at /\ r.garbage = FALSE /\ r.kind = "cache" /\ r.key = k /\ r.entry = e
    BY <1>2, <1>4 DEF Call, Places
  <2>2. CASE IsOfTheDevice(e)
    <3>1. PICK r : r = [call[c] EXCEPT !.at = "cached"]
      OBVIOUS
    <3> QED BY <1>2, <2>1, <2>2, <3>1 DEF Cached
  <2>3. CASE ~IsOfTheDevice(e)
    <3>1. PICK r : r = [call[c] EXCEPT !.at = "refused"]
      OBVIOUS
    <3> QED BY <1>2, <2>1, <2>3, <3>1 DEF Cached
  <2> QED BY <2>2, <2>3
<1>8. call'[c] = r /\ call' \in [Callers -> Call] /\ \A d \in Callers : d # c => call'[d] = call[d]
  BY <1>1, <1>7, Placed
<1>9. /\ entries' \in Seq(Entry) /\ DOMAIN entries' = DOMAIN entries
      /\ \A f \in DOMAIN entries :
           /\ entries'[f].key = entries[f].key /\ entries'[f].gen = entries[f].gen
           /\ entries'[f].refs = entries[f].refs
           /\ f # e \/ r.at = "cached" => entries'[f].live = entries[f].live
  <2>1. CASE UNCHANGED entries
    BY <1>1, <2>1 DEF TypeOK
  <2>2. CASE entries' = Destroyed({e}) /\ r.at = "refused"
    <3>1. \A f \in DOMAIN entries : entries[f].live \in BOOLEAN
      BY <1>1, EntryOf DEF Entry
    <3>2. PICK es : es = {e}
      OBVIOUS
    <3>3. /\ entries' \in Seq(Entry) /\ DOMAIN entries' = DOMAIN entries
          /\ \A f \in DOMAIN entries :
               /\ entries'[f].key = entries[f].key /\ entries'[f].gen = entries[f].gen
               /\ entries'[f].refs = entries[f].refs
               /\ entries'[f].live = (entries[f].live /\ f \notin es)
      BY <1>1, <2>2, <3>2, EntriesDestroyed
    <3> QED BY <2>2, <3>1, <3>2, <3>3
  <2> QED BY <1>7, <2>1, <2>2
<1>10. /\ cached' \in [Keys -> {None} \cup DOMAIN entries]
       /\ \A j \in Keys : cached'[j] = IF j = k /\ r.at = "cached" THEN e ELSE cached[j]
  BY <1>1, <1>4, <1>7 DEF TypeOK
<1>11. Turn(c, r)' /\ Kept(r)'
  BY <1>7 DEF Turn, Kept, Holding
<1>12. TypeOK'
  <2>1. residentBytes' \in Int
    BY <1>1, <1>4, <1>7, SizesAssumption DEF TypeOK
  <2>2. /\ cached' \in [Keys -> {None} \cup DOMAIN entries'] /\ recency' \in Seq(DOMAIN entries')
        /\ lease' \in [Callers -> {None} \cup DOMAIN entries']
    BY <1>1, <1>3, <1>9, <1>10 DEF TypeOK
  <2> QED BY <1>1, <1>3, <1>8, <1>9, <2>1, <2>2 DEF TypeOK, deviceVars
<1>13. TurnsAreTaken'
  BY <1>1, <1>3, <1>7, <1>11, TurnsMove DEF deviceVars, First
<1>14. ErrorsAreKept'
  BY <1>1, <1>3, <1>7, <1>11, ErrorsMove DEF deviceVars
<1>15. GenerationsPass'
  BY <1>1, <1>3, <1>7, <1>8, <1>9 DEF GenerationsPass, Past, deviceVars
<1>16. CallsAreShaped'
  <2> SUFFICES ASSUME NEW d \in Callers PROVE Shape(d, call[d])'
    BY DEF CallsAreShaped
  <2>1. CASE d = c
    BY <1>3, <1>4, <1>7, <1>8, <1>9, <2>1 DEF Shape
  <2>2. CASE d # c
    BY <1>1, <1>3, <1>8, <1>9, <2>2 DEF CallsAreShaped, Shape
  <2> QED BY <2>1, <2>2
<1>17. UploadsAreOwned'
  <2>1. \A d \in Callers : Uploaded(call'[d]) => Uploaded(call[d]) /\ call'[d].entry = call[d].entry
    BY <1>2, <1>5, <1>7, <1>8 DEF Uploaded
  <2>2. ASSUME NEW d \in Callers, Pending(call[d])' PROVE Own(call[d])'
    <3>1. d # c /\ Pending(call[d]) /\ call'[d] = call[d]
      BY <1>7, <1>8, <2>2 DEF Pending, Uploaded
    <3>2. Own(call[d]) /\ call[d].entry \in DOMAIN entries /\ call[d].entry # e
      BY <1>1, <1>2, <1>5, <3>1 DEF UploadsAreOwned, CallsAreShaped, Shape, Pending, Uploaded
    <3>3. \A j \in Keys : cached'[j] # call[d].entry
      BY <1>10, <3>2 DEF Own
    <3> QED BY <1>3, <1>9, <3>1, <3>2, <3>3 DEF Own, deviceVars
  <2>3. \A d, f \in Callers :
          Uploaded(call[d])' /\ Uploaded(call[f])' /\ d # f => call'[d].entry # call'[f].entry
    BY <1>1, <2>1 DEF UploadsAreOwned, Uploaded
  <2> QED BY <2>2, <2>3 DEF UploadsAreOwned
<1>18. CacheIsKeyed' /\ CacheIsOfTheDevice'
  <2>1. ASSUME NEW j \in CachedKeys'
        PROVE  /\ entries'[cached'[j]].key = j /\ entries'[cached'[j]].gen = generation
               /\ device = "up" => entries'[cached'[j]].live
    <3>1. CASE j = k /\ r.at = "cached"
      <4>1. entries[e].gen = generation /\ cached'[j] = e
        BY <1>4, <1>7, <1>10, <3>1 DEF IsOfTheDevice
      <4> QED BY <1>2, <1>4, <1>5, <1>9, <3>1, <4>1 DEF Own
    <3>2. CASE ~(j = k /\ r.at = "cached")
      <4>1. j \in CachedKeys /\ cached'[j] = cached[j] /\ cached[j] \in DOMAIN entries /\ cached[j] # e
        BY <1>1, <1>2, <1>5, <1>10, <3>2 DEF CachedKeys, TypeOK, Own
      <4>2. entries[cached[j]].key = j /\ entries[cached[j]].gen = generation
            /\ (device = "up" => entries[cached[j]].live)
        BY <1>1, <4>1 DEF CacheIsKeyed, CacheIsOfTheDevice
      <4> QED BY <1>9, <4>1, <4>2
    <3> QED BY <3>1, <3>2
  <2>2. UNCHANGED <<generation, device>>
    BY <1>3 DEF deviceVars
  <2> QED BY <2>1, <2>2 DEF CacheIsKeyed, CacheIsOfTheDevice
<1>19. OpeningsAreCalls'
  <2>1. \A j \in Keys : openings[j] # NoOne => openings[j] \in Callers
    BY <1>1 DEF TypeOK
  <2>2. ASSUME NEW j \in InFlight' PROVE j \in InFlight /\ ~(j = k /\ r.at = "cached")
    BY <1>3, <1>6, <1>8, <2>1, <2>2 DEF InFlight
  <2>3. \A j \in InFlight' : cached'[j] = None
    BY <1>1, <1>10, <2>2 DEF OpeningsAreCalls, InFlight
  <2>4. \A d \in Callers : call'[d].kind = call[d].kind /\ call'[d].key = call[d].key
    BY <1>2, <1>4, <1>7, <1>8
  <2> QED BY <1>1, <1>3, <2>1, <2>3, <2>4 DEF OpeningsAreCalls
<1>20. RefsCountLessees'
  BY <1>1, <1>3, <1>9 DEF RefsCountLessees, Lessees
<1> QED BY <1>12, <1>13, <1>14, <1>15, <1>16, <1>17, <1>18, <1>19, <1>20 DEF IInv, ScopeInv, CacheInv

(* The opening is over: its caller and those that joined it resume.         *)
LEMMA FinishStep ==
  ASSUME IInv, NEW c \in Callers, Finish(c)
  PROVE  IInv'
<1>1. /\ TypeOK /\ ScopeInv /\ TurnsAreTaken /\ ErrorsAreKept /\ GenerationsPass /\ CallsAreShaped
      /\ UploadsAreOwned /\ CacheIsKeyed /\ CacheIsOfTheDevice /\ OpeningsAreCalls /\ RefsCountLessees
  BY DEF IInv, ScopeInv, CacheInv
<1>2. PICK k, e : k = call[c].key /\ e = call[c].entry
  OBVIOUS
<1>3. PICK back : back = Joiners(k) \cup {c}
  OBVIOUS
<1>4. PICK leased : leased = {d \in back : Served(c) /\ ~call[d].aborted}
  OBVIOUS
<1>5. /\ call[c].at \in {"cached", "refused"}
      /\ openings' = [openings EXCEPT ![k] = NoOne] /\ reserved' = Reservation(c)
      /\ entries' = IF leased = {} THEN entries ELSE [entries EXCEPT ![e].refs = @ + Cardinality(leased)]
      /\ recency' = IF leased = {} THEN recency ELSE Touch(e)
      /\ lease' = [d \in Callers |-> IF d \in leased THEN e ELSE lease[d]]
      /\ call' = [d \in Callers |-> IF d \notin back THEN call[d] ELSE Idle("none")]
      /\ UNCHANGED <<deviceVars, scopes, cached, residentBytes, calls>>
  BY <1>2, <1>3, <1>4 DEF Finish
<1>6. call[c] \in Call /\ call[c].kind = "cache" /\ k \in Keys /\ openings[k] = c /\ c # NoOne
  BY <1>1, <1>2, <1>5, CallOf, NoOneAssumption DEF Shape, OpeningsAreCalls
<1>7. \A d \in back : /\ d \in Callers /\ (d = c \/ call[d].kind = "join") /\ lease[d] = None
                      /\ call[d].at \in {"cached", "refused", "joining"}
  <2>1. \A d \in back : d = c \/ (d \in Callers /\ call[d].at = "joining")
    BY <1>3 DEF Joiners
  <2> QED BY <1>1, <1>5, <1>6, <2>1 DEF CallsAreShaped, Shape
<1>8. leased \subseteq back /\ leased \in SUBSET Callers
  BY <1>4, <1>7
<1>9. leased # {} => call[c].at = "cached" /\ Uploaded(call[c]) /\ e \in DOMAIN entries /\ e # None
  BY <1>1, <1>2, <1>4, <1>6 DEF Served, CallsAreShaped, Shape, Uploaded
<1>10. PICK r : r = Idle("none")
  OBVIOUS
<1>11. r \in Call /\ r.at = "idle" /\ r.kind = "none" /\ r.garbage = FALSE
  BY <1>10 DEF Idle, Call, Places, None
<1>12. \A d \in Callers : /\ call'[d] = IF d \in back THEN r ELSE call[d]
                          /\ lease'[d] = IF d \in leased THEN e ELSE lease[d]
  BY <1>5, <1>10
<1>13. /\ entries' \in Seq(Entry) /\ DOMAIN entries' = DOMAIN entries
       /\ \A f \in DOMAIN entries :
            /\ entries'[f].key = entries[f].key /\ entries'[f].gen = entries[f].gen
            /\ entries'[f].live = entries[f].live
            /\ entries'[f].refs = Cardinality(Lessees(f)')
  <2>1. CASE leased = {}
    <3>1. \A f \in DOMAIN entries : Lessees(f)' = Lessees(f)
      BY <1>12, <2>1 DEF Lessees
    <3> QED BY <1>1, <1>5, <2>1, <3>1 DEF RefsCountLessees, TypeOK
  <2>2. CASE leased # {}
    <3>1. e \in DOMAIN entries /\ e # None
      BY <1>9, <2>2
    <3>2. Lessees(e) \in SUBSET Callers /\ Lessees(e) \cap leased = {}
      BY <1>7, <1>8, <3>1 DEF Lessees
    <3>3. PICK n : n = entries[e].refs + Cardinality(leased)
      OBVIOUS
    <3>4. n \in Nat /\ n = Cardinality(Lessees(e) \cup leased)
      <4>1. entries[e].refs = Cardinality(Lessees(e))
        BY <1>1, <3>1 DEF RefsCountLessees
      <4>2. /\ IsFiniteSet(Lessees(e)) /\ Cardinality(Lessees(e)) \in Nat
            /\ IsFiniteSet(leased) /\ Cardinality(leased) \in Nat
        BY <1>8, <3>2, LesseesAreCounted
      <4>3. Cardinality(Lessees(e) \cup leased) = Cardinality(Lessees(e)) + Cardinality(leased)
        <5>1. Cardinality(Lessees(e) \cap leased) = 0
          BY <3>2, FS_EmptySet
        <5>2. Cardinality(Lessees(e) \cup leased)
                = Cardinality(Lessees(e)) + Cardinality(leased) - Cardinality(Lessees(e) \cap leased)
          BY <4>2, FS_Union
        <5> QED BY <4>2, <5>1, <5>2
      <4> QED BY <3>3, <4>1, <4>2, <4>3
    <3>5. entries' = [entries EXCEPT ![e].refs = n]
      BY <1>5, <2>2, <3>3
    <3>6. /\ entries' \in Seq(Entry) /\ DOMAIN entries' = DOMAIN entries
          /\ \A f \in DOMAIN entries :
               /\ entries'[f].key = entries[f].key /\ entries'[f].gen = entries[f].gen
               /\ entries'[f].live = entries[f].live
               /\ entries'[f].refs = IF f = e THEN n ELSE entries[f].refs
      BY <1>1, <3>1, <3>4, <3>5, RefsChange
    <3>7. Lessees(e)' = Lessees(e) \cup leased
      BY <1>8, <1>12 DEF Lessees
    <3>8. \A f \in DOMAIN entries : f # e => Lessees(f)' = Lessees(f)
      <4> SUFFICES ASSUME NEW f \in DOMAIN entries, f # e PROVE Lessees(f)' = Lessees(f)
        OBVIOUS
      <4>1. f # None
        BY <1>1, EntryOf
      <4> QED BY <1>7, <1>8, <1>12, <4>1 DEF Lessees
    <3> QED BY <1>1, <3>4, <3>6, <3>7, <3>8 DEF RefsCountLessees
  <2> QED BY <2>1, <2>2
<1>14. TypeOK'
  <2>1. call' \in [Callers -> Call]
    BY <1>1, <1>5, <1>10, <1>11 DEF TypeOK
  <2>2. lease' \in [Callers -> {None} \cup DOMAIN entries']
    BY <1>1, <1>5, <1>9, <1>13 DEF TypeOK
  <2>3. recency' \in Seq(DOMAIN entries')
    <3>1. leased # {} => Touch(e) \in Seq(DOMAIN entries)
      BY <1>1, <1>9, Touched
    <3> QED BY <1>1, <1>5, <1>13, <3>1 DEF TypeOK
  <2>4. openings' \in [Keys -> Callers \cup {NoOne}] /\ cached' \in [Keys -> {None} \cup DOMAIN entries']
    BY <1>1, <1>5, <1>13 DEF TypeOK
  <2>5. reserved' \in Int
    <3>1. Bytes[k] \in Nat /\ reserved' = reserved - Bytes[k]
      BY <1>2, <1>5, <1>6, SizesAssumption DEF Reservation
    <3> QED BY <1>1, <3>1 DEF TypeOK
  <2> QED BY <1>1, <1>5, <1>13, <2>1, <2>2, <2>3, <2>4, <2>5 DEF TypeOK, deviceVars
<1>15. TurnsAreTaken'
  BY <1>1, <1>5, <1>11, <1>12 DEF TurnsAreTaken, Turn, First, Holding, deviceVars
<1>16. ErrorsAreKept'
  BY <1>1, <1>5, <1>11, <1>12 DEF ErrorsAreKept, Kept, deviceVars
<1>17. GenerationsPass'
  BY <1>1, <1>5, <1>11, <1>12, <1>13 DEF GenerationsPass, Past, deviceVars
<1>18. CallsAreShaped'
  <2> SUFFICES ASSUME NEW d \in Callers PROVE Shape(d, call[d])'
    BY DEF CallsAreShaped
  <2>1. CASE d \in back
    BY <1>11, <1>12, <2>1 DEF Shape
  <2>2. CASE d \notin back
    BY <1>1, <1>8, <1>12, <1>13, <2>2 DEF CallsAreShaped, Shape
  <2> QED BY <2>1, <2>2
<1>19. UploadsAreOwned'
  <2>1. \A d \in Callers : Uploaded(call'[d]) => d \notin back /\ Uploaded(call[d]) /\ call'[d] = call[d]
    BY <1>11, <1>12 DEF Uploaded
  <2>2. ASSUME NEW d \in Callers, Pending(call[d])' PROVE Own(call[d])'
    <3>1. d \notin back /\ Pending(call[d]) /\ Uploaded(call[d]) /\ call'[d] = call[d]
      BY <2>1, <2>2 DEF Pending, Uploaded
    <3>2. Own(call[d]) /\ call[d].entry \in DOMAIN entries
      BY <1>1, <3>1 DEF UploadsAreOwned, CallsAreShaped, Shape, Pending, Uploaded
    <3>3. leased # {} => call[d].entry # e
      BY <1>1, <1>2, <1>3, <1>9, <3>1 DEF UploadsAreOwned
    <3>4. \A f \in Callers : lease'[f] # call[d].entry
      BY <1>12, <3>2, <3>3 DEF Own
    <3> QED BY <1>5, <1>13, <3>1, <3>2, <3>4 DEF Own, deviceVars
  <2>3. \A d, f \in Callers :
          Uploaded(call[d])' /\ Uploaded(call[f])' /\ d # f => call'[d].entry # call'[f].entry
    BY <1>1, <2>1 DEF UploadsAreOwned, Uploaded
  <2> QED BY <2>2, <2>3 DEF UploadsAreOwned
<1>20. CacheIsKeyed' /\ CacheIsOfTheDevice'
  <2>1. \A j \in CachedKeys' : j \in CachedKeys /\ cached[j] \in DOMAIN entries
    BY <1>1, <1>5 DEF CachedKeys, TypeOK
  <2> QED BY <1>1, <1>5, <1>13, <2>1 DEF CacheIsKeyed, CacheIsOfTheDevice, deviceVars
<1>21. OpeningsAreCalls'
  <2>1. \A j \in Keys : openings'[j] = IF j = k THEN NoOne ELSE openings[j]
    BY <1>1, <1>5 DEF TypeOK
  <2>2. \A j \in Keys : j # k /\ openings[j] # NoOne => openings[j] \in Callers \ back
    BY <1>1, <1>2, <1>7 DEF TypeOK, OpeningsAreCalls
  <2>3. \A j \in InFlight' : j \in InFlight
    BY <1>12, <2>1, <2>2 DEF InFlight
  <2>4. \A d \in Callers : d \notin back /\ call[d].kind = "cache" => call[d].key \in Keys /\ call[d].key # k
    BY <1>1, <1>3, <1>6 DEF OpeningsAreCalls, CallsAreShaped, Shape
  <2>5. \A d \in Callers : call'[d].kind = "cache" => openings'[call'[d].key] = d
    BY <1>1, <1>11, <1>12, <2>1, <2>4 DEF OpeningsAreCalls
  <2>6. \A j \in Keys : openings'[j] # NoOne => call'[openings'[j]].kind = "cache" /\ call'[openings'[j]].key = j
    BY <1>1, <1>12, <2>1, <2>2 DEF OpeningsAreCalls
  <2> QED BY <1>1, <1>5, <2>3, <2>5, <2>6 DEF OpeningsAreCalls
<1>22. RefsCountLessees'
  BY <1>13 DEF RefsCountLessees
<1> QED BY <1>14, <1>15, <1>16, <1>17, <1>18, <1>19, <1>20, <1>21, <1>22 DEF IInv, ScopeInv, CacheInv

-----------------------------------------------------------------------------
(* The invariant.                                                          *)

LEMMA InitIInv == Init => IInv
<1> SUFFICES ASSUME Init PROVE IInv
  OBVIOUS
<1>1. /\ entries = <<>> /\ recency = <<>> /\ frames = <<>> /\ scopes = <<>> /\ DOMAIN entries = {}
      /\ \A S : <<>> \in Seq(S)
  BY DEF Init
<1>2. PICK r : r = Idle("none")
  OBVIOUS
<1>3. /\ r \in Call /\ r.at = "idle" /\ r.kind = "none" /\ r.garbage = FALSE
      /\ call = [c \in Callers |-> r]
  BY <1>2 DEF Init, Idle, Call, Places, None
<1>4. TypeOK
  <2>1. /\ scopes \in Seq(Callers) /\ frames \in Seq(BOOLEAN)
        /\ entries \in Seq(Entry) /\ recency \in Seq(DOMAIN entries)
    BY <1>1
  <2>2. /\ cached \in [Keys -> {None} \cup DOMAIN entries] /\ openings \in [Keys -> Callers \cup {NoOne}]
        /\ lease \in [Callers -> {None} \cup DOMAIN entries] /\ call \in [Callers -> Call]
    BY <1>3 DEF Init
  <2>3. /\ generation \in Nat /\ closed \in BOOLEAN /\ device \in {"none", "up", "lost"}
        /\ residentBytes \in Int /\ reserved \in Int /\ calls \in Nat
    <3>1. generation = 0 /\ closed = FALSE /\ device = "none" /\ residentBytes = 0 /\ reserved = 0 /\ calls = 0
      BY DEF Init
    <3>2. closed \in BOOLEAN
      BY <3>1
    <3>3. generation \in Nat /\ residentBytes \in Int /\ reserved \in Int /\ calls \in Nat
      BY <3>1
    <3> QED BY <3>1, <3>2, <3>3
  <2> QED BY <2>1, <2>2, <2>3 DEF TypeOK
<1>5. \A c \in Callers : Turn(c, call[c]) /\ Kept(call[c]) /\ Shape(c, call[c])
  BY <1>3 DEF Turn, Kept, Shape, Holding
<1>6. GenerationsPass /\ RefsCountLessees
  BY <1>1, <1>3 DEF GenerationsPass, RefsCountLessees
<1>7. UploadsAreOwned
  BY <1>3 DEF UploadsAreOwned, Uploaded, Pending
<1>8. CacheIsKeyed /\ CacheIsOfTheDevice /\ OpeningsAreCalls
  BY <1>3 DEF Init, CacheIsKeyed, CacheIsOfTheDevice, OpeningsAreCalls, CachedKeys, InFlight
<1> QED BY <1>4, <1>5, <1>6, <1>7, <1>8
        DEF IInv, ScopeInv, CacheInv, TurnsAreTaken, ErrorsAreKept, CallsAreShaped

(* The invariant is inductive.                                              *)
LEMMA StepIInv == IInv /\ [Next]_vars => IInv'
<1> SUFFICES ASSUME IInv, [Next]_vars PROVE IInv'
  OBVIOUS
<1>1. ASSUME NEW c \in Callers, Resume(c) PROVE IInv'
  BY <1>1, WaitAbortedStep, EnterStep, OpenedStep, ExecuteStep, UploadStep, PopStep, SettleStep, CachedStep,
     FinishStep DEF Resume
<1>2. CASE UNCHANGED vars
  <2>1. /\ UNCHANGED <<generation, closed, device, frames, scopes, entries, recency, cached>>
        /\ UNCHANGED <<residentBytes, reserved, openings, call, lease, calls>>
    BY <1>2 DEF vars, deviceVars, cacheVars
  <2>2. TypeOK' /\ TurnsAreTaken' /\ ErrorsAreKept'
    BY <2>1 DEF IInv, ScopeInv, TypeOK, TurnsAreTaken, Turn, First, ErrorsAreKept, Kept
  <2>3. GenerationsPass' /\ CallsAreShaped' /\ UploadsAreOwned'
    BY <2>1 DEF IInv, CacheInv, GenerationsPass, Past, CallsAreShaped, Shape, UploadsAreOwned, Own, Pending, Uploaded
  <2>4. CacheIsKeyed' /\ CacheIsOfTheDevice' /\ OpeningsAreCalls' /\ RefsCountLessees'
    BY <2>1 DEF IInv, CacheInv, CacheIsKeyed, CachedKeys, CacheIsOfTheDevice, OpeningsAreCalls, InFlight,
                RefsCountLessees, Lessees
  <2> QED BY <2>2, <2>3, <2>4 DEF IInv, ScopeInv, CacheInv
<1> QED BY <1>1, <1>2, StartBatchStep, StartResidentStep, ReleaseStep, AbortStep, StartCacheStep,
           LoseDeviceStep, LostHandledStep, CloseStep DEF Next

(* The state keeps its type, and the strengthening is invariant.            *)
THEOREM Invariance == Spec => []IInv
<1> QED BY InitIInv, StepIInv, PTL DEF Spec

(* The state keeps its type: an entry that a key, a lease or the order of    *)
(* uses names has been made, and the queue of scopes holds callers.         *)
THEOREM TypeCorrect == Spec => []TypeOK
<1>1. IInv => TypeOK
  BY DEF IInv, ScopeInv
<1> QED BY <1>1, Invariance, PTL

(* The cache never holds an entry of a device that is gone, whatever the     *)
(* order of losses, of uploads and of the handlers.                         *)
THEOREM CacheOfTheDevice == Spec => []CacheIsOfTheDevice
<1>1. IInv => CacheIsOfTheDevice
  BY DEF IInv, CacheInv
<1> QED BY <1>1, Invariance, PTL

(* Nothing that a caller leases is destroyed to make room.                   *)
THEOREM LeasesHold == Spec => LeasesPin
<1>1. ASSUME IInv, [Next]_vars, NEW c \in Callers, lease[c] # None, lease'[c] = lease[c],
             entries[lease[c]].live
      PROVE  entries'[lease[c]].live \/ device' # "up"
  <2> DEFINE e == lease[c]
  <2>1. /\ TypeOK /\ RefsCountLessees /\ UploadsAreOwned /\ CallsAreShaped
        /\ e \in DOMAIN entries /\ e # None
    BY <1>1 DEF IInv, ScopeInv, CacheInv, TypeOK
  <2>2. entries[e].refs # 0
    <3>1. c \in Lessees(e) /\ Lessees(e) \in SUBSET Callers
      BY DEF Lessees
    <3>2. Cardinality(Lessees(e)) # 0
      BY <3>1, LesseesAreCounted, FS_EmptySet
    <3> QED BY <2>1, <3>2 DEF RefsCountLessees
  <2>3. ASSUME entries' = entries PROVE entries'[e].live
    BY <1>1, <2>3
  <2>4. ASSUME NEW es, entries' = Destroyed(es), e \notin es PROVE entries'[e].live
    BY <1>1, <2>1, <2>4, EntriesDestroyed
  <2>5. ASSUME NEW x, entries' = Append(entries, x) PROVE entries'[e].live
    <3>1. entries \in Seq(Entry) /\ e \in 1..Len(entries)
      BY <2>1 DEF TypeOK
    <3>2. entries'[e] = entries[e]
      BY <2>5, <3>1
    <3> QED BY <1>1, <3>2
  <2>6. ASSUME NEW f, NEW n, entries' = [entries EXCEPT ![f].refs = n] PROVE entries'[e].live
    <3>1. entries[e] \in Entry
      BY <2>1, EntryOf
    <3> QED BY <1>1, <2>1, <2>6, <3>1 DEF Entry
  <2>7. ASSUME NEW d \in Callers, NEW k \in Keys, StartCache(d, k) PROVE entries'[e].live
    <3>1. CASE UNCHANGED cacheVars
      BY <2>3, <3>1 DEF cacheVars
    <3>2. CASE Grant(d, cached[k], entries)
      <4>1. PICK n : n = entries[cached[k]].refs + 1
        OBVIOUS
      <4>2. entries' = [entries EXCEPT ![cached[k]].refs = n]
        BY <3>2, <4>1 DEF Grant
      <4> QED BY <2>6, <4>2
    <3>3. CASE CacheMiss(d, k)
      <4>1. PICK gone : gone = Evicted(Bytes[k])
        OBVIOUS
      <4>2. PICK es : es = {cached[j] : j \in gone}
        OBVIOUS
      <4>3. entries' = Destroyed(es)
        BY <3>3, <4>1, <4>2 DEF CacheMiss
      <4>4. \A j \in gone : entries[cached[j]].refs = 0
        BY <4>1 DEF Evicted
      <4> QED BY <2>2, <2>4, <4>2, <4>3, <4>4
    <3> QED BY <2>7, <3>1, <3>2, <3>3 DEF StartCache
  <2>8. ASSUME NEW d \in Callers, Cached(d) PROVE entries'[e].live
    <3>1. CASE UNCHANGED entries
      BY <2>3, <3>1
    <3>2. CASE entries' = Destroyed({call[d].entry})
      <4>1. PICK es : es = {call[d].entry}
        OBVIOUS
      <4>2. Pending(call[d])
        BY <2>1, <2>8 DEF Cached, CallsAreShaped, Shape, Pending, Uploaded
      <4>3. e \notin es
        BY <2>1, <4>1, <4>2 DEF UploadsAreOwned, Own
      <4> QED BY <2>4, <3>2, <4>1, <4>3
    <3> QED BY <2>8, <3>1, <3>2 DEF Cached
  <2>9. ASSUME NEW d \in Callers, Finish(d) PROVE entries'[e].live
    <3>1. CASE UNCHANGED entries
      BY <2>3, <3>1
    <3>2. CASE ~UNCHANGED entries
      <4>1. PICK leased : entries' = [entries EXCEPT ![call[d].entry].refs = @ + Cardinality(leased)]
        BY <2>9, <3>2 DEF Finish
      <4>2. PICK n : n = entries[call[d].entry].refs + Cardinality(leased)
        OBVIOUS
      <4>3. entries' = [entries EXCEPT ![call[d].entry].refs = n]
        BY <4>1, <4>2
      <4> QED BY <2>6, <4>3
    <3> QED BY <3>1, <3>2
  <2>10. ASSUME NEW d \in Callers, Release(d) PROVE entries'[e].live
    <3>1. PICK n : n = entries[lease[d]].refs - 1
      OBVIOUS
    <3>2. entries' = [entries EXCEPT ![lease[d]].refs = n]
      BY <2>10, <3>1 DEF Release
    <3> QED BY <2>6, <3>2
  <2>11. ASSUME NEW d \in Callers, Upload(d) PROVE entries'[e].live
    BY <2>3, <2>5, <2>11 DEF Upload
  <2>12. ASSUME NEW d \in Callers, StartBatch(d) \/ StartResident(d) \/ Abort(d) \/ WaitAborted(d) \/ Enter(d)
                                     \/ Opened(d) \/ Execute(d) \/ Pop(d) \/ Settle(d)
         PROVE  entries'[e].live
    <3>1. entries' = entries
      BY <2>12 DEF StartBatch, StartResident, Abort, WaitAborted, Enter, Opened, Execute, Pop, Settle, cacheVars
    <3> QED BY <2>3, <3>1
  <2>13. CASE LoseDevice \/ Close
    BY <2>13 DEF LoseDevice, Close
  <2>14. CASE LostHandled \/ UNCHANGED vars
    BY <2>3, <2>14 DEF LostHandled, vars, cacheVars
  <2> QED BY <1>1, <2>7, <2>8, <2>9, <2>10, <2>11, <2>12, <2>13, <2>14 DEF Next, Resume
<1>2. IInv /\ [Next]_vars =>
        [\A c \in Callers : lease[c] # None /\ lease'[c] = lease[c] /\ entries[lease[c]].live =>
           entries'[lease[c]].live \/ device' # "up"]_vars
  BY <1>1
<1> QED BY <1>2, Invariance, PTL DEF Spec, LeasesPin

(* Only Settle moves a call whose scopes are popped.                        *)
LEMMA PoppedSettles ==
  ASSUME IInv, Next, NEW c \in Callers, call[c].at = "popped", call'[c] # call[c]
  PROVE  Settle(c)
<1>1. /\ call \in [Callers -> Call] /\ CallsAreShaped
  BY DEF IInv, ScopeInv, CacheInv, TypeOK
<1>2. ASSUME NEW d \in Callers, NEW r, Place(d, r) PROVE d = c
  BY <1>1, <1>2 DEF Place
<1>3. ASSUME NEW d \in Callers, Finish(d) PROVE FALSE
  <2>1. c \notin Joiners(call[d].key) \cup {d}
    BY <1>3 DEF Finish, Joiners
  <2>2. call'[c] = call[c]
    BY <1>3, <2>1 DEF Finish
  <2> QED BY <2>2
<1>4. ASSUME NEW d \in Callers, NEW outcome, LeaveScope(d, outcome) PROVE d = c
  BY <1>2, <1>4 DEF LeaveScope
<1>5. ASSUME NEW d \in Callers, NEW r, Queue(d, r) PROVE d = c
  BY <1>2, <1>5 DEF Queue
<1>6. ASSUME NEW d \in Callers, StartBatch(d) \/ StartResident(d) \/ Abort(d) PROVE FALSE
  BY <1>2, <1>5, <1>6 DEF StartBatch, StartResident, Abort, CanCall
<1>7. ASSUME NEW d \in Callers, NEW k \in Keys, StartCache(d, k) PROVE FALSE
  BY <1>2, <1>5, <1>7 DEF StartCache, CacheMiss, CanCall
<1>8. ASSUME NEW d \in Callers, WaitAborted(d) \/ Enter(d) \/ Opened(d) PROVE FALSE
  BY <1>2, <1>4, <1>8 DEF WaitAborted, Enter, Opened
<1>9. ASSUME NEW d \in Callers, Execute(d) \/ Upload(d) \/ Pop(d) \/ Cached(d) PROVE FALSE
  BY <1>2, <1>9 DEF Execute, Upload, Pop, Cached, Worked
<1>10. ASSUME NEW d \in Callers, Settle(d) PROVE d = c
  BY <1>2, <1>4, <1>10 DEF Settle
<1>11. ASSUME NEW d \in Callers, Release(d) PROVE FALSE
  BY <1>11 DEF Release
<1>12. ~LoseDevice /\ ~LostHandled /\ ~Close
  BY DEF LoseDevice, LostHandled, Close
<1> QED BY <1>3, <1>6, <1>7, <1>8, <1>9, <1>10, <1>11, <1>12 DEF Next, Resume

(* No words that are not exact are handed out while the device they were     *)
(* read from stands: the scope was the call's own from the operation to the  *)
(* end, so the error they left is the one that is popped.                   *)
THEOREM ResultsExact == Spec => ResultsAreExact
<1>1. ASSUME IInv, [Next]_vars, NEW c \in Callers,
             call[c].at = "popped", call'[c].at = "idle", call'[c].outcome = "garbage"
      PROVE  ~Standing(c)
  <2>1. /\ call \in [Callers -> Call] /\ Kept(call[c])
    BY <1>1, CallOf DEF IInv, ScopeInv, TypeOK
  <2>2. Settle(c)
    <3>1. call'[c] # call[c]
      BY <1>1
    <3>2. Next
      BY <1>1, <3>1 DEF vars
    <3> QED BY <1>1, <3>1, <3>2, PoppedSettles
  <2>3. ASSUME NEW outcome, LeaveScope(c, outcome) PROVE outcome = "garbage"
    <3>1. PICK r : r = IF call[c].kind = "cache" THEN [call[c] EXCEPT !.at = "refused"] ELSE Idle(outcome)
      OBVIOUS
    <3>2. call'[c] = r
      BY <2>1, <2>3, <3>1 DEF LeaveScope, Place
    <3>3. CASE call[c].kind = "cache"
      <4>1. r.at = "refused"
        BY <2>1, <3>1, <3>3 DEF Call
      <4> QED BY <1>1, <3>2, <4>1
    <3>4. CASE call[c].kind # "cache"
      <4>1. r.outcome = outcome
        BY <3>1, <3>4 DEF Idle
      <4> QED BY <1>1, <3>2, <4>1
    <3> QED BY <3>3, <3>4
  <2>4. ASSUME Place(c, [call[c] EXCEPT !.at = "caching"]) PROVE FALSE
    <3>1. call'[c].at = "caching"
      BY <2>1, <2>4 DEF Place, Call
    <3> QED BY <1>1, <3>1
  <2>5. ~HasFailed(c) /\ call[c].garbage
    BY <2>2, <2>3, <2>4 DEF Settle
  <2> QED BY <1>1, <2>1, <2>5 DEF HasFailed, Kept, Standing
<1>2. IInv /\ [Next]_vars =>
        [\A c \in Callers :
           call[c].at = "popped" /\ call'[c].at = "idle" /\ call'[c].outcome = "garbage" => ~Standing(c)]_vars
  BY <1>1
<1> QED BY <1>2, Invariance, PTL DEF Spec, ResultsAreExact

-----------------------------------------------------------------------------
(* The bytes.                                                              *)

BytesInv == BytesAreCounted /\ ResidencyIsBounded
Opening == {k \in Keys : openings[k] # NoOne}

(* Fewer blocks have no more bytes.                                         *)
LEMMA FewerBytes ==
  ASSUME NEW ks \in SUBSET Keys, NEW js \in SUBSET ks
  PROVE  /\ BytesOf(js) <= BytesOf(ks) /\ BytesOf(ks \ js) = BytesOf(ks) - BytesOf(js)
         /\ BytesOf(js) \in Nat /\ BytesOf(ks) \in Nat /\ BytesOf(ks \ js) \in Nat
<1>1. /\ IsFiniteSet(ks) /\ Naturals(Bytes, ks) /\ BytesOf(ks) = SumOver(Bytes, ks)
      /\ BytesOf(js) = SumOver(Bytes, js) /\ BytesOf(ks \ js) = SumOver(Bytes, ks \ js)
  <2>1. js \in SUBSET Keys /\ ks \ js \in SUBSET Keys
    OBVIOUS
  <2> QED BY <2>1, BytesAreNatural
<1>2. /\ SumOver(Bytes, ks \ js) = SumOver(Bytes, ks) - SumOver(Bytes, js)
      /\ SumOver(Bytes, js) \in Nat /\ SumOver(Bytes, ks \ js) \in Nat /\ SumOver(Bytes, ks) \in Nat
  BY <1>1, SumDifference
<1>3. /\ BytesOf(ks \ js) = BytesOf(ks) - BytesOf(js)
      /\ BytesOf(js) \in Nat /\ BytesOf(ks) \in Nat /\ BytesOf(ks \ js) \in Nat
  BY <1>1, <1>2
<1> QED BY <1>3

(* A block more.                                                            *)
LEMMA OneMore ==
  ASSUME NEW ks \in SUBSET Keys, NEW k \in Keys, k \notin ks
  PROVE  BytesOf(ks \cup {k}) = BytesOf(ks) + Bytes[k] /\ Bytes[k] \in Nat /\ BytesOf(ks) \in Nat
<1>1. PICK all \in SUBSET Keys : all = ks \cup {k}
  OBVIOUS
<1>2. all \ {k} = ks /\ k \in all
  BY <1>1
<1>3. /\ IsFiniteSet(all) /\ Naturals(Bytes, all) /\ BytesOf(all) = SumOver(Bytes, all)
      /\ BytesOf(ks) = SumOver(Bytes, ks) /\ BytesOf(ks) \in Nat
  BY BytesAreNatural
<1>4. SumOver(Bytes, all) = Bytes[k] + SumOver(Bytes, ks)
  BY <1>2, <1>3, SumSplits
<1>5. Bytes[k] \in Nat
  BY SizesAssumption
<1> QED BY <1>1, <1>3, <1>4, <1>5

(* Nothing is cached or opened, and what is cached stays cached.             *)
LEMMA BytesRest ==
  ASSUME IInv, BytesInv, UNCHANGED <<cached, residentBytes, reserved, openings>>,
         \A c \in Callers : call[c].at = "cached" => call'[c].at = "cached"
  PROVE  BytesInv'
<1>1. CachedKeys' = CachedKeys /\ Opening' = Opening
  BY DEF CachedKeys, Opening
<1>2. InFlight' \in SUBSET InFlight /\ InFlight \in SUBSET Keys /\ CachedKeys \in SUBSET Keys
  BY DEF InFlight, CachedKeys, IInv, ScopeInv, TypeOK
<1>3. BytesOf(InFlight') <= BytesOf(InFlight) /\ BytesOf(InFlight') \in Nat /\ BytesOf(InFlight) \in Nat
  BY <1>2, FewerBytes
<1>4. BytesOf(CachedKeys) \in Nat
  BY <1>2, BytesAreNatural
<1>5. BytesOf(InFlight)' = BytesOf(InFlight') /\ BytesOf(CachedKeys)' = BytesOf(CachedKeys)
      /\ BytesOf({k \in Keys : openings[k] # NoOne})' = BytesOf({k \in Keys : openings[k] # NoOne})
  BY <1>1 DEF Opening
<1>6. BytesOf(CachedKeys) + BytesOf(InFlight') <= MaxResidentBytes
  BY <1>3, <1>4, LimitsAssumption DEF BytesInv, ResidencyIsBounded
<1> QED BY <1>5, <1>6 DEF BytesInv, BytesAreCounted, ResidencyIsBounded

(* What the two parts of the invariant say, with the bytes of the state.     *)
LEMMA BytesOfState ==
  ASSUME IInv, BytesInv
  PROVE  /\ CachedKeys \in SUBSET Keys /\ Opening \in SUBSET Keys /\ InFlight \in SUBSET Opening
         /\ residentBytes = BytesOf(CachedKeys) /\ reserved = BytesOf(Opening)
         /\ BytesOf(CachedKeys) + BytesOf(InFlight) <= MaxResidentBytes
         /\ BytesOf(CachedKeys) \in Nat /\ BytesOf(Opening) \in Nat /\ BytesOf(InFlight) \in Nat
<1>1. CachedKeys \in SUBSET Keys /\ Opening \in SUBSET Keys /\ InFlight \in SUBSET Opening
  BY DEF CachedKeys, Opening, InFlight
<1>2. BytesOf(CachedKeys) \in Nat /\ BytesOf(Opening) \in Nat /\ BytesOf(InFlight) \in Nat
  BY <1>1, BytesAreNatural
<1> QED BY <1>1, <1>2 DEF BytesInv, BytesAreCounted, ResidencyIsBounded, Opening

(* An opening gives back what it evicts and reserves its own.               *)
LEMMA CacheMissBytes ==
  ASSUME IInv, BytesInv, NEW c \in Callers, NEW k \in Keys, CanCall(c), cached[k] = None,
         openings[k] = NoOne, CacheMiss(c, k)
  PROVE  BytesInv'
<1>1. TypeOK /\ OpeningsAreCalls /\ call[c].at = "idle" /\ call[c].kind = "none"
  BY IdleCall DEF IInv, ScopeInv, CacheInv
<1>2. PICK gone : gone = Evicted(Bytes[k])
  OBVIOUS
<1>3. gone \in SUBSET CachedKeys
  BY <1>2 DEF Evicted
<1>4. /\ CachedKeys \in SUBSET Keys /\ Opening \in SUBSET Keys /\ InFlight \in SUBSET Opening
      /\ residentBytes = BytesOf(CachedKeys) /\ reserved = BytesOf(Opening)
      /\ BytesOf(CachedKeys) + BytesOf(InFlight) <= MaxResidentBytes
      /\ BytesOf(CachedKeys) \in Nat /\ BytesOf(Opening) \in Nat /\ BytesOf(InFlight) \in Nat
  BY BytesOfState
<1>5. CachedKeys' = CachedKeys \ gone /\ residentBytes' = residentBytes - BytesOf(gone)
  BY <1>1, <1>2, <1>3 DEF CacheMiss, CachedKeys, TypeOK
<1>6. /\ BytesOf(CachedKeys \ gone) = BytesOf(CachedKeys) - BytesOf(gone)
      /\ BytesOf(CachedKeys \ gone) \in Nat /\ BytesOf(gone) \in Nat
  BY <1>3, <1>4, FewerBytes
<1>7. residentBytes' = BytesOf(CachedKeys')
  BY <1>4, <1>5, <1>6
<1>8. \A d \in Callers : d # c => call'[d] = call[d]
  BY <1>1 DEF CacheMiss, Queue, Place, TypeOK
<1>9. k \notin Opening /\ \A j \in Opening : openings[j] \in Callers /\ openings[j] # c
  BY <1>1 DEF Opening, OpeningsAreCalls, TypeOK
<1>10. CASE HasRoom(gone, Bytes[k])
  <2>1. openings' = [openings EXCEPT ![k] = c] /\ reserved' = reserved + Bytes[k]
    BY <1>2, <1>10 DEF CacheMiss
  <2>2. Opening' = Opening \cup {k}
    BY <1>1, <2>1, NoOneAssumption DEF Opening, TypeOK
  <2>3. InFlight' \in SUBSET Opening'
    BY DEF InFlight, Opening
  <2>4. BytesOf(Opening \cup {k}) = BytesOf(Opening) + Bytes[k] /\ Bytes[k] \in Nat
    BY <1>4, <1>9, OneMore
  <2>5. BytesOf(InFlight') <= BytesOf(Opening \cup {k}) /\ BytesOf(InFlight') \in Nat
    BY <1>4, <2>2, <2>3, FewerBytes
  <2>6. residentBytes - BytesOf(gone) + reserved + Bytes[k] <= MaxResidentBytes
    BY <1>10 DEF HasRoom
  <2>7. BytesOf(CachedKeys \ gone) + BytesOf(InFlight') <= MaxResidentBytes
    BY <1>4, <1>6, <2>4, <2>5, <2>6, LimitsAssumption
  <2>8. reserved' = BytesOf(Opening')
    BY <1>4, <2>1, <2>2, <2>4
  <2> QED BY <1>5, <1>7, <2>7, <2>8 DEF BytesInv, BytesAreCounted, ResidencyIsBounded, Opening
<1>11. CASE ~HasRoom(gone, Bytes[k])
  <2>1. UNCHANGED <<openings, reserved>>
    BY <1>2, <1>11 DEF CacheMiss
  <2>2. InFlight' = InFlight /\ Opening' = Opening
    BY <1>8, <1>9, <2>1 DEF InFlight, Opening
  <2>3. BytesOf(CachedKeys \ gone) + BytesOf(InFlight) <= MaxResidentBytes
    BY <1>4, <1>6, LimitsAssumption
  <2>4. reserved' = BytesOf(Opening')
    BY <1>4, <2>1, <2>2
  <2> QED BY <1>5, <1>7, <2>2, <2>3, <2>4 DEF BytesInv, BytesAreCounted, ResidencyIsBounded, Opening
<1> QED BY <1>10, <1>11

(* A block that is cached was reserved.                                     *)
LEMMA CachedBytes ==
  ASSUME IInv, BytesInv, NEW c \in Callers, Cached(c)
  PROVE  BytesInv'
<1>1. TypeOK /\ OpeningsAreCalls /\ call[c].at = "caching"
  BY DEF IInv, ScopeInv, CacheInv, Cached
<1>2. PICK e, k : e = call[c].entry /\ k = call[c].key
  OBVIOUS
<1>3. call[c].kind = "cache" /\ k \in Keys /\ openings[k] = c /\ c # NoOne /\ e # None
  BY <1>1, <1>2, CallOf, NoOneAssumption DEF Shape, OpeningsAreCalls
<1>4. /\ CachedKeys \in SUBSET Keys /\ Opening \in SUBSET Keys /\ InFlight \in SUBSET Opening
      /\ residentBytes = BytesOf(CachedKeys) /\ reserved = BytesOf(Opening)
      /\ BytesOf(CachedKeys) + BytesOf(InFlight) <= MaxResidentBytes
      /\ BytesOf(CachedKeys) \in Nat /\ BytesOf(Opening) \in Nat /\ BytesOf(InFlight) \in Nat
  BY BytesOfState
<1>5. UNCHANGED <<openings, reserved>>
  BY DEF Cached
<1>6. \A d \in Callers : d # c => call'[d] = call[d]
  BY <1>1 DEF Cached, Place, TypeOK
<1>7. CASE IsOfTheDevice(e)
  <2>1. /\ cached' = [cached EXCEPT ![k] = e] /\ residentBytes' = residentBytes + Bytes[k]
        /\ call'[c].at = "cached"
    BY <1>1, <1>2, <1>7, CallOf DEF Cached, Place, Call, TypeOK
  <2>2. k \in InFlight /\ k \notin CachedKeys
    BY <1>1, <1>3 DEF InFlight, OpeningsAreCalls, CachedKeys
  <2>3. CachedKeys' = CachedKeys \cup {k}
    BY <1>1, <1>3, <2>1 DEF CachedKeys, TypeOK
  <2>4. InFlight' \in SUBSET (InFlight \ {k})
    <3>1. \A j \in InFlight' : j \in Keys /\ openings[j] \in Callers /\ openings[j] # NoOne
      BY <1>1, <1>5 DEF InFlight, TypeOK
    <3> QED BY <1>1, <1>3, <1>5, <1>6, <2>1, <3>1 DEF InFlight
  <2>5. BytesOf(CachedKeys \cup {k}) = BytesOf(CachedKeys) + Bytes[k] /\ Bytes[k] \in Nat
    BY <1>3, <1>4, <2>2, OneMore
  <2>6. PICK rest \in SUBSET Keys : rest = InFlight \ {k}
    BY <1>4
  <2>7. BytesOf(InFlight) = BytesOf(rest) + Bytes[k] /\ BytesOf(rest) \in Nat
    <3>1. k \notin rest /\ rest \cup {k} = InFlight
      BY <2>2, <2>6
    <3> QED BY <1>3, <3>1, OneMore
  <2>8. BytesOf(InFlight') <= BytesOf(rest) /\ BytesOf(InFlight') \in Nat
    BY <2>4, <2>6, FewerBytes
  <2>9. BytesOf(CachedKeys \cup {k}) + BytesOf(InFlight') <= MaxResidentBytes
    BY <1>4, <2>5, <2>7, <2>8, LimitsAssumption
  <2>10. residentBytes' = BytesOf(CachedKeys') /\ reserved' = BytesOf(Opening')
    BY <1>4, <1>5, <2>1, <2>3, <2>5 DEF Opening
  <2> QED BY <2>3, <2>9, <2>10 DEF BytesInv, BytesAreCounted, ResidencyIsBounded, Opening
<1>8. CASE ~IsOfTheDevice(e)
  <2>1. UNCHANGED <<cached, residentBytes>>
    BY <1>2, <1>8 DEF Cached
  <2> QED BY <1>1, <1>5, <1>6, <2>1, BytesRest
<1> QED BY <1>7, <1>8

(* The reservation is given back, whatever came of the opening.             *)
LEMMA FinishBytes ==
  ASSUME IInv, BytesInv, NEW c \in Callers, Finish(c)
  PROVE  BytesInv'
<1>1. TypeOK /\ OpeningsAreCalls /\ call[c].at \in {"cached", "refused"}
  BY DEF IInv, ScopeInv, CacheInv, Finish
<1>2. PICK k : k = call[c].key
  OBVIOUS
<1>3. call[c].kind = "cache" /\ k \in Keys /\ openings[k] = c /\ c # NoOne
  BY <1>1, <1>2, CallOf, NoOneAssumption DEF Shape, OpeningsAreCalls
<1>4. /\ CachedKeys \in SUBSET Keys /\ Opening \in SUBSET Keys /\ InFlight \in SUBSET Opening
      /\ residentBytes = BytesOf(CachedKeys) /\ reserved = BytesOf(Opening)
      /\ BytesOf(CachedKeys) + BytesOf(InFlight) <= MaxResidentBytes
      /\ BytesOf(CachedKeys) \in Nat /\ BytesOf(Opening) \in Nat /\ BytesOf(InFlight) \in Nat
  BY BytesOfState
<1>5. /\ openings' = [openings EXCEPT ![k] = NoOne] /\ reserved' = reserved - Bytes[k]
      /\ UNCHANGED <<cached, residentBytes>>
      /\ \A d \in Callers : d \notin Joiners(k) \cup {c} => call'[d] = call[d]
  BY <1>2 DEF Finish, Reservation
<1>6. PICK rest \in SUBSET Keys : rest = Opening \ {k}
  BY <1>4
<1>7. Opening' = rest /\ CachedKeys' = CachedKeys
  BY <1>1, <1>3, <1>5, <1>6 DEF Opening, CachedKeys, TypeOK
<1>8. BytesOf(Opening) = BytesOf(rest) + Bytes[k] /\ Bytes[k] \in Nat /\ BytesOf(rest) \in Nat
  <2>1. k \notin rest /\ rest \cup {k} = Opening
    BY <1>3, <1>6 DEF Opening
  <2> QED BY <1>3, <2>1, OneMore
<1>9. reserved' = BytesOf(rest)
  BY <1>4, <1>5, <1>8
<1>10. InFlight' \in SUBSET InFlight
  <2>1. \A j \in Keys : openings'[j] # NoOne => j # k /\ openings'[j] = openings[j] /\ openings[j] \in Callers
    BY <1>1, <1>5 DEF TypeOK
  <2>2. \A j \in Keys : openings'[j] # NoOne => openings[j] \notin Joiners(k) \cup {c}
    <3>1. \A d \in Joiners(k) : call[d].kind # "cache"
      BY CallOf DEF Joiners, Shape
    <3> QED BY <1>1, <1>2, <2>1, <3>1 DEF OpeningsAreCalls
  <2> QED BY <1>5, <2>1, <2>2 DEF InFlight
<1>11. BytesOf(InFlight') <= BytesOf(InFlight) /\ BytesOf(InFlight') \in Nat
  <2>1. InFlight \in SUBSET Keys
    BY <1>4
  <2> QED BY <1>10, <2>1, FewerBytes
<1>12. BytesOf(CachedKeys) + BytesOf(InFlight') <= MaxResidentBytes
  BY <1>4, <1>11, LimitsAssumption
<1> QED BY <1>4, <1>5, <1>7, <1>9, <1>12 DEF BytesInv, BytesAreCounted, ResidencyIsBounded, Opening

(* The caches are emptied.                                                  *)
LEMMA EmptiedBytes ==
  ASSUME IInv, BytesInv, Emptied, UNCHANGED <<reserved, openings, call>>
  PROVE  BytesInv'
<1>1. CachedKeys' = {} /\ InFlight' = InFlight /\ Opening' = Opening /\ residentBytes' = 0
  BY DEF Emptied, CachedKeys, InFlight, Opening
<1>2. BytesOf({}) = 0
  BY BytesAreNatural, SumEmpty
<1>3. /\ reserved = BytesOf(Opening) /\ BytesOf(CachedKeys) + BytesOf(InFlight) <= MaxResidentBytes
      /\ BytesOf(CachedKeys) \in Nat /\ BytesOf(InFlight) \in Nat
  BY BytesOfState
<1>4. 0 + BytesOf(InFlight) <= MaxResidentBytes
  BY <1>3, LimitsAssumption
<1> QED BY <1>1, <1>2, <1>3, <1>4 DEF BytesInv, BytesAreCounted, ResidencyIsBounded, Opening

(* At first there is nothing to count.                                      *)
LEMMA InitBytes == Init => BytesInv
<1> SUFFICES ASSUME Init PROVE BytesInv
  OBVIOUS
<1>1. CachedKeys = {} /\ InFlight = {} /\ Opening = {} /\ residentBytes = 0 /\ reserved = 0
  BY DEF Init, CachedKeys, InFlight, Opening
<1>2. BytesOf({}) = 0
  BY BytesAreNatural, SumEmpty
<1>3. 0 + 0 <= MaxResidentBytes
  BY LimitsAssumption
<1> QED BY <1>1, <1>2, <1>3 DEF BytesInv, BytesAreCounted, ResidencyIsBounded, Opening

(* The counts are inductive, given the rest.                                *)
LEMMA StepBytes == IInv /\ BytesInv /\ [Next]_vars => BytesInv'
<1> SUFFICES ASSUME IInv, BytesInv, [Next]_vars PROVE BytesInv'
  OBVIOUS
<1>1. call \in [Callers -> Call]
  BY DEF IInv, ScopeInv, TypeOK
<1>2. ASSUME NEW c \in Callers, NEW r, Place(c, r), call[c].at # "cached" \/ r.at = "cached",
             UNCHANGED <<cached, residentBytes, reserved, openings>>
      PROVE  BytesInv'
  <2>1. \A d \in Callers : call[d].at = "cached" => call'[d].at = "cached"
    BY <1>1, <1>2 DEF Place
  <2> QED BY <1>2, <2>1, BytesRest
<1>3. ASSUME NEW c \in Callers, NEW r, Queue(c, r), call[c].at = "idle",
             UNCHANGED <<cached, residentBytes, reserved, openings>>
      PROVE  BytesInv'
  BY <1>2, <1>3 DEF Queue
<1>4. ASSUME NEW c \in Callers, NEW outcome, LeaveScope(c, outcome), call[c].at # "cached",
             UNCHANGED <<cached, residentBytes, reserved, openings>>
      PROVE  BytesInv'
  BY <1>2, <1>4 DEF LeaveScope
<1>5. ASSUME NEW c \in Callers, StartBatch(c) \/ StartResident(c) PROVE BytesInv'
  BY <1>2, <1>3, <1>5 DEF StartBatch, StartResident, CanCall, cacheVars
<1>6. ASSUME NEW c \in Callers, Abort(c) PROVE BytesInv'
  <2>1. PICK r : r = [call[c] EXCEPT !.aborted = TRUE]
    OBVIOUS
  <2>2. r.at = call[c].at
    BY <1>1, <2>1 DEF Call
  <2> QED BY <1>2, <1>6, <2>1, <2>2 DEF Abort, cacheVars
<1>7. ASSUME NEW c \in Callers, WaitAborted(c) \/ Enter(c) \/ Opened(c) PROVE BytesInv'
  BY <1>2, <1>4, <1>7 DEF WaitAborted, Enter, Opened, cacheVars
<1>8. ASSUME NEW c \in Callers, Execute(c) \/ Upload(c) \/ Pop(c) \/ Settle(c) PROVE BytesInv'
  BY <1>2, <1>4, <1>8 DEF Execute, Upload, Pop, Settle, Worked, cacheVars
<1>9. ASSUME NEW c \in Callers, NEW k \in Keys, StartCache(c, k) PROVE BytesInv'
  BY <1>2, <1>9, CacheMissBytes DEF StartCache, CanCall, cacheVars
<1>10. ASSUME NEW c \in Callers, Release(c) PROVE BytesInv'
  BY <1>10, BytesRest DEF Release
<1>11. CASE LoseDevice \/ UNCHANGED vars
  BY <1>11, BytesRest DEF LoseDevice, vars, cacheVars
<1>12. CASE LostHandled \/ Close
  BY <1>12, EmptiedBytes DEF LostHandled, Close
<1> QED BY <1>5, <1>6, <1>7, <1>8, <1>9, <1>10, <1>11, <1>12, CachedBytes, FinishBytes DEF Next, Resume

(* residentBytes and residentReservedBytes are the bytes of what is cached    *)
(* and of what is being opened, after any failure.                          *)
THEOREM BytesCounted == Spec => []BytesAreCounted
<1>1. BytesInv => BytesAreCounted
  BY DEF BytesInv
<1> QED BY <1>1, InitBytes, StepBytes, Invariance, PTL DEF Spec

(* What is cached and what is being uploaded fit in maxResidentBytes.        *)
THEOREM ResidencyBounded == Spec => []ResidencyIsBounded
<1>1. BytesInv => ResidencyIsBounded
  BY DEF BytesInv
<1> QED BY <1>1, InitBytes, StepBytes, Invariance, PTL DEF Spec
=============================================================================
