--------------------------- MODULE RangeCacheProofs ---------------------------
(***************************************************************************)
(* Proofs about RangeCache, for any slices, buffers, ranges and sizes.     *)
(***************************************************************************)
EXTENDS RangeCache, SumsAndFolds

(* What is kept, or was read, under an etag is of that version or a later one *)
(* that the file has had.                                                   *)
Kept == {e \in Entry : e.key.etag <= e.data /\ e.data <= version}

Typed ==
  /\ version \in Version
  /\ etag \in [Buffer -> Version]
  /\ cache \in Seq(Kept)
  /\ pending \in [Buffer -> SUBSET Key]
  /\ call \in [Slice -> {Idle} \cup Active \cup Answer]

HeadsAreOld == \A b \in Buffer : etag[b] <= version

Stands(c) ==
  /\ ~Settled(c) => call[c].key = KeyOf(call[c].buffer, call[c].request)
  /\ call[c].pc = "read" => call[c].key.etag <= call[c].data /\ call[c].data <= version
  /\ call[c].pc = "resolved" => call[c].etag <= call[c].data /\ call[c].data <= version

ReadsStand == \A c \in Slice : Stands(c)

IInv == Typed /\ HeadsAreOld /\ ReadsStand /\ OneReadPerWindow /\ AnswersAreExact

-----------------------------------------------------------------------------
(* Windows *)

(* The window of a request holds it, as far as the file goes.               *)
LEMMA WindowHoldsRequest ==
  ASSUME NEW r \in Request
  PROVE  /\ Coalesced(r) \in ByteRange
         /\ Larger(Coalesced(r).start, r.start) = r.start
         /\ Smaller(Coalesced(r).end, r.end) = Smaller(FileLength, r.end)
PROOF
<1>1. /\ r.start \in Nat /\ r.end \in Nat /\ FileLength \in Nat /\ CoalesceBytes \in Nat
  BY RequestsAssumption, SizesAssumption DEF ByteRange
<1>2. Clipped(r) \in ByteRange /\ Clipped(r).start = r.start
      /\ Clipped(r).end = Smaller(FileLength, Larger(r.start, r.end))
  BY <1>1 DEF Clipped, ByteRange, Smaller, Larger
<1>3. CASE Coalesced(r) = Clipped(r)
  BY <1>1, <1>2, <1>3 DEF Smaller, Larger
<1>4. CASE /\ CoalesceBytes > 0 /\ Clipped(r).end <= Window(r).end /\ Coalesced(r) = Window(r)
  <2> DEFINE start == (r.start \div CoalesceBytes) * CoalesceBytes
  <2>1. start \in Nat /\ start <= r.start
    BY <1>1, <1>4
  <2>2. Window(r) \in ByteRange /\ Window(r).start = start /\ Window(r).end <= FileLength
    BY <1>1, <2>1 DEF Window, ByteRange, Smaller
  <2> HIDE DEF start
  <2> QED
    BY <1>1, <1>2, <1>4, <2>1, <2>2 DEF Smaller, Larger, ByteRange
<1> QED
  BY <1>3, <1>4 DEF Coalesced

(* The key of a request is one.                                             *)
LEMMA Keys ==
  ASSUME Typed, NEW b \in Buffer, NEW r \in Request
  PROVE  /\ KeyOf(b, r) \in Key /\ KeyOf(b, r).etag = etag[b]
         /\ KeyOf(b, r).start = Coalesced(r).start /\ KeyOf(b, r).end = Coalesced(r).end
PROOF BY WindowHoldsRequest DEF Typed, KeyOf, Key, ByteRange

(* An answer is one, and has what was asked for.                            *)
LEMMA Answers ==
  ASSUME Typed, HeadsAreOld, NEW b \in Buffer, NEW r \in Request, NEW data \in Version
  PROVE  LET a == Answered(b, r, KeyOf(b, r), data)
         IN  /\ a \in Answer /\ a.pc = "resolved" /\ a.data = data /\ a.etag = etag[b]
             /\ a.request = r /\ a.from = r.start /\ a.to = Smaller(FileLength, r.end)
PROOF
<1>1. /\ KeyOf(b, r).start = Coalesced(r).start /\ KeyOf(b, r).end = Coalesced(r).end
  BY Keys
<1>2. Answered(b, r, KeyOf(b, r), data) =
        [pc |-> "resolved", request |-> r, etag |-> etag[b], data |-> data,
         from |-> r.start, to |-> Smaller(FileLength, r.end)]
  BY <1>1, WindowHoldsRequest DEF Answered
<1>3. r.start \in Nat /\ Smaller(FileLength, r.end) \in Nat
  BY RequestsAssumption, SizesAssumption DEF ByteRange, Smaller
<1> QED
  BY <1>2, <1>3 DEF Answer, Typed

-----------------------------------------------------------------------------
(* The cache *)

(* What is left of a sequence has the same elements.                        *)
LEMMA Rests ==
  ASSUME NEW S, NEW s \in Seq(S)
  PROVE  /\ \A i \in DOMAIN s : RemoveAt(s, i) \in Seq(S)
         /\ \A n \in 0..Len(s) : SubSeq(s, n + 1, Len(s)) \in Seq(S)
PROOF
<1>1. Len(s) \in Nat /\ DOMAIN s = 1..Len(s) /\ \A i \in 1..Len(s) : s[i] \in S
  OBVIOUS
<1>2. ASSUME NEW m \in Int, NEW n \in Int, m >= 1, n <= Len(s) PROVE SubSeq(s, m, n) \in Seq(S)
  <2>1. \A i \in m..n : s[i] \in S
    BY <1>1, <1>2
  <2> QED
    BY <2>1, SubSeqProperties
<1>3. ASSUME NEW i \in DOMAIN s PROVE RemoveAt(s, i) \in Seq(S)
  <2>1. SubSeq(s, 1, i - 1) \in Seq(S) /\ SubSeq(s, i + 1, Len(s)) \in Seq(S)
    BY <1>1, <1>2
  <2> QED
    BY <2>1, ConcatProperties DEF RemoveAt
<1>4. ASSUME NEW n \in 0..Len(s) PROVE SubSeq(s, n + 1, Len(s)) \in Seq(S)
  BY <1>1, <1>2
<1> QED
  BY <1>3, <1>4

(* Whatever is evicted, the cache holds entries it held and the new one.     *)
LEMMA Retained ==
  ASSUME NEW S, cache \in Seq(S), NEW e \in S, Retain(e)
  PROVE  cache' \in Seq(S)
PROOF
<1>1. Without(e.key) \in Seq(S)
  BY Rests DEF Without, Cached
<1>2. Append(Without(e.key), e) \in Seq(S)
  BY <1>1
<1>3. PICK n \in 0..Len(Append(Without(e.key), e)) :
        cache' = SubSeq(Append(Without(e.key), e), n + 1, Len(Append(Without(e.key), e)))
  BY DEF Retain
<1> QED
  BY <1>2, <1>3, Rests

-----------------------------------------------------------------------------
(* The steps *)

(* What a call under way is.                                                *)
LEMMA Underway ==
  ASSUME IInv, NEW c \in Slice, ~Settled(c)
  PROVE  /\ call[c] \in Active /\ call[c].buffer \in Buffer /\ call[c].request \in Request
         /\ call[c].key \in Key /\ call[c].key = KeyOf(call[c].buffer, call[c].request)
         /\ call[c].data \in Version
PROOF BY DEF IInv, Typed, Settled, Idle, Active, Answer, ReadsStand, Stands

(* A call that stood stands while its buffer and the file stay.              *)
LEMMA StandAgain ==
  ASSUME IInv, NEW c \in Slice, UNCHANGED <<version, etag>>, call'[c] = call[c]
  PROVE  Stands(c)'
PROOF BY DEF IInv, ReadsStand, Stands, Settled, KeyOf

(* A rewrite leaves every entry and every answer as it was.                 *)
LEMMA RewriteKeeps == ASSUME IInv, Rewrite PROVE IInv'
PROOF
<1>1. version' = version + 1 /\ version' \in Version /\ version \in Nat
  BY SizesAssumption DEF IInv, Typed, Rewrite, Version
<1>2. Kept \subseteq Kept'
  BY <1>1 DEF Kept, Entry, Key, Version
<1>3. cache \in Seq(Kept')
  BY <1>2 DEF IInv, Typed
<1>4. Typed' /\ HeadsAreOld'
  BY <1>1, <1>3 DEF IInv, Typed, HeadsAreOld, Rewrite, Version
<1>5. ReadsStand'
  BY <1>1 DEF IInv, ReadsStand, Stands, Rewrite, Settled, KeyOf, Typed, Active, Answer, Idle, Version
<1>6. OneReadPerWindow' /\ AnswersAreExact'
  BY DEF IInv, OneReadPerWindow, AnswersAreExact, InFlight, Rewrite
<1> QED
  BY <1>4, <1>5, <1>6 DEF IInv

(* A buffer without calls starts anew.                                      *)
LEMMA OpenKeeps == ASSUME IInv, NEW b \in Buffer, Open(b) PROVE IInv'
PROOF
<1>1. Typed' /\ HeadsAreOld'
  <2>1. version \in Nat
    BY SizesAssumption DEF IInv, Typed, Version
  <2>2. Kept' = Kept
    BY DEF Open, Kept
  <2> QED
    BY <2>1, <2>2 DEF IInv, Typed, HeadsAreOld, Open
<1>2. ReadsStand'
  <2>1. call' = call /\ version' = version /\ etag' = [etag EXCEPT ![b] = version]
    BY DEF Open
  <2>2. ASSUME NEW c \in Slice, ~Settled(c) PROVE etag'[call[c].buffer] = etag[call[c].buffer]
    BY <2>1, <2>2, Underway DEF IInv, Typed, Open
  <2>3. ASSUME NEW c \in Slice, ~Settled(c)
        PROVE  call[c].key = [etag |-> etag'[call[c].buffer], start |-> Coalesced(call[c].request).start,
                              end |-> Coalesced(call[c].request).end]
    BY <2>2, <2>3, Underway DEF KeyOf
  <2> QED
    BY <2>1, <2>3 DEF IInv, ReadsStand, Stands, Settled, KeyOf
<1>3. OneReadPerWindow'
  <2>1. \A c \in Slice : InFlight(c) => call[c].buffer # b
    BY DEF Open, InFlight, Settled
  <2>2. {call[c].key : c \in {d \in Slice : InFlight(d) /\ call[d].buffer = b}} = {}
    BY <2>1
  <2>3. \A o \in Buffer : pending'[o] = {call[c].key : c \in {d \in Slice : InFlight(d) /\ call[d].buffer = o}}
    BY <2>2 DEF IInv, Typed, OneReadPerWindow, Open
  <2> QED
    BY <2>3 DEF IInv, OneReadPerWindow, Open, InFlight
<1>4. AnswersAreExact'
  BY DEF IInv, AnswersAreExact, Open
<1> QED
  BY <1>1, <1>2, <1>3, <1>4 DEF IInv

(* A hit moves an entry and answers one call.                               *)
LEMMA HitKeeps ==
  ASSUME IInv, NEW c \in Slice, NEW b \in Buffer, NEW r \in Request, Hit(c, b, r)
  PROVE  IInv'
PROOF
<1>1. PICK i \in DOMAIN cache :
        /\ cache[i].key = KeyOf(b, r)
        /\ cache' = Append(RemoveAt(cache, i), cache[i])
        /\ call' = [call EXCEPT ![c] = Answered(b, r, KeyOf(b, r), cache[i].data)]
  BY DEF Hit
<1>2. cache[i] \in Kept /\ cache[i].data \in Version /\ KeyOf(b, r).etag = etag[b]
  BY Keys DEF IInv, Typed, Kept, Entry
<1>3. cache' \in Seq(Kept)
  BY <1>1, <1>2, Rests DEF IInv, Typed
<1> DEFINE a == Answered(b, r, KeyOf(b, r), cache[i].data)
<1>4. /\ a \in Answer /\ a.pc = "resolved" /\ a.data = cache[i].data /\ a.etag = etag[b]
      /\ a.request = r /\ a.from = r.start /\ a.to = Smaller(FileLength, r.end)
  BY <1>2, Answers DEF IInv
<1>5. call' = [call EXCEPT ![c] = a]
  BY <1>1
<1> HIDE DEF a
<1>6. Typed' /\ HeadsAreOld'
  <2>1. Kept' = Kept
    BY DEF Hit, Kept
  <2> QED
    BY <1>3, <1>4, <1>5, <2>1 DEF IInv, Typed, HeadsAreOld, Hit
<1>7. call'[c] = a /\ \A d \in Slice \ {c} : call'[d] = call[d]
  BY <1>5 DEF IInv, Typed
<1>8. ReadsStand'
  <2>1. etag[b] <= a.data /\ a.data <= version
    BY <1>1, <1>2, <1>4 DEF Kept
  <2>2. Stands(c)'
    BY <1>4, <1>7, <2>1 DEF Stands, Settled, Hit
  <2> QED
    BY <1>7, <2>2, StandAgain DEF ReadsStand, Hit
<1>9. \A d \in Slice : InFlight(d)' <=> InFlight(d)
  BY <1>4, <1>7 DEF Hit, InFlight, Settled
<1>10. OneReadPerWindow'
  <2>1. ~InFlight(c)
    BY DEF Hit, InFlight, Settled
  <2>2. \A d \in Slice : InFlight(d) => call'[d] = call[d]
    BY <1>7, <2>1
  <2>3. \A o \in Buffer : {call'[d].key : d \in {e \in Slice : InFlight(e)' /\ call'[e].buffer = o}}
                        = {call[d].key : d \in {e \in Slice : InFlight(e) /\ call[e].buffer = o}}
    BY <1>9, <2>2
  <2>4. \A d \in Slice : call'[d].pc = "sharing" => call'[d] = call[d]
    BY <1>4, <1>7
  <2>5. \A d \in Slice : call[d].pc = "sharing" => call[d].reader \in Slice
    BY Underway DEF Settled, Active
  <2>6. pending' = pending
    BY DEF Hit
  <2> QED
    BY <1>9, <2>2, <2>3, <2>4, <2>5, <2>6 DEF IInv, OneReadPerWindow
<1>11. AnswersAreExact'
  BY <1>4, <1>7 DEF IInv, AnswersAreExact
<1> QED
  BY <1>6, <1>8, <1>10, <1>11 DEF IInv

(* A second reader of a window waits for the first.                         *)
LEMMA ShareKeeps ==
  ASSUME IInv, NEW c \in Slice, NEW b \in Buffer, NEW r \in Request, Share(c, b, r)
  PROVE  IInv'
PROOF
<1>1. PICK d \in Slice :
        /\ InFlight(d) /\ call[d].buffer = b /\ call[d].key = KeyOf(b, r)
        /\ call' = [call EXCEPT ![c] = Asked("sharing", b, r, d)]
  BY DEF Share
<1> DEFINE a == Asked("sharing", b, r, d)
<1>2. /\ a \in Active /\ a.pc = "sharing" /\ a.buffer = b /\ a.request = r /\ a.key = KeyOf(b, r)
      /\ a.reader = d
  BY Keys, SizesAssumption DEF IInv, Asked, Active, Version
<1>3. call' = [call EXCEPT ![c] = a]
  BY <1>1
<1> HIDE DEF a
<1>4. ~InFlight(c) /\ UNCHANGED <<version, etag, cache, pending>>
  BY DEF Share, InFlight, Settled
<1>5. call'[c] = a /\ \A o \in Slice \ {c} : call'[o] = call[o]
  BY <1>3 DEF IInv, Typed
<1>6. Typed' /\ HeadsAreOld'
  <2>1. Kept' = Kept
    BY <1>4 DEF Kept
  <2> QED
    BY <1>2, <1>3, <1>4, <2>1 DEF IInv, Typed, HeadsAreOld
<1>7. ReadsStand'
  <2>1. Stands(c)'
    BY <1>2, <1>4, <1>5 DEF Stands, KeyOf
  <2> QED
    BY <1>4, <1>5, <2>1, StandAgain DEF ReadsStand
<1>8. OneReadPerWindow'
  <2>1. \A o \in Slice : InFlight(o)' <=> InFlight(o)
    BY <1>2, <1>4, <1>5 DEF InFlight
  <2>2. \A o \in Slice : InFlight(o) => call'[o] = call[o]
    BY <1>4, <1>5
  <2>3. \A o \in Buffer : {call'[e].key : e \in {f \in Slice : InFlight(f)' /\ call'[f].buffer = o}}
                        = {call[e].key : e \in {f \in Slice : InFlight(f) /\ call[f].buffer = o}}
    BY <2>1, <2>2
  <2>4. \A o \in Slice : call'[o].pc = "sharing" => o = c \/ call'[o] = call[o]
    BY <1>5
  <2>5. \A o \in Slice : call[o].pc = "sharing" => call[o].reader \in Slice
    BY Underway DEF Settled, Active
  <2> QED
    BY <1>1, <1>2, <1>4, <1>5, <2>1, <2>2, <2>3, <2>4, <2>5 DEF IInv, OneReadPerWindow
<1>9. AnswersAreExact'
  BY <1>2, <1>5 DEF IInv, AnswersAreExact
<1> QED
  BY <1>6, <1>7, <1>8, <1>9 DEF IInv

(* A first reader enters its window into the pending map.                   *)
LEMMA ReadKeeps ==
  ASSUME IInv, NEW c \in Slice, NEW b \in Buffer, NEW r \in Request, Read(c, b, r)
  PROVE  IInv'
PROOF
<1> DEFINE a == Asked("reading", b, r, c)
<1>2. /\ a \in Active /\ a.pc = "reading" /\ a.buffer = b /\ a.request = r /\ a.key = KeyOf(b, r)
  BY Keys, SizesAssumption DEF IInv, Asked, Active, Version
<1>3. call' = [call EXCEPT ![c] = a]
  BY DEF Read
<1> HIDE DEF a
<1>4. /\ ~InFlight(c) /\ UNCHANGED <<version, etag, cache>> /\ KeyOf(b, r) \notin pending[b]
      /\ pending' = [pending EXCEPT ![b] = @ \cup {KeyOf(b, r)}]
  BY DEF Read, InFlight, Settled
<1>5. call'[c] = a /\ \A o \in Slice \ {c} : call'[o] = call[o]
  BY <1>3 DEF IInv, Typed
<1>6. Typed' /\ HeadsAreOld'
  <2>1. Kept' = Kept
    BY <1>4 DEF Kept
  <2>2. pending' \in [Buffer -> SUBSET Key]
    BY <1>4, Keys DEF IInv, Typed
  <2> QED
    BY <1>2, <1>3, <1>4, <2>1, <2>2 DEF IInv, Typed, HeadsAreOld
<1>7. ReadsStand'
  <2>1. Stands(c)'
    BY <1>2, <1>4, <1>5 DEF Stands, KeyOf
  <2> QED
    BY <1>4, <1>5, <2>1, StandAgain DEF ReadsStand
<1>8. OneReadPerWindow'
  <2>1. \A o \in Slice : InFlight(o)' <=> InFlight(o) \/ o = c
    BY <1>2, <1>5 DEF InFlight
  <2>2. \A o \in Slice : InFlight(o) => o # c /\ call'[o] = call[o]
    BY <1>4, <1>5
  <2>3. \A o \in Slice : InFlight(o) /\ call[o].buffer = b => call[o].key # KeyOf(b, r)
    BY <1>4 DEF IInv, OneReadPerWindow
  <2>4. ASSUME NEW o \in Buffer
        PROVE  pending'[o] = {call'[e].key : e \in {f \in Slice : InFlight(f)' /\ call'[f].buffer = o}}
    <3>1. pending[o] = {call[e].key : e \in {f \in Slice : InFlight(f) /\ call[f].buffer = o}}
      BY DEF IInv, OneReadPerWindow
    <3>2. CASE o # b
      <4>1. pending'[o] = pending[o]
        BY <1>4, <3>2 DEF IInv, Typed
      <4> QED
        BY <1>2, <1>5, <2>1, <2>2, <3>1, <3>2, <4>1
    <3>3. CASE o = b
      <4>1. pending'[o] = pending[o] \cup {KeyOf(b, r)}
        BY <1>4, <3>3 DEF IInv, Typed
      <4> QED
        BY <1>2, <1>5, <2>1, <2>2, <3>1, <3>3, <4>1
    <3> QED
      BY <3>2, <3>3
  <2>5. \A e, f \in Slice : InFlight(e)' /\ InFlight(f)' =>
          e = f \/ call'[e].buffer # call'[f].buffer \/ call'[e].key # call'[f].key
    BY <1>2, <1>5, <2>1, <2>2, <2>3 DEF IInv, OneReadPerWindow
  <2>6. ASSUME NEW o \in Slice, call'[o].pc = "sharing"
        PROVE  \E f \in Slice : /\ f = call'[o].reader /\ InFlight(f)'
                                /\ call'[f].buffer = call'[o].buffer
                                /\ call'[f].key = call'[o].key
    <3>1. o # c /\ call'[o] = call[o] /\ call[o].reader \in Slice
      BY <1>2, <1>5, <2>6, Underway DEF Settled, Active
    <3> QED
      BY <2>1, <2>2, <2>6, <3>1 DEF IInv, OneReadPerWindow
  <2> QED
    BY <2>4, <2>5, <2>6 DEF OneReadPerWindow, InFlight
<1>9. AnswersAreExact'
  BY <1>2, <1>5 DEF IInv, AnswersAreExact
<1> QED
  BY <1>6, <1>7, <1>8, <1>9 DEF IInv

(* The store serves a version that the buffer's head cannot have missed.     *)
LEMMA ServeKeeps == ASSUME IInv, NEW c \in Slice, Serve(c) PROVE IInv'
PROOF
<1>1. /\ call' = [call EXCEPT ![c].pc = "read", ![c].data = version]
      /\ call[c].pc = "reading" /\ UNCHANGED <<version, etag, cache, pending>>
  BY DEF Serve
<1>2. /\ call[c] \in Active /\ call[c].buffer \in Buffer
      /\ call[c].key = KeyOf(call[c].buffer, call[c].request) /\ call[c].key.etag = etag[call[c].buffer]
  BY <1>1, Underway, Keys DEF Settled, IInv
<1>3. /\ call'[c] = [call[c] EXCEPT !.pc = "read", !.data = version]
      /\ \A o \in Slice \ {c} : call'[o] = call[o]
  BY <1>1 DEF IInv, Typed
<1>4. /\ call'[c] \in Active /\ call'[c].pc = "read" /\ call'[c].data = version
      /\ call'[c].buffer = call[c].buffer /\ call'[c].key = call[c].key
      /\ call'[c].request = call[c].request
  BY <1>2, <1>3 DEF Active, IInv, Typed
<1>5. Typed' /\ HeadsAreOld'
  <2>1. Kept' = Kept
    BY <1>1 DEF Kept
  <2>2. call' \in [Slice -> {Idle} \cup Active \cup Answer]
    BY <1>1, <1>3, <1>4 DEF IInv, Typed
  <2> QED
    BY <1>1, <2>1, <2>2 DEF IInv, Typed, HeadsAreOld
<1>6. ReadsStand'
  <2>1. Stands(c)'
    <3>1. call[c].key.etag <= version /\ version <= version
      BY <1>2, SizesAssumption DEF IInv, HeadsAreOld, Typed, Version
    <3> QED
      BY <1>1, <1>2, <1>4, <3>1 DEF Stands, KeyOf
  <2> QED
    BY <1>1, <1>3, <2>1, StandAgain DEF ReadsStand
<1>7. OneReadPerWindow'
  <2>1. \A o \in Slice : InFlight(o)' <=> InFlight(o)
    BY <1>1, <1>3, <1>4 DEF InFlight
  <2>2. \A o \in Slice : InFlight(o) => call'[o].buffer = call[o].buffer /\ call'[o].key = call[o].key
    BY <1>3, <1>4
  <2>3. \A o \in Buffer : {call'[e].key : e \in {f \in Slice : InFlight(f)' /\ call'[f].buffer = o}}
                        = {call[e].key : e \in {f \in Slice : InFlight(f) /\ call[f].buffer = o}}
    BY <2>1, <2>2
  <2>4. \A o \in Slice : call'[o].pc = "sharing" => call'[o] = call[o] /\ call[o].reader \in Slice
    BY <1>3, <1>4, Underway DEF Settled, Active
  <2>5. \A o \in Buffer :
          pending'[o] = {call'[e].key : e \in {f \in Slice : InFlight(f)' /\ call'[f].buffer = o}}
    BY <1>1, <2>3 DEF IInv, OneReadPerWindow
  <2>6. \A e, f \in Slice : InFlight(e)' /\ InFlight(f)' =>
          e = f \/ call'[e].buffer # call'[f].buffer \/ call'[e].key # call'[f].key
    BY <2>1, <2>2 DEF IInv, OneReadPerWindow
  <2>7. ASSUME NEW o \in Slice, call'[o].pc = "sharing"
        PROVE  \E f \in Slice : /\ f = call'[o].reader /\ InFlight(f)'
                                /\ call'[f].buffer = call'[o].buffer
                                /\ call'[f].key = call'[o].key
    BY <2>1, <2>2, <2>4, <2>7 DEF IInv, OneReadPerWindow
  <2> QED
    BY <2>5, <2>6, <2>7 DEF OneReadPerWindow, InFlight
<1>8. AnswersAreExact'
  BY <1>3, <1>4 DEF IInv, AnswersAreExact
<1> QED
  BY <1>5, <1>6, <1>7, <1>8 DEF IInv

(* A read that is over, with all who share it, leaves the pending map.       *)
LEMMA Finished ==
  ASSUME IInv, NEW c \in Slice, InFlight(c), Forget(c),
         \A d \in Slice : IF d = c \/ d \in Sharers(c) THEN call'[d].pc \in {"idle", "resolved"}
                                                      ELSE call'[d] = call[d]
  PROVE  OneReadPerWindow'
PROOF
<1>1. call[c].buffer \in Buffer
  BY Underway DEF InFlight, Settled
<1>2. \A o \in Slice : InFlight(o)' <=> InFlight(o) /\ o # c
  BY DEF InFlight, Sharers
<1>3. \A o \in Slice : InFlight(o)' => call'[o] = call[o]
  BY <1>2 DEF InFlight, Sharers
<1>4. \A o \in Slice : InFlight(o) /\ o # c /\ call[o].buffer = call[c].buffer => call[o].key # call[c].key
  BY DEF IInv, OneReadPerWindow
<1>5. ASSUME NEW o \in Buffer
      PROVE  pending'[o] = {call'[e].key : e \in {f \in Slice : InFlight(f)' /\ call'[f].buffer = o}}
  <2>1. pending[o] = {call[e].key : e \in {f \in Slice : InFlight(f) /\ call[f].buffer = o}}
    BY DEF IInv, OneReadPerWindow
  <2>2. CASE o # call[c].buffer
    <3>1. pending'[o] = pending[o]
      BY <2>2 DEF Forget, IInv, Typed
    <3> QED
      BY <1>2, <1>3, <2>1, <2>2, <3>1
  <2>3. CASE o = call[c].buffer
    <3>1. pending'[o] = pending[o] \ {call[c].key}
      BY <2>3 DEF Forget, IInv, Typed
    <3> QED
      BY <1>2, <1>3, <1>4, <2>1, <2>3, <3>1
  <2> QED
    BY <2>2, <2>3
<1>6. \A e, f \in Slice : InFlight(e)' /\ InFlight(f)' =>
        e = f \/ call'[e].buffer # call'[f].buffer \/ call'[e].key # call'[f].key
  BY <1>2, <1>3 DEF IInv, OneReadPerWindow
<1>7. ASSUME NEW o \in Slice, call'[o].pc = "sharing"
      PROVE  \E f \in Slice : /\ f = call'[o].reader /\ InFlight(f)'
                              /\ call'[f].buffer = call'[o].buffer
                              /\ call'[f].key = call'[o].key
  <2>1. call'[o] = call[o] /\ o \notin Sharers(c)
    BY <1>7
  <2>2. call[o].reader \in Slice /\ call[o].reader # c
    BY <1>7, <2>1, Underway DEF Settled, Active, Sharers
  <2>3. InFlight(call[o].reader) /\ call[call[o].reader].buffer = call[o].buffer
        /\ call[call[o].reader].key = call[o].key
    BY <1>7, <2>1 DEF IInv, OneReadPerWindow
  <2> QED
    BY <1>2, <1>3, <2>1, <2>2, <2>3
<1> QED
  BY <1>5, <1>6, <1>7 DEF OneReadPerWindow, InFlight

(* A read that fails lets the window be asked for again.                    *)
LEMMA FailKeeps == ASSUME IInv, NEW c \in Slice, Fail(c) PROVE IInv'
PROOF
<1>1. /\ InFlight(c) /\ Forget(c) /\ UNCHANGED <<version, etag, cache>>
      /\ call' = [d \in Slice |-> IF d = c \/ d \in Sharers(c) THEN Idle ELSE call[d]]
  BY DEF Fail, InFlight
<1>2. \A d \in Slice : call'[d] = Idle \/ call'[d] = call[d]
  BY <1>1
<1>3. OneReadPerWindow'
  BY <1>1, Finished DEF Idle
<1>4. Typed' /\ HeadsAreOld'
  <2>1. Kept' = Kept
    BY <1>1 DEF Kept
  <2>2. pending' \in [Buffer -> SUBSET Key]
    BY <1>1 DEF Forget, IInv, Typed
  <2>3. call' \in [Slice -> {Idle} \cup Active \cup Answer]
    BY <1>1 DEF IInv, Typed
  <2> QED
    BY <1>1, <2>1, <2>2, <2>3 DEF IInv, Typed, HeadsAreOld
<1>5. ReadsStand'
  <2>1. ASSUME NEW d \in Slice, call'[d] = Idle PROVE Stands(d)'
    BY <2>1 DEF Stands, Settled, Idle
  <2> QED
    BY <1>1, <1>2, <2>1, StandAgain DEF ReadsStand
<1>6. AnswersAreExact'
  BY <1>2 DEF IInv, AnswersAreExact, Idle
<1> QED
  BY <1>3, <1>4, <1>5, <1>6 DEF IInv

(* A read that arrives is kept and answers all who wait for it: they have     *)
(* its window and a buffer with its etag.                                   *)
LEMMA ArriveKeeps == ASSUME IInv, NEW c \in Slice, Arrive(c) PROVE IInv'
PROOF
<1> DEFINE a(d) == Answered(call[d].buffer, call[d].request, call[d].key, call[c].data)
<1>1. /\ call[c].pc = "read" /\ InFlight(c) /\ Forget(c) /\ UNCHANGED <<version, etag>>
      /\ call' = [d \in Slice |-> IF d = c \/ d \in Sharers(c) THEN a(d) ELSE call[d]]
  BY DEF Arrive, InFlight
<1>2. /\ call[c].data \in Version /\ call[c].key \in Key /\ call[c].key.etag <= call[c].data
      /\ call[c].data <= version
  BY <1>1, Underway DEF IInv, ReadsStand, Stands, Settled
<1>3. ASSUME NEW d \in Slice, d = c \/ d \in Sharers(c)
      PROVE  /\ call[d].buffer \in Buffer /\ call[d].request \in Request
             /\ call[d].key = KeyOf(call[d].buffer, call[d].request)
             /\ etag[call[d].buffer] = call[c].key.etag
  <2>1. ~Settled(d) /\ ~Settled(c)
    BY <1>1, <1>3 DEF Sharers, Settled
  <2>2. /\ call[d].buffer \in Buffer /\ call[d].request \in Request
        /\ call[d].key = KeyOf(call[d].buffer, call[d].request)
    BY <2>1, Underway
  <2>3. call[d].key = call[c].key
    BY <1>3 DEF Sharers, IInv, OneReadPerWindow
  <2>4. KeyOf(call[d].buffer, call[d].request).etag = etag[call[d].buffer]
    BY <2>2, Keys DEF IInv
  <2> QED
    BY <2>2, <2>3, <2>4
<1>4. ASSUME NEW d \in Slice, d = c \/ d \in Sharers(c)
      PROVE  /\ a(d) \in Answer /\ a(d).pc = "resolved" /\ a(d).data = call[c].data
             /\ a(d).etag = call[c].key.etag
             /\ a(d).from = a(d).request.start /\ a(d).to = Smaller(FileLength, a(d).request.end)
  BY <1>2, <1>3, <1>4, Answers DEF IInv
<1> HIDE DEF a
<1>5. OneReadPerWindow'
  BY <1>1, <1>4, Finished
<1>6. Typed' /\ HeadsAreOld'
  <2>1. Kept' = Kept
    BY <1>1 DEF Kept
  <2>2. cache' \in Seq(Kept)
    <3>1. [key |-> call[c].key, data |-> call[c].data] \in Kept
      BY <1>2 DEF Kept, Entry
    <3>2. cache' = cache \/ Retain([key |-> call[c].key, data |-> call[c].data])
      BY DEF Arrive
    <3> QED
      BY <3>1, <3>2, Retained DEF IInv, Typed
  <2>3. pending' \in [Buffer -> SUBSET Key]
    BY <1>1 DEF Forget, IInv, Typed
  <2>4. call' \in [Slice -> {Idle} \cup Active \cup Answer]
    BY <1>1, <1>4 DEF IInv, Typed
  <2> QED
    BY <1>1, <2>1, <2>2, <2>3, <2>4 DEF IInv, Typed, HeadsAreOld
<1>7. ReadsStand'
  <2>1. ASSUME NEW d \in Slice, d = c \/ d \in Sharers(c) PROVE Stands(d)'
    <3>1. call'[d] = a(d)
      BY <1>1, <2>1
    <3> QED
      BY <1>1, <1>2, <1>4, <2>1, <3>1 DEF Stands, Settled
  <2>2. ASSUME NEW d \in Slice, ~(d = c \/ d \in Sharers(c)) PROVE Stands(d)'
    BY <1>1, <2>2, StandAgain
  <2> QED
    BY <2>1, <2>2 DEF ReadsStand
<1>8. AnswersAreExact'
  BY <1>1, <1>4 DEF IInv, AnswersAreExact
<1> QED
  BY <1>5, <1>6, <1>7, <1>8 DEF IInv

-----------------------------------------------------------------------------
(* The bytes *)

(* The sizes of the entries, one after the other.                           *)
Sizes(entries) == [i \in DOMAIN entries |-> SizeOf(entries[i].key)]

KeysDiffer(entries) == \A i, j \in DOMAIN entries : entries[i].key = entries[j].key => i = j

(* The total of the entries is the sum of their sizes.                      *)
LEMMA TotalIsSum ==
  ASSUME NEW s \in Seq(Entry)
  PROVE  Sizes(s) \in Seq(Int) /\ TotalOf(s) = SumAlong(Sizes(s))
PROOF
<1> DEFINE n == Len(s)
           w == Sizes(s)
           Equation(h) ==
             h = [t \in SUBSET DOMAIN s |-> IF t = {} THEN 0
                                            ELSE LET x == Max(t) IN h[t \ {x}] + SizeOf(s[x].key)]
           iter == CHOOSE h : Equation(h)
<1>1. n \in Nat /\ DOMAIN s = 1..n /\ \A i \in 1..n : s[i] \in Entry
  OBVIOUS
<1>2. \A i \in 1..n : SizeOf(s[i].key) \in Int
  BY <1>1 DEF SizeOf, Entry, Key
<1>3. w \in [1..n -> Int] /\ \A i \in 1..n : w[i] = SizeOf(s[i].key)
  BY <1>1, <1>2 DEF Sizes
<1>4. w \in Seq(Int) /\ DOMAIN w = 1..n
  BY <1>1, <1>3, IsASeq
<1>5. TotalOf(s) = iter[DOMAIN s]
  BY DEF TotalOf, FoldLeft, MapThenFoldSet
<1>6. \A h : Equation(h) <=> ByMax(w, 1..n, h)
  <2> SUFFICES ASSUME NEW h PROVE Equation(h) <=> ByMax(w, 1..n, h)
    OBVIOUS
  <2>1. ASSUME NEW t \in SUBSET (1..n), t # {}
        PROVE  h[t \ {Max(t)}] + SizeOf(s[Max(t)].key) = h[t \ {Max(t)}] + w[Max(t)]
    <3>1. Max(t) \in 1..n
      BY <1>1, <2>1, LastIndex
    <3> QED BY <1>3, <3>1
  <2> HIDE DEF w
  <2>2. [t \in SUBSET DOMAIN s |-> IF t = {} THEN 0 ELSE LET x == Max(t) IN h[t \ {x}] + SizeOf(s[x].key)] =
        [t \in SUBSET (1..n) |-> IF t = {} THEN 0 ELSE h[t \ {Max(t)}] + w[Max(t)]]
    BY <1>1, <2>1
  <2> QED BY <2>2 DEF ByMax
<1> HIDE DEF w, n, Equation
<1>7. Integers(w, 1..n)
  BY <1>3 DEF Integers
<1>8. \E h : Equation(h)
  BY <1>1, <1>6, <1>7, SumByMax
<1>9. Equation(iter)
  BY <1>8
<1> HIDE DEF iter
<1>10. iter[1..n] = SumOver(w, 1..n)
  BY <1>1, <1>6, <1>7, <1>9, SumByMax
<1> QED
  BY <1>1, <1>4, <1>5, <1>10 DEF SumAlong, w

(* The total of two lists is the total of both.                             *)
LEMMA TotalOfBoth ==
  ASSUME NEW s \in Seq(Entry), NEW t \in Seq(Entry)
  PROVE  /\ s \o t \in Seq(Entry) /\ TotalOf(s \o t) = TotalOf(s) + TotalOf(t)
         /\ TotalOf(s) \in Int /\ TotalOf(t) \in Int
PROOF
<1>1. s \o t \in Seq(Entry)
  OBVIOUS
<1>2. Sizes(s) \in Seq(Int) /\ Sizes(t) \in Seq(Int)
  BY TotalIsSum
<1>3. Sizes(s \o t) = Sizes(s) \o Sizes(t)
  <2> DEFINE a == Sizes(s)
             b == Sizes(t)
             u == s \o t
             c == Sizes(u)
  <2>1. a \in Seq(Int) /\ b \in Seq(Int) /\ c \in Seq(Int) /\ u \in Seq(Entry)
    BY <1>1, <1>2, TotalIsSum
  <2>2. DOMAIN a = DOMAIN s /\ DOMAIN b = DOMAIN t /\ DOMAIN c = DOMAIN u
    BY DEF Sizes
  <2>3. /\ \A i \in DOMAIN s : a[i] = SizeOf(s[i].key)
        /\ \A i \in DOMAIN t : b[i] = SizeOf(t[i].key)
        /\ \A i \in DOMAIN u : c[i] = SizeOf(u[i].key)
    BY DEF Sizes
  <2>4. /\ Len(u) = Len(s) + Len(t)
        /\ \A i \in DOMAIN s : u[i] = s[i]
        /\ \A i \in DOMAIN t : u[Len(s) + i] = t[i]
    OBVIOUS
  <2> HIDE DEF a, b, c, u
  <2>5. Len(a) = Len(s) /\ Len(b) = Len(t) /\ Len(c) = Len(s) + Len(t)
    BY <2>1, <2>2, <2>4
  <2>6. a \o b \in Seq(Int) /\ Len(a \o b) = Len(c)
    <3>1. a \o b \in Seq(Int) /\ Len(a \o b) = Len(a) + Len(b)
      BY <2>1, ConcatProperties
    <3> QED BY <2>5, <3>1
  <2>7. ASSUME NEW i \in 1..Len(c) PROVE c[i] = (a \o b)[i]
    <3>1. CASE i <= Len(s)
      <4>1. i \in DOMAIN s /\ i \in DOMAIN u
        BY <2>1, <2>5, <2>7, <2>2, <3>1
      <4>2. (a \o b)[i] = a[i]
        BY <2>1, <2>5, <2>7, <3>1
      <4> QED BY <2>3, <2>4, <4>1, <4>2
    <3>2. CASE i > Len(s)
      <4> DEFINE j == i - Len(s)
      <4>1. j \in DOMAIN t /\ i \in DOMAIN u /\ i = Len(s) + j
        BY <2>1, <2>5, <2>7, <2>2, <3>2
      <4>2. (a \o b)[i] = b[j]
        BY <2>1, <2>5, <2>7, <3>2
      <4> HIDE DEF j
      <4> QED BY <2>3, <2>4, <4>1, <4>2
    <3> QED BY <2>5, <2>7, <3>1, <3>2
  <2>8. c = a \o b
    BY <2>1, <2>6, <2>7, SeqEqual
  <2> QED BY <2>8 DEF a, b, c, u
<1>4. SumAlong(Sizes(s) \o Sizes(t)) = SumAlong(Sizes(s)) + SumAlong(Sizes(t))
      /\ SumAlong(Sizes(s)) \in Int /\ SumAlong(Sizes(t)) \in Int
  BY <1>2, SumAlongConcat
<1> QED
  BY <1>1, <1>3, <1>4, TotalIsSum

(* The total of one entry is its size.                                      *)
LEMMA TotalOfOne ==
  /\ TotalOf(<<>>) = 0
  /\ \A e \in Entry : TotalOf(<<e>>) = SizeOf(e.key)
PROOF
<1>1. TotalOf(<<>>) = 0
  <2>1. <<>> \in Seq(Entry) /\ Sizes(<<>>) = <<>>
    BY DEF Sizes
  <2> QED BY <2>1, TotalIsSum, SumAlongOne
<1>2. ASSUME NEW e \in Entry PROVE TotalOf(<<e>>) = SizeOf(e.key)
  <2>1. <<e>> \in Seq(Entry) /\ SizeOf(e.key) \in Int
    BY DEF Entry, Key, SizeOf
  <2>2. Sizes(<<e>>) = <<SizeOf(e.key)>>
    BY DEF Sizes
  <2> QED BY <2>1, <2>2, TotalIsSum, SumAlongOne
<1> QED
  BY <1>1, <1>2

(* What is cut off the front, or taken out, is taken from the total.         *)
LEMMA TotalOfRest ==
  ASSUME NEW s \in Seq(Entry)
  PROVE  /\ TotalOf(s) \in Int
         /\ \A n \in 0..Len(s) : /\ TotalOf(SubSeq(s, 1, n)) \in Int
                                 /\ TotalOf(SubSeq(s, n + 1, Len(s))) = TotalOf(s) - TotalOf(SubSeq(s, 1, n))
         /\ \A i \in DOMAIN s : TotalOf(RemoveAt(s, i)) = TotalOf(s) - SizeOf(s[i].key)
PROOF
<1>1. Len(s) \in Nat /\ DOMAIN s = 1..Len(s) /\ \A i \in 1..Len(s) : s[i] \in Entry
  OBVIOUS
<1>2. ASSUME NEW m \in Int, NEW n \in Int, m >= 1, n <= Len(s) PROVE SubSeq(s, m, n) \in Seq(Entry)
  <2>1. \A i \in m..n : s[i] \in Entry
    BY <1>1, <1>2
  <2> QED BY <2>1, SubSeqProperties
<1>3. ASSUME NEW n \in 0..Len(s)
      PROVE  /\ TotalOf(SubSeq(s, 1, n)) \in Int /\ TotalOf(SubSeq(s, n + 1, Len(s))) \in Int
             /\ TotalOf(s) = TotalOf(SubSeq(s, 1, n)) + TotalOf(SubSeq(s, n + 1, Len(s)))
  <2> DEFINE a == SubSeq(s, 1, n)
             b == SubSeq(s, n + 1, Len(s))
  <2>1. a \in Seq(Entry) /\ b \in Seq(Entry)
    BY <1>1, <1>2
  <2>2. s = a \o b
    <3>1. 1 \in 1..(Len(s) + 1) /\ n \in (1 - 1)..Len(s) /\ Len(s) \in n..Len(s)
      BY <1>1
    <3>2. a \o b = SubSeq(s, 1, Len(s))
      BY <3>1, ConcatAdjacentSubSeq
    <3> QED BY <3>2, SubSeqFull
  <2> HIDE DEF a, b
  <2>3. TotalOf(a \o b) = TotalOf(a) + TotalOf(b) /\ TotalOf(a) \in Int /\ TotalOf(b) \in Int
    BY <2>1, TotalOfBoth
  <2> QED BY <2>2, <2>3 DEF a, b
<1>4. TotalOf(s) \in Int
  <2>1. 0 \in 0..Len(s)
    BY <1>1
  <2> QED BY <1>3, <2>1
<1>5. ASSUME NEW i \in DOMAIN s PROVE TotalOf(RemoveAt(s, i)) = TotalOf(s) - SizeOf(s[i].key)
  <2> DEFINE a == SubSeq(s, 1, i - 1)
             b == SubSeq(s, i + 1, Len(s))
             c == SubSeq(s, 1, i)
  <2>1. a \in Seq(Entry) /\ b \in Seq(Entry) /\ c \in Seq(Entry) /\ s[i] \in Entry
    BY <1>1, <1>2
  <2>2. RemoveAt(s, i) = a \o b
    BY DEF RemoveAt
  <2>3. c = a \o <<s[i]>>
    <3>1. 1 \in 1..Len(s) /\ i \in 1..Len(s)
      BY <1>1
    <3> QED BY <3>1, SubSeqRecursiveSecond
  <2>4. i \in 0..Len(s)
    BY <1>1
  <2>5. /\ TotalOf(s) = TotalOf(c) + TotalOf(b)
    BY <1>3, <2>4
  <2> HIDE DEF a, b, c
  <2>6. /\ TotalOf(a \o b) = TotalOf(a) + TotalOf(b)
        /\ TotalOf(a) \in Int /\ TotalOf(b) \in Int
    BY <2>1, TotalOfBoth
  <2>7. <<s[i]>> \in Seq(Entry)
    BY <2>1
  <2>8. TotalOf(a \o <<s[i]>>) = TotalOf(a) + TotalOf(<<s[i]>>)
    BY <2>1, <2>7, TotalOfBoth
  <2>9. TotalOf(<<s[i]>>) = SizeOf(s[i].key) /\ SizeOf(s[i].key) \in Int
    BY <2>1, TotalOfOne DEF SizeOf, Entry, Key
  <2> QED BY <2>2, <2>3, <2>5, <2>6, <2>8, <2>9
<1> QED
  BY <1>3, <1>4, <1>5

(* An entry at the end adds its size.                                       *)
LEMMA TotalOfMore ==
  ASSUME NEW s \in Seq(Entry), NEW e \in Entry
  PROVE  Append(s, e) \in Seq(Entry) /\ TotalOf(Append(s, e)) = TotalOf(s) + SizeOf(e.key)
PROOF
<1>1. <<e>> \in Seq(Entry) /\ Append(s, e) = s \o <<e>>
  BY AppendIsConcat
<1>2. TotalOf(s \o <<e>>) = TotalOf(s) + TotalOf(<<e>>) /\ s \o <<e>> \in Seq(Entry)
  BY <1>1, TotalOfBoth
<1> QED
  BY <1>1, <1>2, TotalOfOne

(* Where no key is there twice, none is there twice in a part, nor with an    *)
(* entry whose key was taken out.                                           *)
LEMMA KeysStayDifferent ==
  ASSUME NEW s \in Seq(Entry), KeysDiffer(s)
  PROVE  /\ \A n \in 0..Len(s) : KeysDiffer(SubSeq(s, n + 1, Len(s)))
         /\ \A i \in DOMAIN s, e \in Entry : e.key = s[i].key => KeysDiffer(Append(RemoveAt(s, i), e))
         /\ \A e \in Entry : (\A i \in DOMAIN s : s[i].key # e.key) => KeysDiffer(Append(s, e))
PROOF
<1>1. Len(s) \in Nat /\ DOMAIN s = 1..Len(s) /\ \A i \in 1..Len(s) : s[i] \in Entry
  OBVIOUS
<1>2. ASSUME NEW n \in 0..Len(s) PROVE KeysDiffer(SubSeq(s, n + 1, Len(s)))
  <2> DEFINE b == SubSeq(s, n + 1, Len(s))
  <2>1. /\ DOMAIN b = 1..(Len(s) - n)
        /\ \A i \in 1..(Len(s) - n) : b[i] = s[n + i] /\ n + i \in 1..Len(s)
    BY <1>1
  <2> HIDE DEF b
  <2>2. ASSUME NEW i \in DOMAIN b, NEW j \in DOMAIN b, b[i].key = b[j].key PROVE i = j
    <3>1. s[n + i].key = s[n + j].key /\ n + i \in DOMAIN s /\ n + j \in DOMAIN s
      BY <1>1, <2>1, <2>2
    <3>2. n + i = n + j
      BY <3>1 DEF KeysDiffer
    <3>3. i \in Int /\ j \in Int /\ n \in Int
      BY <1>1, <2>1
    <3> QED BY <3>2, <3>3
  <2>3. KeysDiffer(b)
    BY <2>2 DEF KeysDiffer
  <2> QED BY <2>3 DEF b
<1>3. ASSUME NEW t \in Seq(Entry), KeysDiffer(t), NEW e \in Entry, \A i \in DOMAIN t : t[i].key # e.key
      PROVE  KeysDiffer(Append(t, e))
  <2>1. /\ DOMAIN Append(t, e) = 1..(Len(t) + 1) /\ DOMAIN t = 1..Len(t) /\ Len(t) \in Nat
        /\ \A i \in 1..(Len(t) + 1) : Append(t, e)[i] = IF i = Len(t) + 1 THEN e ELSE t[i]
    BY <1>3
  <2> QED BY <1>3, <2>1 DEF KeysDiffer
<1>4. ASSUME NEW i \in DOMAIN s, NEW e \in Entry, e.key = s[i].key
      PROVE  KeysDiffer(Append(RemoveAt(s, i), e))
  <2> DEFINE t == RemoveAt(s, i)
             At(j) == IF j < i THEN j ELSE j + 1
  <2>1. t \in Seq(Entry) /\ DOMAIN t = 1..(Len(s) - 1) /\ \A j \in 1..(Len(s) - 1) : t[j] = s[At(j)]
    <3> DEFINE a == SubSeq(s, 1, i - 1)
               b == SubSeq(s, i + 1, Len(s))
    <3>1. /\ Len(a) = i - 1 /\ \A j \in 1..(i - 1) : a[j] = s[j]
          /\ Len(b) = Len(s) - i /\ \A j \in 1..(Len(s) - i) : b[j] = s[i + j]
      BY <1>1
    <3>2. a \in Seq(Entry) /\ b \in Seq(Entry)
      <4>1. \A j \in 1..(i - 1) : s[j] \in Entry
        BY <1>1
      <4>2. \A j \in (i + 1)..Len(s) : s[j] \in Entry
        BY <1>1
      <4> QED BY <1>1, <4>1, <4>2, SubSeqProperties
    <3>3. t = a \o b
      BY DEF RemoveAt
    <3> HIDE DEF a, b, t
    <3>4. /\ a \o b \in Seq(Entry) /\ Len(a \o b) = Len(s) - 1
      <4>1. a \o b \in Seq(Entry) /\ Len(a \o b) = Len(a) + Len(b)
        BY <3>2, ConcatProperties
      <4> QED BY <1>1, <3>1, <4>1
    <3>5. ASSUME NEW j \in 1..(Len(s) - 1) PROVE (a \o b)[j] = s[At(j)]
      <4>1. CASE j < i
        BY <1>1, <3>1, <3>2, <3>5, <4>1
      <4>2. CASE ~(j < i)
        <5>1. j - (i - 1) \in 1..(Len(s) - i) /\ i + (j - (i - 1)) = j + 1
          BY <1>1, <3>5, <4>2
        <5>2. (a \o b)[j] = b[j - (i - 1)]
          BY <1>1, <3>1, <3>2, <3>5, <4>2
        <5> QED BY <3>1, <4>2, <5>1, <5>2
      <4> QED BY <4>1, <4>2
    <3> QED BY <3>3, <3>4, <3>5
  <2>2. \A j \in 1..(Len(s) - 1) : At(j) \in DOMAIN s /\ At(j) # i
    BY <1>1
  <2>3. \A j, k \in 1..(Len(s) - 1) : At(j) = At(k) => j = k
    BY <1>1
  <2> HIDE DEF t, At
  <2>4. KeysDiffer(t)
    BY <2>1, <2>2, <2>3 DEF KeysDiffer
  <2>5. \A j \in DOMAIN t : t[j].key # e.key
    BY <1>4, <2>1, <2>2 DEF KeysDiffer
  <2>6. KeysDiffer(Append(t, e))
    BY <1>3, <2>1, <2>4, <2>5
  <2> QED BY <2>6 DEF t
<1> QED
  BY <1>2, <1>3, <1>4

(* The cache is a list of entries.                                          *)
LEMMA CacheIsEntries == ASSUME Typed PROVE cache \in Seq(Entry)
PROOF
<1>1. Kept \subseteq Entry
  BY DEF Kept
<1> QED
  BY <1>1 DEF Typed

(* A kept entry is counted once, whatever it replaces, and what is evicted is *)
(* given back.                                                              *)
LEMMA RetainCounts ==
  ASSUME Typed, BytesAreCounted, NEW e \in Entry, Retain(e)
  PROVE  BytesAreCounted'
PROOF
<1>1. cache \in Seq(Entry) /\ KeysDiffer(cache) /\ bytes = TotalOf(cache) /\ TotalOf(cache) \in Int
  BY CacheIsEntries, TotalOfRest DEF BytesAreCounted, KeysDiffer
<1> DEFINE entries == Append(Without(e.key), e)
           total == bytes + SizeOf(e.key) - (IF Cached(e.key) THEN SizeOf(e.key) ELSE 0)
<1>2. entries \in Seq(Entry) /\ total = TotalOf(entries) /\ KeysDiffer(entries)
  <2>1. SizeOf(e.key) \in Int
    BY DEF SizeOf, Entry, Key
  <2>2. CASE Cached(e.key)
    <3>1. PICK i \in DOMAIN cache : cache[i].key = e.key /\ Without(e.key) = RemoveAt(cache, i)
      BY <2>2 DEF Cached, Without
    <3>2. RemoveAt(cache, i) \in Seq(Entry) /\ TotalOf(RemoveAt(cache, i)) = TotalOf(cache) - SizeOf(e.key)
      BY <1>1, <3>1, Rests, TotalOfRest
    <3>3. /\ entries \in Seq(Entry) /\ TotalOf(entries) = TotalOf(RemoveAt(cache, i)) + SizeOf(e.key)
      BY <3>1, <3>2, TotalOfMore
    <3>4. KeysDiffer(entries)
      BY <1>1, <3>1, KeysStayDifferent
    <3>5. total = bytes + SizeOf(e.key) - SizeOf(e.key)
      BY <2>2
    <3> HIDE DEF entries, total
    <3> QED BY <1>1, <2>1, <3>2, <3>3, <3>4, <3>5
  <2>3. CASE ~Cached(e.key)
    <3>1. Without(e.key) = cache /\ \A i \in DOMAIN cache : cache[i].key # e.key
      BY <2>3 DEF Cached, Without
    <3>2. entries \in Seq(Entry) /\ TotalOf(entries) = TotalOf(cache) + SizeOf(e.key)
      BY <1>1, <3>1, TotalOfMore
    <3>3. KeysDiffer(entries)
      BY <1>1, <3>1, KeysStayDifferent
    <3>4. total = bytes + SizeOf(e.key) - 0
      BY <2>3
    <3> HIDE DEF entries, total
    <3> QED BY <1>1, <2>1, <3>2, <3>3, <3>4
  <2> QED BY <2>2, <2>3
<1>3. PICK n \in 0..Len(entries) :
        /\ total - TotalOf(SubSeq(entries, 1, n)) <= MaxBytes \/ n = Len(entries)
        /\ cache' = SubSeq(entries, n + 1, Len(entries))
        /\ bytes' = total - TotalOf(SubSeq(entries, 1, n))
  BY DEF Retain
<1> HIDE DEF entries, total
<1>4. bytes' = TotalOf(cache')
  BY <1>2, <1>3, TotalOfRest
<1>5. bytes' <= MaxBytes
  <2>1. CASE n = Len(entries)
    <3>1. SubSeq(entries, 1, n) = entries
      BY <1>2, <2>1, SubSeqFull
    <3>2. bytes' = total - TotalOf(entries)
      BY <1>3, <2>1, <3>1
    <3>3. TotalOf(entries) \in Int
      BY <1>2, TotalOfRest
    <3>4. bytes' = 0
      BY <1>2, <3>2, <3>3
    <3> QED BY <3>4, SizesAssumption
  <2> QED BY <1>3, <2>1
<1>6. KeysDiffer(cache')
  BY <1>2, <1>3, KeysStayDifferent
<1> QED
  BY <1>4, <1>5, <1>6 DEF BytesAreCounted, KeysDiffer

(* Every step keeps the count.                                              *)
LEMMA NextCounts == ASSUME IInv, BytesAreCounted, [Next]_vars PROVE BytesAreCounted'
PROOF
<1>1. ASSUME UNCHANGED <<cache, bytes>> PROVE BytesAreCounted'
  BY <1>1 DEF BytesAreCounted
<1>2. ASSUME NEW c \in Slice, NEW b \in Buffer, NEW r \in Request, Hit(c, b, r) PROVE BytesAreCounted'
  <2>1. PICK i \in DOMAIN cache : cache' = Append(RemoveAt(cache, i), cache[i]) /\ bytes' = bytes
    BY <1>2 DEF Hit
  <2>2. cache \in Seq(Entry) /\ KeysDiffer(cache) /\ cache[i] \in Entry
    BY CacheIsEntries DEF IInv, BytesAreCounted, KeysDiffer
  <2>3. TotalOf(cache') = TotalOf(RemoveAt(cache, i)) + SizeOf(cache[i].key)
    BY <2>1, <2>2, Rests, TotalOfMore
  <2>4. TotalOf(RemoveAt(cache, i)) = TotalOf(cache) - SizeOf(cache[i].key) /\ TotalOf(cache) \in Int
    BY <2>2, TotalOfRest
  <2>5. SizeOf(cache[i].key) \in Int
    BY <2>2 DEF SizeOf, Entry, Key
  <2>6. KeysDiffer(cache')
    BY <2>1, <2>2, KeysStayDifferent
  <2> QED BY <2>1, <2>3, <2>4, <2>5, <2>6 DEF BytesAreCounted, KeysDiffer
<1>3. ASSUME NEW c \in Slice, Arrive(c) PROVE BytesAreCounted'
  <2>1. [key |-> call[c].key, data |-> call[c].data] \in Entry
    BY <1>3, Underway DEF Arrive, Settled, Entry
  <2>2. Retain([key |-> call[c].key, data |-> call[c].data]) \/ UNCHANGED <<cache, bytes>>
    BY <1>3 DEF Arrive
  <2> QED BY <1>1, <2>1, <2>2, RetainCounts DEF IInv
<1>4. CASE UNCHANGED vars
  BY <1>1, <1>4 DEF vars
<1>5. CASE Next
  BY <1>1, <1>2, <1>3, <1>5 DEF Next, Rewrite, Open, Serve, Fail, Share, Read
<1> QED
  BY <1>4, <1>5

-----------------------------------------------------------------------------
(* The theorems *)

(* The initial state satisfies the invariant.                               *)
LEMMA InitHolds == ASSUME Init PROVE IInv
PROOF
<1>1. 0 \in Version /\ <<>> \in Seq(Kept) /\ Idle.pc = "idle"
  BY SizesAssumption DEF Version, Idle
<1>2. \A c \in Slice : call[c].pc = "idle"
  BY <1>1 DEF Init
<1>3. Typed /\ HeadsAreOld
  BY <1>1 DEF Init, Typed, HeadsAreOld
<1>4. ReadsStand /\ AnswersAreExact
  BY <1>2 DEF ReadsStand, Stands, Settled, AnswersAreExact
<1>5. OneReadPerWindow
  BY <1>2 DEF Init, OneReadPerWindow, InFlight
<1> QED
  BY <1>3, <1>4, <1>5 DEF IInv

(* Every step keeps the invariant.                                          *)
LEMMA NextKeeps == ASSUME IInv, [Next]_vars PROVE IInv'
PROOF
<1>1. CASE UNCHANGED vars
  BY <1>1 DEF vars, IInv, Typed, Kept, HeadsAreOld, ReadsStand, Stands, Settled, KeyOf, OneReadPerWindow,
              AnswersAreExact, InFlight
<1>2. CASE Next
  BY <1>2, RewriteKeeps, OpenKeeps, HitKeeps, ShareKeeps, ReadKeeps, ServeKeeps, ArriveKeeps, FailKeeps DEF Next
<1> QED
  BY <1>1, <1>2

(* The invariant holds in every reachable state.                            *)
THEOREM Invariance == Spec => []IInv
PROOF BY InitHolds, NextKeeps, PTL DEF Spec

(* For any slices, buffers and ranges: one read of a window at a time, and    *)
(* nobody shares a read that is over.                                       *)
THEOREM OneRead == Spec => []OneReadPerWindow
<1>1. IInv => OneReadPerWindow
  BY DEF IInv
<1> QED
  BY <1>1, Invariance, PTL

(* Every answer has the bytes that were asked for, whatever the windows.     *)
THEOREM Exact == Spec => []AnswersAreExact
<1>1. IInv => AnswersAreExact
  BY DEF IInv
<1> QED
  BY <1>1, Invariance, PTL

(* No rewrite and no other reader of the cache gives a current reader bytes   *)
(* of another version.                                                      *)
THEOREM Current == Spec => []CurrentReadersAreCurrent
<1>1. IInv => CurrentReadersAreCurrent
  <2> SUFFICES ASSUME IInv, NEW c \in Slice, call[c].pc = "resolved", call[c].etag = version
               PROVE  call[c].data = version
    BY DEF CurrentReadersAreCurrent
  <2>1. call[c].etag <= call[c].data /\ call[c].data <= version
    BY DEF IInv, ReadsStand, Stands
  <2>2. call[c].data \in Int /\ version \in Int
    BY SizesAssumption DEF IInv, Typed, Idle, Active, Answer, Version
  <2> QED
    BY <2>1, <2>2
<1> QED
  BY <1>1, Invariance, PTL

(* For any slices, buffers, ranges and budgets: the count is what the cache    *)
(* holds, within the budget, and no window is held twice.                   *)
THEOREM Counted == Spec => []BytesAreCounted
<1>1. Init => BytesAreCounted
  BY TotalOfOne, SizesAssumption DEF Init, BytesAreCounted
<1> QED
  BY <1>1, Invariance, NextCounts, PTL DEF Spec
=============================================================================
