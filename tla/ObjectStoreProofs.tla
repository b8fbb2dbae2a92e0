--------------------------- MODULE ObjectStoreProofs ---------------------------
(***************************************************************************)
(* Proofs about the two wrappers of an object store: ReadControls, for       *)
(* every finite set of readers and every limit, and ObjectCache, for every   *)
(* store, budget, policy and set of clients.                               *)
(***************************************************************************)
EXTENDS ReadControls, ObjectCache, SumsAndFolds

(* The signal leaves no waiter behind.  NoLostWaiter needs it: an aborted    *)
(* waiter drops the wake-up it was given.                                    *)
AbortEmptiesQueue == aborted => queue = <<>>

IInv == TypeOK /\ ActiveCountsHolders /\ NoLostWaiter /\ AbortEmptiesQueue

-----------------------------------------------------------------------------
LEMMA ReaderSets ==
  ASSUME NEW S \in SUBSET Reader
  PROVE  IsFiniteSet(S) /\ Cardinality(S) \in Nat
BY ReadersAreFinite, FS_Subset, FS_CardinalityType

(* Moving one reader in or out of a set of readers. *)
LEMMA CardGrows ==
  ASSUME NEW S \in SUBSET Reader, NEW r \in Reader, r \notin S
  PROVE  Cardinality(S \cup {r}) = Cardinality(S) + 1
BY ReaderSets, FS_AddElement

LEMMA CardShrinks ==
  ASSUME NEW S \in SUBSET Reader, NEW r \in S
  PROVE  Cardinality(S \ {r}) = Cardinality(S) - 1
BY ReaderSets, FS_RemoveElement

(* The oldest waiter, and the queue without it. *)
LEMMA QueueHead ==
  ASSUME TypeOK, queue # <<>>
  PROVE  /\ Head(queue) \in Reader /\ pc[Head(queue)] = "queued"
         /\ Tail(queue) \in Seq(Reader)
         /\ \A i, j \in DOMAIN Tail(queue) : Tail(queue)[i] = Tail(queue)[j] => i = j
         /\ {Tail(queue)[i] : i \in DOMAIN Tail(queue)} = Waiting \ {Head(queue)}
<1> DEFINE n == Len(queue)
           t == Tail(queue)
<1>1. /\ queue \in Seq(Reader) /\ n \in Nat /\ n > 0 /\ DOMAIN queue = 1..n
      /\ Head(queue) = queue[1]
  BY DEF TypeOK
<1>2. /\ t \in Seq(Reader) /\ DOMAIN t = 1..(n - 1)
      /\ \A i \in 1..(n - 1) : t[i] = queue[i + 1]
  BY <1>1
<1>3. \A i, j \in 1..n : queue[i] = queue[j] => i = j
  BY <1>1 DEF TypeOK
<1>4. Waiting = {queue[i] : i \in 1..n}
  BY <1>1 DEF TypeOK
<1>5. \A i, j \in 1..(n - 1) : t[i] = t[j] => i = j
  <2> SUFFICES ASSUME NEW i \in 1..(n - 1), NEW j \in 1..(n - 1), t[i] = t[j]
               PROVE  i = j
    OBVIOUS
  <2>1. i + 1 \in 1..n /\ j + 1 \in 1..n /\ queue[i + 1] = queue[j + 1]
    BY <1>1, <1>2
  <2>2. i + 1 = j + 1
    BY <2>1, <1>3
  <2> QED
    BY <2>2
<1>6. {t[i] : i \in 1..(n - 1)} \subseteq Waiting \ {queue[1]}
  <2> SUFFICES ASSUME NEW i \in 1..(n - 1) PROVE t[i] \in Waiting \ {queue[1]}
    OBVIOUS
  <2>1. i + 1 \in 1..n /\ i + 1 # 1 /\ 1 \in 1..n /\ t[i] = queue[i + 1]
    BY <1>1, <1>2
  <2> QED
    BY <2>1, <1>3, <1>4
<1>7. Waiting \ {queue[1]} \subseteq {t[i] : i \in 1..(n - 1)}
  <2> SUFFICES ASSUME NEW k \in 1..n, queue[k] # queue[1]
               PROVE  \E i \in 1..(n - 1) : queue[k] = t[i]
    BY <1>4
  <2>1. k - 1 \in 1..(n - 1) /\ (k - 1) + 1 = k
    BY <1>1
  <2> QED
    BY <2>1, <1>2
<1>8. Head(queue) \in Reader /\ pc[Head(queue)] = "queued"
  BY <1>1, <1>4 DEF Waiting
<1> QED
  BY <1>1, <1>2, <1>5, <1>6, <1>7, <1>8

-----------------------------------------------------------------------------
LEMMA InitIInv == Init => IInv
<1> SUFFICES ASSUME Init PROVE IInv
  OBVIOUS
<1>1. TypeOK
  <2>1. <<>> \in Seq(Reader) /\ DOMAIN <<>> = {} /\ Waiting = {}
    BY DEF Init, Waiting
  <2>2. queue \in Seq(Reader) /\ \A i, j \in DOMAIN queue : queue[i] = queue[j] => i = j
    BY <2>1 DEF Init
  <2>3. {queue[i] : i \in DOMAIN queue} = Waiting
    BY <2>1 DEF Init
  <2>4. pc \in [Reader -> Pending \cup Settled] /\ active \in Nat /\ aborted \in BOOLEAN
    BY DEF Init, Settled
  <2> QED
    BY <2>2, <2>3, <2>4 DEF TypeOK
<1>2. Holders = {} /\ active = 0
  BY DEF Init, Holders
<1> QED
  BY <1>1, <1>2, FS_EmptySet DEF IInv, Init, ActiveCountsHolders, NoLostWaiter, AbortEmptiesQueue

(* A step that gives no slot, wakes nobody and leaves the queue alone.      *)
LEMMA QuietStep ==
  ASSUME IInv, UNCHANGED <<active, queue, aborted>>,
         pc' \in [Reader -> Pending \cup Settled],
         Waiting' = Waiting, Woken' = Woken, Holders' = Holders
  PROVE  IInv'
BY DEF IInv, TypeOK, ActiveCountsHolders, NoLostWaiter, AbortEmptiesQueue

LEMMA ReleaseStep ==
  ASSUME IInv, NEW r \in Holders, NEW outcome \in Outcomes, Release(r, outcome),
         UNCHANGED aborted
  PROVE  IInv'
<1>0. r \in Reader /\ pc[r] \in {"entering", "reading"}
  BY DEF Holders
<1>1. active' = active - 1 /\ active = Cardinality(Holders) /\ Holders \in SUBSET Reader
      /\ active \in Nat
  BY DEF Release, IInv, ActiveCountsHolders, Holders, TypeOK
<1>2. Cardinality(Holders \ {r}) = active - 1 /\ active - 1 \in Nat
  <2>1. Cardinality(Holders \ {r}) = active - 1
    BY <1>1, CardShrinks
  <2>2. Cardinality(Holders \ {r}) \in Nat
    BY <1>1, ReaderSets
  <2> QED
    BY <2>1, <2>2
<1>3. CASE queue = <<>>
  <2>1. pc' = [pc EXCEPT ![r] = outcome] /\ queue' = queue
    BY <1>3 DEF Release
  <2>2. Holders' = Holders \ {r} /\ Waiting' = Waiting
    BY <1>0, <2>1 DEF Holders, Waiting, Outcomes, IInv, TypeOK
  <2>3. TypeOK'
    BY <1>0, <1>1, <1>2, <2>1, <2>2 DEF IInv, TypeOK, Outcomes, Settled
  <2> QED
    BY <1>1, <1>2, <1>3, <2>1, <2>2, <2>3
       DEF IInv, ActiveCountsHolders, NoLostWaiter, AbortEmptiesQueue
<1>4. CASE queue # <<>>
  <2> DEFINE h == Head(queue)
  <2>1. /\ h \in Reader /\ pc[h] = "queued" /\ h # r
        /\ Tail(queue) \in Seq(Reader)
        /\ \A i, j \in DOMAIN Tail(queue) : Tail(queue)[i] = Tail(queue)[j] => i = j
        /\ {Tail(queue)[i] : i \in DOMAIN Tail(queue)} = Waiting \ {h}
    BY <1>0, <1>4, QueueHead DEF IInv
  <2>2. pc' = [pc EXCEPT ![r] = outcome, ![h] = "woken"] /\ queue' = Tail(queue)
    BY <1>4 DEF Release
  <2>3. /\ pc' \in [Reader -> Pending \cup Settled]
        /\ pc'[r] = outcome /\ pc'[h] = "woken"
        /\ \A q \in Reader \ {r, h} : pc'[q] = pc[q]
    BY <1>0, <2>1, <2>2 DEF IInv, TypeOK, Outcomes, Settled, Pending
  <2>4. Holders' = Holders \ {r}
    BY <1>0, <2>1, <2>3 DEF Holders, Outcomes
  <2>5. Waiting' = Waiting \ {h}
    BY <1>0, <2>1, <2>3 DEF Waiting, Outcomes
  <2>6. Woken' = Woken \cup {h} /\ h \notin Woken /\ Woken \in SUBSET Reader
    BY <1>0, <2>1, <2>3 DEF Woken, Outcomes
  <2>7. TypeOK'
    <3>1. {queue'[i] : i \in DOMAIN queue'} = Waiting'
      BY <2>1, <2>2, <2>5
    <3>2. queue' \in Seq(Reader) /\ \A i, j \in DOMAIN queue' : queue'[i] = queue'[j] => i = j
      BY <2>1, <2>2
    <3>3. active' \in Nat /\ aborted' \in BOOLEAN
      BY <1>1, <1>2 DEF IInv, TypeOK
    <3> QED
      BY <2>3, <3>1, <3>2, <3>3 DEF TypeOK
  <2>8. active' + Cardinality(Woken') = active + Cardinality(Woken)
    BY <1>1, <2>1, <2>6, CardGrows, ReaderSets
  <2>9. active + Cardinality(Woken) >= Limit /\ ~aborted
    BY <1>4 DEF IInv, NoLostWaiter, AbortEmptiesQueue
  <2> QED
    BY <1>1, <1>2, <2>4, <2>7, <2>8, <2>9
       DEF IInv, ActiveCountsHolders, NoLostWaiter, AbortEmptiesQueue
<1> QED
  BY <1>3, <1>4

LEMMA ReadStep ==
  ASSUME IInv, NEW r \in Reader, Read(r)
  PROVE  IInv'
<1>0. /\ pc \in [Reader -> Pending \cup Settled] /\ pc[r] \in Settled /\ aborted' = aborted
      /\ active \in Nat /\ Limit \in Nat
      /\ Holders \in SUBSET Reader /\ Woken \in SUBSET Reader
      /\ r \notin Holders /\ r \notin Woken /\ r \notin Waiting
  BY LimitIsPositive DEF IInv, TypeOK, Read, Settled, Holders, Woken, Waiting
<1>1. CASE aborted
  <2>1. pc' = [pc EXCEPT ![r] = "rejected"] /\ UNCHANGED <<active, queue>>
    BY <1>1 DEF Read
  <2>2. /\ pc' \in [Reader -> Pending \cup Settled]
        /\ Waiting' = Waiting /\ Woken' = Woken /\ Holders' = Holders
    BY <1>0, <2>1 DEF Waiting, Woken, Holders, Settled
  <2> QED
    BY <1>0, <2>1, <2>2, QuietStep
<1>2. CASE ~aborted /\ active < Limit
  <2>1. pc' = [pc EXCEPT ![r] = "entering"] /\ active' = active + 1 /\ queue' = queue
    BY <1>2 DEF Read
  <2>2. /\ pc' \in [Reader -> Pending \cup Settled]
        /\ Waiting' = Waiting /\ Woken' = Woken /\ Holders' = Holders \cup {r}
    BY <1>0, <2>1 DEF Waiting, Woken, Holders, Settled, Pending
  <2>3. Cardinality(Holders') = active'
    BY <1>0, <2>1, <2>2, CardGrows DEF IInv, ActiveCountsHolders
  <2>4. Cardinality(Woken) \in Nat
    BY <1>0, ReaderSets
  <2> QED
    BY <1>0, <1>2, <2>1, <2>2, <2>3, <2>4
       DEF IInv, TypeOK, ActiveCountsHolders, NoLostWaiter, AbortEmptiesQueue
<1>3. CASE ~aborted /\ ~(active < Limit)
  <2>1. pc' = [pc EXCEPT ![r] = "queued"] /\ active' = active /\ queue' = Append(queue, r)
    BY <1>3 DEF Read
  <2>2. /\ pc' \in [Reader -> Pending \cup Settled]
        /\ Waiting' = Waiting \cup {r} /\ Woken' = Woken /\ Holders' = Holders
    BY <1>0, <2>1 DEF Waiting, Woken, Holders, Settled, Pending
  <2>3. TypeOK'
    <3> DEFINE n == Len(queue)
    <3>1. /\ queue \in Seq(Reader) /\ n \in Nat /\ DOMAIN queue = 1..n
          /\ \A i, j \in 1..n : queue[i] = queue[j] => i = j
          /\ {queue[i] : i \in 1..n} = Waiting
      BY DEF IInv, TypeOK
    <3>2. /\ queue' \in Seq(Reader) /\ DOMAIN queue' = 1..(n + 1)
          /\ \A i \in 1..n : queue'[i] = queue[i]
          /\ queue'[n + 1] = r
      BY <2>1, <3>1
    <3>3. 1..(n + 1) = 1..n \cup {n + 1} /\ n + 1 \notin 1..n
      BY <3>1
    <3>4. \A i \in 1..n : queue'[i] # r
      BY <1>0, <3>1, <3>2
    <3>5. \A i, j \in DOMAIN queue' : queue'[i] = queue'[j] => i = j
      BY <3>1, <3>2, <3>3, <3>4
    <3>6. {queue'[i] : i \in DOMAIN queue'} = Waiting'
      BY <2>2, <3>1, <3>2, <3>3
    <3> QED
      BY <1>0, <2>1, <2>2, <3>2, <3>5, <3>6 DEF TypeOK, IInv
  <2>4. Cardinality(Woken) \in Nat
    BY <1>0, ReaderSets
  <2> QED
    BY <1>0, <1>3, <2>1, <2>2, <2>3, <2>4
       DEF IInv, ActiveCountsHolders, NoLostWaiter, AbortEmptiesQueue
<1> QED
  BY <1>1, <1>2, <1>3

LEMMA ResumeStep ==
  ASSUME IInv, NEW r \in Reader, Resume(r)
  PROVE  IInv'
<1>0. /\ pc \in [Reader -> Pending \cup Settled] /\ pc[r] = "woken"
      /\ aborted' = aborted /\ queue' = queue /\ active \in Nat
      /\ Holders \in SUBSET Reader /\ Woken \in SUBSET Reader
      /\ r \notin Holders /\ r \in Woken
  BY DEF IInv, TypeOK, Resume, Holders, Woken
<1>1. CASE aborted
  <2>1. pc' = [pc EXCEPT ![r] = "rejected"] /\ active' = active /\ queue = <<>>
    BY <1>1 DEF Resume, IInv, AbortEmptiesQueue
  <2>2. /\ pc' \in [Reader -> Pending \cup Settled]
        /\ Waiting' = Waiting /\ Holders' = Holders
    BY <1>0, <2>1 DEF Waiting, Holders, Settled
  <2> QED
    BY <1>0, <2>1, <2>2 DEF IInv, TypeOK, ActiveCountsHolders, NoLostWaiter, AbortEmptiesQueue
<1>2. CASE ~aborted
  <2>1. pc' = [pc EXCEPT ![r] = "entering"] /\ active' = active + 1
    BY <1>2 DEF Resume
  <2>2. /\ pc' \in [Reader -> Pending \cup Settled] /\ Waiting' = Waiting
        /\ Holders' = Holders \cup {r} /\ Woken' = Woken \ {r}
    BY <1>0, <2>1 DEF Waiting, Holders, Woken, Pending
  <2>3. Cardinality(Holders') = active'
    BY <1>0, <2>1, <2>2, CardGrows DEF IInv, ActiveCountsHolders
  <2>4. Cardinality(Woken') = Cardinality(Woken) - 1 /\ Cardinality(Woken) \in Nat
    BY <1>0, <2>2, CardShrinks, ReaderSets
  <2>5. active' + Cardinality(Woken') = active + Cardinality(Woken)
    BY <1>0, <2>1, <2>4
  <2> QED
    BY <1>0, <1>2, <2>1, <2>2, <2>3, <2>5
       DEF IInv, TypeOK, ActiveCountsHolders, NoLostWaiter, AbortEmptiesQueue
<1> QED
  BY <1>1, <1>2

LEMMA IssueStep ==
  ASSUME IInv, NEW r \in Reader, Issue(r)
  PROVE  IInv'
<1>1. CASE aborted
  BY <1>1, ReleaseStep DEF Issue, Holders, Outcomes
<1>2. CASE ~aborted
  <2>1. /\ pc' = [pc EXCEPT ![r] = "reading"] /\ pc[r] = "entering"
        /\ UNCHANGED <<active, queue, aborted>> /\ pc \in [Reader -> Pending \cup Settled]
    BY <1>2 DEF Issue, IInv, TypeOK
  <2>2. /\ pc' \in [Reader -> Pending \cup Settled]
        /\ Waiting' = Waiting /\ Woken' = Woken /\ Holders' = Holders
    BY <2>1 DEF Waiting, Woken, Holders, Pending
  <2> QED
    BY <2>1, <2>2, QuietStep
<1> QED
  BY <1>1, <1>2

LEMMA UnmeteredStep ==
  ASSUME IInv, NEW r \in Reader,
         \/ \E to \in {"heading", "putting", "listing"} : Unmetered(r, to)
         \/ \E outcome \in Outcomes : UnmeteredAnswer(r, outcome)
  PROVE  IInv'
<1>1. PICK to \in {"heading", "putting", "listing", "resolved", "rejected"} :
        /\ pc' = [pc EXCEPT ![r] = to] /\ UNCHANGED <<active, queue, aborted>>
        /\ pc[r] \in {"idle", "resolved", "rejected", "heading", "putting", "listing"}
  BY DEF Unmetered, UnmeteredAnswer, Outcomes, Settled
<1>2. /\ pc' \in [Reader -> Pending \cup Settled]
      /\ Waiting' = Waiting /\ Woken' = Woken /\ Holders' = Holders
  BY <1>1 DEF IInv, TypeOK, Waiting, Woken, Holders, Pending, Settled
<1> QED
  BY <1>1, <1>2, QuietStep

LEMMA AbortStep ==
  ASSUME IInv, Abort
  PROVE  IInv'
<1>1. /\ pc' = [r \in Reader |-> IF pc[r] = "queued" THEN "rejected" ELSE pc[r]]
      /\ queue' = <<>> /\ aborted' = TRUE /\ active' = active
      /\ pc \in [Reader -> Pending \cup Settled]
  BY DEF Abort, IInv, TypeOK
<1>2. /\ pc' \in [Reader -> Pending \cup Settled]
      /\ Waiting' = {} /\ Holders' = Holders
  BY <1>1 DEF Waiting, Holders, Settled
<1>3. TypeOK'
  BY <1>1, <1>2 DEF IInv, TypeOK
<1> QED
  BY <1>1, <1>2, <1>3 DEF IInv, ActiveCountsHolders, NoLostWaiter, AbortEmptiesQueue

LEMMA NextIInv == IInv /\ [Next]_vars => IInv'
<1> SUFFICES ASSUME IInv, [Next]_vars PROVE IInv'
  OBVIOUS
<1>1. CASE Abort
  BY <1>1, AbortStep
<1>2. ASSUME NEW r \in Reader, Call(r) PROVE IInv'
  BY <1>2, ReadStep, UnmeteredStep DEF Call
<1>3. ASSUME NEW r \in Reader, Resume(r) PROVE IInv'
  BY <1>3, ResumeStep
<1>4. ASSUME NEW r \in Reader, Issue(r) PROVE IInv'
  BY <1>4, IssueStep
<1>5. ASSUME NEW r \in Reader, NEW outcome \in Outcomes, Answer(r, outcome) PROVE IInv'
  BY <1>5, ReleaseStep DEF Answer, Holders, Outcomes
<1>6. ASSUME NEW r \in Reader, NEW outcome \in Outcomes, UnmeteredAnswer(r, outcome)
      PROVE  IInv'
  BY <1>6, UnmeteredStep
<1>7. CASE UNCHANGED vars
  <2>1. Waiting' = Waiting /\ Woken' = Woken /\ Holders' = Holders
    BY <1>7 DEF vars, Waiting, Woken, Holders
  <2> QED
    BY <1>7, <2>1, QuietStep DEF vars, IInv, TypeOK
<1> QED
  BY <1>1, <1>2, <1>3, <1>4, <1>5, <1>6, <1>7 DEF Next, Progress

-----------------------------------------------------------------------------
(* Every reachable state satisfies the inductive invariant. *)
THEOREM Invariance == Spec => []IInv
BY InitIInv, NextIInv, PTL DEF Spec

(* Type correctness; the queue holds each waiting reader exactly once.       *)
THEOREM TypeCorrect == Spec => []TypeOK
<1>1. IInv => TypeOK
  BY DEF IInv
<1> QED
  BY <1>1, Invariance, PTL

(* The semaphore's count is the number of reads that hold a slot: no error   *)
(* path and no abort leaks a slot or returns one twice.                      *)
THEOREM SlotsBalance == Spec => []ActiveCountsHolders
<1>1. IInv => ActiveCountsHolders
  BY DEF IInv
<1> QED
  BY <1>1, Invariance, PTL

(* No wake-up is lost: while a reader waits every slot is held or promised.  *)
THEOREM NoWaiterIsLost == Spec => []NoLostWaiter
<1>1. IInv => NoLostWaiter
  BY DEF IInv
<1> QED
  BY <1>1, Invariance, PTL

(* After the signal no read is issued to the store and none resolves.        *)
THEOREM AbortStopsReads == Spec => AbortIsFinal
<1>1. TypeOK /\ [Next]_vars =>
        [aborted => \A r \in Reader :
           /\ pc[r] # "reading" => pc'[r] # "reading"
           /\ pc[r] \in {"woken", "entering", "reading"} => pc'[r] # "resolved"]_vars
  <2> SUFFICES ASSUME TypeOK, Next, aborted, NEW r \in Reader
               PROVE  /\ pc[r] # "reading" => pc'[r] # "reading"
                      /\ pc[r] \in {"woken", "entering", "reading"} => pc'[r] # "resolved"
    OBVIOUS
  <2>1. PICK q \in Reader : Call(q) \/ Progress(q)
    BY DEF Next, Abort
  <2>2. CASE Call(q)
    BY <2>1, <2>2 DEF Call, Read, Unmetered, TypeOK, Settled
  <2>3. CASE Resume(q) \/ \E outcome \in Outcomes : UnmeteredAnswer(q, outcome)
    BY <2>1, <2>3 DEF Resume, UnmeteredAnswer, TypeOK, Outcomes
  <2>4. CASE Issue(q) \/ \E outcome \in Outcomes : Answer(q, outcome)
    <3>1. Release(q, "rejected") /\ pc \in [Reader -> Pending \cup Settled]
      BY <2>4 DEF Issue, Answer, TypeOK
    <3>2. pc'[r] \in {pc[r], "rejected", "woken"}
      <4>1. CASE queue = <<>>
        BY <3>1, <4>1 DEF Release
      <4>2. CASE queue # <<>>
        BY <3>1, <4>2, QueueHead DEF Release
      <4> QED
        BY <4>1, <4>2
    <3> QED
      BY <3>2
  <2> QED
    BY <2>1, <2>2, <2>3, <2>4 DEF Progress
<1> QED
  BY <1>1, TypeCorrect, PTL DEF Spec, AbortIsFinal


-----------------------------------------------------------------------------
(* ObjectCache: lists of entries *)

NoKeyTwice(es) == \A i, j \in DOMAIN es : i # j => ~SameKey(es[i], es[j].path, es[j].kind)

KeepStep(es, dropped, kept, n) ==
  IF n = 0 THEN <<>>
  ELSE IF es[n] \in dropped THEN kept[n - 1] ELSE Append(kept[n - 1], es[n])

(* There is a function that Without describes.                              *)
LEMMA SomeKept ==
  ASSUME NEW es, NEW dropped, NEW m \in Nat
  PROVE  \E f : f = [n \in 0..m |-> KeepStep(es, dropped, f, n)]
<1> DEFINE Good == {n \in Nat : \E f : f = [k \in 0..n |-> KeepStep(es, dropped, f, k)]}
<1>1. 0 \in Good
  <2> DEFINE f == [k \in 0..0 |-> <<>>]
  <2>1. f = [k \in 0..0 |-> KeepStep(es, dropped, f, k)]
    BY DEF KeepStep
  <2> HIDE DEF f
  <2> QED BY <2>1
<1>2. ASSUME NEW n \in Nat, n \in Good PROVE n + 1 \in Good
  <2>1. PICK f : f = [k \in 0..n |-> KeepStep(es, dropped, f, k)]
    BY <1>2
  <2> DEFINE g == [k \in 0..(n + 1) |-> KeepStep(es, dropped, f, k)]
  <2>2. \A k \in 0..n : g[k] = f[k]
    BY <2>1
  <2>3. \A k \in 0..(n + 1) : KeepStep(es, dropped, f, k) = KeepStep(es, dropped, g, k)
    <3> TAKE k \in 0..(n + 1)
    <3>1. CASE k = 0
      BY <3>1 DEF KeepStep
    <3>2. CASE k # 0
      <4>1. k - 1 \in 0..n
        BY <3>2
      <4>2. g[k - 1] = f[k - 1]
        BY <2>2, <4>1
      <4> HIDE DEF g
      <4> QED BY <4>2 DEF KeepStep
    <3> QED BY <3>1, <3>2
  <2>4. g = [k \in 0..(n + 1) |-> KeepStep(es, dropped, g, k)]
    BY <2>3
  <2> HIDE DEF g
  <2> QED BY <2>4
<1>3. Nat \subseteq Good
  <2> HIDE DEF Good
  <2> QED BY <1>1, <1>2, EveryNatural
<1> QED BY <1>3

(* What is left has the entries that were not dropped, and no key twice if    *)
(* none was there twice.                                                    *)
LEMMA WithoutKeeps ==
  ASSUME NEW es \in Seq(Entry), NEW dropped
  PROVE  /\ Without(es, dropped) \in Seq(Entry)
         /\ ToSet(Without(es, dropped)) = ToSet(es) \ dropped
         /\ NoKeyTwice(es) => NoKeyTwice(Without(es, dropped))
<1> DEFINE m == Len(es)
           IsKept(f) == f = [n \in 0..m |-> KeepStep(es, dropped, f, n)]
           kept == CHOOSE f : IsKept(f)
           Left(n) == {es[i] : i \in 1..n} \ dropped
           Sound(n) == /\ kept[n] \in Seq(Entry) /\ ToSet(kept[n]) = Left(n)
                       /\ NoKeyTwice(es) => NoKeyTwice(kept[n])
           Good == {n \in Nat : n <= m => Sound(n)}
<1>1. Without(es, dropped) = kept[m]
  BY DEF Without, KeepStep
<1>2. m \in Nat /\ DOMAIN es = 1..m /\ \A i \in 1..m : es[i] \in Entry
  OBVIOUS
<1> HIDE DEF m
<1>3. IsKept(kept)
  BY <1>2, SomeKept
<1> HIDE DEF kept
<1>4. \A n \in 0..m : kept[n] = KeepStep(es, dropped, kept, n)
  BY <1>3
<1>5. 0 \in Good
  <2>1. kept[0] = <<>>
    BY <1>2, <1>4 DEF KeepStep
  <2>2. <<>> \in Seq(Entry) /\ DOMAIN <<>> = {} /\ Left(0) = {}
    OBVIOUS
  <2>3. ToSet(<<>>) = {} /\ NoKeyTwice(<<>>)
    BY <2>2 DEF ToSet, NoKeyTwice
  <2> QED BY <2>1, <2>2, <2>3
<1>6. ASSUME NEW n \in Nat, n \in Good PROVE n + 1 \in Good
  <2> SUFFICES ASSUME n + 1 <= m PROVE Sound(n + 1)
    OBVIOUS
  <2>1. n + 1 \in 1..m /\ n + 1 \in 0..m /\ es[n + 1] \in Entry
    BY <1>2
  <2>2. kept[n + 1] = IF es[n + 1] \in dropped THEN kept[n] ELSE Append(kept[n], es[n + 1])
    BY <1>4, <2>1 DEF KeepStep
  <2>3. Sound(n)
    BY <1>2, <1>6
  <2>4. 1..(n + 1) = (1..n) \cup {n + 1}
    OBVIOUS
  <2>5. {es[i] : i \in 1..(n + 1)} = {es[i] : i \in 1..n} \cup {es[n + 1]}
    BY <2>4
  <2>6. CASE es[n + 1] \in dropped
    BY <2>2, <2>3, <2>5, <2>6
  <2>7. CASE es[n + 1] \notin dropped
    <3> DEFINE q == kept[n]
               e == es[n + 1]
               r == Append(q, e)
    <3>1. q \in Seq(Entry) /\ e \in Entry /\ kept[n + 1] = r
      BY <2>1, <2>2, <2>3, <2>7
    <3>2. ToSet(q) = Left(n) /\ (NoKeyTwice(es) => NoKeyTwice(q))
      BY <2>3
    <3>3. NoKeyTwice(es) => \A x \in Left(n) : ~SameKey(x, e.path, e.kind) /\ ~SameKey(e, x.path, x.kind)
      <4>1. \A i \in 1..n : i \in DOMAIN es /\ n + 1 \in DOMAIN es /\ i # n + 1
        BY <1>2, <2>1
      <4> QED BY <4>1 DEF NoKeyTwice
    <3> HIDE DEF q, e
    <3>4. /\ Len(q) \in Nat /\ DOMAIN q = 1..Len(q) /\ r \in Seq(Entry) /\ DOMAIN r = 1..(Len(q) + 1)
          /\ r[Len(q) + 1] = e /\ \A i \in 1..Len(q) : r[i] = q[i]
      BY <3>1
    <3> HIDE DEF r
    <3>5. ToSet(r) = ToSet(q) \cup {e}
      <4>1. 1..(Len(q) + 1) = (1..Len(q)) \cup {Len(q) + 1}
        BY <3>4
      <4> QED BY <3>4, <4>1 DEF ToSet
    <3>6. ASSUME NoKeyTwice(es) PROVE NoKeyTwice(r)
      <4>1. \A i \in 1..Len(q) : q[i] \in Left(n)
        BY <3>2, <3>4 DEF ToSet
      <4>2. \A i, j \in 1..Len(q) : i # j => ~SameKey(r[i], r[j].path, r[j].kind)
        BY <3>2, <3>4, <3>6 DEF NoKeyTwice
      <4>3. \A i \in 1..(Len(q) + 1) : i \in 1..Len(q) \/ i = Len(q) + 1
        BY <3>4
      <4>4. ASSUME NEW i \in 1..Len(q)
            PROVE ~SameKey(r[i], r[Len(q) + 1].path, r[Len(q) + 1].kind) /\ ~SameKey(r[Len(q) + 1], r[i].path, r[i].kind)
        BY <3>3, <3>4, <3>6, <4>1, <4>4
      <4> QED BY <3>4, <4>2, <4>3, <4>4 DEF NoKeyTwice
    <3>7. Left(n + 1) = Left(n) \cup {e}
      BY <2>5, <2>7 DEF e
    <3> QED BY <3>1, <3>2, <3>4, <3>5, <3>6, <3>7
  <2> QED BY <2>6, <2>7
<1>7. Nat \subseteq Good
  <2> HIDE DEF Good
  <2> QED BY <1>5, <1>6, EveryNatural
<1>8. Sound(m)
  <2>1. m \in Good
    BY <1>2, <1>7
  <2>2. m <= m
    BY <1>2
  <2> HIDE DEF Sound
  <2> QED BY <2>1, <2>2
<1> QED BY <1>1, <1>2, <1>8 DEF ToSet

-----------------------------------------------------------------------------
(* ObjectCache: bytes *)

Weight == [e \in Entry |-> Bytes(e)]

(* A set of entries has so many bytes, and a part of it no more.             *)
LEMMA BytesAdd ==
  ASSUME NEW es, IsFiniteSet(es), es \subseteq Entry
  PROVE  /\ BytesOf(es) = SumOver(Weight, es) /\ BytesOf(es) \in Nat
         /\ Naturals(Weight, es)
<1> DEFINE Equation(h) ==
             h = [s \in SUBSET es |-> IF s = {} THEN 0 ELSE LET x == CHOOSE x \in s : TRUE IN Bytes(x) + h[s \ {x}]]
           iter == CHOOSE h : Equation(h)
<1>1. Naturals(Weight, es) /\ \A e \in es : Weight[e] = Bytes(e)
  BY SizesAssumption DEF Naturals, Weight, Bytes, Entry
<1>2. BytesOf(es) = iter[es]
  BY DEF BytesOf, MapThenSumSet, MapThenFoldSet
<1>3. PICK f : Adds(Weight, f, es)
  BY SomeAdds
<1>4. Equation([s \in SUBSET es |-> f[s]])
  <2> DEFINE h == [s \in SUBSET es |-> f[s]]
  <2>1. \A s \in SUBSET es : h[s] = IF s = {} THEN 0 ELSE Bytes(One(s)) + h[s \ {One(s)}]
    <3> TAKE s \in SUBSET es
    <3>1. f[s] = Added(Weight, f, s)
      BY <1>3 DEF Adds
    <3>2. s # {} => One(s) \in es /\ s \ {One(s)} \in SUBSET es
      BY OneIsIn
    <3> QED BY <1>1, <3>1, <3>2 DEF Added
  <2>2. h = [s \in SUBSET es |-> IF s = {} THEN 0 ELSE Bytes(One(s)) + h[s \ {One(s)}]]
    BY <2>1
  <2> HIDE DEF h
  <2>3. Equation(h)
    BY <2>2 DEF One
  <2> QED BY <2>3 DEF h
<1>5. Equation(iter)
  <2> HIDE DEF Equation
  <2> QED BY <1>4
<1>6. Adds(Weight, iter, es)
  <2> HIDE DEF iter
  <2>1. \A s \in SUBSET es : iter[s] = IF s = {} THEN 0 ELSE Bytes(One(s)) + iter[s \ {One(s)}]
    BY <1>5 DEF One
  <2>2. \A s \in SUBSET es : s # {} => Weight[One(s)] = Bytes(One(s))
    BY <1>1, OneIsIn
  <2> QED BY <2>1, <2>2 DEF Adds, Added
<1> HIDE DEF iter
<1>7. BytesOf(es) = SumOver(Weight, es)
  BY <1>2, <1>6, SumAdds
<1> QED BY <1>1, <1>7, SumSplits

LEMMA BytesOfPart ==
  ASSUME NEW es, IsFiniteSet(es), es \subseteq Entry, NEW part, part \subseteq es
  PROVE  /\ BytesOf(es \ part) = BytesOf(es) - BytesOf(part)
         /\ BytesOf(part) <= BytesOf(es)
         /\ BytesOf(es) \in Nat /\ BytesOf(part) \in Nat /\ BytesOf(es \ part) \in Nat
<1>1. IsFiniteSet(part) /\ IsFiniteSet(es \ part) /\ part \subseteq Entry /\ es \ part \subseteq Entry
  BY FS_Subset
<1>2. /\ BytesOf(es) = SumOver(Weight, es) /\ BytesOf(part) = SumOver(Weight, part)
      /\ BytesOf(es \ part) = SumOver(Weight, es \ part) /\ Naturals(Weight, es)
      /\ BytesOf(es) \in Nat /\ BytesOf(part) \in Nat /\ BytesOf(es \ part) \in Nat
  BY <1>1, BytesAdd
<1>3. SumOver(Weight, es \ part) = SumOver(Weight, es) - SumOver(Weight, part)
  BY <1>2, SumDifference
<1> QED BY <1>2, <1>3

LEMMA BytesOfMore ==
  ASSUME NEW es, IsFiniteSet(es), es \subseteq Entry, NEW e \in Entry, e \notin es
  PROVE  /\ BytesOf(es \cup {e}) = BytesOf(es) + Bytes(e)
         /\ BytesOf(es) \in Nat /\ Bytes(e) \in Nat
<1>1. IsFiniteSet(es \cup {e}) /\ es \cup {e} \subseteq Entry /\ (es \cup {e}) \ {e} = es
  BY FS_AddElement
<1>2. SumOver(Weight, es \cup {e}) = Weight[e] + SumOver(Weight, (es \cup {e}) \ {e})
  BY <1>1, BytesAdd, SumSplits
<1>3. Weight[e] = Bytes(e) /\ Bytes(e) \in Nat
  BY SizesAssumption DEF Weight, Bytes, Entry
<1> QED BY <1>1, <1>2, <1>3, BytesAdd

(* The bytes of nothing are none.                                           *)
LEMMA NoBytes == BytesOf({}) = 0
<1>1. IsFiniteSet({}) /\ {} \subseteq Entry
  BY FS_EmptySet
<1> QED BY <1>1, BytesAdd, SumEmpty

(* A list of entries is finite.                                             *)
LEMMA EntriesAreFinite ==
  ASSUME NEW es \in Seq(Entry)
  PROVE  IsFiniteSet(ToSet(es)) /\ ToSet(es) \subseteq Entry /\ \A i \in DOMAIN es : es[i] \in ToSet(es)
<1>1. Len(es) \in Nat /\ DOMAIN es = 1..Len(es) /\ \A i \in 1..Len(es) : es[i] \in Entry
  OBVIOUS
<1>2. ToSet(es) \subseteq Entry /\ \A i \in DOMAIN es : es[i] \in ToSet(es)
  BY <1>1 DEF ToSet
<1>3. es \in Surjection(1..Len(es), ToSet(es))
  BY <1>1 DEF Surjection, ToSet
<1>4. IsFiniteSet(1..Len(es))
  BY <1>1, FS_Interval
<1> QED BY <1>2, <1>3, <1>4, FS_Surjection

-----------------------------------------------------------------------------
(* ObjectCache: eviction *)

(* Of some places of a list there is one that goes before all the others.    *)
LEMMA OneGoesFirst ==
  ASSUME NEW es \in Seq(Entry), NEW K, K \subseteq DOMAIN es, K # {}
  PROVE  \E i \in K : \A j \in K : j = i \/ GoesBefore(es, i, j)
<1> DEFINE P(i) == PriorityOf[es[i].kind]
           Ps == {P(i) : i \in K}
<1>1. ASSUME NEW i \in K PROVE i \in Nat /\ P(i) \in Nat
  <2>1. Len(es) \in Nat /\ i \in 1..Len(es) /\ es[i] \in Entry
    OBVIOUS
  <2>2. i \in Nat /\ es[i].kind \in Kind
    BY <2>1 DEF Entry
  <2>3. PriorityOf \in [Kind -> Nat]
    BY SizesAssumption
  <2> QED BY <2>2, <2>3
<1>2. PICK p \in Ps : \A m \in Ps : p <= m
  <2>1. Ps \subseteq Nat /\ Ps # {}
    BY <1>1
  <2> HIDE DEF Ps
  <2> QED BY <2>1, LeastNatural
<1> DEFINE Pool == {i \in K : P(i) = p}
<1>3. PICK i \in Pool : \A j \in Pool : i <= j
  <2>1. Pool \subseteq Nat /\ Pool # {}
    BY <1>1, <1>2
  <2> HIDE DEF Pool
  <2> QED BY <2>1, LeastNatural
<1>4. ASSUME NEW j \in K PROVE j = i \/ GoesBefore(es, i, j)
  <2>1. P(i) = p /\ p <= P(j) /\ (P(j) = p => i <= j)
    BY <1>2, <1>3
  <2>2. P(i) \in Nat /\ P(j) \in Nat /\ i \in Nat /\ j \in Nat
    BY <1>1, <1>3
  <2>3. j = i \/ P(i) < P(j) \/ (P(i) = P(j) /\ i < j)
    BY <2>1, <2>2
  <2> QED BY <2>3 DEF GoesBefore
<1> QED BY <1>3, <1>4

(* What eviction leaves fits: the entry that would go next, with all that    *)
(* would go after it, does.                                                 *)
LEMMA KeptFits ==
  ASSUME NEW es \in Seq(Entry)
  PROVE  /\ EvictedFrom(es) \subseteq ToSet(es)
         /\ BytesOf(ToSet(es) \ EvictedFrom(es)) <= MaxBytes
<1> DEFINE kept == ToSet(es) \ EvictedFrom(es)
           K == {i \in DOMAIN es : es[i] \in kept}
<1>1. IsFiniteSet(ToSet(es)) /\ ToSet(es) \subseteq Entry /\ \A i \in DOMAIN es : es[i] \in ToSet(es)
  BY EntriesAreFinite
<1>2. EvictedFrom(es) \subseteq ToSet(es)
  BY <1>1 DEF EvictedFrom
<1>3. CASE kept = {}
  <2>1. BytesOf(kept) = 0 /\ MaxBytes \in Nat
    BY <1>3, NoBytes, SizesAssumption
  <2> HIDE DEF kept
  <2>2. BytesOf(kept) <= MaxBytes
    BY <2>1
  <2> QED BY <1>2, <2>2 DEF kept
<1>4. CASE kept # {}
  <2>1. \A x \in kept : \E j \in K : x = es[j]
    BY DEF ToSet
  <2>2. PICK i \in K : \A j \in K : j = i \/ GoesBefore(es, i, j)
    <3>1. K \subseteq DOMAIN es /\ K # {}
      BY <1>4, <2>1
    <3> HIDE DEF K
    <3> QED BY <3>1, OneGoesFirst
  <2> DEFINE all == {es[j] : j \in {j \in DOMAIN es : j = i \/ GoesBefore(es, i, j)}}
  <2>3. ~(BytesOf(all) > MaxBytes)
    <3>1. i \in DOMAIN es /\ es[i] \notin EvictedFrom(es)
      BY <2>2
    <3>2. ~Goes(es, i)
      BY <3>1 DEF EvictedFrom
    <3> QED BY <3>2 DEF Goes
  <2>4. kept \subseteq all
    BY <2>1, <2>2
  <2>5. all \subseteq ToSet(es)
    BY <1>1
  <2> HIDE DEF all, kept, K
  <2>6. IsFiniteSet(all) /\ all \subseteq Entry
    BY <1>1, <2>5, FS_Subset
  <2>7. BytesOf(kept) <= BytesOf(all) /\ BytesOf(all) \in Nat /\ BytesOf(kept) \in Nat
    BY <2>4, <2>6, BytesOfPart
  <2>8. BytesOf(kept) <= MaxBytes
    BY <2>3, <2>7, SizesAssumption
  <2> QED BY <1>2, <2>8 DEF kept
<1> QED BY <1>2, <1>3, <1>4

(* An entry at the end is one more, under a key of its own if no other has it. *)
LEMMA EntryAtEnd ==
  ASSUME NEW es \in Seq(Entry), NEW e \in Entry
  PROVE  /\ Append(es, e) \in Seq(Entry)
         /\ ToSet(Append(es, e)) = ToSet(es) \cup {e}
         /\ NoKeyTwice(es) /\ (\A x \in ToSet(es) : ~SameKey(x, e.path, e.kind)) => NoKeyTwice(Append(es, e))
<1> DEFINE r == Append(es, e)
<1>1. /\ Len(es) \in Nat /\ DOMAIN es = 1..Len(es) /\ r \in Seq(Entry) /\ DOMAIN r = 1..(Len(es) + 1)
      /\ r[Len(es) + 1] = e /\ \A i \in 1..Len(es) : r[i] = es[i]
  OBVIOUS
<1> HIDE DEF r
<1>2. 1..(Len(es) + 1) = (1..Len(es)) \cup {Len(es) + 1}
  BY <1>1
<1>3. ToSet(r) = ToSet(es) \cup {e}
  BY <1>1, <1>2 DEF ToSet
<1>4. ASSUME NoKeyTwice(es), \A x \in ToSet(es) : ~SameKey(x, e.path, e.kind) PROVE NoKeyTwice(r)
  <2>1. \A i \in 1..Len(es) : es[i] \in ToSet(es)
    BY <1>1 DEF ToSet
  <2>2. \A i \in 1..Len(es) : ~SameKey(es[i], e.path, e.kind) /\ ~SameKey(e, es[i].path, es[i].kind)
    BY <1>4, <2>1 DEF SameKey
  <2>3. \A i, j \in 1..Len(es) : i # j => ~SameKey(es[i], es[j].path, es[j].kind)
    BY <1>1, <1>4 DEF NoKeyTwice
  <2>4. \A i \in 1..(Len(es) + 1) : i \in 1..Len(es) \/ i = Len(es) + 1
    BY <1>1
  <2> QED BY <1>1, <2>2, <2>3, <2>4 DEF NoKeyTwice
<1> QED BY <1>1, <1>3, <1>4 DEF r

-----------------------------------------------------------------------------
(* ObjectCache: the cache's operations *)

(* The entries of the cache as every operation finds and leaves them.       *)
Counted == /\ entries \in Seq(Entry) /\ NoKeyTwice(entries) /\ cachedBytes \in Int
           /\ BytesAreCounted

LEMMA CountedIsTyped == CacheTypeOK /\ BytesAreCounted => Counted
BY DEF CacheTypeOK, Counted, NoKeyTwice

(* What is deleted is given back.                                           *)
LEMMA DeleteCounts ==
  ASSUME Counted, NEW gone, gone \subseteq ToSet(entries), Delete(gone)
  PROVE  Counted' /\ ToSet(entries') = ToSet(entries) \ gone
<1>1. /\ entries' \in Seq(Entry) /\ NoKeyTwice(entries') /\ ToSet(entries') = ToSet(entries) \ gone
  BY WithoutKeeps DEF Counted, Delete
<1>2. IsFiniteSet(ToSet(entries)) /\ ToSet(entries) \subseteq Entry
  BY EntriesAreFinite DEF Counted
<1>3. /\ BytesOf(ToSet(entries) \ gone) = BytesOf(ToSet(entries)) - BytesOf(gone)
      /\ BytesOf(ToSet(entries)) \in Nat /\ BytesOf(gone) \in Nat
  BY <1>2, BytesOfPart
<1>4. cachedBytes = BytesOf(ToSet(entries)) /\ cachedBytes <= MaxBytes /\ cachedBytes' = cachedBytes - BytesOf(gone)
  BY DEF Counted, BytesAreCounted, Delete
<1>5. cachedBytes' = BytesOf(ToSet(entries')) /\ cachedBytes' \in Int /\ cachedBytes' <= MaxBytes
  BY <1>1, <1>3, <1>4, SizesAssumption
<1>6. NoKeyTwice(entries)'
  BY <1>1 DEF NoKeyTwice
<1>7. BytesAreCounted'
  BY <1>5 DEF BytesAreCounted
<1> QED BY <1>1, <1>5, <1>6, <1>7 DEF Counted

(* A value is counted once, whatever it replaces, and what it evicts is      *)
(* given back until the rest fits.                                          *)
LEMMA SetCounts ==
  ASSUME Counted, NEW e \in Entry, Set(e)
  PROVE  Counted' /\ ToSet(entries') \subseteq ToSet(entries) \cup {e}
<1>1. CASE Bytes(e) > MaxBytes
  BY <1>1 DEF Set, Counted, NoKeyTwice, BytesAreCounted
<1>2. CASE ~(Bytes(e) > MaxBytes)
  <2> DEFINE old == Cached(e.path, e.kind)
             left == Without(entries, old)
             new == Append(left, e)
             gone == EvictedFrom(new)
  <2>1. entries' = Without(new, gone) /\ cachedBytes' = cachedBytes - BytesOf(old) + Bytes(e) - BytesOf(gone)
    BY <1>2 DEF Set
  <2>2. /\ IsFiniteSet(ToSet(entries)) /\ ToSet(entries) \subseteq Entry
        /\ cachedBytes = BytesOf(ToSet(entries)) /\ cachedBytes \in Int
        /\ entries \in Seq(Entry) /\ NoKeyTwice(entries)
    BY EntriesAreFinite DEF Counted, BytesAreCounted
  <2>3. /\ left \in Seq(Entry) /\ NoKeyTwice(left) /\ ToSet(left) = ToSet(entries) \ old
    BY <2>2, WithoutKeeps
  <2>4. /\ old \subseteq ToSet(entries)
        /\ \A x \in ToSet(entries) \ old : ~SameKey(x, e.path, e.kind)
        /\ e \notin ToSet(entries) \ old
    BY DEF Cached, SameKey
  <2> HIDE DEF old, left
  <2>5. /\ new \in Seq(Entry) /\ NoKeyTwice(new) /\ ToSet(new) = ToSet(left) \cup {e}
    BY <2>3, <2>4, EntryAtEnd
  <2>6. /\ BytesOf(ToSet(left)) = BytesOf(ToSet(entries)) - BytesOf(old) /\ BytesOf(old) \in Nat
        /\ BytesOf(ToSet(left)) \in Nat
    BY <2>2, <2>3, <2>4, BytesOfPart
  <2>7. BytesOf(ToSet(left) \cup {e}) = BytesOf(ToSet(left)) + Bytes(e) /\ Bytes(e) \in Nat
    <3>1. IsFiniteSet(ToSet(left)) /\ ToSet(left) \subseteq Entry /\ e \notin ToSet(left)
      BY <2>3, <2>4, EntriesAreFinite
    <3> QED BY <3>1, BytesOfMore
  <2> HIDE DEF new
  <2>8. gone \subseteq ToSet(new) /\ BytesOf(ToSet(new) \ gone) <= MaxBytes
    BY <2>5, KeptFits
  <2> HIDE DEF gone
  <2>9. /\ entries' \in Seq(Entry) /\ NoKeyTwice(entries') /\ ToSet(entries') = ToSet(new) \ gone
    BY <2>1, <2>5, WithoutKeeps
  <2>10. /\ BytesOf(ToSet(new) \ gone) = BytesOf(ToSet(new)) - BytesOf(gone)
         /\ BytesOf(ToSet(new)) \in Nat /\ BytesOf(gone) \in Nat
    BY <2>5, <2>8, EntriesAreFinite, BytesOfPart
  <2>11. cachedBytes' = BytesOf(ToSet(entries')) /\ cachedBytes' \in Int
    <3>1. BytesOf(ToSet(new)) = BytesOf(ToSet(left)) + Bytes(e)
      BY <2>5, <2>7
    <3>2. BytesOf(ToSet(entries')) = BytesOf(ToSet(new)) - BytesOf(gone)
      BY <2>9, <2>10
    <3>3. cachedBytes' = cachedBytes - BytesOf(old) + Bytes(e) - BytesOf(gone)
      BY <2>1
    <3> QED BY <2>2, <2>6, <2>7, <2>10, <3>1, <3>2, <3>3
  <2>12. cachedBytes' <= MaxBytes
    BY <2>8, <2>9, <2>11
  <2>13. Counted'
    <3>1. NoKeyTwice(entries)'
      BY <2>9 DEF NoKeyTwice
    <3>2. BytesAreCounted'
      BY <2>11, <2>12 DEF BytesAreCounted
    <3> QED BY <2>9, <2>11, <3>1, <3>2 DEF Counted
  <2>14. ToSet(entries') \subseteq ToSet(entries) \cup {e}
    BY <2>3, <2>5, <2>9
  <2> QED BY <2>13, <2>14
<1> QED BY <1>1, <1>2

(* A hit moves an entry and changes no other.                               *)
LEMMA HitCounts ==
  ASSUME Counted, NEW e \in ToSet(entries), entries' = Append(Without(entries, {e}), e), cachedBytes' = cachedBytes
  PROVE  Counted' /\ ToSet(entries') = ToSet(entries)
<1> DEFINE left == Without(entries, {e})
<1>1. e \in Entry /\ left \in Seq(Entry) /\ NoKeyTwice(left) /\ ToSet(left) = ToSet(entries) \ {e}
  BY EntriesAreFinite, WithoutKeeps DEF Counted
<1>2. \A x \in ToSet(entries) \ {e} : ~SameKey(x, e.path, e.kind)
  <2>1. \A x \in ToSet(entries) : \E i \in DOMAIN entries : entries[i] = x
    BY DEF ToSet
  <2> QED BY <2>1 DEF Counted, NoKeyTwice
<1> HIDE DEF left
<1>3. Append(left, e) \in Seq(Entry) /\ NoKeyTwice(Append(left, e)) /\ ToSet(Append(left, e)) = ToSet(left) \cup {e}
  BY <1>1, <1>2, EntryAtEnd
<1>4. entries' = Append(left, e)
  BY DEF left
<1>5. ToSet(entries') = ToSet(entries) /\ entries' \in Seq(Entry) /\ NoKeyTwice(entries')
  BY <1>1, <1>3, <1>4
<1>6. NoKeyTwice(entries)'
  BY <1>5 DEF NoKeyTwice
<1>7. BytesAreCounted'
  BY <1>5 DEF Counted, BytesAreCounted
<1> QED BY <1>5, <1>6, <1>7 DEF Counted

-----------------------------------------------------------------------------
(* ObjectCache: the invariant *)

(* The types, the count and the explanation of every stale entry are         *)
(* inductive together.                                                      *)
CacheIInv == CacheTypeOK /\ BytesAreCounted /\ StaleIsExplained

LEMMA IdleIsAnOp == Idle \in Op /\ Idle.pc = "idle" /\ DOMAIN Idle = {"pc", "path", "kind", "version"}
BY PathsAssumption, SizesAssumption DEF Idle, Op, Phases, Kind, Version

(* What a client is about.                                                  *)
LEMMA Operations ==
  ASSUME CacheTypeOK, NEW c \in Client
  PROVE  /\ op[c] \in Op /\ op[c].path \in Path /\ op[c].kind \in Kind
         /\ op[c].version \in Version /\ version[op[c].path] \in Version
         /\ Filling(c) \in Entry
BY DEF CacheTypeOK, Op, Filling, Entry

(* While versions stand, no write passes from put to second invalidation and  *)
(* only explained entries come, all that is stale stays explained.           *)
LEMMA ExplainedStays ==
  ASSUME CacheIInv, NEW c \in Client, NEW o, op' = [op EXCEPT ![c] = o], op[c].pc # "written",
         version' = version, unsure' = unsure,
         \A x \in ToSet(entries') : x \in ToSet(entries) \/ x.overtaken \/ x.version = version[x.path]
  PROVE  StaleIsExplained'
<1> SUFFICES ASSUME NEW e \in ToSet(entries'), e.version # version[e.path]
             PROVE  \/ e.overtaken \/ e.path \in unsure
                    \/ \E d \in Client : op'[d].pc = "written" /\ op'[d].path = e.path
  BY DEF StaleIsExplained
<1>1. \A d \in Client : d # c => op'[d] = op[d]
  BY DEF CacheIInv, CacheTypeOK
<1>2. CASE e \in ToSet(entries) /\ ~e.overtaken /\ e.path \notin unsure
  <2>1. PICK d \in Client : op[d].pc = "written" /\ op[d].path = e.path
    BY <1>2 DEF CacheIInv, StaleIsExplained
  <2> QED BY <1>1, <2>1
<1> QED BY <1>2

LEMMA CacheInitHolds == CacheInit => CacheIInv
<1> SUFFICES ASSUME CacheInit PROVE CacheIInv
  OBVIOUS
<1>1. ToSet(<<>>) = {} /\ <<>> \in Seq(Entry) /\ DOMAIN <<>> = {}
  BY DEF ToSet
<1>2. CacheTypeOK
  BY <1>1, IdleIsAnOp, SizesAssumption DEF CacheInit, CacheTypeOK, Version
<1>3. BytesAreCounted
  <2>1. ToSet(entries) = {} /\ cachedBytes = 0
    BY <1>1 DEF CacheInit
  <2> QED BY <2>1, NoBytes, SizesAssumption DEF BytesAreCounted
<1>4. StaleIsExplained
  BY <1>1 DEF CacheInit, StaleIsExplained
<1> QED BY <1>2, <1>3, <1>4 DEF CacheIInv

(* Counted entries with well-typed rest are what the invariant needs.        *)
LEMMA Keeps ==
  ASSUME Counted', StaleIsExplained', version' \in [Path -> Version], op' \in [Client -> Op], unsure' \in SUBSET Path
  PROVE  CacheIInv'
<1>1. CacheTypeOK'
  BY DEF CacheTypeOK, Counted, NoKeyTwice
<1> QED BY <1>1 DEF CacheIInv, Counted

LEMMA HitKeepsAll ==
  ASSUME CacheIInv, NEW c \in Client, NEW p \in Path, NEW k \in Kind, Hit(c, p, k)
  PROVE  CacheIInv'
<1>1. Counted' /\ ToSet(entries') = ToSet(entries)
  <2>1. PICK e \in Cached(p, k) : entries' = Append(Without(entries, {e}), e)
    BY DEF Hit
  <2>2. e \in ToSet(entries) /\ cachedBytes' = cachedBytes /\ Counted
    BY CountedIsTyped DEF Cached, Hit, CacheIInv
  <2> QED BY <2>1, <2>2, HitCounts
<1>2. StaleIsExplained'
  BY <1>1 DEF Hit, CacheIInv, StaleIsExplained
<1> QED BY <1>1, <1>2, Keeps DEF Hit, CacheIInv, CacheTypeOK

(* A read or a write that starts deletes what it finds.                     *)
LEMMA StartKeepsAll ==
  ASSUME CacheIInv, NEW c \in Client, NEW gone, NEW o \in Op, gone \subseteq ToSet(entries), Delete(gone),
         op[c].pc = "idle", op' = [op EXCEPT ![c] = o], UNCHANGED <<version, unsure>>
  PROVE  CacheIInv'
<1>1. Counted' /\ ToSet(entries') = ToSet(entries) \ gone
  BY CountedIsTyped, DeleteCounts DEF CacheIInv
<1>2. StaleIsExplained'
  BY <1>1, ExplainedStays
<1> QED BY <1>1, <1>2, Keeps DEF CacheIInv, CacheTypeOK

LEMMA MissKeepsAll ==
  ASSUME CacheIInv, NEW c \in Client, NEW p \in Path, NEW k \in Kind, Miss(c, p, k)
  PROVE  CacheIInv'
<1> DEFINE o == [Idle EXCEPT !.pc = "reading", !.path = p, !.kind = k]
<1>1. o \in Op
  <2>1. "reading" \in Phases
    BY DEF Phases
  <2> QED BY <2>1, IdleIsAnOp DEF Op
<1>2. op' = [op EXCEPT ![c] = o]
  BY DEF Miss
<1> HIDE DEF o
<1>3. Cached(p, k) \subseteq ToSet(entries)
  BY DEF Cached
<1> QED BY <1>1, <1>2, <1>3, StartKeepsAll DEF Miss

LEMMA WriteKeepsAll ==
  ASSUME CacheIInv, NEW c \in Client, NEW p \in Path, Write(c, p)
  PROVE  CacheIInv'
<1> DEFINE o == [Idle EXCEPT !.pc = "writing", !.path = p]
<1>1. o \in Op
  <2>1. "writing" \in Phases
    BY DEF Phases
  <2> QED BY <2>1, IdleIsAnOp DEF Op
<1>2. op' = [op EXCEPT ![c] = o]
  BY DEF Write
<1> HIDE DEF o
<1>3. OfPath(p) \subseteq ToSet(entries)
  BY DEF OfPath
<1> QED BY <1>1, <1>2, <1>3, StartKeepsAll DEF Write

(* The inner store's answer changes the caller only.                        *)
LEMMA InnerReadKeepsAll ==
  ASSUME CacheIInv, NEW c \in Client, InnerRead(c) \/ InnerReadFails(c)
  PROVE  CacheIInv'
<1>1. op[c] \in Op /\ version[op[c].path] \in Version
  BY Operations DEF CacheIInv
<1>2. PICK o \in Op : op' = [op EXCEPT ![c] = o]
  <2>1. [op[c] EXCEPT !.pc = "read", !.version = version[op[c].path]] \in Op
    BY <1>1 DEF Op, Phases
  <2> QED BY <2>1, IdleIsAnOp DEF InnerRead, InnerReadFails
<1>3. op[c].pc # "written" /\ UNCHANGED <<version, entries, cachedBytes, unsure>>
  BY DEF InnerRead, InnerReadFails
<1>4. StaleIsExplained'
  BY <1>2, <1>3, ExplainedStays
<1>5. Counted'
  BY <1>3, CountedIsTyped DEF CacheIInv, Counted, NoKeyTwice, BytesAreCounted
<1> QED BY <1>2, <1>3, <1>4, <1>5, Keeps DEF CacheIInv, CacheTypeOK

(* A fill brings its own value only, and that is current or overtaken.       *)
LEMMA FillKeepsAll ==
  ASSUME CacheIInv, NEW c \in Client, Fill(c)
  PROVE  CacheIInv'
<1>1. Filling(c) \in Entry /\ (Filling(c).overtaken \/ Filling(c).version = version[Filling(c).path])
  BY Operations DEF CacheIInv, Filling
<1>2. Counted' /\ ToSet(entries') \subseteq ToSet(entries) \cup {Filling(c)}
  BY <1>1, CountedIsTyped, SetCounts DEF CacheIInv, Fill
<1>3. op[c].pc # "written" /\ op' = [op EXCEPT ![c] = Idle] /\ UNCHANGED <<version, unsure>>
  BY DEF Fill
<1>4. StaleIsExplained'
  BY <1>1, <1>2, <1>3, ExplainedStays
<1> QED BY <1>2, <1>3, <1>4, IdleIsAnOp, Keeps DEF CacheIInv, CacheTypeOK

(* A write that takes effect makes entries stale, and awaits its second      *)
(* invalidation.                                                            *)
LEMMA InnerWriteKeepsAll ==
  ASSUME CacheIInv, NEW c \in Client, InnerWrite(c)
  PROVE  CacheIInv'
<1> DEFINE p == op[c].path
           o == [op[c] EXCEPT !.pc = "written"]
<1>1. op[c] \in Op /\ p \in Path /\ version[p] \in Version /\ version \in [Path -> Version] /\ op \in [Client -> Op]
  BY Operations DEF CacheIInv, CacheTypeOK
<1>2. o \in Op /\ o.pc = "written" /\ o.path = p
  BY <1>1 DEF Op, Phases
<1>3. op' = [op EXCEPT ![c] = o] /\ op[c].pc = "writing" /\ UNCHANGED <<entries, cachedBytes, unsure>>
      /\ version' = [version EXCEPT ![p] = @ + 1] /\ version[p] < MaxVersion
  BY DEF InnerWrite
<1>4. version[p] + 1 \in Version
  BY <1>1, <1>3, SizesAssumption DEF Version
<1> HIDE DEF o, p
<1>5. StaleIsExplained'
  <2> SUFFICES ASSUME NEW e \in ToSet(entries), e.version # version'[e.path]
               PROVE  \/ e.overtaken \/ e.path \in unsure
                      \/ \E d \in Client : op'[d].pc = "written" /\ op'[d].path = e.path
    BY <1>3 DEF StaleIsExplained
  <2>1. CASE e.path = p
    BY <1>1, <1>2, <1>3, <2>1
  <2>2. CASE e.path # p
    <3>1. e.version # version[e.path]
      <4>1. e.path \in Path
        BY EntriesAreFinite DEF CacheIInv, CacheTypeOK, Entry
      <4> QED BY <1>1, <1>3, <2>2, <4>1
    <3>2. CASE \E d \in Client : op[d].pc = "written" /\ op[d].path = e.path
      <4>1. PICK d \in Client : op[d].pc = "written" /\ op[d].path = e.path
        BY <3>2
      <4> QED BY <1>1, <1>3, <4>1
    <3> QED BY <3>1, <3>2 DEF CacheIInv, StaleIsExplained
  <2> QED BY <2>1, <2>2
<1>6. Counted'
  BY <1>3, CountedIsTyped DEF CacheIInv, Counted, NoKeyTwice, BytesAreCounted
<1> QED BY <1>1, <1>2, <1>3, <1>4, <1>5, <1>6, Keeps DEF CacheIInv, CacheTypeOK

(* A write that fails after its effect leaves its path unsure.               *)
LEMMA InnerWriteFailsKeepsAll ==
  ASSUME CacheIInv, NEW c \in Client, InnerWriteFails(c)
  PROVE  CacheIInv'
<1>1. op[c].path \in Path /\ op \in [Client -> Op]
  BY Operations DEF CacheIInv, CacheTypeOK
<1>2. /\ op' = [op EXCEPT ![c] = Idle] /\ UNCHANGED <<version, entries, cachedBytes>>
      /\ unsure' = IF op[c].pc = "written" THEN unsure \cup {op[c].path} ELSE unsure
  BY DEF InnerWriteFails
<1>3. StaleIsExplained'
  <2> SUFFICES ASSUME NEW e \in ToSet(entries), e.version # version[e.path]
               PROVE  \/ e.overtaken \/ e.path \in unsure'
                      \/ \E d \in Client : op'[d].pc = "written" /\ op'[d].path = e.path
    BY <1>2 DEF StaleIsExplained
  <2>1. CASE \E d \in Client : op[d].pc = "written" /\ op[d].path = e.path
    <3>1. PICK d \in Client : op[d].pc = "written" /\ op[d].path = e.path
      BY <2>1
    <3>2. CASE d = c
      BY <1>2, <3>1, <3>2
    <3>3. CASE d # c
      BY <1>1, <1>2, <3>1, <3>3
    <3> QED BY <3>2, <3>3
  <2>2. e.path \in unsure => e.path \in unsure'
    BY <1>2
  <2> QED BY <2>1, <2>2 DEF CacheIInv, StaleIsExplained
<1>4. Counted'
  BY <1>2, CountedIsTyped DEF CacheIInv, Counted, NoKeyTwice, BytesAreCounted
<1>5. unsure' \in SUBSET Path
  BY <1>1, <1>2 DEF CacheIInv, CacheTypeOK
<1> QED BY <1>1, <1>2, <1>3, <1>4, <1>5, IdleIsAnOp, Keeps DEF CacheIInv, CacheTypeOK

(* The second invalidation leaves no entry of its path to explain.           *)
LEMMA WrittenKeepsAll ==
  ASSUME CacheIInv, NEW c \in Client, Written(c)
  PROVE  CacheIInv'
<1>1. op \in [Client -> Op] /\ op' = [op EXCEPT ![c] = Idle] /\ UNCHANGED <<version, unsure>>
  BY DEF CacheIInv, CacheTypeOK, Written
<1>2. Counted' /\ ToSet(entries') = ToSet(entries) \ OfPath(op[c].path)
  BY CountedIsTyped, DeleteCounts DEF CacheIInv, Written, OfPath
<1>3. StaleIsExplained'
  <2> SUFFICES ASSUME NEW e \in ToSet(entries), e.path # op[c].path, e.version # version[e.path],
                      ~e.overtaken, e.path \notin unsure
               PROVE  \E d \in Client : op'[d].pc = "written" /\ op'[d].path = e.path
    BY <1>1, <1>2 DEF StaleIsExplained, OfPath
  <2>1. PICK d \in Client : op[d].pc = "written" /\ op[d].path = e.path
    BY DEF CacheIInv, StaleIsExplained
  <2> QED BY <1>1, <2>1
<1> QED BY <1>1, <1>2, <1>3, IdleIsAnOp, Keeps DEF CacheIInv, CacheTypeOK

(* Every step keeps the invariant.                                          *)
LEMMA CacheNextKeeps == ASSUME CacheIInv, [CacheNext]_cacheVars PROVE CacheIInv'
<1>1. CASE UNCHANGED cacheVars
  BY <1>1 DEF cacheVars, CacheIInv, CacheTypeOK, BytesAreCounted, StaleIsExplained
<1>2. CASE CacheNext
  BY <1>2, HitKeepsAll, MissKeepsAll, WriteKeepsAll, InnerReadKeepsAll, FillKeepsAll, InnerWriteKeepsAll,
     InnerWriteFailsKeepsAll, WrittenKeepsAll DEF CacheNext
<1> QED BY <1>1, <1>2

(* For every store, policy, budget and set of clients the cache is well      *)
(* typed, and holds one entry per key.                                      *)
THEOREM CacheTypeCorrect == CacheSpec => []CacheTypeOK
<1>1. CacheIInv => CacheTypeOK
  BY DEF CacheIInv
<1> QED BY <1>1, CacheInitHolds, CacheNextKeeps, PTL DEF CacheSpec

(* The cache's count of its bytes is what it holds, and within the budget.   *)
THEOREM CacheCounts == CacheSpec => []BytesAreCounted
<1>1. CacheIInv => BytesAreCounted
  BY DEF CacheIInv
<1> QED BY <1>1, CacheInitHolds, CacheNextKeeps, PTL DEF CacheSpec

(* An entry is stale only for one of the three reasons.                      *)
THEOREM StaleExplained == CacheSpec => []StaleIsExplained
<1>1. CacheIInv => StaleIsExplained
  BY DEF CacheIInv
<1> QED BY <1>1, CacheInitHolds, CacheNextKeeps, PTL DEF CacheSpec

-----------------------------------------------------------------------------
(* ObjectCache: in which order entries go *)

GoesWith(es, i) == {j \in DOMAIN es : j = i \/ GoesBefore(es, i, j)}

After(es, i) == {es[j] : j \in GoesWith(es, i)}

(* Places are ordered by when they go.                                      *)
LEMMA GoingIsAnOrder ==
  ASSUME NEW es \in Seq(Entry), NEW i \in DOMAIN es, NEW j \in DOMAIN es
  PROVE  /\ i = j \/ GoesBefore(es, i, j) \/ GoesBefore(es, j, i)
         /\ ~GoesBefore(es, i, i)
         /\ GoesBefore(es, i, j) => ~GoesBefore(es, j, i) /\ GoesWith(es, j) \subseteq GoesWith(es, i)
<1>1. \A k \in DOMAIN es : k \in Nat /\ PriorityOf[es[k].kind] \in Nat
  <2> TAKE k \in DOMAIN es
  <2>1. Len(es) \in Nat /\ k \in 1..Len(es) /\ es[k] \in Entry
    OBVIOUS
  <2>2. k \in Nat /\ es[k].kind \in Kind
    BY <2>1 DEF Entry
  <2>3. PriorityOf \in [Kind -> Nat]
    BY SizesAssumption
  <2> QED BY <2>2, <2>3
<1> DEFINE D == DOMAIN es
           P(k) == PriorityOf[es[k].kind]
           B(k, l) == P(k) < P(l) \/ (P(k) = P(l) /\ k < l)
<1>2. i \in D /\ j \in D /\ \A k \in D : k \in Nat /\ P(k) \in Nat
  BY <1>1
<1>3. \A k, l : GoesBefore(es, k, l) <=> B(k, l)
  BY DEF GoesBefore
<1> HIDE DEF D, P
<1>4. \A k, l \in D : k = l \/ B(k, l) \/ B(l, k)
  BY <1>2
<1>5. ASSUME NEW k \in D, NEW l \in D, B(k, l), B(l, k) PROVE FALSE
  <2>1. k \in Nat /\ l \in Nat /\ P(k) \in Nat /\ P(l) \in Nat
    BY <1>2
  <2>2. ~(P(k) < P(l)) \/ ~(P(l) < P(k) \/ P(l) = P(k))
    BY <2>1
  <2>3. ~(P(l) < P(k)) \/ ~(P(k) < P(l) \/ P(l) = P(k))
    BY <2>1
  <2>4. ~(k < l /\ l < k)
    BY <2>1
  <2> QED BY <1>5, <2>2, <2>3, <2>4
<1>6. \A k, l, m \in D : B(k, l) /\ B(l, m) => B(k, m)
  BY <1>2
<1> HIDE DEF B
<1>7. GoesBefore(es, i, j) => GoesWith(es, j) \subseteq GoesWith(es, i)
  BY <1>2, <1>3, <1>6 DEF GoesWith, D
<1> QED BY <1>2, <1>3, <1>4, <1>5, <1>7

(* What goes with an entry and after it, its bytes, and when it goes.        *)
LEMMA GoingTogether ==
  ASSUME NEW es \in Seq(Entry), NEW i \in DOMAIN es
  PROVE  /\ After(es, i) \subseteq ToSet(es) /\ IsFiniteSet(After(es, i)) /\ After(es, i) \subseteq Entry
         /\ BytesOf(After(es, i)) \in Nat
         /\ IsFiniteSet(GoesWith(es, i)) /\ GoesWith(es, i) \subseteq DOMAIN es
         /\ Goes(es, i) <=> BytesOf(After(es, i)) > MaxBytes
<1>1. IsFiniteSet(ToSet(es)) /\ ToSet(es) \subseteq Entry /\ \A k \in DOMAIN es : es[k] \in ToSet(es)
  BY EntriesAreFinite
<1>2. GoesWith(es, i) \subseteq DOMAIN es /\ IsFiniteSet(DOMAIN es)
  <2>1. DOMAIN es = 1..Len(es) /\ Len(es) \in Nat
    OBVIOUS
  <2> QED BY <2>1, FS_Interval DEF GoesWith
<1>3. After(es, i) \subseteq ToSet(es)
  BY <1>1, <1>2 DEF After
<1>4. IsFiniteSet(After(es, i)) /\ After(es, i) \subseteq Entry
  BY <1>1, <1>3, FS_Subset
<1>5. IsFiniteSet(GoesWith(es, i))
  BY <1>2, FS_Subset
<1>6. Goes(es, i) <=> BytesOf(After(es, i)) > MaxBytes
  BY DEF Goes, After, GoesWith
<1> QED BY <1>2, <1>3, <1>4, <1>5, <1>6, BytesAdd

(* With one place per entry, a place goes if its entry does; whatever goes    *)
(* before a place that goes, goes; and the last place to go had no room.     *)
LEMMA EvictionIsFair ==
  ASSUME NEW es \in Seq(Entry), NoKeyTwice(es),
         NEW kept, kept = ToSet(es) \ EvictedFrom(es),
         NEW dropped, dropped = {i \in DOMAIN es : es[i] \notin kept}
  PROVE  /\ \A i \in dropped, j \in DOMAIN es \ dropped : GoesBefore(es, i, j)
         /\ dropped # {} => \E i \in dropped : BytesOf(kept) + Bytes(es[i]) > MaxBytes
<1>1. IsFiniteSet(ToSet(es)) /\ ToSet(es) \subseteq Entry /\ \A k \in DOMAIN es : es[k] \in ToSet(es)
  BY EntriesAreFinite
<1>2. dropped = {i \in DOMAIN es : Goes(es, i)}
  <2>1. \A i, j \in DOMAIN es : es[i] = es[j] => i = j
    BY DEF NoKeyTwice, SameKey
  <2> QED BY <1>1, <2>1 DEF EvictedFrom
<1>3. \A i, j \in DOMAIN es : GoesWith(es, j) \subseteq GoesWith(es, i) /\ Goes(es, j) => Goes(es, i)
  <2> SUFFICES ASSUME NEW i \in DOMAIN es, NEW j \in DOMAIN es, GoesWith(es, j) \subseteq GoesWith(es, i), Goes(es, j)
               PROVE  Goes(es, i)
    OBVIOUS
  <2>1. After(es, j) \subseteq After(es, i)
    BY DEF After
  <2>2. BytesOf(After(es, j)) <= BytesOf(After(es, i))
    BY <2>1, GoingTogether, BytesOfPart
  <2>3. BytesOf(After(es, j)) \in Nat /\ BytesOf(After(es, i)) \in Nat /\ BytesOf(After(es, j)) > MaxBytes
    BY GoingTogether
  <2>4. BytesOf(After(es, i)) > MaxBytes
    BY <2>2, <2>3, SizesAssumption
  <2> QED BY <2>4, GoingTogether
<1>4. ASSUME NEW i \in dropped, NEW j \in DOMAIN es \ dropped PROVE GoesBefore(es, i, j)
  BY <1>2, <1>3, <1>4, GoingIsAnOrder
<1>5. ASSUME dropped # {} PROVE \E i \in dropped : BytesOf(kept) + Bytes(es[i]) > MaxBytes
  <2> DEFINE Count(i) == Cardinality(GoesWith(es, i))
             Counts == {Count(i) : i \in dropped}
  <2>1. \A i \in DOMAIN es : Count(i) \in Nat
    BY GoingTogether, FS_CardinalityType
  <2>2. PICK i \in dropped : \A j \in dropped : Count(i) <= Count(j)
    <3>1. Counts \subseteq Nat /\ Counts # {}
      BY <1>2, <1>5, <2>1
    <3>2. PICK n \in Counts : \A m \in Counts : n <= m
      <4> HIDE DEF Counts
      <4> QED BY <3>1, LeastNatural
    <3> QED BY <3>2
  <2>3. i \in DOMAIN es /\ Goes(es, i)
    BY <1>2
  <2>4. \A j \in dropped : ~GoesBefore(es, i, j)
    <3> SUFFICES ASSUME NEW j \in dropped, GoesBefore(es, i, j) PROVE FALSE
      OBVIOUS
    <3>1. GoesWith(es, j) \subseteq GoesWith(es, i) /\ i \in GoesWith(es, i) /\ i \notin GoesWith(es, j)
      BY <1>2, <2>3, GoingIsAnOrder DEF GoesWith
    <3>2. Cardinality(GoesWith(es, j)) < Cardinality(GoesWith(es, i))
      <4>1. GoesWith(es, j) # GoesWith(es, i)
        BY <3>1
      <4>2. IsFiniteSet(GoesWith(es, i)) /\ IsFiniteSet(GoesWith(es, j)) /\ j \in DOMAIN es
        BY <1>2, <2>3, GoingTogether
      <4>3. /\ Cardinality(GoesWith(es, j)) <= Cardinality(GoesWith(es, i))
            /\ Cardinality(GoesWith(es, j)) # Cardinality(GoesWith(es, i))
        BY <3>1, <4>1, <4>2, FS_Subset
      <4>4. Cardinality(GoesWith(es, i)) \in Nat /\ Cardinality(GoesWith(es, j)) \in Nat
        BY <4>2, FS_CardinalityType
      <4> QED BY <4>3, <4>4
    <3>3. Count(i) \in Nat /\ Count(j) \in Nat /\ Count(i) <= Count(j) /\ Count(j) < Count(i)
      BY <1>2, <2>1, <2>2, <3>2
    <3> HIDE DEF Count
    <3> QED BY <3>3
  <2>5. After(es, i) \subseteq kept \cup {es[i]}
    <3>1. \A j \in GoesWith(es, i) : j = i \/ (j \in DOMAIN es /\ j \notin dropped)
      BY <2>4 DEF GoesWith
    <3> QED BY <3>1 DEF After
  <2>6. kept \subseteq Entry /\ IsFiniteSet(kept) /\ es[i] \in Entry /\ es[i] \notin kept
    BY <1>1, <2>3, FS_Subset
  <2>7. IsFiniteSet(kept \cup {es[i]}) /\ kept \cup {es[i]} \subseteq Entry
    BY <2>6, FS_AddElement
  <2>8. BytesOf(kept \cup {es[i]}) = BytesOf(kept) + Bytes(es[i]) /\ BytesOf(kept) \in Nat /\ Bytes(es[i]) \in Nat
    BY <2>6, BytesOfMore
  <2>9. BytesOf(After(es, i)) <= BytesOf(kept \cup {es[i]})
    BY <2>5, <2>7, BytesOfPart
  <2>10. BytesOf(After(es, i)) > MaxBytes /\ BytesOf(After(es, i)) \in Nat
    BY <2>3, GoingTogether
  <2>11. BytesOf(kept) + Bytes(es[i]) > MaxBytes
    BY <2>8, <2>9, <2>10, SizesAssumption
  <2> QED BY <2>11
<1> QED BY <1>4, <1>5
(* A step that ends a read as one that was read is its fill.                *)
LEMMA ReadEndsByFilling ==
  ASSUME CacheIInv, CacheNext, NEW c \in Client, op[c].pc = "read", op'[c].pc = "idle"
  PROVE  Fill(c)
<1>1. op \in [Client -> Op]
  BY DEF CacheIInv, CacheTypeOK
<1>2. PICK d \in Client :
        \/ \E p \in Path, k \in Kind : Hit(d, p, k) \/ Miss(d, p, k)
        \/ \E p \in Path : Write(d, p)
        \/ InnerRead(d) \/ InnerReadFails(d) \/ Fill(d)
        \/ InnerWrite(d) \/ InnerWriteFails(d) \/ Written(d)
  BY DEF CacheNext
<1>3. d = c
  <2> SUFFICES ASSUME d # c PROVE op'[c] = op[c]
    OBVIOUS
  <2>1. CASE \E p \in Path, k \in Kind : Hit(d, p, k)
    BY <2>1 DEF Hit
  <2>2. CASE \E p \in Path, k \in Kind : Miss(d, p, k)
    BY <1>1, <2>2 DEF Miss
  <2>3. CASE \E p \in Path : Write(d, p)
    BY <1>1, <2>3 DEF Write
  <2>4. CASE InnerRead(d) \/ InnerReadFails(d) \/ Fill(d) \/ InnerWrite(d) \/ InnerWriteFails(d) \/ Written(d)
    BY <1>1, <2>4 DEF InnerRead, InnerReadFails, Fill, InnerWrite, InnerWriteFails, Written
  <2> QED BY <1>2, <2>1, <2>2, <2>3, <2>4
<1>4. op[d].pc = "read"
  BY <1>3
<1>5. \A p \in Path, k \in Kind : ~Hit(d, p, k) /\ ~Miss(d, p, k) /\ ~Write(d, p)
  BY <1>4 DEF Hit, Miss, Write
<1>6. ~InnerRead(d) /\ ~InnerReadFails(d) /\ ~InnerWrite(d) /\ ~InnerWriteFails(d) /\ ~Written(d)
  BY <1>4 DEF InnerRead, InnerReadFails, InnerWrite, InnerWriteFails, Written
<1>7. \A p \in Path : ~Write(d, p)
  BY <1>4 DEF Write
<1> QED
  BY <1>2, <1>3, <1>5, <1>6, <1>7

LEMMA FillIsFair == ASSUME CacheIInv, CacheNext PROVE EvictsFairly
<1> SUFFICES ASSUME NEW c \in Client, op[c].pc = "read", op'[c].pc = "idle", Bytes(Filling(c)) <= MaxBytes
             PROVE  LET kept == ToSet(entries')
                        offered == Append(Without(entries, Cached(op[c].path, op[c].kind)), Filling(c))
                        dropped == {i \in DOMAIN offered : offered[i] \notin kept}
                    IN  dropped # {} =>
                          /\ \A i \in dropped, j \in DOMAIN offered \ dropped : GoesBefore(offered, i, j)
                          /\ \E i \in dropped : BytesOf(kept) + Bytes(offered[i]) > MaxBytes
  BY DEF EvictsFairly
<1> DEFINE e == Filling(c)
           old == Cached(op[c].path, op[c].kind)
           left == Without(entries, old)
           offered == Append(left, e)
           gone == EvictedFrom(offered)
<1>1. Fill(c) /\ e \in Entry /\ e.path = op[c].path /\ e.kind = op[c].kind /\ Counted
  BY ReadEndsByFilling, Operations, CountedIsTyped DEF CacheIInv, Filling
<1>2. ~(Bytes(e) > MaxBytes)
  <2>1. Bytes(e) \in Nat
    BY <1>1, SizesAssumption DEF Bytes, Entry
  <2> QED BY <2>1, SizesAssumption
<1>3. entries' = Without(offered, gone)
  BY <1>1, <1>2 DEF Fill, Set
<1>4. /\ left \in Seq(Entry) /\ NoKeyTwice(left) /\ ToSet(left) = ToSet(entries) \ old
  BY <1>1, WithoutKeeps DEF Counted
<1>5. \A x \in ToSet(entries) \ old : ~SameKey(x, e.path, e.kind)
  BY <1>1 DEF Cached
<1> HIDE DEF old, left, e
<1>6. offered \in Seq(Entry) /\ NoKeyTwice(offered)
  BY <1>1, <1>4, <1>5, EntryAtEnd
<1> HIDE DEF offered
<1>7. ToSet(entries') = ToSet(offered) \ gone
  BY <1>3, <1>6, WithoutKeeps
<1> DEFINE kept == ToSet(entries')
           dropped == {i \in DOMAIN offered : offered[i] \notin kept}
<1>8. /\ \A i \in dropped, j \in DOMAIN offered \ dropped : GoesBefore(offered, i, j)
      /\ dropped # {} => \E i \in dropped : BytesOf(kept) + Bytes(offered[i]) > MaxBytes
  <2> HIDE DEF kept
  <2>1. kept = ToSet(offered) \ gone
    BY <1>7 DEF kept
  <2>2. dropped = {i \in DOMAIN offered : offered[i] \notin kept}
    OBVIOUS
  <2> HIDE DEF dropped
  <2> QED BY <1>6, <2>1, <2>2, EvictionIsFair
<1> QED BY <1>8 DEF offered, left, old, e

(* For every policy: a fill drops by priority and age, and nothing it had     *)
(* room for.                                                                *)
THEOREM EvictionsAreFair == CacheSpec => FillsEvictFairly
<1>1. CacheIInv /\ [CacheNext]_cacheVars => [EvictsFairly]_cacheVars
  BY FillIsFair
<1> QED BY <1>1, CacheInitHolds, CacheNextKeeps, PTL DEF CacheSpec, FillsEvictFairly
=============================================================================
