-------------------------- MODULE BarFanOutProofs --------------------------
(***************************************************************************)
(* Proofs about BarFanOut and the keyed mutex it uses: mutual exclusion    *)
(* per strategy instance, what the bar thread may process, and that every  *)
(* selected strategy is attempted, for every number of threads, files,     *)
(* strategies and edits.                                                   *)
(***************************************************************************)
EXTENDS BarFanOut, FiniteSetTheorems, SequenceTheorems, TLAPS

-----------------------------------------------------------------------------
(* The keyed mutex. *)

(* What every step keeps of the locks: a thread that asked for a key has   *)
(* the lock object the registry has for it; a thread inside owns its lock  *)
(* object, and a lock object is owned by nobody else.                      *)
MutexInv ==
  /\ MutexTypeOK
  /\ \A t \in Threads :
       held[t].point # "out" =>
         /\ held[t].key \in Keys
         /\ held[t].lock \in Locks
         /\ registry[held[t].key] = held[t].lock
  /\ \A t \in Threads : held[t].point = "inside" => owner[held[t].lock] = t
  /\ \A l \in Locks :
       owner[l] # None => held[owner[l]].point = "inside" /\ held[owner[l]].lock = l
  /\ \A k, j \in Keys : registry[k] # None /\ registry[k] = registry[j] => k = j

(* At the start nobody has asked for a key. *)
LEMMA MutexInitially == MutexInit => MutexInv
BY KeyedMutexAssumption DEF MutexInit, MutexInv, MutexTypeOK, Holds, NotHolding

(* The look-up of an existing or a new lock object. *)
LEMMA LookUpKeepsMutex ==
  ASSUME MutexInv, NEW t \in Threads, NEW key \in Keys, LookUp(t, key)
  PROVE  MutexInv'
<1>1. PICK lock \in Locks :
        /\ held[t].point = "out"
        /\ IF registry[key] = None THEN Fresh(lock) ELSE lock = registry[key]
        /\ registry' = [registry EXCEPT ![key] = lock]
        /\ held' = [held EXCEPT ![t] = [point |-> "waiting", key |-> key, lock |-> lock]]
        /\ UNCHANGED owner
  BY DEF LookUp
<1>2. MutexTypeOK'
  BY <1>1 DEF MutexInv, MutexTypeOK, Holds
<1>3. /\ registry'[key] = lock
      /\ \A k \in Keys : k # key => registry'[k] = registry[k] /\ registry[k] # lock
      /\ held'[t] = [point |-> "waiting", key |-> key, lock |-> lock]
      /\ \A u \in Threads : u # t => held'[u] = held[u]
  BY <1>1, KeyedMutexAssumption DEF MutexInv, MutexTypeOK, Fresh
<1>4. \A u \in Threads :
        held'[u].point # "out" =>
          /\ held'[u].key \in Keys
          /\ held'[u].lock \in Locks
          /\ registry'[held'[u].key] = held'[u].lock
  <2> SUFFICES ASSUME NEW u \in Threads, held'[u].point # "out", u # t
               PROVE  registry'[held[u].key] = held[u].lock
    BY <1>3 DEF MutexInv
  <2>1. held[u].key \in Keys /\ held[u].lock \in Locks /\ registry[held[u].key] = held[u].lock
    BY <1>3 DEF MutexInv
  <2>2. CASE registry[key] = None
    BY <1>1, <1>3, <2>1, <2>2, KeyedMutexAssumption
  <2>3. CASE registry[key] # None
    BY <1>1, <1>3, <2>1, <2>3
  <2> QED
    BY <2>2, <2>3
<1>5. \A u \in Threads : held'[u].point = "inside" => owner'[held'[u].lock] = u
  BY <1>1, <1>3 DEF MutexInv
<1>6. \A l \in Locks :
        owner'[l] # None => held'[owner'[l]].point = "inside" /\ held'[owner'[l]].lock = l
  BY <1>1, <1>3 DEF MutexInv, MutexTypeOK
<1>7. \A k, j \in Keys : registry'[k] # None /\ registry'[k] = registry'[j] => k = j
  BY <1>3 DEF MutexInv
<1> QED
  BY <1>2, <1>4, <1>5, <1>6, <1>7 DEF MutexInv

(* Acquisition of a lock object nobody owns. *)
LEMMA AcquireKeepsMutex ==
  ASSUME MutexInv, NEW t \in Threads, Acquire(t)
  PROVE  MutexInv'
<1>1. held[t].lock \in Locks /\ held[t].key \in Keys
  BY DEF MutexInv, Acquire
<1>2. MutexTypeOK'
  BY <1>1 DEF MutexInv, MutexTypeOK, Holds, Acquire
<1>3. /\ held'[t] = [held[t] EXCEPT !.point = "inside"]
      /\ held'[t].key = held[t].key /\ held'[t].lock = held[t].lock
      /\ held'[t].point = "inside"
      /\ \A u \in Threads : u # t => held'[u] = held[u]
      /\ owner'[held[t].lock] = t
      /\ \A l \in Locks : l # held[t].lock => owner'[l] = owner[l]
  BY <1>1 DEF MutexInv, MutexTypeOK, Holds, Acquire
<1>4. \A u \in Threads : held'[u].point = "inside" => owner'[held'[u].lock] = u
  <2> SUFFICES ASSUME NEW u \in Threads, u # t, held[u].point = "inside"
               PROVE  owner'[held[u].lock] = u
    BY <1>3
  <2>1. owner[held[u].lock] = u /\ held[u].lock \in Locks
    BY DEF MutexInv
  <2>2. held[u].lock # held[t].lock
    BY <2>1, KeyedMutexAssumption DEF Acquire
  <2> QED
    BY <1>3, <2>1, <2>2
<1>5. \A l \in Locks :
        owner'[l] # None => held'[owner'[l]].point = "inside" /\ held'[owner'[l]].lock = l
  <2> SUFFICES ASSUME NEW l \in Locks, owner'[l] # None
               PROVE  held'[owner'[l]].point = "inside" /\ held'[owner'[l]].lock = l
    OBVIOUS
  <2>1. CASE l = held[t].lock
    BY <1>3, <2>1
  <2>2. CASE l # held[t].lock
    BY <1>3, <2>2 DEF MutexInv, MutexTypeOK, Acquire
  <2> QED
    BY <2>1, <2>2
<1> QED
  BY <1>1, <1>2, <1>3, <1>4, <1>5 DEF MutexInv, Acquire

(* A thread that gives up had not acquired anything. *)
LEMMA BusyKeepsMutex ==
  ASSUME MutexInv, NEW t \in Threads, Busy(t)
  PROVE  MutexInv'
<1>1. MutexTypeOK'
  BY DEF MutexInv, MutexTypeOK, Holds, Busy, NotHolding
<1>2. /\ held'[t] = NotHolding
      /\ \A u \in Threads : u # t => held'[u] = held[u]
  BY DEF MutexInv, MutexTypeOK, Busy
<1>3. \A l \in Locks : owner[l] # None => owner[l] # t
  BY DEF MutexInv, MutexTypeOK, Busy
<1> QED
  BY <1>1, <1>2, <1>3 DEF MutexInv, MutexTypeOK, Busy, NotHolding

(* A thread that leaves frees the one lock object it owns. *)
LEMMA ReleaseKeepsMutex ==
  ASSUME MutexInv, NEW t \in Threads, NEW raised \in BOOLEAN, Release(t, raised)
  PROVE  MutexInv'
<1>1. held[t].lock \in Locks /\ owner[held[t].lock] = t
  BY DEF MutexInv, Release
<1>2. MutexTypeOK'
  BY DEF MutexInv, MutexTypeOK, Holds, Release, NotHolding
<1>3. /\ held'[t] = NotHolding
      /\ \A u \in Threads : u # t => held'[u] = held[u]
      /\ owner'[held[t].lock] = None
      /\ \A l \in Locks : l # held[t].lock => owner'[l] = owner[l]
  BY <1>1 DEF MutexInv, MutexTypeOK, Release
<1>4. \A u \in Threads : held'[u].point = "inside" => owner'[held'[u].lock] = u
  <2> SUFFICES ASSUME NEW u \in Threads, held'[u].point = "inside"
               PROVE  owner'[held'[u].lock] = u
    OBVIOUS
  <2>1. u # t /\ held'[u] = held[u]
    BY <1>3 DEF NotHolding
  <2>2. owner[held[u].lock] = u /\ held[u].lock \in Locks
    BY <2>1 DEF MutexInv
  <2> QED
    BY <1>1, <1>3, <2>1, <2>2
<1>5. \A l \in Locks :
        owner'[l] # None => held'[owner'[l]].point = "inside" /\ held'[owner'[l]].lock = l
  <2> SUFFICES ASSUME NEW l \in Locks, owner'[l] # None
               PROVE  held'[owner'[l]].point = "inside" /\ held'[owner'[l]].lock = l
    OBVIOUS
  <2>1. l # held[t].lock /\ owner'[l] = owner[l]
    BY <1>3
  <2>2. held[owner[l]].point = "inside" /\ held[owner[l]].lock = l /\ owner[l] \in Threads
    BY <2>1 DEF MutexInv, MutexTypeOK
  <2> QED
    BY <1>3, <2>1, <2>2
<1>6. \A u \in Threads :
        held'[u].point # "out" =>
          /\ held'[u].key \in Keys
          /\ held'[u].lock \in Locks
          /\ registry'[held'[u].key] = held'[u].lock
  BY <1>3 DEF MutexInv, Release, NotHolding
<1> QED
  BY <1>2, <1>4, <1>5, <1>6 DEF MutexInv, Release

(* Steps that leave the locks alone. *)
LEMMA MutexUnchanged ==
  ASSUME MutexInv, UNCHANGED mutex
  PROVE  MutexInv'
BY DEF MutexInv, MutexTypeOK, mutex

(* Two threads inside with one key would own one lock object. *)
LEMMA MutexInvImpliesExclusion == MutexInv => MutualExclusion
BY DEF MutexInv, MutualExclusion

-----------------------------------------------------------------------------
(* Lists of strategies. *)

(* A finite set of identities has an ascending list: the inverse of their  *)
(* rank.                                                                   *)
LEMMA AscendingExists ==
  ASSUME NEW ids \in SUBSET Nat, IsFiniteSet(ids)
  PROVE  \E s \in [1 .. Cardinality(ids) -> ids] :
           \A i, j \in DOMAIN s : i < j => s[i] < s[j]
<1> DEFINE n == Cardinality(ids)
           UpTo(x) == {y \in ids : y <= x}
           rank == [x \in ids |-> Cardinality(UpTo(x))]
<1>1. n \in Nat
  BY FS_CardinalityType
<1>2. \A x \in ids : IsFiniteSet(UpTo(x)) /\ rank[x] \in 1 .. n
  <2> SUFFICES ASSUME NEW x \in ids
               PROVE  IsFiniteSet(UpTo(x)) /\ rank[x] \in 1 .. n
    OBVIOUS
  <2>1. UpTo(x) \in SUBSET ids /\ x \in UpTo(x)
    OBVIOUS
  <2>2. IsFiniteSet(UpTo(x)) /\ Cardinality(UpTo(x)) <= n
    BY <2>1, FS_Subset
  <2>3. Cardinality(UpTo(x)) \in Nat /\ Cardinality(UpTo(x)) # 0
    BY <2>1, <2>2, FS_CardinalityType, FS_EmptySet
  <2> QED
    BY <1>1, <2>2, <2>3
<1>3. \A x, y \in ids : x < y => rank[x] < rank[y]
  <2> SUFFICES ASSUME NEW x \in ids, NEW y \in ids, x < y
               PROVE  rank[x] < rank[y]
    OBVIOUS
  <2>1. UpTo(x) \in SUBSET UpTo(y) /\ y \in UpTo(y) /\ y \notin UpTo(x)
    <3>1. x \in Nat /\ y \in Nat /\ \A z \in ids : z \in Nat
      OBVIOUS
    <3>2. \A z \in ids : z <= x => z <= y
      BY <3>1
    <3>3. y <= y /\ ~(y <= x)
      BY <3>1
    <3> QED
      BY <3>2, <3>3
  <2>2. Cardinality(UpTo(x)) <= Cardinality(UpTo(y)) /\ Cardinality(UpTo(x)) # Cardinality(UpTo(y))
    BY <1>2, <2>1, FS_Subset
  <2> HIDE DEF UpTo
  <2>3. rank[x] \in Nat /\ rank[y] \in Nat
    BY <1>2
  <2> QED
    BY <2>2, <2>3
<1> HIDE DEF rank
<1>4. rank \in Surjection(ids, 1 .. n)
  <2>1. rank \in [ids -> 1 .. n]
    BY <1>2 DEF rank
  <2>2. \A x, y \in ids : rank[x] = rank[y] => x = y
    <3> SUFFICES ASSUME NEW x \in ids, NEW y \in ids, x # y PROVE rank[x] # rank[y]
      OBVIOUS
    <3>1. x < y \/ y < x
      OBVIOUS
    <3>2. rank[x] \in 1 .. n /\ rank[y] \in 1 .. n
      BY <1>2
    <3>3. rank[x] \in Nat /\ rank[y] \in Nat
      BY <1>1, <3>2
    <3> QED
      BY <1>3, <3>1, <3>3
  <2>3. rank \in Injection(ids, 1 .. n)
    BY <2>1, <2>2 DEF Injection, IsInjective
  <2>4. IsFiniteSet(1 .. n) /\ Cardinality(1 .. n) = n
    BY <1>1, FS_Interval
  <2> HIDE DEF n
  <2>5. Cardinality(ids) = Cardinality(1 .. n) <=> rank \in Surjection(ids, 1 .. n)
    BY <2>3, <2>4, FS_Injection
  <2> QED
    BY <2>4, <2>5 DEF n
<1> DEFINE s == [i \in 1 .. n |-> CHOOSE x \in ids : rank[x] = i]
<1>5. \A i \in 1 .. n : s[i] \in ids /\ rank[s[i]] = i
  BY <1>4 DEF Surjection
<1>6. \A i, j \in 1 .. n : i < j => s[i] < s[j]
  <2> SUFFICES ASSUME NEW i \in 1 .. n, NEW j \in 1 .. n, i < j, ~(s[i] < s[j])
               PROVE  FALSE
    OBVIOUS
  <2> DEFINE a == s[i]
             b == s[j]
  <2>1. a \in ids /\ b \in ids /\ rank[a] = i /\ rank[b] = j
    BY <1>5
  <2> HIDE DEF a, b, s
  <2>2. a \in Nat /\ b \in Nat /\ ~(a < b)
    BY <2>1 DEF a, b
  <2>3. b < a \/ a = b
    BY <2>2
  <2> QED
    BY <1>1, <1>3, <2>1, <2>3
<1>7. s \in [1 .. n -> ids]
  BY <1>5
<1> QED
  BY <1>6, <1>7

(* Ascending is a list of exactly the identities, in ascending order. *)
LEMMA AscendingIsList ==
  ASSUME NEW ids \in SUBSET Nat, IsFiniteSet(ids)
  PROVE  /\ Ascending(ids) \in Seq(ids)
         /\ \A i, j \in DOMAIN Ascending(ids) : i < j => Ascending(ids)[i] < Ascending(ids)[j]
<1>1. /\ Ascending(ids) \in [1 .. Cardinality(ids) -> ids]
      /\ \A i, j \in DOMAIN Ascending(ids) : i < j => Ascending(ids)[i] < Ascending(ids)[j]
  BY AscendingExists DEF Ascending
<1>2. Cardinality(ids) \in Nat
  BY FS_CardinalityType
<1> QED
  BY <1>1, <1>2, SeqDef

(* A non-empty set of natural numbers has a least one. *)
LEMMA LeastNatural ==
  ASSUME NEW S \in SUBSET Nat, S # {}
  PROVE  \E n \in S : \A m \in S : n <= m
<1> DEFINE R == OpToRel(<, Nat)
<1>1. IsWellFoundedOn(R, Nat)
  BY NatLessThanWellFounded
<1> HIDE DEF R
<1>2. PICK n \in S : \A m \in S : ~(<<m, n>> \in R)
  BY <1>1, WFMin
<1>3. \A m \in S : ~(m < n)
  BY <1>2 DEF R, OpToRel
<1> QED
  BY <1>3

(* What is selected is a finite set of identities of the stream, each      *)
(* enabled in one of the documents read.                                   *)
LEMMA SelectIsFinite ==
  ASSUME NEW event, NEW deployments \in Seq(Deployments)
  PROVE  /\ Select(event, deployments) \in SUBSET Keys
         /\ IsFiniteSet(Select(event, deployments))
         /\ \A k \in Select(event, deployments) :
              /\ StreamOf(k) = event
              /\ \E i \in DOMAIN deployments : deployments[i].enabled /\ deployments[i].id = k
<1> DEFINE n == Len(deployments)
           S == Select(event, deployments)
           f == [i \in 1 .. n |-> deployments[i].id]
           T == {deployments[i].id : i \in 1 .. n}
<1>1. n \in Nat /\ DOMAIN deployments = 1 .. n /\ \A i \in 1 .. n : deployments[i] \in Deployments
  BY LenProperties, ElementOfSeq
<1>2. \A k \in S : \E i \in 1 .. n : /\ deployments[i].id = k /\ deployments[i].enabled
                                     /\ StreamOf(k) = event
  BY <1>1 DEF Select, Unique, Range
<1>3. S \in SUBSET T
  BY <1>2
<1>4. T \in SUBSET Keys
  BY <1>1 DEF Deployments
<1>5. f \in Surjection(1 .. n, T)
  BY DEF Surjection
<1>6. IsFiniteSet(1 .. n)
  BY <1>1, FS_Interval
<1> HIDE DEF f, T
<1>7. IsFiniteSet(T)
  BY <1>5, <1>6, FS_Surjection
<1>8. IsFiniteSet(S)
  BY <1>3, <1>7, FS_Subset
<1> QED
  BY <1>1, <1>2, <1>3, <1>4, <1>8

(* Moving the head of one list to the end of another keeps what the two    *)
(* are together.                                                           *)
LEMMA HeadMoves ==
  ASSUME NEW before \in Seq(Keys), NEW after \in Seq(Keys), NEW rest \in Seq(Keys),
         rest # <<>>, Len(after) = Len(before) + 1,
         \A i \in 1 .. Len(before) : after[i] = before[i],
         after[Len(before) + 1] = Head(rest)
  PROVE  after \o Tail(rest) = before \o rest
<1> DEFINE m == Len(before)
           n == Len(rest)
           tail == Tail(rest)
           left == after \o tail
           right == before \o rest
<1>1. m \in Nat /\ n \in Nat /\ n # 0
  BY LenProperties, EmptySeq
<1>2. tail \in Seq(Keys) /\ Len(tail) = n - 1 /\ \A i \in 1 .. n - 1 : tail[i] = rest[i + 1]
  BY HeadTailProperties
<1>3. after[m + 1] = rest[1]
  OBVIOUS
<1>4. (m + 1) + (n - 1) = m + n
  BY <1>1
<1>5. /\ left \in Seq(Keys) /\ Len(left) = m + n
      /\ \A i \in 1 .. m + n : left[i] = IF i <= m + 1 THEN after[i] ELSE tail[i - (m + 1)]
  <2> HIDE DEF tail
  <2>1. /\ left \in Seq(Keys) /\ Len(left) = Len(after) + Len(tail)
        /\ \A i \in 1 .. Len(after) + Len(tail) :
             left[i] = IF i <= Len(after) THEN after[i] ELSE tail[i - Len(after)]
    BY <1>2, ConcatProperties
  <2> HIDE DEF left
  <2> QED
    BY <1>2, <1>4, <2>1
<1>6. /\ right \in Seq(Keys) /\ Len(right) = m + n
      /\ \A i \in 1 .. m + n : right[i] = IF i <= m THEN before[i] ELSE rest[i - m]
  BY ConcatProperties
<1> HIDE DEF m, n, tail, left, right
<1>7. \A i \in 1 .. m + n : left[i] = right[i]
  <2> SUFFICES ASSUME NEW i \in 1 .. m + n PROVE left[i] = right[i]
    OBVIOUS
  <2>1. CASE i <= m
    <3>1. i \in 1 .. m /\ i <= m + 1
      BY <1>1, <2>1
    <3> QED
      BY <1>5, <1>6, <2>1, <3>1 DEF m
  <2>2. CASE i = m + 1
    <3>1. i <= m + 1 /\ ~(i <= m) /\ i - m = 1
      BY <1>1, <2>2
    <3> QED
      BY <1>3, <1>5, <1>6, <2>2, <3>1
  <2>3. CASE i > m + 1
    <3>1. i - (m + 1) \in 1 .. n - 1 /\ (i - (m + 1)) + 1 = i - m
      BY <1>1, <2>3
    <3> QED
      <4>1. ~(i <= m + 1) /\ ~(i <= m)
        BY <1>1, <2>3
      <4>2. left[i] = tail[i - (m + 1)] /\ right[i] = rest[i - m]
        BY <1>5, <1>6, <4>1
      <4>3. tail[i - (m + 1)] = rest[(i - (m + 1)) + 1]
        BY <1>2, <3>1
      <4> QED
        BY <3>1, <4>2, <4>3
  <2> QED
    BY <1>1, <2>1, <2>2, <2>3
<1>8. left = right
  BY <1>5, <1>6, <1>7, SeqEqual
<1> QED
  BY <1>8 DEF left, right, tail

(* Moving the head of the queue to the outcomes keeps the list of what was *)
(* attempted and what is still queued.                                     *)
LEMMA AttemptShifts ==
  ASSUME NEW done \in Seq([id : Keys, status : {"succeeded", "failed"}]),
         NEW rest \in Seq(Keys), rest # <<>>,
         NEW outcome \in [id : Keys, status : {"succeeded", "failed"}],
         outcome.id = Head(rest)
  PROVE  [i \in DOMAIN Append(done, outcome) |-> Append(done, outcome)[i].id] \o Tail(rest)
           = [i \in DOMAIN done |-> done[i].id] \o rest
<1> DEFINE D == [id : Keys, status : {"succeeded", "failed"}]
           m == Len(done)
           more == Append(done, outcome)
           before == [i \in DOMAIN done |-> done[i].id]
           after == [i \in DOMAIN more |-> more[i].id]
<1>1. m \in Nat /\ DOMAIN done = 1 .. m /\ \A i \in 1 .. m : done[i] \in D
  BY LenProperties, ElementOfSeq
<1>2. /\ more \in Seq(D) /\ Len(more) = m + 1 /\ DOMAIN more = 1 .. m + 1
      /\ \A i \in 1 .. m : more[i] = done[i]
      /\ more[m + 1] = outcome
  BY <1>1
<1>3. before \in [1 .. m -> Keys] /\ after \in [1 .. m + 1 -> Keys]
  BY <1>1, <1>2
<1>4. before \in Seq(Keys) /\ after \in Seq(Keys) /\ Len(before) = m /\ Len(after) = m + 1
  BY <1>1, <1>3, SeqDef
<1>5. \A i \in 1 .. m : after[i] = before[i]
  BY <1>1, <1>2
<1>6. after[m + 1] = Head(rest)
  BY <1>1, <1>2
<1> HIDE DEF more, before, after, m
<1>7. /\ Len(after) = Len(before) + 1
      /\ \A i \in 1 .. Len(before) : after[i] = before[i]
      /\ after[Len(before) + 1] = Head(rest)
  BY <1>4, <1>5, <1>6
<1>8. after \o Tail(rest) = before \o rest
  <2>1. before \in Seq(Keys) /\ after \in Seq(Keys)
    BY <1>4
  <2> QED
    BY <1>7, <2>1, HeadMoves
<1> QED
  BY <1>8 DEF before, after, more

-----------------------------------------------------------------------------
(* The fan-out. *)

Dispatching == pc \in {"dispatching", "processing"}

(* What was read came from a file that was there at some time of this bar. *)
ReadWasDeployed ==
  pc = "reading" => /\ outcomes = <<>>
                    /\ \A i \in DOMAIN read : read[i].enabled => read[i].id \in enabled

(* What was selected was enabled, on the bar's stream; the queue holds     *)
(* selected strategies only.                                               *)
SelectedWasDeployed ==
  Dispatching => /\ \A k \in selected : k \in enabled /\ StreamOf(k) = stream
                 /\ queue \in Seq(selected)

(* The lock the bar thread has or waits for is that of the queue's head. *)
LockOfHead == pc = "processing" => queue # <<>> /\ held[Bar].key = Head(queue)

FanOutInv ==
  /\ MutexInv
  /\ TypeOK
  /\ EnabledIn(files) \subseteq enabled
  /\ ReadWasDeployed
  /\ SelectedWasDeployed
  /\ LockOfHead
  /\ EveryoneAttempted

(* Only a deployment is enabled, so only identities are. *)
LEMMA EnabledInType ==
  ASSUME NEW f \in [Names -> Contents]
  PROVE  EnabledIn(f) \subseteq Keys
BY DEF EnabledIn, Contents, Deployments

(* Before the first bar nothing is read, selected or attempted. *)
LEMMA FanOutInitially == Init => FanOutInv
<1> SUFFICES ASSUME Init PROVE FanOutInv
  OBVIOUS
<1>1. MutexInv
  BY MutexInitially DEF Init
<1>2. held[Bar] = NotHolding
  BY FanOutAssumption DEF Init, MutexInit
<1>3. enabled \subseteq Keys
  BY EnabledInType DEF Init
<1>4. TypeOK
  BY <1>1, <1>2, <1>3, FanOutAssumption DEF Init, TypeOK, MutexInv, Points, NotHolding
<1> QED
  BY <1>1, <1>4
     DEF Init, FanOutInv, ReadWasDeployed, SelectedWasDeployed, Dispatching, LockOfHead,
         EveryoneAttempted

(* A bar starts afresh. *)
LEMMA BarStartsKeeps ==
  ASSUME FanOutInv, NEW event \in Streams, BarStarts(event)
  PROVE  FanOutInv'
<1>1. MutexInv'
  BY MutexUnchanged DEF FanOutInv, BarStarts
<1>2. TypeOK'
  <2>1. enabled' \subseteq Keys
    BY EnabledInType DEF FanOutInv, TypeOK, BarStarts
  <2>2. MutexTypeOK'
    BY <1>1 DEF MutexInv
  <2>3. (held[Bar].point # "out" <=> pc = "processing")'
    BY DEF FanOutInv, TypeOK, BarStarts, mutex
  <2> QED
    BY <2>1, <2>2, <2>3 DEF FanOutInv, TypeOK, BarStarts, Points
<1> QED
  BY <1>1, <1>2 DEF FanOutInv, BarStarts, ReadWasDeployed, SelectedWasDeployed,
                    Dispatching, LockOfHead, EveryoneAttempted, EnabledIn

(* One more document is read as it stands now. *)
LEMMA BarReadsKeeps ==
  ASSUME FanOutInv, BarReads
  PROVE  FanOutInv'
<1>1. MutexInv'
  BY MutexUnchanged DEF FanOutInv, BarReads
<1> DEFINE name == NextName(unread)
           content == files[name]
<1>2. name \in Names
  <2>1. \E n \in unread : \A m \in unread : n <= m
    <3>1. unread \subseteq Nat /\ unread # {}
      BY FanOutAssumption DEF FanOutInv, TypeOK, BarReads
    <3> QED
      BY <3>1, LeastNatural
  <2>2. name \in unread
    BY <2>1 DEF NextName
  <2> QED
    BY <2>2 DEF FanOutInv, TypeOK
<1>3. content \in Contents
  BY <1>2 DEF FanOutInv, TypeOK
<1>4. content.kind = "deployment" => content \in Deployments
  BY <1>3 DEF Contents
<1>5. content.enabled => content.id \in enabled
  BY <1>2 DEF FanOutInv, EnabledIn
<1> HIDE DEF content, name
<1>6. /\ pc = "reading" /\ UNCHANGED <<mutex, catalog, pc, stream, queue, outcomes, selected, asks>>
      /\ unread' = unread \ {name}
      /\ read' = IF content.kind = "deployment" THEN Append(read, content) ELSE read
  BY DEF BarReads, content, name
<1>7. read \in Seq(Deployments) /\ \A i \in DOMAIN read : read[i].enabled => read[i].id \in enabled
  BY <1>6 DEF FanOutInv, TypeOK, ReadWasDeployed
<1>8. read' \in Seq(Deployments) /\ \A i \in DOMAIN read' : read'[i].enabled => read'[i].id \in enabled
  BY <1>4, <1>5, <1>6, <1>7
<1>9. TypeOK'
  BY <1>1, <1>6, <1>8 DEF FanOutInv, TypeOK, MutexInv, mutex, catalog
<1> QED
  BY <1>1, <1>6, <1>8, <1>9 DEF FanOutInv, ReadWasDeployed, SelectedWasDeployed,
                    Dispatching, LockOfHead, EveryoneAttempted, EnabledIn, catalog

(* A document that raises ends the bar. *)
LEMMA BarRaisesKeeps ==
  ASSUME FanOutInv, BarRaises
  PROVE  FanOutInv'
<1>1. MutexInv'
  BY MutexUnchanged DEF FanOutInv, BarRaises
<1>2. TypeOK'
  BY <1>1 DEF FanOutInv, TypeOK, MutexInv, BarRaises, mutex, catalog, Points
<1> QED
  BY <1>1, <1>2 DEF FanOutInv, BarRaises, ReadWasDeployed, SelectedWasDeployed,
                    Dispatching, LockOfHead, EveryoneAttempted, EnabledIn, catalog

(* The selected strategies become the queue. *)
LEMMA BarSelectsKeeps ==
  ASSUME FanOutInv, BarSelects
  PROVE  FanOutInv'
<1>1. MutexInv'
  BY MutexUnchanged DEF FanOutInv, BarSelects
<1>2. /\ read \in Seq(Deployments) /\ outcomes = <<>>
      /\ \A i \in DOMAIN read : read[i].enabled => read[i].id \in enabled
  BY DEF FanOutInv, TypeOK, BarSelects, ReadWasDeployed
<1>3. /\ selected' \in SUBSET Keys /\ IsFiniteSet(selected')
      /\ \A k \in selected' : k \in enabled /\ StreamOf(k) = stream
  BY <1>2, SelectIsFinite DEF BarSelects
<1>4. queue' \in Seq(selected')
  <2>1. selected' \in SUBSET Nat
    BY <1>3, FanOutAssumption
  <2> QED
    BY <1>3, <2>1, AscendingIsList DEF BarSelects
<1>5. queue' \in Seq(Keys)
  BY <1>3, <1>4, SeqMonotonic
<1>6. TypeOK'
  BY <1>1, <1>3, <1>5 DEF FanOutInv, TypeOK, MutexInv, BarSelects, mutex, catalog, Points
<1>7. EveryoneAttempted'
  <2>1. outcomes' = <<>> /\ queue' = Ascending(selected')
    BY <1>2 DEF BarSelects
  <2>2. [i \in DOMAIN outcomes' |-> outcomes'[i].id] = <<>>
    BY <2>1
  <2>3. <<>> \o queue' = queue'
    BY <1>5, ConcatEmptySeq
  <2> QED
    BY <2>1, <2>2, <2>3 DEF EveryoneAttempted
<1> QED
  BY <1>1, <1>3, <1>4, <1>6, <1>7
     DEF FanOutInv, BarSelects, ReadWasDeployed, SelectedWasDeployed, Dispatching, LockOfHead,
         EnabledIn, catalog

(* The bar thread asks for the lock of the queue's head. *)
LEMMA BarAsksKeeps ==
  ASSUME FanOutInv, BarAsks
  PROVE  FanOutInv'
<1>1. Head(queue) \in Keys /\ Bar \in Threads
  BY FanOutAssumption DEF FanOutInv, TypeOK, BarAsks
<1>2. MutexInv'
  BY <1>1, LookUpKeepsMutex DEF FanOutInv, BarAsks
<1>3. held'[Bar].point = "waiting" /\ held'[Bar].key = Head(queue)
  BY <1>1 DEF FanOutInv, MutexInv, MutexTypeOK, BarAsks, LookUp
<1>4. TypeOK'
  BY <1>2, <1>3 DEF FanOutInv, TypeOK, MutexInv, BarAsks, catalog, Points
<1> QED
  BY <1>2, <1>3, <1>4 DEF FanOutInv, BarAsks, ReadWasDeployed, SelectedWasDeployed,
                    Dispatching, LockOfHead, EveryoneAttempted, EnabledIn, catalog

(* The bar thread has the lock. *)
LEMMA BarEntersKeeps ==
  ASSUME FanOutInv, BarEnters
  PROVE  FanOutInv'
<1>1. Bar \in Threads /\ held[Bar].point = "waiting"
  BY FanOutAssumption DEF BarEnters, Acquire
<1>2. MutexInv'
  BY <1>1, AcquireKeepsMutex DEF FanOutInv, BarEnters
<1>3. held'[Bar].point = "inside" /\ held'[Bar].key = held[Bar].key
  BY <1>1 DEF FanOutInv, MutexInv, MutexTypeOK, Holds, BarEnters, Acquire
<1>4. pc = "processing"
  BY <1>1 DEF FanOutInv, TypeOK
<1>5. TypeOK'
  BY <1>2, <1>3, <1>4 DEF FanOutInv, TypeOK, MutexInv, BarEnters, catalog, bar
<1> QED
  BY <1>2, <1>3, <1>5 DEF FanOutInv, BarEnters, ReadWasDeployed, SelectedWasDeployed,
                    Dispatching, LockOfHead, EveryoneAttempted, EnabledIn, catalog, bar

(* The head of the queue was attempted, whatever became of it. *)
LEMMA BarProcessedKeeps ==
  ASSUME FanOutInv, NEW raised \in BOOLEAN, BarProcessed(raised)
  PROVE  FanOutInv'
<1>1. Bar \in Threads /\ held[Bar].point = "inside"
  BY FanOutAssumption DEF BarProcessed, Release
<1>2. MutexInv'
  BY <1>1, ReleaseKeepsMutex DEF FanOutInv, BarProcessed
<1>3. held'[Bar].point = "out"
  BY <1>1 DEF FanOutInv, MutexInv, MutexTypeOK, BarProcessed, Release, NotHolding
<1>4. pc = "processing" /\ queue # <<>>
  BY <1>1 DEF FanOutInv, TypeOK, LockOfHead
<1>5. queue \in Seq(Keys) /\ queue \in Seq(selected) /\ Head(queue) \in Keys
  BY <1>4 DEF FanOutInv, TypeOK, SelectedWasDeployed, Dispatching
<1>6. PICK outcome \in [id : Keys, status : {"succeeded", "failed"}] :
        outcome.id = Head(queue) /\ outcomes' = Append(outcomes, outcome)
  BY <1>5 DEF BarProcessed
<1>7. queue' = Tail(queue) /\ queue' \in Seq(Keys) /\ queue' \in Seq(selected)
  BY <1>4, <1>5 DEF BarProcessed
<1>8. outcomes \in Seq([id : Keys, status : {"succeeded", "failed"}])
  BY DEF FanOutInv, TypeOK
<1>9. outcomes' \in Seq([id : Keys, status : {"succeeded", "failed"}])
  BY <1>6, <1>8
<1>10. TypeOK'
  BY <1>2, <1>3, <1>7, <1>9 DEF FanOutInv, TypeOK, MutexInv, BarProcessed, catalog, Points
<1>11. [i \in DOMAIN outcomes' |-> outcomes'[i].id] \o queue' = Ascending(selected')
  <2>1. [i \in DOMAIN Append(outcomes, outcome) |-> Append(outcomes, outcome)[i].id] \o Tail(queue)
          = [i \in DOMAIN outcomes |-> outcomes[i].id] \o queue
    BY <1>4, <1>5, <1>6, <1>8, AttemptShifts
  <2>2. [i \in DOMAIN outcomes |-> outcomes[i].id] \o queue = Ascending(selected)
    BY <1>4 DEF FanOutInv, EveryoneAttempted
  <2>3. selected' = selected
    BY DEF BarProcessed
  <2> QED
    BY <1>6, <1>7, <2>1, <2>2, <2>3
<1>12. EveryoneAttempted'
  BY <1>11 DEF EveryoneAttempted
<1> QED
  BY <1>2, <1>4, <1>7, <1>10, <1>12 DEF FanOutInv, BarProcessed, ReadWasDeployed, SelectedWasDeployed,
                    Dispatching, LockOfHead, EnabledIn, catalog

(* The bar ends. *)
LEMMA BarEndsKeeps ==
  ASSUME FanOutInv, BarEnds
  PROVE  FanOutInv'
<1>1. MutexInv'
  BY MutexUnchanged DEF FanOutInv, BarEnds
<1>2. TypeOK'
  BY <1>1 DEF FanOutInv, TypeOK, MutexInv, BarEnds, mutex, catalog, Points
<1> QED
  BY <1>1, <1>2 DEF FanOutInv, BarEnds, ReadWasDeployed, SelectedWasDeployed,
                    Dispatching, LockOfHead, EveryoneAttempted, EnabledIn, catalog

(* Nobody else moves the bar thread. *)
LEMMA OthersLeaveBar ==
  ASSUME FanOutInv, MutexInv', held'[Bar] = held[Bar],
         UNCHANGED <<catalog, bar>>, asks' \in 0 .. MaxAsks
  PROVE  FanOutInv'
<1>1. TypeOK'
  BY DEF FanOutInv, TypeOK, MutexInv, catalog, bar
<1> QED
  BY <1>1 DEF FanOutInv, ReadWasDeployed, SelectedWasDeployed, Dispatching, LockOfHead,
              EveryoneAttempted, EnabledIn, catalog, bar

(* The steps of an operator's command, a webhook or the resolver. *)
LEMMA OthersKeep ==
  ASSUME FanOutInv, NEW t \in Others,
         Enters(t) \/ GivesUp(t) \/ Leaves(t) \/ \E k \in Keys : Asks(t, k)
  PROVE  FanOutInv'
<1>1. t \in Threads /\ t # Bar /\ Bar \in Threads
  BY FanOutAssumption DEF Others
<1>2. MutexInv /\ held \in [Threads -> Holds] /\ asks \in 0 .. MaxAsks /\ MaxAsks \in Nat
  BY FanOutAssumption DEF FanOutInv, MutexInv, MutexTypeOK, TypeOK
<1>3. CASE Enters(t)
  <2>1. MutexInv'
    BY <1>1, <1>2, <1>3, AcquireKeepsMutex DEF Enters
  <2>2. held'[Bar] = held[Bar]
    BY <1>1, <1>2, <1>3 DEF Enters, Acquire
  <2> QED
    BY <1>2, <1>3, <2>1, <2>2, OthersLeaveBar DEF Enters
<1>4. CASE GivesUp(t)
  <2>1. MutexInv'
    BY <1>1, <1>2, <1>4, BusyKeepsMutex DEF GivesUp
  <2>2. held'[Bar] = held[Bar]
    BY <1>1, <1>2, <1>4 DEF GivesUp, Busy
  <2> QED
    BY <1>2, <1>4, <2>1, <2>2, OthersLeaveBar DEF GivesUp
<1>5. CASE Leaves(t)
  <2>1. MutexInv'
    BY <1>1, <1>2, <1>5, ReleaseKeepsMutex DEF Leaves
  <2>2. held'[Bar] = held[Bar]
    BY <1>1, <1>2, <1>5 DEF Leaves, Release
  <2> QED
    BY <1>2, <1>5, <2>1, <2>2, OthersLeaveBar DEF Leaves
<1>6. ASSUME NEW k \in Keys, Asks(t, k) PROVE FanOutInv'
  <2>1. MutexInv'
    BY <1>1, <1>2, <1>6, LookUpKeepsMutex DEF Asks
  <2>2. held'[Bar] = held[Bar]
    BY <1>1, <1>2, <1>6 DEF Asks, LookUp
  <2>3. asks' \in 0 .. MaxAsks
    BY <1>2, <1>6 DEF Asks
  <2> QED
    BY <1>6, <2>1, <2>2, <2>3, OthersLeaveBar DEF Asks
<1> QED
  BY <1>3, <1>4, <1>5, <1>6

(* A file changes under the bar: what was enabled stays on record. *)
LEMMA EditsKeep ==
  ASSUME FanOutInv, NEW name \in Names, NEW content \in Contents, Edits(name, content)
  PROVE  FanOutInv'
<1>1. MutexInv'
  BY MutexUnchanged DEF FanOutInv, Edits
<1>2. files' \in [Names -> Contents]
  BY DEF FanOutInv, TypeOK, Edits
<1>3. enabled' = enabled \cup EnabledIn(files') /\ enabled' \subseteq Keys
  BY <1>2, EnabledInType DEF FanOutInv, TypeOK, Edits
<1>4. edits' \in 0 .. MaxEdits
  BY FanOutAssumption DEF FanOutInv, TypeOK, Edits
<1>5. TypeOK'
  BY <1>1, <1>2, <1>3, <1>4 DEF FanOutInv, TypeOK, MutexInv, Edits, mutex, bar
<1>6. EnabledIn(files)' = EnabledIn(files')
  BY DEF EnabledIn
<1> QED
  BY <1>1, <1>3, <1>5, <1>6 DEF FanOutInv, Edits, ReadWasDeployed, SelectedWasDeployed, Dispatching, LockOfHead,
              EveryoneAttempted, mutex, bar

(* Every step keeps the invariant. *)
LEMMA FanOutStep == FanOutInv /\ [Next]_vars => FanOutInv'
<1> SUFFICES ASSUME FanOutInv, [Next]_vars PROVE FanOutInv'
  OBVIOUS
<1>1. CASE UNCHANGED vars
  <2>1. MutexInv' /\ held'[Bar] = held[Bar] /\ UNCHANGED <<catalog, bar>> /\ asks' \in 0 .. MaxAsks
    BY <1>1, MutexUnchanged DEF vars, FanOutInv, TypeOK, mutex
  <2> QED
    BY <2>1, OthersLeaveBar
<1>2. ASSUME NEW event \in Streams, BarStarts(event) PROVE FanOutInv'
  BY <1>2, BarStartsKeeps
<1>3. CASE BarSteps
  BY <1>3, BarReadsKeeps, BarRaisesKeeps, BarSelectsKeeps, BarAsksKeeps, BarEntersKeeps,
     BarProcessedKeeps, BarEndsKeeps DEF BarSteps
<1>4. ASSUME NEW t \in Others,
             Enters(t) \/ GivesUp(t) \/ Leaves(t) \/ \E k \in Keys : Asks(t, k)
      PROVE  FanOutInv'
  BY <1>4, OthersKeep
<1>5. ASSUME NEW name \in Names, NEW content \in Contents, Edits(name, content) PROVE FanOutInv'
  BY <1>5, EditsKeep
<1> QED
  BY <1>1, <1>2, <1>3, <1>4, <1>5 DEF Next

(* The strategy the bar thread works on is selected, and so was enabled.   *)
LEMMA FanOutInvImplies == FanOutInv => OnlyDeployedProcessed
BY DEF FanOutInv, SelectedWasDeployed, Dispatching, LockOfHead, OnlyDeployedProcessed

-----------------------------------------------------------------------------
(* Theorems. *)

(* The invariant of the fan-out and its locks holds for ever. *)
THEOREM FanOutInvariance == Spec => []FanOutInv
<1>1. Init => FanOutInv
  BY FanOutInitially
<1>2. FanOutInv /\ [Next]_vars => FanOutInv'
  BY FanOutStep
<1> QED
  BY <1>1, <1>2, PTL DEF Spec

(* hold: two threads are never inside the critical section of one strategy *)
(* instance, however many threads, keys and lock objects there are.        *)
THEOREM ThreadsExclude == Spec => []MutualExclusion
<1>1. FanOutInv => MutualExclusion
  BY MutexInvImpliesExclusion DEF FanOutInv
<1> QED
  BY <1>1, FanOutInvariance, PTL

(* process: the units attempted and those still queued are the selected    *)
(* strategies in ascending order, whichever units failed.                  *)
THEOREM NobodySkipped == Spec => []EveryoneAttempted
<1>1. FanOutInv => EveryoneAttempted
  BY DEF FanOutInv
<1> QED
  BY <1>1, FanOutInvariance, PTL

(* load_snapshot and select: however the files are edited during a scan,   *)
(* the bar thread works only for a strategy that was enabled since the bar *)
(* began and trades on the bar's stream.                                   *)
THEOREM NobodyInvented == Spec => []OnlyDeployedProcessed
<1>1. FanOutInv => OnlyDeployedProcessed
  BY FanOutInvImplies
<1> QED
  BY <1>1, FanOutInvariance, PTL
=============================================================================
