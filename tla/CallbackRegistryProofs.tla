----------------------- MODULE CallbackRegistryProofs ------------------------
(***************************************************************************)
(* Proofs about the list of callbacks, for every number of clients, threads *)
(* and calls.                                                              *)
(***************************************************************************)
EXTENDS CallbackRegistry, SequenceTheorems, TLAPS

Entries == Clients \union {Hole}

LEMMA LengthOfDomain ==
  ASSUME NEW S, NEW n \in Nat, NEW f \in [1..n -> S]
  PROVE  f \in Seq(S) /\ Len(f) = n
<1>1. f \in Seq(S)
  BY SeqDef
<1>2. 1..Len(f) = 1..n /\ Len(f) \in Nat
  BY <1>1, LenProperties
<1> QED BY <1>1, <1>2

LEMMA WithoutIs ==
  ASSUME NEW S, NEW l \in Seq(S), NEW i \in 1..Len(l)
  PROVE  /\ Without(l, i) \in Seq(S)
         /\ Len(Without(l, i)) = Len(l) - 1
         /\ \A j \in 1..(Len(l) - 1) : Without(l, i)[j] = IF j < i THEN l[j] ELSE l[j + 1]
<1>1. Len(l) \in Nat /\ Len(l) - 1 \in Nat /\ \A j \in 1..Len(l) : l[j] \in S
  BY LenProperties, ElementOfSeq
<1>2. \A j \in 1..(Len(l) - 1) : (IF j < i THEN l[j] ELSE l[j + 1]) \in S
  BY <1>1
<1>3. Without(l, i) \in [1..(Len(l) - 1) -> S]
  BY <1>2 DEF Without
<1>4. \A j \in 1..(Len(l) - 1) : Without(l, i)[j] = IF j < i THEN l[j] ELSE l[j + 1]
  BY DEF Without
<1> QED BY <1>1, <1>3, <1>4, LengthOfDomain

(* What ArrayList.add() leaves when it has read the size n.                *)
Stored(l, n, c) ==
  [i \in 1..(n + 1) |-> IF i = n + 1 THEN c ELSE IF i <= Len(l) THEN l[i] ELSE Hole]

(* new is l with c in the place of element n + 1 and nothing after it.      *)
IsStored(new, l, n, c) ==
  /\ new \in Seq(Entries) /\ Len(new) = n + 1 /\ new[n + 1] = c
  /\ \A i \in 1..n : new[i] = IF i <= Len(l) THEN l[i] ELSE Hole

LEMMA StoredIs ==
  ASSUME NEW l \in Seq(Entries), NEW n \in Nat, NEW c \in Entries
  PROVE  IsStored(Stored(l, n, c), l, n, c)
<1>1. Len(l) \in Nat /\ \A j \in 1..Len(l) : l[j] \in Entries
  BY LenProperties, ElementOfSeq
<1>2. \A i \in 1..(n + 1) :
        (IF i = n + 1 THEN c ELSE IF i <= Len(l) THEN l[i] ELSE Hole) \in Entries
  BY <1>1 DEF Entries
<1>3. Stored(l, n, c) \in [1..(n + 1) -> Entries]
  BY <1>2 DEF Stored
<1>4. \A i \in 1..(n + 1) :
        Stored(l, n, c)[i] = IF i = n + 1 THEN c ELSE IF i <= Len(l) THEN l[i] ELSE Hole
  BY DEF Stored
<1>5. Stored(l, n, c) \in Seq(Entries) /\ Len(Stored(l, n, c)) = n + 1
  BY <1>3, LengthOfDomain
<1> QED BY <1>4, <1>5 DEF IsStored

-----------------------------------------------------------------------------
(* Whoever searches the list has the lock.                                 *)
Locked ==
  \A t \in Threads :
    pc[t] = "scan" \/ (pc[t] = "identify" /\ job[t] = "unregister") => lock = t

TypeInv == TypeOK /\ Locked

LEMMA InitType == Init => TypeInv
<1> SUFFICES ASSUME Init PROVE TypeInv
  OBVIOUS
<1>1. << >> \in Seq(Entries) /\ list = << >>
  BY EmptySeq DEF Init
<1>2. /\ 0 \in Nat /\ 0 \in 0..MaxCalls /\ Hole \in Entries
      /\ "idle" \in {"idle", "identify", "lock", "scan", "add", "store"}
      /\ "none" \in {"none", "register", "unregister"}
  BY RegistryAssumption DEF Entries
<1>3. /\ pc \in [Threads -> {"idle", "identify", "lock", "scan", "add", "store"}]
      /\ job \in [Threads -> {"none", "register", "unregister"}]
      /\ cb \in [Threads -> Entries]
  BY <1>2 DEF Init
<1>4. /\ cursor \in [Threads -> Nat] /\ modified \in [Threads -> BOOLEAN]
      /\ size \in [Threads -> Nat]
      /\ said \in [Clients -> {"none", "register", "unregister"}]
  BY <1>2 DEF Init
<1>5. \A t \in Threads : pc[t] = "idle"
  BY DEF Init
<1>6. dead \subseteq Clients /\ twice \subseteq Clients /\ crowded \in BOOLEAN
      /\ calls \in 0..MaxCalls /\ lock \in Threads \union {NoThread}
  BY <1>2 DEF Init
<1>7. list \in Seq(Clients \union {Hole})
  BY <1>1 DEF Entries
<1>8. TypeOK
  BY <1>3, <1>4, <1>5, <1>6, <1>7 DEF TypeOK, Busy, Entries
<1> QED BY <1>5, <1>8 DEF TypeInv, Locked

LEMMA CallerInCall ==
  ASSUME TypeInv, NEW t \in Threads, pc[t] # "idle"
  PROVE  cb[t] \in Clients /\ job[t] \in {"register", "unregister"}
BY DEF TypeInv, TypeOK, Busy

LEMMA EndsType ==
  ASSUME TypeInv, NEW t \in Threads, pc[t] # "idle", Ends(t),
         list' \in Seq(Entries), size' \in [Threads -> Nat]
  PROVE  TypeInv'
<1>1. cb[t] \in Clients /\ job[t] \in {"register", "unregister"}
  BY CallerInCall
<1>2. TypeOK'
  BY <1>1 DEF Ends, iterators, TypeInv, TypeOK, Busy, Entries
<1> QED BY <1>2, RegistryAssumption DEF Ends, TypeInv, TypeOK, Locked

LEMMA TypeStep == TypeInv /\ [Next]_vars => TypeInv'
<1> SUFFICES ASSUME TypeInv, [Next]_vars PROVE TypeInv'
  OBVIOUS
<1>0. list \in Seq(Entries) /\ Len(list) \in Nat /\ size \in [Threads -> Nat]
  BY LenProperties DEF TypeInv, TypeOK, Entries
<1>1. ASSUME NEW t \in Threads, NEW c \in Clients, NEW method \in {"register", "unregister"},
             Call(t, c, method)
      PROVE  TypeInv'
  <2>1. TypeOK'
    BY <1>1, RegistryAssumption DEF Call, iterators, TypeInv, TypeOK, Busy
  <2> QED BY <1>1, <2>1 DEF Call, TypeInv, TypeOK, Locked, Busy
<1>2. ASSUME NEW t \in Threads, Identify(t) PROVE TypeInv'
  <2>1. CASE Ends(t)
    BY <1>0, <1>2, <2>1, EndsType DEF Identify
  <2>2. CASE ~Ends(t)
    <3>1. /\ pc' = [pc EXCEPT ![t] = IF lock = t THEN "scan" ELSE "lock"]
          /\ pc[t] = "identify"
          /\ UNCHANGED <<list, lock, job, cb, iterators, size, dead, calls, history>>
      BY <1>2, <2>2 DEF Identify, Moves
    <3>2. TypeOK'
      BY <3>1 DEF iterators, history, TypeInv, TypeOK, Busy
    <3> QED BY <3>1, <3>2 DEF TypeInv, TypeOK, Locked
  <2> QED BY <2>1, <2>2
<1>3. ASSUME NEW t \in Threads, Lock(t) PROVE TypeInv'
  <2>1. TypeOK'
    BY <1>3 DEF Lock, Moves, history, TypeInv, TypeOK, Busy
  <2> QED BY <1>3, <2>1, RegistryAssumption DEF Lock, Moves, TypeInv, TypeOK, Locked
<1>4. ASSUME NEW t \in Threads, ScanEnds(t) PROVE TypeInv'
  <2>1. CASE Ends(t)
    BY <1>0, <1>4, <2>1, EndsType DEF ScanEnds
  <2>2. CASE ~Ends(t)
    <3>1. TypeOK'
      BY <1>4, <2>2 DEF ScanEnds, Moves, iterators, history, TypeInv, TypeOK, Busy
    <3> QED BY <1>4, <2>2, <3>1, RegistryAssumption DEF ScanEnds, Moves, TypeInv, TypeOK, Locked
  <2> QED BY <2>1, <2>2
<1>5. ASSUME NEW t \in Threads, ScanThrows(t) PROVE TypeInv'
  BY <1>0, <1>5, EndsType DEF ScanThrows
<1>6. ASSUME NEW t \in Threads, ScanPasses(t) PROVE TypeInv'
  <2>1. cursor' \in [Threads -> Nat]
    BY <1>6 DEF ScanPasses, TypeInv, TypeOK
  <2> QED BY <1>6, <2>1 DEF ScanPasses, history, TypeInv, TypeOK, Locked, Busy
<1>7. ASSUME NEW t \in Threads, ScanFinds(t) PROVE TypeInv'
  <2>1. cursor[t] + 1 \in 1..Len(list)
    BY <1>0, <1>7, CallerInCall, RegistryAssumption DEF ScanFinds, Nexts, TypeInv, TypeOK
  <2>2. list' \in Seq(Entries)
    BY <1>0, <1>7, <2>1, WithoutIs DEF ScanFinds
  <2> QED BY <1>0, <1>7, <2>2, EndsType DEF ScanFinds
<1>8. ASSUME NEW t \in Threads, AddReads(t) PROVE TypeInv'
  <2>1. size' \in [Threads -> Nat] /\ modified' \in [Threads -> BOOLEAN]
    BY <1>0, <1>8 DEF AddReads
  <2>2. TypeOK'
    BY <1>8, <2>1 DEF AddReads, Moves, history, TypeInv, TypeOK, Busy
  <2> QED BY <1>8, <2>2 DEF AddReads, Moves, TypeInv, TypeOK, Locked
<1>9. ASSUME NEW t \in Threads, AddStores(t) PROVE TypeInv'
  <2>1. cb[t] \in Entries /\ size[t] \in Nat /\ list' = Stored(list, size[t], cb[t])
    BY <1>0, <1>9 DEF AddStores, Stored, TypeInv, TypeOK, Entries
  <2>2. list' \in Seq(Entries)
    BY <1>0, <2>1, StoredIs DEF IsStored
  <2> QED BY <1>0, <1>9, <2>2, EndsType DEF AddStores
<1>10. ASSUME NEW c \in Clients, Die(c) PROVE TypeInv'
  BY <1>10 DEF Die, iterators, history, TypeInv, TypeOK, Locked, Busy
<1>11. CASE Clear
  <2>1. << >> \in Seq(Entries)
    BY EmptySeq
  <2> QED
    BY <1>11, <2>1, RegistryAssumption DEF Clear, iterators, TypeInv, TypeOK, Locked, Busy, Entries
<1>12. CASE UNCHANGED vars
  BY <1>12 DEF vars, iterators, history, TypeInv, TypeOK, Locked, Busy
<1> QED
  BY <1>1, <1>2, <1>3, <1>4, <1>5, <1>6, <1>7, <1>8, <1>9, <1>10, <1>11, <1>12 DEF Next, Over

LEMMA Invariant == Spec => []TypeInv
<1> QED BY InitType, TypeStep, PTL DEF Spec

(* The list holds clients and nulls, and every thread is in one of the     *)
(* methods with a client's callback or in none.                            *)
THEOREM TypeCorrect == Spec => []TypeOK
<1>1. TypeInv => TypeOK
  BY DEF TypeInv
<1> QED BY <1>1, Invariant, PTL

-----------------------------------------------------------------------------
(* Nobody else has the lock.                                               *)
Excluded ==
  \A t \in Threads :
    lock = t => pc[t] = "scan" \/ (pc[t] = "identify" /\ job[t] = "unregister")

(* twice has the clients of any two calls in progress at once.             *)
Overlaps ==
  \A t, u \in Threads : t # u /\ Busy(t) /\ Busy(u) /\ cb[t] = cb[u] => cb[t] \in twice

(* registerCallback has not met its own client so far,                     *)
Searched ==
  \A t \in Threads : pc[t] = "scan" /\ job[t] = "register" /\ cb[t] \notin twice =>
    \A i \in 1..Len(list) : i <= cursor[t] => list[i] # cb[t]

(* and, once it is to be added, the client is not in the list.             *)
Absent ==
  \A t \in Threads : pc[t] \in {"add", "store"} /\ cb[t] \notin twice =>
    \A i \in 1..Len(list) : list[i] # cb[t]

DupInv ==
  /\ TypeInv /\ Excluded /\ Overlaps /\ Searched /\ Absent
  /\ DuplicateNeedsOverlap

LEMMA EndsExcluded ==
  ASSUME DupInv, NEW t \in Threads, pc[t] # "idle", Ends(t)
  PROVE  Excluded' /\ Overlaps'
<1>1. /\ pc' = [pc EXCEPT ![t] = "idle"] /\ job' = [job EXCEPT ![t] = "none"]
      /\ cb' = [cb EXCEPT ![t] = Hole] /\ twice' = twice
      /\ lock' = IF lock = t THEN NoThread ELSE lock
  BY DEF Ends
<1>2. /\ pc \in [Threads -> {"idle", "identify", "lock", "scan", "add", "store"}]
      /\ job \in [Threads -> {"none", "register", "unregister"}]
      /\ cb \in [Threads -> Clients \union {Hole}]
  BY DEF DupInv, TypeInv, TypeOK
<1>3. /\ pc'[t] = "idle"
      /\ \A u \in Threads : u # t => pc'[u] = pc[u] /\ job'[u] = job[u] /\ cb'[u] = cb[u]
  BY <1>1, <1>2
<1>4. Excluded'
  BY <1>1, <1>3, RegistryAssumption DEF DupInv, Excluded
<1>5. Overlaps'
  BY <1>1, <1>3 DEF DupInv, Overlaps, Busy
<1> QED BY <1>4, <1>5

(* What the end of a call leaves of the rest, by what became of the list.  *)
LEMMA EndsSearched ==
  ASSUME DupInv, NEW t \in Threads, pc[t] # "idle", Ends(t),
         list' \in Seq(Entries),
         \A i \in 1..Len(list') : \/ i \in 1..Len(list) /\ list'[i] = list[i]
                                 \/ list'[i] = Hole \/ list'[i] = cb[t]
  PROVE  Searched' /\ Absent'
<1>1. /\ pc' = [pc EXCEPT ![t] = "idle"] /\ job' = [job EXCEPT ![t] = "none"]
      /\ cb' = [cb EXCEPT ![t] = Hole] /\ twice' = twice /\ cursor' = cursor
  BY DEF Ends, iterators
<1>2. /\ pc \in [Threads -> {"idle", "identify", "lock", "scan", "add", "store"}]
      /\ job \in [Threads -> {"none", "register", "unregister"}]
      /\ cb \in [Threads -> Clients \union {Hole}]
  BY DEF DupInv, TypeInv, TypeOK
<1>3. /\ pc'[t] = "idle"
      /\ \A u \in Threads : u # t => pc'[u] = pc[u] /\ job'[u] = job[u] /\ cb'[u] = cb[u]
  BY <1>1, <1>2
<1>4. \A u \in Threads : u # t /\ pc[u] # "idle" /\ cb[u] \notin twice =>
        cb[u] # cb[t] /\ cb[u] # Hole
  BY RegistryAssumption DEF DupInv, Overlaps, TypeInv, TypeOK, Busy
<1>5. Searched'
  <2> SUFFICES ASSUME NEW u \in Threads, u # t, pc[u] = "scan", job[u] = "register",
                      cb[u] \notin twice, NEW i \in 1..Len(list'), i <= cursor[u]
               PROVE  list'[i] # cb[u]
    BY <1>1, <1>3 DEF Searched
  <2>1. cb[u] # cb[t] /\ cb[u] # Hole
    BY <1>4
  <2>2. i \in 1..Len(list) => list[i] # cb[u]
    BY DEF DupInv, Searched
  <2> QED BY <2>1, <2>2
<1>6. Absent'
  <2> SUFFICES ASSUME NEW u \in Threads, u # t, pc[u] \in {"add", "store"},
                      cb[u] \notin twice, NEW i \in 1..Len(list')
               PROVE  list'[i] # cb[u]
    BY <1>1, <1>3 DEF Absent
  <2>1. cb[u] # cb[t] /\ cb[u] # Hole
    BY <1>4
  <2>2. i \in 1..Len(list) => list[i] # cb[u]
    BY DEF DupInv, Absent
  <2> QED BY <2>1, <2>2
<1> QED BY <1>5, <1>6

(* A call that ends with the list as it was.                               *)
LEMMA EndsAsItWas ==
  ASSUME DupInv, TypeInv', NEW t \in Threads, pc[t] # "idle", Ends(t), list' = list
  PROVE  DupInv'
<1>1. list \in Seq(Entries)
  BY DEF DupInv, TypeInv, TypeOK, Entries
<1>2. Searched' /\ Absent'
  BY <1>1, EndsSearched
<1>3. DuplicateNeedsOverlap'
  BY DEF DupInv, DuplicateNeedsOverlap, Ends
<1> QED BY <1>2, <1>3, EndsExcluded DEF DupInv

LEMMA DupRemoves ==
  ASSUME DupInv, TypeInv', NEW t \in Threads, ScanFinds(t), job[t] # "register"
  PROVE  DupInv'
<1>0. list \in Seq(Entries) /\ Len(list) \in Nat /\ cursor[t] \in Nat
  BY LenProperties DEF DupInv, TypeInv, TypeOK, Entries
<1>1. cursor[t] + 1 \in 1..Len(list)
  BY <1>0, CallerInCall, RegistryAssumption DEF ScanFinds, Nexts, DupInv
<1>2. list' = Without(list, cursor[t] + 1) /\ Ends(t) /\ pc[t] = "scan"
  BY DEF ScanFinds
<1> DEFINE n == cursor[t] + 1
           at(j) == IF j < n THEN j ELSE j + 1
<1>3. /\ list' \in Seq(Entries) /\ Len(list') = Len(list) - 1
      /\ \A j \in 1..Len(list') : at(j) \in 1..Len(list) /\ list'[j] = list[at(j)]
  <2>1. n \in 1..Len(list) /\ list' = Without(list, n)
    BY <1>1, <1>2
  <2> HIDE DEF n
  <2>2. /\ list' \in Seq(Entries) /\ Len(list') = Len(list) - 1
        /\ \A j \in 1..(Len(list) - 1) : list'[j] = IF j < n THEN list[j] ELSE list[j + 1]
    BY <1>0, <2>1, WithoutIs
  <2>3. \A j \in 1..Len(list') : at(j) \in 1..Len(list) /\ list'[j] = list[at(j)]
    BY <1>0, <2>1, <2>2
  <2> QED BY <2>2, <2>3
<1>4. \A i, j \in 1..Len(list') : i # j => at(i) # at(j)
  BY <1>0, <1>3
<1>5. DuplicateNeedsOverlap'
  <2> SUFFICES ASSUME NEW i \in 1..Len(list'), NEW j \in 1..Len(list'), i # j, list'[i] = list'[j]
               PROVE  list'[i] \in twice' \union {Hole}
    BY DEF DuplicateNeedsOverlap
  <2>1. /\ at(i) \in 1..Len(list) /\ at(j) \in 1..Len(list) /\ at(i) # at(j)
        /\ list'[i] = list[at(i)] /\ list'[j] = list[at(j)]
    BY <1>3, <1>4
  <2> HIDE DEF at
  <2>2. list[at(i)] \in twice \union {Hole}
    BY <2>1 DEF DupInv, DuplicateNeedsOverlap
  <2> QED BY <1>2, <2>1, <2>2 DEF Ends
<1>6. /\ pc' = [pc EXCEPT ![t] = "idle"] /\ cb' = [cb EXCEPT ![t] = Hole] /\ twice' = twice
      /\ pc \in [Threads -> {"idle", "identify", "lock", "scan", "add", "store"}]
      /\ cb \in [Threads -> Clients \union {Hole}]
  BY <1>2 DEF Ends, DupInv, TypeInv, TypeOK
<1>7. Searched'
  BY <1>2, <1>6 DEF DupInv, TypeInv, Locked, Searched
<1>8. Absent'
  <2> SUFFICES ASSUME NEW u \in Threads, u # t, pc[u] \in {"add", "store"},
                      cb[u] \notin twice, NEW j \in 1..Len(list')
               PROVE  list'[j] # cb[u]
    BY <1>6 DEF Absent
  <2>1. at(j) \in 1..Len(list) /\ list'[j] = list[at(j)]
    BY <1>3
  <2> HIDE DEF at
  <2> QED BY <2>1 DEF DupInv, Absent
<1> QED BY <1>2, <1>5, <1>7, <1>8, EndsExcluded DEF DupInv

LEMMA DupStores ==
  ASSUME DupInv, TypeInv', NEW t \in Threads, AddStores(t)
  PROVE  DupInv'
<1>0. list \in Seq(Entries) /\ Len(list) \in Nat /\ size[t] \in Nat /\ cb[t] \in Entries
  BY LenProperties DEF DupInv, TypeInv, TypeOK, Entries
<1>1. list' = Stored(list, size[t], cb[t]) /\ Ends(t) /\ pc[t] = "store" /\ twice' = twice
  BY DEF AddStores, Stored, Ends
<1>2. /\ list' \in Seq(Entries) /\ Len(list') = size[t] + 1 /\ list'[size[t] + 1] = cb[t]
      /\ \A i \in 1..size[t] : list'[i] = IF i <= Len(list) THEN list[i] ELSE Hole
  <2>1. IsStored(list', list, size[t], cb[t])
    BY <1>0, <1>1, StoredIs
  <2> QED BY <2>1 DEF IsStored
<1>3. \A i \in 1..Len(list') : \/ i \in 1..Len(list) /\ list'[i] = list[i]
                               \/ list'[i] = Hole \/ list'[i] = cb[t]
  BY <1>0, <1>2
<1>4. Searched' /\ Absent'
  BY <1>1, <1>2, <1>3, EndsSearched
<1>5. DuplicateNeedsOverlap'
  <2>1. ASSUME NEW i \in 1..Len(list'), NEW j \in 1..Len(list'), i < j,
               list'[i] = list'[j], list'[i] # Hole
        PROVE  list'[i] \in twice
    <3>1. i \in 1..size[t] /\ list'[i] = IF i <= Len(list) THEN list[i] ELSE Hole
      BY <1>0, <1>2, <2>1
    <3>2. i \in 1..Len(list) /\ list'[i] = list[i]
      BY <1>0, <2>1, <3>1
    <3>3. CASE j = size[t] + 1
      BY <1>1, <1>2, <2>1, <3>2, <3>3 DEF DupInv, Absent
    <3>4. CASE j # size[t] + 1
      <4>1. j \in 1..size[t] /\ list'[j] = IF j <= Len(list) THEN list[j] ELSE Hole
        BY <1>0, <1>2, <2>1, <3>4
      <4>2. j \in 1..Len(list) /\ list'[j] = list[j]
        BY <1>0, <2>1, <4>1
      <4>3. i # j /\ list[i] = list[j]
        <5>1. i # j
          BY <1>0, <2>1, <3>1, <4>1
        <5>2. list[i] = list[j]
          BY <2>1, <3>2, <4>2, Zenon
        <5> QED BY <5>1, <5>2
      <4>4. DuplicateNeedsOverlap
        BY DEF DupInv
      <4>5. list[i] \in twice \union {Hole}
        BY <3>2, <4>2, <4>3, <4>4 DEF DuplicateNeedsOverlap
      <4> QED BY <2>1, <3>2, <4>5
    <3> QED BY <3>3, <3>4
  <2>2. ASSUME NEW i \in 1..Len(list'), NEW j \in 1..Len(list'), i # j, list'[i] = list'[j]
        PROVE  list'[i] \in twice \union {Hole}
    <3>1. Len(list') \in Nat
      BY <1>0, <1>2
    <3>2. i < j \/ j < i
      BY <2>2, <3>1
    <3> QED BY <2>1, <2>2, <3>2
  <2> QED BY <1>1, <2>2 DEF DuplicateNeedsOverlap
<1> QED BY <1>1, <1>4, <1>5, EndsExcluded DEF DupInv

LEMMA DupInit == Init => DupInv
<1> SUFFICES ASSUME Init PROVE DupInv
  OBVIOUS
<1>1. /\ TypeInv /\ Len(list) = 0 /\ lock = NoThread
      /\ \A t \in Threads : pc[t] = "idle"
  BY InitType DEF Init
<1> QED BY <1>1, RegistryAssumption
        DEF DupInv, Excluded, Overlaps, Searched, Absent, DuplicateNeedsOverlap, Busy

(* A step within a call that leaves the list as it is.                     *)
LEMMA DupMoves ==
  ASSUME DupInv, TypeInv', NEW t \in Threads, NEW to, Moves(t, to), list' = list,
         to # "idle", pc[t] # "idle", Excluded', Searched', Absent'
  PROVE  DupInv'
<1>1. /\ pc' = [pc EXCEPT ![t] = to] /\ cb' = cb /\ twice' = twice
      /\ pc \in [Threads -> {"idle", "identify", "lock", "scan", "add", "store"}]
  BY DEF Moves, history, DupInv, TypeInv, TypeOK
<1>2. Overlaps'
  BY <1>1 DEF DupInv, Overlaps, Busy
<1>3. DuplicateNeedsOverlap'
  BY <1>1 DEF DupInv, DuplicateNeedsOverlap
<1> QED BY <1>2, <1>3 DEF DupInv

LEMMA DupStep == DupInv /\ [Next]_vars => DupInv'
<1> SUFFICES ASSUME DupInv, [Next]_vars PROVE DupInv'
  OBVIOUS
<1>0. /\ TypeInv /\ TypeInv' /\ list \in Seq(Entries) /\ Len(list) \in Nat
      /\ pc \in [Threads -> {"idle", "identify", "lock", "scan", "add", "store"}]
      /\ job \in [Threads -> {"none", "register", "unregister"}]
      /\ cb \in [Threads -> Clients \union {Hole}]
      /\ cursor \in [Threads -> Nat]
  BY TypeStep, LenProperties DEF DupInv, TypeInv, TypeOK, Entries
<1>1. ASSUME NEW t \in Threads, NEW c \in Clients, NEW method \in {"register", "unregister"},
             Call(t, c, method)
      PROVE  DupInv'
  <2>1. /\ pc[t] = "idle" /\ pc'[t] \in {"identify", "lock"} /\ cb'[t] = c
        /\ (pc'[t] = "identify" => method = "register")
        /\ \A u \in Threads : u # t => pc'[u] = pc[u] /\ job'[u] = job[u] /\ cb'[u] = cb[u]
        /\ list' = list /\ lock' = lock /\ cursor' = cursor /\ twice \subseteq twice'
        /\ (\E u \in Threads : Busy(u) /\ cb[u] = c) => c \in twice'
    BY <1>0, <1>1 DEF Call, Busy, iterators
  <2>2. Excluded'
    BY <2>1 DEF DupInv, Excluded
  <2>3. Overlaps'
    BY <2>1 DEF DupInv, Overlaps, Busy
  <2>4. Searched' /\ Absent'
    BY <2>1 DEF DupInv, Searched, Absent
  <2>5. DuplicateNeedsOverlap'
    BY <2>1 DEF DupInv, DuplicateNeedsOverlap
  <2> QED BY <1>0, <2>2, <2>3, <2>4, <2>5 DEF DupInv
<1>2. ASSUME NEW t \in Threads, Identify(t) PROVE DupInv'
  <2>1. CASE Ends(t)
    BY <1>0, <1>2, <2>1, EndsAsItWas DEF Identify
  <2>2. CASE ~Ends(t)
    <3> DEFINE to == IF lock = t THEN "scan" ELSE "lock"
    <3>1. /\ pc[t] = "identify" /\ Moves(t, to)
          /\ UNCHANGED <<list, lock, job, cb, cursor, twice>>
      BY <1>2, <2>2 DEF Identify, Moves, iterators, history
    <3>2. /\ pc' = [pc EXCEPT ![t] = to] /\ (to = "scan" => lock = t)
          /\ (to = "scan" => job[t] = "unregister") /\ (lock = t => to = "scan")
          /\ to \in {"scan", "lock"}
      BY <3>1 DEF Moves, DupInv, Excluded
    <3> HIDE DEF to
    <3>3. Excluded'
      BY <1>0, <3>1, <3>2 DEF DupInv, Excluded
    <3>4. Searched' /\ Absent'
      BY <1>0, <3>1, <3>2 DEF DupInv, Searched, Absent
    <3> QED BY <1>0, <3>1, <3>2, <3>3, <3>4, DupMoves
  <2> QED BY <2>1, <2>2
<1>3. ASSUME NEW t \in Threads, Lock(t) PROVE DupInv'
  <2> DEFINE to == IF job[t] = "register" THEN "scan" ELSE "identify"
  <2>1. /\ pc[t] = "lock" /\ lock = NoThread /\ lock' = t /\ Moves(t, to)
        /\ UNCHANGED <<list, job, cb, twice>>
        /\ cursor' = [cursor EXCEPT ![t] = 0]
    BY <1>3 DEF Lock, Moves, history
  <2>2. job[t] \in {"register", "unregister"}
    BY <1>0, <2>1, CallerInCall
  <2>3. /\ pc' = [pc EXCEPT ![t] = to] /\ to \in {"scan", "identify"}
        /\ (to = "identify" => job[t] = "unregister")
    BY <2>1, <2>2 DEF Moves
  <2> HIDE DEF to
  <2>4. Excluded'
    BY <1>0, <2>1, <2>3 DEF Excluded
  <2>5. Searched' /\ Absent'
    BY <1>0, <2>1, <2>3 DEF DupInv, Searched, Absent
  <2> QED BY <1>0, <2>1, <2>3, <2>4, <2>5, DupMoves
<1>4. ASSUME NEW t \in Threads, ScanEnds(t) PROVE DupInv'
  <2>1. CASE Ends(t)
    BY <1>0, <1>4, <2>1, EndsAsItWas DEF ScanEnds
  <2>2. CASE ~Ends(t)
    <3>1. /\ pc[t] = "scan" /\ job[t] = "register" /\ cursor[t] = Len(list)
          /\ Moves(t, "add") /\ lock' = NoThread
          /\ UNCHANGED <<list, job, cb, cursor, twice>>
      BY <1>4, <2>2 DEF ScanEnds, Moves, iterators, history
    <3>2. pc' = [pc EXCEPT ![t] = "add"]
      BY <3>1 DEF Moves
    <3>3. Excluded'
      BY <3>1, RegistryAssumption DEF Excluded
    <3>4. Searched'
      BY <1>0, <3>1, <3>2 DEF DupInv, Searched
    <3>5. Absent'
      BY <1>0, <3>1, <3>2 DEF DupInv, Searched, Absent
    <3> QED BY <1>0, <3>1, <3>3, <3>4, <3>5, DupMoves
  <2> QED BY <2>1, <2>2
<1>5. ASSUME NEW t \in Threads, ScanThrows(t) PROVE DupInv'
  BY <1>0, <1>5, EndsAsItWas DEF ScanThrows
<1>6. ASSUME NEW t \in Threads, ScanPasses(t) PROVE DupInv'
  <2>1. /\ UNCHANGED <<list, lock, pc, job, cb, twice>> /\ pc[t] = "scan"
        /\ cursor' = [cursor EXCEPT ![t] = @ + 1] /\ Nexts(t) # Hole /\ Nexts(t) # cb[t]
    BY <1>6 DEF ScanPasses, history
  <2>2. cursor[t] < Len(list) => list[cursor[t] + 1] # cb[t]
    BY <2>1 DEF Nexts
  <2>3. cursor[t] < Len(list)
    BY <2>1 DEF Nexts
  <2>4. Searched'
    <3> SUFFICES ASSUME NEW u \in Threads, pc[u] = "scan", job[u] = "register",
                        cb[u] \notin twice, NEW i \in 1..Len(list), i <= cursor'[u]
                 PROVE  list[i] # cb[u]
      BY <2>1 DEF Searched
    <3>1. CASE i <= cursor[u]
      BY <3>1 DEF DupInv, Searched
    <3>2. CASE ~(i <= cursor[u])
      <4>1. u = t /\ i = cursor[t] + 1
        BY <1>0, <2>1, <3>2
      <4> QED BY <2>2, <2>3, <4>1
    <3> QED BY <3>1, <3>2
  <2>5. Excluded' /\ Overlaps' /\ Absent' /\ DuplicateNeedsOverlap'
    BY <2>1 DEF DupInv, Excluded, Overlaps, Absent, DuplicateNeedsOverlap, Busy
  <2> QED BY <1>0, <2>4, <2>5 DEF DupInv
<1>7. ASSUME NEW t \in Threads, ScanFinds(t) PROVE DupInv'
  <2>1. CASE job[t] = "register"
    BY <1>0, <1>7, <2>1, EndsAsItWas DEF ScanFinds
  <2>2. CASE job[t] # "register"
    BY <1>0, <1>7, <2>2, DupRemoves
  <2> QED BY <2>1, <2>2
<1>8. ASSUME NEW t \in Threads, AddReads(t) PROVE DupInv'
  <2>1. /\ pc[t] = "add" /\ Moves(t, "store") /\ pc' = [pc EXCEPT ![t] = "store"]
        /\ UNCHANGED <<list, lock, job, cb, cursor, twice>>
    BY <1>8 DEF AddReads, Moves, history
  <2>2. Excluded'
    BY <1>0, <2>1 DEF DupInv, Excluded
  <2>3. Searched' /\ Absent'
    BY <1>0, <2>1 DEF DupInv, Searched, Absent
  <2> QED BY <1>0, <2>1, <2>2, <2>3, DupMoves
<1>9. ASSUME NEW t \in Threads, AddStores(t) PROVE DupInv'
  BY <1>0, <1>9, DupStores
<1>10. ASSUME NEW c \in Clients, Die(c) PROVE DupInv'
  BY <1>0, <1>10 DEF Die, iterators, history, DupInv, Excluded, Overlaps, Searched, Absent,
                     DuplicateNeedsOverlap, Busy
<1>11. CASE Clear
  <2>1. Len(list') = 0 /\ UNCHANGED <<lock, pc, job, cb, twice>>
    BY <1>11 DEF Clear
  <2> QED BY <1>0, <2>1 DEF DupInv, Excluded, Overlaps, Searched, Absent,
                            DuplicateNeedsOverlap, Busy
<1>12. CASE UNCHANGED vars
  BY <1>0, <1>12 DEF vars, iterators, history, DupInv, Excluded, Overlaps, Searched, Absent,
                     DuplicateNeedsOverlap, Busy
<1> QED
  BY <1>1, <1>2, <1>3, <1>4, <1>5, <1>6, <1>7, <1>8, <1>9, <1>10, <1>11, <1>12 DEF Next, Over

(* registerCallback looks for a duplicate and adds in two steps: a client   *)
(* is in the list twice only if it has made two calls at once, for any      *)
(* number of clients and threads.                                          *)
THEOREM NoDuplicateWithoutOverlap == Spec => []DuplicateNeedsOverlap
<1>1. DupInv => DuplicateNeedsOverlap
  BY DEF DupInv
<1> QED BY <1>1, DupInit, DupStep, PTL DEF Spec

-----------------------------------------------------------------------------
(* What an answer means until two calls have been in progress at once.  The *)
(* call in progress is alone,                                              *)
Alone == \A t, u \in Threads : Busy(t) /\ Busy(u) => t = u

(* the list is solid: no element of it is null,                            *)
Solid == \A i \in 1..Len(list) : list[i] # Hole

(* what registerCallback adds goes after the last element, for the size it *)
(* has read is still the size of the list,                                 *)
Counted ==
  \A t \in Threads :
    /\ pc[t] \in {"add", "store"} => job[t] = "register"
    /\ pc[t] = "store" => size[t] = Len(list)

(* and an iterator is that of the list as it is, and has not met the       *)
(* callback it is to find.                                                 *)
Steady ==
  \A t \in Threads :
    pc[t] = "scan" \/ (pc[t] = "identify" /\ lock = t) =>
      /\ ~modified[t] /\ cursor[t] <= Len(list)
      /\ \A i \in 1..Len(list) : i <= cursor[t] => list[i] # cb[t]

Orderly == twice = {} /\ Alone /\ Solid /\ Counted /\ Steady

OrderInv == DupInv /\ (~crowded => Orderly)

AnswerInv == OrderInv /\ ReturnedMeansRegistered /\ UnregisteredIsGone

(* Once the only call in progress is over there is none.                   *)
LEMMA EndsOrderly ==
  ASSUME OrderInv, NEW t \in Threads, pc[t] # "idle", Ends(t), ~crowded,
         \A i \in 1..Len(list') : list'[i] # Hole
  PROVE  Orderly'
<1>1. /\ pc' = [pc EXCEPT ![t] = "idle"] /\ twice' = twice
      /\ pc \in [Threads -> {"idle", "identify", "lock", "scan", "add", "store"}]
  BY DEF Ends, OrderInv, DupInv, TypeInv, TypeOK
<1>2. \A u \in Threads : u # t => pc[u] = "idle"
  BY DEF OrderInv, Orderly, Alone, Busy
<1>3. \A u \in Threads : pc'[u] = "idle"
  BY <1>1, <1>2
<1> QED BY <1>1, <1>3 DEF OrderInv, Orderly, Alone, Solid, Counted, Steady, Busy

(* A callback is found and taken out of a list that has it once.           *)
LEMMA Removal ==
  ASSUME OrderInv, NEW t \in Threads, ScanFinds(t), job[t] # "register", ~crowded
  PROVE  /\ \A i \in 1..Len(list') : list'[i] # Hole
         /\ \A c \in Clients \ {cb[t]} : Holds(list', c) <=> Holds(list, c)
         /\ ~Holds(list', cb[t])
         /\ cb[t] \notin dead
<1>0. list \in Seq(Entries) /\ Len(list) \in Nat /\ cursor[t] \in Nat
      /\ cb[t] \in Clients /\ cb[t] # Hole
  BY LenProperties, CallerInCall, RegistryAssumption
     DEF OrderInv, DupInv, TypeInv, TypeOK, Entries, ScanFinds
<1>1. /\ cursor[t] + 1 \in 1..Len(list) /\ list[cursor[t] + 1] = cb[t]
      /\ cb[t] \notin dead /\ list' = Without(list, cursor[t] + 1)
  BY <1>0 DEF ScanFinds, Nexts
<1> DEFINE n == cursor[t] + 1
<1>2. n \in 1..Len(list) /\ list[n] = cb[t] /\ list' = Without(list, n)
  BY <1>1
<1> HIDE DEF n
<1>3. /\ Len(list') = Len(list) - 1
      /\ \A j \in 1..(Len(list) - 1) : list'[j] = IF j < n THEN list[j] ELSE list[j + 1]
  BY <1>0, <1>2, WithoutIs
<1>4. Orderly
  BY DEF OrderInv
<1>5. \A i \in 1..Len(list) : i # n => list[i] # cb[t]
  BY <1>0, <1>2, <1>4 DEF OrderInv, DupInv, DuplicateNeedsOverlap, Orderly
<1>6. ASSUME NEW j \in 1..Len(list')
      PROVE  \E i \in 1..Len(list) : i # n /\ list'[j] = list[i]
  <2>1. CASE j < n
    BY <1>0, <1>3, <2>1
  <2>2. CASE ~(j < n)
    <3>1. j + 1 \in 1..Len(list) /\ j + 1 # n /\ list'[j] = list[j + 1]
      BY <1>0, <1>2, <1>3, <2>2
    <3> QED BY <3>1
  <2> QED BY <2>1, <2>2
<1>7. ASSUME NEW i \in 1..Len(list), i # n
      PROVE  \E j \in 1..Len(list') : list'[j] = list[i]
  <2>1. CASE i < n
    BY <1>0, <1>2, <1>3, <2>1
  <2>2. CASE ~(i < n)
    <3>1. /\ i - 1 \in 1..Len(list') /\ ~(i - 1 < n) /\ i - 1 \in 1..(Len(list) - 1)
          /\ (i - 1) + 1 = i
      BY <1>0, <1>2, <1>3, <1>7, <2>2
    <3>2. list'[i - 1] = list[i]
      BY <1>3, <3>1
    <3> QED BY <3>1, <3>2
  <2> QED BY <2>1, <2>2
<1>8. \A i \in 1..Len(list') : list'[i] # Hole
  BY <1>4, <1>6 DEF Orderly, Solid
<1>9. ASSUME NEW c \in Clients \ {cb[t]}
      PROVE  Holds(list', c) <=> Holds(list, c)
  <2>1. Holds(list', c) => Holds(list, c)
    BY <1>6 DEF Holds
  <2>2. Holds(list, c) => Holds(list', c)
    <3> SUFFICES ASSUME NEW i \in 1..Len(list), list[i] = c PROVE Holds(list', c)
      BY DEF Holds
    <3>1. i # n
      BY <1>2
    <3> QED BY <1>7, <3>1 DEF Holds
  <2> QED BY <2>1, <2>2
<1>10. ~Holds(list', cb[t])
  BY <1>5, <1>6 DEF Holds
<1> QED BY <1>1, <1>8, <1>9, <1>10

(* A callback is added at the end of a list that has not changed its size. *)
LEMMA Addition ==
  ASSUME OrderInv, NEW t \in Threads, AddStores(t), ~crowded
  PROVE  /\ \A i \in 1..Len(list') : list'[i] # Hole
         /\ \A c \in Clients \ {cb[t]} : Holds(list', c) <=> Holds(list, c)
         /\ Holds(list', cb[t])
<1>0. /\ list \in Seq(Entries) /\ Len(list) \in Nat /\ cb[t] \in Entries
      /\ cb[t] # Hole /\ Orderly /\ size[t] = Len(list)
  BY LenProperties, CallerInCall, RegistryAssumption
     DEF OrderInv, DupInv, TypeInv, TypeOK, Entries, AddStores, Orderly, Counted
<1>1. list' = Stored(list, Len(list), cb[t])
  BY <1>0 DEF AddStores, Stored
<1>2. /\ Len(list') = Len(list) + 1 /\ list'[Len(list) + 1] = cb[t]
      /\ \A i \in 1..Len(list) : list'[i] = list[i]
  <2>1. IsStored(list', list, Len(list), cb[t])
    BY <1>0, <1>1, StoredIs
  <2> QED BY <1>0, <2>1 DEF IsStored
<1>3. \A i \in 1..Len(list') : i = Len(list) + 1 \/ i \in 1..Len(list)
  BY <1>0, <1>2
<1>4. Len(list) + 1 \in 1..Len(list') /\ \A i \in 1..Len(list) : i \in 1..Len(list')
  BY <1>0, <1>2
<1>5. \A i \in 1..Len(list') : list'[i] # Hole
  BY <1>0, <1>2, <1>3 DEF Orderly, Solid
<1> QED BY <1>2, <1>3, <1>4, <1>5 DEF Holds

LEMMA OrderInit == Init => AnswerInv
<1> SUFFICES ASSUME Init PROVE AnswerInv
  OBVIOUS
<1>1. DupInv /\ Len(list) = 0 /\ twice = {} /\ \A t \in Threads : pc[t] = "idle"
  BY DupInit DEF Init
<1>2. Orderly
  BY <1>1 DEF Orderly, Alone, Solid, Counted, Steady, Busy
<1>3. \A c \in Clients : said[c] = "none"
  <2>1. said = [c \in Clients |-> "none"]
    BY DEF Init
  <2> QED BY <2>1, Zenon
<1> QED BY <1>1, <1>2, <1>3 DEF AnswerInv, OrderInv, ReturnedMeansRegistered, UnregisteredIsGone

LEMMA OrderStep == OrderInv /\ [Next]_vars => OrderInv'
<1> SUFFICES ASSUME OrderInv, [Next]_vars, ~crowded' PROVE Orderly'
  BY DupStep DEF OrderInv
<1>0. /\ DupInv /\ DupInv' /\ list \in Seq(Entries) /\ Len(list) \in Nat
      /\ pc \in [Threads -> {"idle", "identify", "lock", "scan", "add", "store"}]
      /\ job \in [Threads -> {"none", "register", "unregister"}]
      /\ cb \in [Threads -> Clients \union {Hole}]
      /\ cursor \in [Threads -> Nat] /\ modified \in [Threads -> BOOLEAN]
      /\ size \in [Threads -> Nat]
  BY DupStep, LenProperties DEF OrderInv, DupInv, TypeInv, TypeOK, Entries
<1>1. ~crowded /\ Orderly
  <2>1. crowded => crowded'
    BY DEF Next, Call, Identify, Lock, ScanEnds, ScanThrows, ScanPasses, ScanFinds, AddReads,
           AddStores, Ends, Moves, Die, Clear, Over, vars, history
  <2> QED BY <2>1 DEF OrderInv
<1>2. ASSUME NEW t \in Threads, NEW c \in Clients, NEW method \in {"register", "unregister"},
             Call(t, c, method)
      PROVE  Orderly'
  <2>1. \A u \in Threads : pc[u] = "idle"
    BY <1>2 DEF Call, Busy
  <2>2. /\ pc'[t] \in {"identify", "lock"} /\ (\A u \in Threads : u # t => pc'[u] = "idle")
        /\ (pc'[t] = "identify" => job'[t] = "register") /\ lock' = lock
        /\ list' = list /\ twice' = twice
    BY <1>0, <1>2, <2>1 DEF Call, Busy
  <2>3. pc'[t] = "identify" => lock' # t
    BY <1>0, <2>2 DEF DupInv, Excluded
  <2> QED BY <1>1, <2>2, <2>3 DEF Orderly, Alone, Solid, Counted, Steady, Busy
<1>3. ASSUME NEW t \in Threads, Identify(t) PROVE Orderly'
  <2>1. CASE Ends(t)
    BY <1>1, <1>3, <2>1, EndsOrderly DEF Identify, Orderly, Solid
  <2>2. CASE ~Ends(t)
    <3> DEFINE to == IF lock = t THEN "scan" ELSE "lock"
    <3>1. /\ pc[t] = "identify" /\ pc' = [pc EXCEPT ![t] = to]
          /\ UNCHANGED <<list, lock, job, cb, cursor, modified, twice>>
          /\ (to = "scan" => lock = t) /\ to \in {"scan", "lock"}
      BY <1>3, <2>2 DEF Identify, Moves, iterators, history
    <3> HIDE DEF to
    <3>2. \A u \in Threads : u # t => pc[u] = "idle" /\ pc'[u] = "idle"
      BY <1>0, <1>1, <3>1 DEF Orderly, Alone, Busy
    <3>3. pc'[t] \in {"scan", "lock"} /\ (pc'[t] = "scan" => lock = t)
      BY <1>0, <3>1
    <3>4. Alone' /\ Solid' /\ Counted'
      BY <1>1, <3>1, <3>2, <3>3 DEF Orderly, Alone, Solid, Counted, Busy
    <3>5. Steady'
      BY <1>1, <3>1, <3>2, <3>3 DEF Orderly, Steady
    <3> QED BY <1>1, <3>1, <3>4, <3>5 DEF Orderly
  <2> QED BY <2>1, <2>2
<1>4. ASSUME NEW t \in Threads, Lock(t) PROVE Orderly'
  <2> DEFINE to == IF job[t] = "register" THEN "scan" ELSE "identify"
  <2>1. /\ pc[t] = "lock" /\ pc' = [pc EXCEPT ![t] = to] /\ to \in {"scan", "identify"}
        /\ cursor' = [cursor EXCEPT ![t] = 0] /\ modified' = [modified EXCEPT ![t] = FALSE]
        /\ UNCHANGED <<list, job, cb, twice>>
    BY <1>4 DEF Lock, Moves, history
  <2> HIDE DEF to
  <2>2. \A u \in Threads : u # t => pc[u] = "idle" /\ pc'[u] = "idle"
    BY <1>0, <1>1, <2>1 DEF Orderly, Alone, Busy
  <2>3. pc'[t] \in {"scan", "identify"} /\ cursor'[t] = 0 /\ ~modified'[t]
    BY <1>0, <2>1
  <2>4. Alone' /\ Solid' /\ Counted'
    BY <1>1, <2>1, <2>2, <2>3 DEF Orderly, Alone, Solid, Counted, Busy
  <2>5. Steady'
    BY <1>0, <2>1, <2>2, <2>3 DEF Steady
  <2> QED BY <1>1, <2>1, <2>4, <2>5 DEF Orderly
<1>5. ASSUME NEW t \in Threads, ScanEnds(t) PROVE Orderly'
  <2>1. CASE Ends(t)
    BY <1>1, <1>5, <2>1, EndsOrderly DEF ScanEnds, Orderly, Solid
  <2>2. CASE ~Ends(t)
    <3>1. /\ pc[t] = "scan" /\ pc' = [pc EXCEPT ![t] = "add"]
          /\ UNCHANGED <<list, twice>>
      BY <1>5, <2>2 DEF ScanEnds, Moves, history
    <3>2. \A u \in Threads : u # t => pc[u] = "idle" /\ pc'[u] = "idle"
      BY <1>0, <1>1, <3>1 DEF Orderly, Alone, Busy
    <3>3. pc'[t] = "add" /\ job'[t] = "register"
      BY <1>0, <1>5, <2>2, <3>1 DEF ScanEnds, Moves
    <3> QED BY <1>1, <3>1, <3>2, <3>3 DEF Orderly, Alone, Solid, Counted, Steady, Busy
  <2> QED BY <2>1, <2>2
<1>6. ASSUME NEW t \in Threads, ScanThrows(t) PROVE Orderly'
  BY <1>1, <1>6, EndsOrderly DEF ScanThrows, Orderly, Solid
<1>7. ASSUME NEW t \in Threads, ScanPasses(t) PROVE Orderly'
  <2>1. /\ UNCHANGED <<list, lock, pc, job, cb, modified, size, twice>> /\ pc[t] = "scan"
        /\ cursor' = [cursor EXCEPT ![t] = @ + 1] /\ Nexts(t) # Hole /\ Nexts(t) # cb[t]
    BY <1>7 DEF ScanPasses, history
  <2>2. cursor[t] < Len(list) /\ list[cursor[t] + 1] # cb[t]
    BY <2>1 DEF Nexts
  <2>3. Steady'
    <3> SUFFICES ASSUME NEW u \in Threads,
                        pc[u] = "scan" \/ (pc[u] = "identify" /\ lock = u)
                 PROVE  /\ ~modified[u] /\ cursor'[u] <= Len(list)
                        /\ \A i \in 1..Len(list) : i <= cursor'[u] => list[i] # cb[u]
      BY <2>1 DEF Steady
    <3>1. u = t
      BY <1>1, <2>1 DEF Orderly, Alone, Busy
    <3>2. /\ ~modified[t] /\ cursor'[t] = cursor[t] + 1
          /\ \A i \in 1..Len(list) : i <= cursor[t] => list[i] # cb[t]
      BY <1>0, <1>1, <2>1 DEF Orderly, Steady
    <3>3. cursor'[t] <= Len(list)
      BY <1>0, <2>2, <3>2
    <3>4. ASSUME NEW i \in 1..Len(list), i <= cursor'[t] PROVE list[i] # cb[t]
      <4>1. i <= cursor[t] \/ i = cursor[t] + 1
        BY <1>0, <3>2, <3>4
      <4> QED BY <2>2, <3>2, <4>1
    <3> QED BY <3>1, <3>2, <3>3, <3>4
  <2> QED BY <1>1, <2>1, <2>3 DEF Orderly, Alone, Solid, Counted, Busy
<1>8. ASSUME NEW t \in Threads, ScanFinds(t) PROVE Orderly'
  <2>1. pc[t] # "idle" /\ Ends(t)
    BY <1>8 DEF ScanFinds
  <2>2. \A i \in 1..Len(list') : list'[i] # Hole
    <3>1. CASE job[t] = "register"
      BY <1>1, <1>8, <3>1 DEF ScanFinds, Orderly, Solid
    <3>2. CASE job[t] # "register"
      BY <1>1, <1>8, <3>2, Removal
    <3> QED BY <3>1, <3>2
  <2> QED BY <1>1, <2>1, <2>2, EndsOrderly
<1>9. ASSUME NEW t \in Threads, AddReads(t) PROVE Orderly'
  <2>1. /\ pc[t] = "add" /\ pc' = [pc EXCEPT ![t] = "store"]
        /\ size' = [size EXCEPT ![t] = Len(list)] /\ UNCHANGED <<list, twice>>
    BY <1>9 DEF AddReads, Moves, history
  <2>2. \A u \in Threads : u # t => pc[u] = "idle" /\ pc'[u] = "idle"
    BY <1>0, <1>1, <2>1 DEF Orderly, Alone, Busy
  <2>3. pc'[t] = "store" /\ size'[t] = Len(list) /\ job'[t] = "register"
    BY <1>0, <1>1, <1>9, <2>1 DEF AddReads, Moves, Orderly, Counted
  <2> QED BY <1>1, <2>1, <2>2, <2>3 DEF Orderly, Alone, Solid, Counted, Steady, Busy
<1>10. ASSUME NEW t \in Threads, AddStores(t) PROVE Orderly'
  <2>1. \A i \in 1..Len(list') : list'[i] # Hole
    BY <1>1, <1>10, Addition
  <2>2. pc[t] # "idle" /\ Ends(t)
    BY <1>10 DEF AddStores
  <2> QED BY <1>1, <2>1, <2>2, EndsOrderly
<1>11. ASSUME NEW c \in Clients, Die(c) PROVE Orderly'
  BY <1>1, <1>11 DEF Die, iterators, history, Orderly, Alone, Solid, Counted, Steady, Busy
<1>12. CASE Clear
  <2>1. /\ Len(list') = 0 /\ pc' = pc /\ twice' = twice /\ \A u \in Threads : pc[u] = "idle"
    BY <1>12 DEF Clear, Busy
  <2> QED BY <1>1, <2>1 DEF Orderly, Alone, Solid, Counted, Steady, Busy
<1>13. CASE UNCHANGED vars
  BY <1>1, <1>13 DEF vars, iterators, history, Orderly, Alone, Solid, Counted, Steady, Busy
<1> QED
  BY <1>2, <1>3, <1>4, <1>5, <1>6, <1>7, <1>8, <1>9, <1>10, <1>11, <1>12, <1>13 DEF Next, Over

(* What the end of a call says to its client, by what became of the list.  *)
LEMMA EndsAnswer ==
  ASSUME AnswerInv, NEW t \in Threads, pc[t] # "idle", Ends(t), ~crowded,
         \A c \in Clients \ {cb[t]} : Holds(list', c) <=> Holds(list, c),
         job[t] = "register" => cb[t] \in dead \/ Holds(list', cb[t]) \/ Poisoned',
         job[t] = "unregister" => ~Holds(list', cb[t]) \/ Poisoned',
         Poisoned => Poisoned'
  PROVE  (ReturnedMeansRegistered /\ UnregisteredIsGone)'
<1>0. /\ cb[t] \in Clients /\ job[t] \in {"register", "unregister"} /\ dead' = dead
      /\ said' = [said EXCEPT ![cb[t]] = job[t]]
      /\ said \in [Clients -> {"none", "register", "unregister"}]
  BY CallerInCall DEF AnswerInv, OrderInv, DupInv, TypeInv, TypeOK, Ends
<1>1. ASSUME NEW c \in Clients \ dead, said'[c] = "register"
      PROVE  Holds(list', c) \/ Poisoned'
  <2>1. CASE c = cb[t]
    BY <1>0, <1>1, <2>1
  <2>2. CASE c # cb[t]
    <3>1. said[c] = "register"
      BY <1>0, <1>1, <2>2
    <3>2. Holds(list, c) \/ Poisoned
      BY <3>1 DEF AnswerInv, ReturnedMeansRegistered
    <3> QED BY <2>2, <3>2
  <2> QED BY <2>1, <2>2
<1>2. ASSUME NEW c \in Clients, said'[c] = "unregister"
      PROVE  ~Holds(list', c) \/ Poisoned'
  <2>1. CASE c = cb[t]
    BY <1>0, <1>2, <2>1
  <2>2. CASE c # cb[t]
    <3>1. said[c] = "unregister"
      BY <1>0, <1>2, <2>2
    <3>2. ~Holds(list, c) \/ Poisoned
      BY <3>1 DEF AnswerInv, UnregisteredIsGone
    <3> QED BY <2>2, <3>2
  <2> QED BY <2>1, <2>2
<1> QED BY <1>0, <1>1, <1>2 DEF ReturnedMeansRegistered, UnregisteredIsGone

(* A step that ends no call and leaves the list as it is.                  *)
LEMMA AnswerKept ==
  ASSUME AnswerInv, list' = list, said' = said, dead \subseteq dead', crowded => crowded'
  PROVE  (ReturnedMeansRegistered /\ UnregisteredIsGone)'
<1>1. Poisoned => Poisoned'
  BY DEF Poisoned
<1>2. \A c : Holds(list', c) <=> Holds(list, c)
  OBVIOUS
<1> QED BY <1>1, <1>2 DEF AnswerInv, ReturnedMeansRegistered, UnregisteredIsGone

LEMMA AnswerStep == AnswerInv /\ [Next]_vars => AnswerInv'
<1> SUFFICES ASSUME AnswerInv, [Next]_vars
             PROVE  (ReturnedMeansRegistered /\ UnregisteredIsGone)'
  BY OrderStep DEF AnswerInv
<1>0. /\ OrderInv /\ OrderInv' /\ DupInv /\ TypeInv
      /\ list \in Seq(Entries) /\ Len(list) \in Nat
      /\ \A u \in Threads : cursor[u] \in Nat
  BY OrderStep, LenProperties DEF AnswerInv, OrderInv, DupInv, TypeInv, TypeOK, Entries
<1>1. CASE crowded'
  BY <1>1 DEF ReturnedMeansRegistered, UnregisteredIsGone
<1>2. ASSUME NEW t \in Threads, pc[t] # "idle", Ends(t), list' = list, ~crowded,
             job[t] = "register" => cb[t] \in dead \/ Holds(list, cb[t]) \/ Poisoned,
             job[t] = "unregister" => ~Holds(list, cb[t]) \/ Poisoned
      PROVE  (ReturnedMeansRegistered /\ UnregisteredIsGone)'
  <2>1. Poisoned => Poisoned'
    BY <1>2 DEF Ends, Poisoned
  <2>2. \A c : Holds(list', c) <=> Holds(list, c)
    BY <1>2
  <2> QED BY <1>2, <2>1, <2>2, EndsAnswer
<1>3. CASE ~crowded'
  <2>0. ~crowded /\ Orderly
    <3>1. crowded => crowded'
      BY DEF Next, Call, Identify, Lock, ScanEnds, ScanThrows, ScanPasses, ScanFinds, AddReads,
             AddStores, Ends, Moves, Die, Clear, Over, vars, history
    <3> QED BY <1>0, <1>3, <3>1 DEF OrderInv
  <2>1. ASSUME NEW t \in Threads, NEW c \in Clients, NEW method \in {"register", "unregister"},
               Call(t, c, method)
        PROVE  (ReturnedMeansRegistered /\ UnregisteredIsGone)'
    BY <2>1, AnswerKept DEF Call
  <2>2. ASSUME NEW t \in Threads, Identify(t)
        PROVE  (ReturnedMeansRegistered /\ UnregisteredIsGone)'
    <3>1. CASE cb[t] \in dead
      <4>1. pc[t] # "idle" /\ Ends(t) /\ list' = list
        BY <2>2, <3>1 DEF Identify
      <4>2. ~Holds(list, cb[t]) \/ Poisoned
        BY <3>1 DEF Poisoned
      <4> QED BY <1>2, <2>0, <3>1, <4>1, <4>2
    <3>2. CASE cb[t] \notin dead
      BY <2>2, <3>2, AnswerKept DEF Identify, Moves, history
    <3> QED BY <3>1, <3>2
  <2>3. ASSUME NEW t \in Threads, Lock(t)
        PROVE  (ReturnedMeansRegistered /\ UnregisteredIsGone)'
    BY <2>3, AnswerKept DEF Lock, Moves, history
  <2>4. ASSUME NEW t \in Threads, ScanEnds(t)
        PROVE  (ReturnedMeansRegistered /\ UnregisteredIsGone)'
    <3>1. CASE job[t] = "register"
      BY <2>4, <3>1, AnswerKept DEF ScanEnds, Moves, history
    <3>2. CASE job[t] # "register"
      <4>1. pc[t] = "scan" /\ Ends(t) /\ list' = list /\ cursor[t] = Len(list)
        BY <2>4, <3>2 DEF ScanEnds
      <4>2. ~Holds(list, cb[t])
        BY <1>0, <2>0, <4>1 DEF Orderly, Steady, Holds
      <4> QED BY <1>2, <2>0, <3>2, <4>1, <4>2
    <3> QED BY <3>1, <3>2
  <2>5. ASSUME NEW t \in Threads, ScanThrows(t)
        PROVE  (ReturnedMeansRegistered /\ UnregisteredIsGone)'
    <3>1. /\ pc[t] = "scan" /\ cursor[t] # Len(list) /\ Nexts(t) = Hole
          /\ Ends(t) /\ list' = list
      BY <2>5 DEF ScanThrows
    <3>2. ~modified[t] /\ cursor[t] + 1 \in 1..Len(list) /\ cursor[t] < Len(list)
      BY <1>0, <2>0, <3>1 DEF Orderly, Steady
    <3>3. list[cursor[t] + 1] # Hole
      BY <2>0, <3>2 DEF Orderly, Solid
    <3>4. list[cursor[t] + 1] \in dead
      BY <3>1, <3>2, <3>3 DEF Nexts
    <3>5. Poisoned
      BY <3>2, <3>4 DEF Poisoned, Holds
    <3> QED BY <1>2, <2>0, <3>1, <3>5
  <2>6. ASSUME NEW t \in Threads, ScanPasses(t)
        PROVE  (ReturnedMeansRegistered /\ UnregisteredIsGone)'
    BY <2>6, AnswerKept DEF ScanPasses, history
  <2>7. ASSUME NEW t \in Threads, ScanFinds(t)
        PROVE  (ReturnedMeansRegistered /\ UnregisteredIsGone)'
    <3>0. pc[t] = "scan" /\ Ends(t) /\ cb[t] \in Clients /\ cb[t] # Hole /\ dead' = dead
      BY <1>0, <2>7, CallerInCall, RegistryAssumption DEF ScanFinds, Ends
    <3>1. CASE job[t] = "register"
      <4>1. /\ list' = list /\ cursor[t] + 1 \in 1..Len(list)
            /\ list[cursor[t] + 1] = cb[t]
        BY <1>0, <2>7, <3>0, <3>1 DEF ScanFinds, Nexts
      <4>2. Holds(list, cb[t])
        BY <4>1 DEF Holds
      <4> QED BY <1>2, <2>0, <3>0, <3>1, <4>1, <4>2
    <3>2. CASE job[t] # "register"
      <4>1. /\ \A c \in Clients \ {cb[t]} : Holds(list', c) <=> Holds(list, c)
            /\ ~Holds(list', cb[t]) /\ cb[t] \notin dead
        BY <1>0, <2>0, <2>7, <3>2, Removal
      <4>2. dead \subseteq Clients
        BY <1>0 DEF TypeInv, TypeOK
      <4>3. Poisoned => Poisoned'
        BY <3>0, <4>1, <4>2 DEF Poisoned
      <4> QED BY <2>0, <3>0, <3>2, <4>1, <4>3, EndsAnswer
    <3> QED BY <3>1, <3>2
  <2>8. ASSUME NEW t \in Threads, AddReads(t)
        PROVE  (ReturnedMeansRegistered /\ UnregisteredIsGone)'
    BY <2>8, AnswerKept DEF AddReads, Moves, history
  <2>9. ASSUME NEW t \in Threads, AddStores(t)
        PROVE  (ReturnedMeansRegistered /\ UnregisteredIsGone)'
    <3>1. pc[t] = "store" /\ Ends(t) /\ dead' = dead /\ dead \subseteq Clients
      BY <1>0, <2>9 DEF AddStores, Ends, TypeInv, TypeOK
    <3>2. /\ \A c \in Clients \ {cb[t]} : Holds(list', c) <=> Holds(list, c)
          /\ Holds(list', cb[t])
      BY <1>0, <2>0, <2>9, Addition
    <3>3. job[t] = "register"
      BY <2>0, <3>1 DEF Orderly, Counted
    <3>4. Poisoned => Poisoned'
      BY <3>1, <3>2 DEF Poisoned
    <3> QED BY <2>0, <3>1, <3>2, <3>3, <3>4, EndsAnswer
  <2>10. ASSUME NEW c \in Clients, Die(c)
         PROVE  (ReturnedMeansRegistered /\ UnregisteredIsGone)'
    BY <2>10, AnswerKept DEF Die, history
  <2>11. CASE Clear
    <3>1. \A c \in Clients : said'[c] = "none"
      BY <2>11 DEF Clear
    <3> QED BY <3>1 DEF ReturnedMeansRegistered, UnregisteredIsGone
  <2>12. CASE UNCHANGED vars
    BY <2>12, AnswerKept DEF vars, history
  <2> QED
    BY <2>1, <2>2, <2>3, <2>4, <2>5, <2>6, <2>7, <2>8, <2>9, <2>10, <2>11, <2>12 DEF Next, Over
<1> QED BY <1>1, <1>3

(* A client whose registerCallback was the last method to return to it is   *)
(* in the list, as long as no two calls have been in progress at once and   *)
(* nobody in the list has died: for any number of clients and threads.     *)
THEOREM RegisteredUntilCrowded == Spec => []ReturnedMeansRegistered
<1>1. AnswerInv => ReturnedMeansRegistered
  BY DEF AnswerInv
<1> QED BY <1>1, OrderInit, AnswerStep, PTL DEF Spec

(* The same for a client whose unregisterCallback was the last: the list    *)
(* has no second copy of its callback for the search to leave behind.      *)
THEOREM GoneUntilCrowded == Spec => []UnregisteredIsGone
<1>1. AnswerInv => UnregisteredIsGone
  BY DEF AnswerInv
<1> QED BY <1>1, OrderInit, AnswerStep, PTL DEF Spec
=============================================================================
