-------------------------- MODULE CallbackRegistry --------------------------
(***************************************************************************)
(* The list of callbacks of the sample PluginService.  registerCallback and *)
(* unregisterCallback run on binder threads of the plugin, onDestroy on its *)
(* main thread.  A callback is known by its identifier; reading it is a     *)
(* call to the client's process, which throws once that has died.  register *)
(* looks for a duplicate under the lock of mCallbacks, and adds to the      *)
(* ArrayList without it.                                                   *)
(***************************************************************************)
EXTENDS Integers, Sequences

CONSTANTS
  Clients,    \* the clients, by the identifier of their callback
  Hole,       \* null: neither a client nor a callback
  Threads,    \* the threads the calls run on
  NoThread,   \* the owner of a lock nobody holds
  MaxCalls    \* bound on the calls

ASSUME RegistryAssumption ==
  Hole \notin Clients /\ NoThread \notin Threads /\ MaxCalls \in Nat

VARIABLES
  list,      \* mCallbacks
  lock,      \* the thread inside synchronized (mCallbacks)
  pc,        \* where each thread is
  job, cb,   \* the method it is in, and the argument
  cursor,    \* the callbacks its iterator has returned so far
  modified,  \* whether the list has been modified since it made the iterator
  size,      \* the size its add() has read
  dead,      \* clients whose process has died
  calls,     \* the number of calls
  said,      \* history: the last method that has returned to each client
  twice,     \* history: clients with two calls in progress at once
  crowded    \* history: any two calls have been in progress at once

iterators == <<cursor, modified>>
history   == <<said, twice, crowded>>
vars == <<list, lock, pc, job, cb, iterators, size, dead, calls, history>>

Init ==
  /\ list = << >> /\ lock = NoThread
  /\ pc = [t \in Threads |-> "idle"]
  /\ job = [t \in Threads |-> "none"] /\ cb = [t \in Threads |-> Hole]
  /\ cursor = [t \in Threads |-> 0] /\ modified = [t \in Threads |-> FALSE]
  /\ size = [t \in Threads |-> 0]
  /\ dead = {} /\ calls = 0
  /\ said = [c \in Clients |-> "none"] /\ twice = {} /\ crowded = FALSE

Holds(l, c) == \E i \in 1..Len(l) : l[i] = c
Busy(t) == pc[t] # "idle"

-----------------------------------------------------------------------------
(* registerCallback reads the identifier first, unregisterCallback once it *)
(* has the lock.                                                           *)
Call(t, c, method) ==
  /\ ~Busy(t) /\ calls < MaxCalls /\ c \notin dead
  /\ calls' = calls + 1
  /\ pc' = [pc EXCEPT ![t] = IF method = "register" THEN "identify" ELSE "lock"]
  /\ job' = [job EXCEPT ![t] = method]
  /\ cb' = [cb EXCEPT ![t] = c]
  /\ crowded' = (crowded \/ \E u \in Threads : Busy(u))
  /\ twice' = IF \E u \in Threads : Busy(u) /\ cb[u] = c THEN twice \union {c} ELSE twice
  /\ UNCHANGED <<list, lock, iterators, size, dead, said>>

(* The call is over: it has returned, or thrown, and left the lock.        *)
Ends(t) ==
  /\ pc' = [pc EXCEPT ![t] = "idle"]
  /\ cb' = [cb EXCEPT ![t] = Hole]
  /\ job' = [job EXCEPT ![t] = "none"]
  /\ said' = [said EXCEPT ![cb[t]] = job[t]]
  /\ lock' = IF lock = t THEN NoThread ELSE lock
  /\ UNCHANGED <<iterators, dead, calls, twice, crowded>>

Moves(t, to) ==
  /\ pc' = [pc EXCEPT ![t] = to]
  /\ UNCHANGED <<job, cb, dead, calls, history>>

(* cb.getIdentifier().                                                     *)
Identify(t) ==
  /\ pc[t] = "identify"
  /\ IF cb[t] \in dead
     THEN Ends(t) /\ UNCHANGED <<list, size>>
     ELSE /\ Moves(t, IF lock = t THEN "scan" ELSE "lock")
          /\ UNCHANGED <<list, lock, iterators, size>>

(* Mutant: the search begins before the first callback.                    *)
LockStartsEarly(t) ==
  /\ pc[t] = "lock" /\ lock = NoThread
  /\ lock' = t
  /\ Moves(t, IF job[t] = "register" THEN "scan" ELSE "identify")
  /\ cursor' = [cursor EXCEPT ![t] = -1]
  /\ modified' = [modified EXCEPT ![t] = FALSE]
  /\ UNCHANGED <<list, size>>

(* synchronized (mCallbacks), and an iterator is made.                     *)
Lock(t) ==
  /\ pc[t] = "lock" /\ lock = NoThread
  /\ lock' = t
  /\ Moves(t, IF job[t] = "register" THEN "scan" ELSE "identify")
  /\ cursor' = [cursor EXCEPT ![t] = 0]
  /\ modified' = [modified EXCEPT ![t] = FALSE]
  /\ UNCHANGED <<list, size>>

(* hasNext() is about the size alone; register then leaves the lock.       *)
ScanEnds(t) ==
  /\ pc[t] = "scan" /\ cursor[t] = Len(list)
  /\ IF job[t] = "register"
     THEN Moves(t, "add") /\ lock' = NoThread /\ UNCHANGED iterators
     ELSE Ends(t)
  /\ UNCHANGED <<list, size>>

(* The callback next() returns, or Hole: next() throws if the list has been *)
(* modified, and getIdentifier() of null or of a dead client throws.       *)
Nexts(t) ==
  LET c == IF cursor[t] < Len(list) THEN list[cursor[t] + 1] ELSE Hole
  IN  IF modified[t] \/ c \in dead THEN Hole ELSE c

(* Whatever is thrown, the method returns, or the caller has an exception. *)
ScanThrows(t) ==
  /\ pc[t] = "scan" /\ cursor[t] # Len(list)
  /\ Nexts(t) = Hole
  /\ Ends(t)
  /\ UNCHANGED <<list, size>>

ScanPasses(t) ==
  /\ pc[t] = "scan" /\ cursor[t] # Len(list)
  /\ Nexts(t) \notin {Hole, cb[t]}
  /\ cursor' = [cursor EXCEPT ![t] = @ + 1]
  /\ UNCHANGED <<list, lock, pc, job, cb, modified, size, dead, calls, history>>

(* Mutant: the callback after it is removed.                               *)
WithoutNext(l, i) == [j \in 1..(Len(l) - 1) |-> IF j <= i THEN l[j] ELSE l[j + 1]]

Without(l, i) == [j \in 1..(Len(l) - 1) |-> IF j < i THEN l[j] ELSE l[j + 1]]

(* Mutant: "contains = true" is left out.                                  *)
ScanIgnores(t) ==
  /\ pc[t] = "scan" /\ cursor[t] # Len(list)
  /\ Nexts(t) = cb[t]
  /\ IF job[t] = "register"
     THEN Moves(t, "add") /\ lock' = NoThread /\ UNCHANGED <<list, iterators>>
     ELSE Ends(t) /\ list' = Without(list, cursor[t] + 1)
  /\ UNCHANGED size

(* The identifier is found: register has nothing to do, unregister removes *)
(* the callback from the list.                                             *)
ScanFinds(t) ==
  /\ pc[t] = "scan" /\ cursor[t] # Len(list)
  /\ Nexts(t) = cb[t]
  /\ list' = IF job[t] = "register" THEN list ELSE Without(list, cursor[t] + 1)
  /\ Ends(t)
  /\ UNCHANGED size

(* ArrayList.add(): the modification is counted and the size read,         *)
AddReads(t) ==
  /\ pc[t] = "add"
  /\ Moves(t, "store")
  /\ size' = [size EXCEPT ![t] = Len(list)]
  /\ modified' = [u \in Threads |-> TRUE]
  /\ UNCHANGED <<list, lock, cursor>>

(* and the element and the new size stored.                                *)
AddStores(t) ==
  /\ pc[t] = "store"
  /\ list' = [i \in 1..(size[t] + 1) |-> IF i = size[t] + 1 THEN cb[t]
                                         ELSE IF i <= Len(list) THEN list[i] ELSE Hole]
  /\ Ends(t)
  /\ UNCHANGED size

-----------------------------------------------------------------------------
(* onDestroy.                                                              *)
Clear ==
  /\ lock = NoThread /\ calls < MaxCalls
  /\ calls' = calls + 1
  /\ list' = << >>
  /\ said' = [c \in Clients |-> "none"]
  /\ crowded' = (crowded \/ \E t \in Threads : Busy(t))
  /\ UNCHANGED <<lock, pc, job, cb, iterators, size, dead, twice>>

Die(c) ==
  /\ dead' = dead \union {c}
  /\ UNCHANGED <<list, lock, pc, job, cb, iterators, size, calls, history>>

Over == calls = MaxCalls /\ (\A t \in Threads : ~Busy(t)) /\ UNCHANGED vars

Next ==
  \/ \E t \in Threads :
       \/ \E c \in Clients, method \in {"register", "unregister"} : Call(t, c, method)
       \/ Identify(t) \/ Lock(t)
       \/ ScanEnds(t) \/ ScanThrows(t) \/ ScanPasses(t) \/ ScanFinds(t)
       \/ AddReads(t) \/ AddStores(t)
  \/ \E c \in Clients : Die(c)
  \/ Clear
  \/ Over

Spec == Init /\ [][Next]_vars

-----------------------------------------------------------------------------
(* Type correctness of the list, its lock and the threads.                 *)
TypeOK ==
  /\ list \in Seq(Clients \union {Hole})
  /\ lock \in Threads \union {NoThread}
  /\ pc \in [Threads -> {"idle", "identify", "lock", "scan", "add", "store"}]
  /\ job \in [Threads -> {"none", "register", "unregister"}]
  /\ cb \in [Threads -> Clients \union {Hole}]
  /\ \A t \in Threads : Busy(t) => job[t] # "none" /\ cb[t] # Hole
  /\ cursor \in [Threads -> Nat] /\ modified \in [Threads -> BOOLEAN] /\ size \in [Threads -> Nat]
  /\ dead \subseteq Clients /\ twice \subseteq Clients /\ crowded \in BOOLEAN
  /\ calls \in 0..MaxCalls
  /\ said \in [Clients -> {"none", "register", "unregister"}]

(* A callback is in the list twice, and so is told of everything twice,    *)
(* only if its client has made two calls at once.                          *)
DuplicateNeedsOverlap ==
  \A i, j \in 1..Len(list) : i # j /\ list[i] = list[j] => list[i] \in twice \union {Hole}

(* The list has a callback of a dead client, which nothing but onDestroy   *)
(* removes, and at which each search of the list ends.                     *)
Poisoned == \E c \in dead : Holds(list, c)

(* "Register a callback for the app to be notified of events"              *)
(* (IMusicProvider): a client whose last call was registerCallback is in    *)
(* the list, unless it or another client in the list has died, or two      *)
(* calls have been in progress at once.                                    *)
ReturnedMeansRegistered ==
  \A c \in Clients \ dead : said[c] = "register" => Holds(list, c) \/ Poisoned \/ crowded

(* "Removes a registered callback": the same for unregisterCallback.       *)
UnregisteredIsGone ==
  \A c \in Clients : said[c] = "unregister" => ~Holds(list, c) \/ Poisoned \/ crowded
=============================================================================
