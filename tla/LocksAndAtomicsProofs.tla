------------------------ MODULE LocksAndAtomicsProofs ------------------------
(***************************************************************************)
(* The programs of MCLocksAndAtomics keep their promises for every number  *)
(* of threads, rounds, items, accounts and proposals:                      *)
(*   - the spinlock of atomics.cpp excludes and publishes.  Exclusion      *)
(*     alone does not show that no increment is lost: the argument needs   *)
(*     that a free lock carries the newest view of shared_val              *)
(*     (ReleasedInv) and that the value a holder has read is the newest    *)
(*     one (RegisterInv);                                                  *)
(*   - the compare_exchange maximum of atomics.cpp;                        *)
(*   - the draining consumers and the transfers of mutex_condvar.cpp;      *)
(*   - the litmus programs of memory_model.cpp.                            *)
(***************************************************************************)
EXTENDS MCLocksAndAtomics, Arithmetic

(* While nobody holds the lock, the last clear has published all writes. *)
ReleasedInv == ~flag_ => released = Len(shared_val)

(* What the holder has read and is about to increment is the newest value. *)
RegisterInv == \A t \in Threads : pc[t] = "write" => reg[t] = Len(shared_val) - 1

(* A thread inside has a round left to count. *)
RoundInv == \A t \in Threads : InCriticalSection(t) => rounds[t] < Rounds

LockInv ==
    /\ TypeOK /\ RoundInv /\ MutualExclusion /\ ReleasedInv
    /\ HolderSeesAllWrites /\ RegisterInv /\ NoLostIncrement

(* No thread holds the lock, and shared_val holds its one initial value. *)
LEMMA InitLockInv == Init => LockInv
  <1> SUFFICES ASSUME Init PROVE LockInv
    OBVIOUS
  <1> USE SpinAssumption DEF Init
  <1>1. shared_val = <<0>> /\ Len(shared_val) = 1 /\ shared_val[1] = 0 /\ shared_val \in Seq(Nat)
    OBVIOUS
  <1>2. TypeOK
    <2>1. view \in [Threads -> 1 .. 1] /\ reg \in [Threads -> Nat]
      OBVIOUS
    <2>2. rounds \in [Threads -> 0 .. Rounds]
      OBVIOUS
    <2>3. pc \in [Threads -> {"lock", "read", "write", "unlock"}]
      OBVIOUS
    <2>4. released \in 1 .. Len(shared_val) /\ 1 .. Len(shared_val) = 1 .. 1
      BY <1>1
    <2>5. flag_ \in BOOLEAN /\ shared_val # <<>>
      OBVIOUS
    <2> QED
      BY <1>1, <2>1, <2>2, <2>3, <2>4, <2>5, Zenon DEF TypeOK
  <1>3. RoundInv /\ MutualExclusion /\ HolderSeesAllWrites /\ RegisterInv
    BY DEF RoundInv, MutualExclusion, HolderSeesAllWrites, RegisterInv, InCriticalSection
  <1>4. ReleasedInv /\ NoLostIncrement
    BY <1>1 DEF ReleasedInv, NoLostIncrement
  <1> QED
    BY <1>2, <1>3, <1>4 DEF LockInv

(* test_and_set (line 42): it succeeds on a free lock only, and then acquires
   the view the last clear published. *)
LEMMA TestAndSetInv ==
    ASSUME LockInv, NEW t \in Threads, TestAndSet(t) PROVE LockInv'
  <1> USE SpinAssumption
  <1>1. /\ TypeOK /\ RoundInv /\ MutualExclusion /\ ReleasedInv
        /\ HolderSeesAllWrites /\ RegisterInv /\ NoLostIncrement
    BY DEF LockInv
  <1>2. Larger(view[t], released) \in 1 .. Len(shared_val)
    BY <1>1 DEF TypeOK, Larger
  <1>3. TypeOK'
    BY <1>1, <1>2 DEF TestAndSet, TypeOK
  <1>4. RoundInv' /\ MutualExclusion'
    BY <1>1 DEF TestAndSet, TypeOK, RoundInv, MutualExclusion, InCriticalSection
  <1>5. ReleasedInv' /\ NoLostIncrement'
    BY <1>1 DEF TestAndSet, ReleasedInv, NoLostIncrement
  <1>6. ~flag_ => Larger(view[t], released) = Len(shared_val)
    BY <1>1 DEF TypeOK, Larger, ReleasedInv
  <1>7. HolderSeesAllWrites'
    <2> SUFFICES ASSUME NEW u \in Threads, pc'[u] # "lock" PROVE view'[u] = Len(shared_val)
      BY DEF HolderSeesAllWrites, InCriticalSection, TestAndSet
    <2>1. CASE u = t
      BY <1>1, <1>6, <2>1 DEF TestAndSet, TypeOK
    <2>2. CASE u # t
      BY <1>1, <2>2 DEF TestAndSet, TypeOK, HolderSeesAllWrites, InCriticalSection
    <2> QED
      BY <2>1, <2>2
  <1>8. RegisterInv'
    BY <1>1 DEF TestAndSet, TypeOK, RegisterInv
  <1> QED
    BY <1>3, <1>4, <1>5, <1>7, <1>8 DEF LockInv

(* The read of ++shared_val (line 87): the holder's view is the newest write,
   so there is only one value to read. *)
LEMMA ReadInv ==
    ASSUME LockInv, NEW t \in Threads, Read(t) PROVE LockInv'
  <1> USE SpinAssumption
  <1>1. /\ TypeOK /\ RoundInv /\ MutualExclusion /\ ReleasedInv
        /\ HolderSeesAllWrites /\ RegisterInv /\ NoLostIncrement
    BY DEF LockInv
  <1>2. Len(shared_val) \in Nat /\ Len(shared_val) >= 1
    BY <1>1 DEF TypeOK
  <1>3. view[t] = Len(shared_val)
    BY <1>1 DEF Read, HolderSeesAllWrites, InCriticalSection
  <1>4. reg' = [reg EXCEPT ![t] = Len(shared_val) - 1]
    <2>1. PICK k \in view[t] .. Len(shared_val) : reg' = [reg EXCEPT ![t] = shared_val[k]]
      BY DEF Read
    <2>2. k = Len(shared_val)
      BY <1>2, <1>3, <2>1
    <2>3. shared_val[Len(shared_val)] = Len(shared_val) - 1
      BY <1>1, <1>2 DEF NoLostIncrement
    <2> QED
      BY <2>1, <2>2, <2>3
  <1>5. TypeOK'
    BY <1>1, <1>2, <1>4, SMTT(30) DEF Read, TypeOK
  <1>6. /\ RoundInv' /\ MutualExclusion' /\ ReleasedInv'
        /\ HolderSeesAllWrites' /\ NoLostIncrement'
    BY <1>1 DEF Read, TypeOK, RoundInv, MutualExclusion, ReleasedInv, HolderSeesAllWrites,
                NoLostIncrement, InCriticalSection
  <1>7. RegisterInv'
    BY <1>1, <1>4 DEF Read, TypeOK, RegisterInv
  <1> QED
    BY <1>5, <1>6, <1>7 DEF LockInv

(* The write of ++shared_val (line 87): the next value in order. *)
LEMMA WriteInv ==
    ASSUME LockInv, NEW t \in Threads, Write(t) PROVE LockInv'
  <1> USE SpinAssumption
  <1>1. /\ TypeOK /\ RoundInv /\ MutualExclusion /\ ReleasedInv
        /\ HolderSeesAllWrites /\ RegisterInv /\ NoLostIncrement
    BY DEF LockInv
  <1>2. Len(shared_val) \in Nat /\ Len(shared_val) >= 1 /\ shared_val \in Seq(Nat)
    BY <1>1 DEF TypeOK
  <1>3. reg[t] = Len(shared_val) - 1 /\ reg[t] + 1 = Len(shared_val)
    BY <1>1, <1>2 DEF Write, RegisterInv
  <1>4. shared_val' = Append(shared_val, Len(shared_val))
    BY <1>3 DEF Write
  <1>5. /\ shared_val' \in Seq(Nat) /\ Len(shared_val') = Len(shared_val) + 1
        /\ \A n \in 1 .. Len(shared_val) : shared_val'[n] = shared_val[n]
        /\ shared_val'[Len(shared_val) + 1] = Len(shared_val)
    BY <1>2, <1>4
  <1>6. flag_ /\ \A u \in Threads : pc[u] # "lock" => u = t
    BY <1>1 DEF Write, MutualExclusion, InCriticalSection
  <1>7. TypeOK'
    BY <1>1, <1>2, <1>5, SMTT(30) DEF Write, TypeOK
  <1>8. RoundInv' /\ MutualExclusion' /\ ReleasedInv'
    BY <1>1, <1>6 DEF Write, TypeOK, RoundInv, MutualExclusion, ReleasedInv, InCriticalSection
  <1>9. HolderSeesAllWrites'
    BY <1>1, <1>5, <1>6 DEF Write, TypeOK, HolderSeesAllWrites, InCriticalSection
  <1>10. RegisterInv'
    BY <1>1, <1>6 DEF Write, TypeOK, RegisterInv
  <1>11. NoLostIncrement'
    <2> SUFFICES ASSUME NEW n \in 1 .. Len(shared_val') PROVE shared_val'[n] = n - 1
      BY DEF NoLostIncrement
    <2>1. n \in 1 .. Len(shared_val) \/ n = Len(shared_val) + 1
      BY <1>2, <1>5
    <2>2. CASE n \in 1 .. Len(shared_val)
      BY <1>1, <1>5, <2>2 DEF NoLostIncrement
    <2>3. CASE n = Len(shared_val) + 1
      BY <1>2, <1>5, <2>3
    <2> QED
      BY <2>1, <2>2, <2>3
  <1> QED
    BY <1>7, <1>8, <1>9, <1>10, <1>11 DEF LockInv

(* The releasing clear (line 47): it publishes the holder's view, which is the
   newest one. *)
LEMMA ClearInv ==
    ASSUME LockInv, NEW t \in Threads, Clear(t) PROVE LockInv'
  <1> USE SpinAssumption
  <1>1. /\ TypeOK /\ RoundInv /\ MutualExclusion /\ ReleasedInv
        /\ HolderSeesAllWrites /\ RegisterInv /\ NoLostIncrement
    BY DEF LockInv
  <1>2. \A u \in Threads : pc[u] # "lock" => u = t
    BY <1>1 DEF Clear, MutualExclusion, InCriticalSection
  <1>3. TypeOK'
    <2>1. rounds[t] \in 0 .. Rounds /\ rounds[t] < Rounds
      BY <1>1 DEF Clear, TypeOK, RoundInv, InCriticalSection
    <2>2. rounds[t] + 1 \in 0 .. Rounds
      BY <2>1
    <2> QED
      BY <1>1, <2>2 DEF Clear, TypeOK
  <1>4. RoundInv' /\ MutualExclusion' /\ HolderSeesAllWrites' /\ RegisterInv'
    BY <1>1, <1>2 DEF Clear, TypeOK, RoundInv, MutualExclusion, HolderSeesAllWrites, RegisterInv,
                      InCriticalSection
  <1>5. ReleasedInv' /\ NoLostIncrement'
    BY <1>1 DEF Clear, ReleasedInv, HolderSeesAllWrites, NoLostIncrement, InCriticalSection
  <1> QED
    BY <1>3, <1>4, <1>5 DEF LockInv

(* Every step of a thread keeps the lock sound. *)
LEMMA NextLockInv == LockInv /\ [Next]_vars => LockInv'
  <1> SUFFICES ASSUME LockInv, [Next]_vars PROVE LockInv'
    OBVIOUS
  <1>1. CASE UNCHANGED vars
    BY <1>1 DEF LockInv, vars, TypeOK, RoundInv, MutualExclusion, ReleasedInv,
                HolderSeesAllWrites, RegisterInv, NoLostIncrement, InCriticalSection
  <1>2. CASE \E t \in Threads : Step(t)
    <2>1. PICK t \in Threads : Step(t)
      BY <1>2
    <2> QED
      BY <2>1, TestAndSetInv, ReadInv, WriteInv, ClearInv DEF Step
  <1> QED
    BY <1>1, <1>2 DEF Next, Joined

(* The invariant holds in every reachable state. *)
THEOREM SpinLockInvariant == SafeSpec => []LockInv
  BY InitLockInv, NextLockInv, PTL DEF SafeSpec

(* For any number of threads and rounds lock() and unlock() exclude, the
   acquire/release pair makes every earlier write visible to the holder, so
   the plain int shared_val is accessed without a data race, and no increment
   is ever lost. *)
THEOREM SpinLockSound == SafeSpec => []LockSound
  <1>1. LockInv => LockSound
    BY DEF LockInv, LockSound
  <1> QED
    BY <1>1, SpinLockInvariant, PTL

-----------------------------------------------------------------------------
(* The maximum (atomics.cpp, lines 52-63): every value in the history is at
   most the newest one, and a thread inside the loop holds the value it has
   read from its place in the history, so a value that is large enough for
   the thread to leave is at most the newest one. *)
MaxHistory == \A k \in 1 .. Len(shared_max) : shared_max[k] <= Maximum!Newest

MaxReads == \A t \in Proposers : pcMax[t] = "loop" => current[t] = shared_max[observed[t]]

MaxReached == \A t \in Proposers : pcMax[t] = "done" => Maximum!Newest >= Proposed[t]

MaxProposed == Maximum!Newest \in {0} \cup {Proposed[t] : t \in Proposers}

MaxInv ==
    /\ Maximum!TypeOK /\ Maximum!OnlyGrows
    /\ MaxHistory /\ MaxReads /\ MaxReached /\ MaxProposed

(* The history starts with 0. *)
LEMMA MaxInit == Maximum!Init => MaxInv
  <1> SUFFICES ASSUME Maximum!Init PROVE MaxInv
    OBVIOUS
  <1>1. /\ shared_max = <<0>> /\ Len(shared_max) = 1 /\ shared_max[1] = 0 /\ shared_max \in Seq(Nat)
        /\ shared_max # <<>>
        /\ observed = [t \in Proposers |-> 1] /\ current = [t \in Proposers |-> 0]
        /\ pcMax = [t \in Proposers |-> "load"]
    BY DEF Maximum!Init
  <1>2. Maximum!TypeOK
    BY <1>1 DEF Maximum!TypeOK
  <1>3. Maximum!Newest = 0
    BY <1>1 DEF Maximum!Newest
  <1>4. Maximum!OnlyGrows
    BY <1>1 DEF Maximum!OnlyGrows
  <1> QED
    BY <1>1, <1>2, <1>3, <1>4 DEF MaxInv, MaxHistory, MaxReads, MaxReached, MaxProposed

(* A load or a failing compare_exchange: the thread holds what it has read. *)
LEMMA MaxSee ==
    ASSUME MaxInv, NEW t \in Proposers, NEW k \in observed[t] .. Len(shared_max),
           Maximum!Load(t, k) \/ Maximum!CasFails(t, k)
    PROVE  MaxInv'
  <1>1. /\ Maximum!TypeOK /\ Maximum!OnlyGrows
        /\ MaxHistory /\ MaxReads /\ MaxReached /\ MaxProposed
    BY DEF MaxInv
  <1>2. /\ shared_max \in Seq(Nat) /\ Len(shared_max) \in Nat /\ k \in 1 .. Len(shared_max)
        /\ shared_max[k] \in Nat
    BY <1>1 DEF Maximum!TypeOK
  <1>3. /\ shared_max' = shared_max
        /\ observed' = [observed EXCEPT ![t] = k]
        /\ current' = [current EXCEPT ![t] = shared_max[k]]
        /\ pcMax' = [pcMax EXCEPT ![t] = "loop"]
    BY <1>1 DEF Maximum!Load, Maximum!CasFails, Maximum!See, Maximum!TypeOK
  <1>4. Maximum!TypeOK'
    BY <1>1, <1>2, <1>3 DEF Maximum!TypeOK
  <1>5. Maximum!Newest' = Maximum!Newest
    BY <1>3 DEF Maximum!Newest
  <1>6. Maximum!OnlyGrows' /\ MaxHistory' /\ MaxProposed'
    BY <1>1, <1>3, <1>5 DEF Maximum!OnlyGrows, MaxHistory, MaxProposed
  <1>7. MaxReads' /\ MaxReached'
    BY <1>1, <1>3, <1>5 DEF MaxReads, MaxReached, Maximum!TypeOK
  <1> QED
    BY <1>4, <1>6, <1>7 DEF MaxInv

(* A thread leaves because the value it has read is large enough. *)
LEMMA MaxExit ==
    ASSUME MaxInv, NEW t \in Proposers, Maximum!Exit(t)
    PROVE  MaxInv'
  <1>1. /\ Maximum!TypeOK /\ Maximum!OnlyGrows
        /\ MaxHistory /\ MaxReads /\ MaxReached /\ MaxProposed
    BY DEF MaxInv
  <1>2. /\ UNCHANGED <<shared_max, observed, current>>
        /\ pcMax' = [pcMax EXCEPT ![t] = "done"]
        /\ pcMax[t] = "loop" /\ Proposed[t] <= current[t]
    BY DEF Maximum!Exit
  <1>3. Maximum!Newest' = Maximum!Newest /\ Maximum!Newest \in Nat
    BY <1>1, <1>2 DEF Maximum!Newest, Maximum!TypeOK
  <1>4. Maximum!Newest >= Proposed[t]
    <2>1. current[t] = shared_max[observed[t]] /\ observed[t] \in 1 .. Len(shared_max)
      BY <1>1, <1>2 DEF MaxReads, Maximum!TypeOK
    <2>2. current[t] <= Maximum!Newest /\ current[t] \in Nat /\ Proposed[t] \in Nat
      BY <1>1, <2>1, MaximumAssumption DEF MaxHistory, Maximum!TypeOK
    <2> QED
      BY <1>2, <1>3, <2>2
  <1>5. Maximum!TypeOK'
    BY <1>1, <1>2 DEF Maximum!TypeOK
  <1>6. Maximum!OnlyGrows' /\ MaxHistory' /\ MaxProposed'
    BY <1>1, <1>2, <1>3 DEF Maximum!OnlyGrows, MaxHistory, MaxProposed
  <1>7. MaxReads' /\ MaxReached'
    BY <1>1, <1>2, <1>3, <1>4 DEF MaxReads, MaxReached, Maximum!TypeOK
  <1> QED
    BY <1>5, <1>6, <1>7 DEF MaxInv

(* A successful compare_exchange appends a larger value. *)
LEMMA MaxCas ==
    ASSUME MaxInv, NEW t \in Proposers, Maximum!CasSucceeds(t)
    PROVE  MaxInv'
  <1> DEFINE len == Len(shared_max)
  <1>1. /\ Maximum!TypeOK /\ Maximum!OnlyGrows
        /\ MaxHistory /\ MaxReads /\ MaxReached /\ MaxProposed
    BY DEF MaxInv
  <1>2. /\ shared_max \in Seq(Nat) /\ len \in Nat /\ len >= 1
        /\ \A k \in 1 .. len : shared_max[k] \in Nat
        /\ Proposed[t] \in Nat /\ \A u \in Proposers : Proposed[u] \in Nat
        /\ observed \in [Proposers -> 1 .. len] /\ current \in [Proposers -> Nat]
    BY <1>1, MaximumAssumption DEF Maximum!TypeOK
  <1>3. /\ shared_max' = Append(shared_max, Proposed[t])
        /\ observed' = [observed EXCEPT ![t] = len + 1]
        /\ pcMax' = [pcMax EXCEPT ![t] = "done"] /\ current' = current
        /\ Maximum!Newest = current[t] /\ Proposed[t] > current[t]
    BY DEF Maximum!CasSucceeds
  <1>4. /\ Len(shared_max') = len + 1 /\ shared_max'[len + 1] = Proposed[t]
        /\ \A k \in 1 .. len : shared_max'[k] = shared_max[k]
        /\ shared_max' \in Seq(Nat) /\ shared_max' # <<>>
    BY <1>2, <1>3
  <1>5. /\ Maximum!Newest' = Proposed[t] /\ Maximum!Newest = shared_max[len]
        /\ Maximum!Newest \in Nat /\ Maximum!Newest < Proposed[t]
    BY <1>2, <1>3, <1>4 DEF Maximum!Newest
  <1>6. Maximum!TypeOK'
    <2>1. observed' \in [Proposers -> 1 .. Len(shared_max')]
      BY <1>2, <1>3, <1>4
    <2> QED
      BY <1>1, <1>3, <1>4, <2>1 DEF Maximum!TypeOK
  <1>7. \A k \in 1 .. Len(shared_max') : k \in 1 .. len \/ k = len + 1
    BY <1>2, <1>4
  <1>8. Maximum!OnlyGrows'
    <2> SUFFICES ASSUME NEW n \in 2 .. Len(shared_max')
                 PROVE  shared_max'[n - 1] < shared_max'[n]
      BY DEF Maximum!OnlyGrows
    <2>1. CASE n = len + 1
      <3>1. n - 1 = len /\ len \in 1 .. len
        BY <1>2, <2>1
      <3> QED
        BY <1>4, <1>5, <2>1, <3>1
    <2>2. CASE n # len + 1
      <3>1. n \in 2 .. len /\ n \in 1 .. len /\ n - 1 \in 1 .. len
        BY <1>2, <1>4, <2>2
      <3> QED
        BY <1>1, <1>4, <3>1 DEF Maximum!OnlyGrows
    <2> QED
      BY <2>1, <2>2
  <1>9. MaxHistory'
    <2> SUFFICES ASSUME NEW k \in 1 .. Len(shared_max')
                 PROVE  shared_max'[k] <= Maximum!Newest'
      BY DEF MaxHistory
    <2>1. CASE k \in 1 .. len
      <3>1. shared_max[k] <= Maximum!Newest /\ shared_max'[k] = shared_max[k] /\ shared_max[k] \in Nat
        BY <1>1, <1>2, <1>4, <2>1 DEF MaxHistory
      <3> QED
        BY <1>2, <1>5, <3>1
    <2>2. CASE k = len + 1
      BY <1>2, <1>4, <1>5, <2>2
    <2> QED
      BY <1>7, <2>1, <2>2
  <1>10. MaxReads'
    <2> SUFFICES ASSUME NEW u \in Proposers, pcMax'[u] = "loop"
                 PROVE  current'[u] = shared_max'[observed'[u]]
      BY DEF MaxReads
    <2>1. u # t /\ pcMax[u] = "loop" /\ observed'[u] = observed[u] /\ observed[u] \in 1 .. len
      BY <1>1, <1>2, <1>3 DEF Maximum!TypeOK
    <2> QED
      BY <1>1, <1>3, <1>4, <2>1 DEF MaxReads
  <1>11. MaxReached'
    <2> SUFFICES ASSUME NEW u \in Proposers, pcMax'[u] = "done"
                 PROVE  Proposed[t] >= Proposed[u]
      BY <1>5 DEF MaxReached
    <2>1. CASE u = t
      BY <1>2, <2>1
    <2>2. CASE u # t
      <3>1. Maximum!Newest >= Proposed[u]
        BY <1>1, <1>3, <2>2 DEF MaxReached, Maximum!TypeOK
      <3> QED
        BY <1>2, <1>5, <3>1
    <2> QED
      BY <2>1, <2>2
  <1>12. MaxProposed'
    BY <1>5 DEF MaxProposed
  <1> QED
    BY <1>6, <1>8, <1>9, <1>10, <1>11, <1>12 DEF MaxInv

(* Every step of a thread keeps the invariant. *)
LEMMA MaxNext == MaxInv /\ [Maximum!Next]_(Maximum!vars) => MaxInv'
  <1> SUFFICES ASSUME MaxInv, [Maximum!Next]_(Maximum!vars) PROVE MaxInv'
    OBVIOUS
  <1>1. CASE UNCHANGED Maximum!vars
    <2>1. UNCHANGED <<shared_max, observed, current, pcMax>>
      BY <1>1 DEF Maximum!vars
    <2> QED
      BY <2>1 DEF MaxInv, Maximum!TypeOK, Maximum!OnlyGrows, MaxHistory, MaxReads, MaxReached,
                  MaxProposed, Maximum!Newest
  <1>2. CASE \E t \in Proposers : Maximum!Step(t)
    BY <1>2, MaxSee, MaxExit, MaxCas DEF Maximum!Step
  <1> QED
    BY <1>1, <1>2 DEF Maximum!Next, Maximum!Joined

(* When everyone has returned the newest value is the largest proposal. *)
LEMMA MaxAtEnd == MaxInv => MaximumSound
  <1> SUFFICES ASSUME MaxInv PROVE MaximumSound
    OBVIOUS
  <1> DEFINE values == {0} \cup {Proposed[t] : t \in Proposers}
  <1>1. /\ Maximum!TypeOK /\ Maximum!OnlyGrows /\ MaxReached /\ MaxProposed
    BY DEF MaxInv
  <1>2. Maximum!Newest \in Nat
    BY <1>1 DEF Maximum!Newest, Maximum!TypeOK
  <1>3. ASSUME Maximum!AllDone PROVE Maximum!Newest = Maximum!Max(values)
    <2>1. Maximum!Newest \in values /\ \A y \in values : y \in Nat /\ Maximum!Newest >= y
      BY <1>1, <1>2, <1>3, MaximumAssumption DEF Maximum!AllDone, MaxReached, MaxProposed
    <2> HIDE DEF values
    <2>2. \E x \in values : \A y \in values : x >= y
      BY <2>1
    <2>3. Maximum!Max(values) \in values /\ \A y \in values : Maximum!Max(values) >= y
      BY <2>2 DEF Maximum!Max
    <2> QED
      BY <2>1, <2>3
  <1> QED
    BY <1>1, <1>3 DEF MaximumSound, Maximum!MaximumOfTheFinished, MaxReached, MaxProposed

(* update_max is linearizable as a maximum for any number of threads and any
   proposals: the stored value only grows, a call returns only when it is
   large enough, and in the end it is the largest proposal. *)
THEOREM MaximumCorrect == Maximum!SafeSpec => []MaximumSound
  BY MaxInit, MaxNext, MaxAtEnd, PTL DEF Maximum!SafeSpec

-----------------------------------------------------------------------------
(* The litmus programs (memory_model.cpp).  The counter holds the number of
   events counted; the release store carries all fields to the consumer; and
   once a Dekker thread has found the other's flag down, the other one will
   find its flag up. *)
Events == {event \in Counters \X (1 .. PER) : event[2] <= counted[event[1]]}

CounterInv ==
    /\ counted \in [Counters -> 0 .. PER]
    /\ stats_counter = Cardinality(Events)

MessageInv ==
    /\ ready => published = Litmus!Fields
    /\ pcC \in {"read", "done"} => visible = Litmus!Fields
    /\ seen \in [Litmus!Fields -> {"unread", "new"}]
    /\ visible \subseteq Litmus!Fields /\ published \subseteq Litmus!Fields
    /\ written \subseteq Litmus!Fields

(* Threads that are about to count, or have done so in this trial. *)
Counts(s) == IF pcDekker[s] = "count" THEN 1 ELSE 0
Tally == observer_count + Counts("a") + Counts("b")

DekkerInv ==
    /\ pcDekker \in [Litmus!Sides -> {"idle", "store", "load", "count", "end"}]
    /\ flag \in [Litmus!Sides -> BOOLEAN] /\ observer_count \in Nat
    /\ \A s \in Litmus!Sides : pcDekker[s] \in {"load", "count", "end"} => flag[s]
    /\ pcDekker["a"] = "idle" <=> pcDekker["b"] = "idle"
    /\ Tally <= 1
    /\ Tally = 1 => \A s \in Litmus!Sides : pcDekker[s] \in {"store", "load"} =>
                        pcDekker[Litmus!Other(s)] \in {"count", "end"}

LitmusInv == CounterInv /\ MessageInv /\ DekkerInv

(* The events are finitely many. *)
LEMMA EventsFinite ==
    /\ IsFiniteSet(Events) /\ Cardinality(Events) \in Nat
    /\ IsFiniteSet(Counters \X (1 .. PER))
    /\ Cardinality(Counters \X (1 .. PER)) = Cardinality(Counters) * PER
  <1>1. IsFiniteSet(Counters) /\ PER \in Nat
    BY BoundsAssumption
  <1>2. IsFiniteSet(1 .. PER) /\ Cardinality(1 .. PER) = PER
    BY <1>1, FS_Interval
  <1>3. /\ IsFiniteSet(Counters \X (1 .. PER))
        /\ Cardinality(Counters \X (1 .. PER)) = Cardinality(Counters) * PER
    BY <1>1, <1>2, FS_Product
  <1>4. Events \in SUBSET (Counters \X (1 .. PER))
    BY DEF Events
  <1> QED
    BY <1>3, <1>4, FS_Subset, FS_CardinalityType

(* Nothing is counted, published or raised at the start. *)
LEMMA LitmusInit == Litmus!Init => LitmusInv
  <1> SUFFICES ASSUME Litmus!Init PROVE LitmusInv
    OBVIOUS
  <1>1. CounterInv
    <2>1. stats_counter = 0 /\ counted = [t \in Counters |-> 0] /\ PER \in Nat
      BY BoundsAssumption DEF Litmus!Init
    <2>2. Events = {}
      BY <2>1 DEF Events
    <2>3. Cardinality(Events) = 0
      BY <2>2, FS_EmptySet
    <2> QED
      BY <2>1, <2>3 DEF CounterInv
  <1>2. MessageInv
    BY DEF Litmus!Init, MessageInv
  <1>3. DekkerInv
    BY DEF Litmus!Init, DekkerInv, Tally, Counts, Litmus!Sides
  <1> QED
    BY <1>1, <1>2, <1>3 DEF LitmusInv

(* fetch_add counts one more event of its thread. *)
LEMMA CountEventKeeps ==
    ASSUME CounterInv, NEW t \in Counters, Litmus!CountEvent(t) PROVE CounterInv'
  <1> DEFINE new == <<t, counted[t] + 1>>
  <1>1. /\ PER \in Nat /\ counted \in [Counters -> 0 .. PER] /\ counted[t] < PER
        /\ stats_counter' = stats_counter + 1
        /\ counted' = [counted EXCEPT ![t] = counted[t] + 1]
        /\ stats_counter = Cardinality(Events)
    BY BoundsAssumption DEF CounterInv, Litmus!CountEvent
  <1>2. /\ counted' \in [Counters -> 0 .. PER]
        /\ counted'[t] = counted[t] + 1
        /\ \A u \in Counters : u # t => counted'[u] = counted[u]
        /\ counted[t] \in Nat
    BY <1>1
  <1>3. /\ new \in Counters \X (1 .. PER) /\ new[1] = t /\ new[2] = counted[t] + 1
    BY <1>1, <1>2
  <1>4. new \notin Events /\ new \in Events'
    BY <1>2, <1>3 DEF Events
  <1>5. ASSUME NEW event \in Counters \X (1 .. PER), event # new
        PROVE  event \in Events' <=> event \in Events
    <2>1. event[1] \in Counters /\ event[2] \in Nat /\ event = <<event[1], event[2]>>
      BY <1>1
    <2>2. CASE event[1] = t
      <3>1. event[2] # counted[t] + 1
        BY <1>5, <2>1, <2>2
      <3>2. (event[2] <= counted[t] + 1) <=> (event[2] <= counted[t])
        BY <1>2, <2>1, <3>1
      <3> QED
        BY <1>2, <2>2, <3>2 DEF Events
    <2>3. CASE event[1] # t
      BY <1>2, <2>1, <2>3 DEF Events
    <2> QED
      BY <2>2, <2>3
  <1>6. Events \subseteq Counters \X (1 .. PER) /\ Events' \subseteq Counters \X (1 .. PER)
    BY DEF Events
  <1> HIDE DEF new
  <1>7. Events' = Events \cup {new}
    BY <1>4, <1>5, <1>6
  <1>8. Cardinality(Events') = Cardinality(Events) + 1
    BY <1>4, <1>7, EventsFinite, FS_AddElement
  <1> QED
    BY <1>1, <1>2, <1>8 DEF CounterInv

(* The message: what the release store publishes, the acquire load makes
   visible, so every read returns the new value. *)
LEMMA MessageKeeps ==
    ASSUME MessageInv, Litmus!MessagePassing PROVE MessageInv'
  <1>1. ASSUME NEW f \in Litmus!Fields, Litmus!WriteField(f) PROVE MessageInv'
    BY <1>1 DEF MessageInv, Litmus!WriteField
  <1>2. ASSUME NEW f \in Litmus!Fields, Litmus!ReadField(f) PROVE MessageInv'
    <2>1. seen' = [seen EXCEPT ![f] = "new"]
      BY <1>2 DEF MessageInv, Litmus!ReadField
    <2> QED
      BY <1>2, <2>1 DEF MessageInv, Litmus!ReadField
  <1>3. CASE Litmus!StoreReady
    BY <1>3 DEF MessageInv, Litmus!StoreReady
  <1>4. CASE Litmus!LoadReady
    BY <1>4 DEF MessageInv, Litmus!LoadReady
  <1>5. CASE Litmus!ConsumerEnd
    BY <1>5 DEF MessageInv, Litmus!ConsumerEnd
  <1> QED
    BY <1>1, <1>2, <1>3, <1>4, <1>5 DEF Litmus!MessagePassing

(* A thread goes on to count only if the other one has not raised its flag
   yet, and then that one will see this thread's flag. *)
LEMMA DekkerKeeps ==
    ASSUME DekkerInv, Litmus!Dekker PROVE DekkerInv'
  <1> USE DEF Litmus!Sides, Litmus!Other
  <1>1. CASE Litmus!StartTrial
    BY <1>1 DEF DekkerInv, Litmus!StartTrial, Tally, Counts
  <1>2. CASE Litmus!JoinTrial
    BY <1>2 DEF DekkerInv, Litmus!JoinTrial, Tally, Counts
  <1>3. ASSUME NEW s \in Litmus!Sides, Litmus!StoreFlag(s) PROVE DekkerInv'
    BY <1>3 DEF DekkerInv, Litmus!StoreFlag, Tally, Counts
  <1>4. ASSUME NEW s \in Litmus!Sides, Litmus!LoadOther(s) PROVE DekkerInv'
    BY <1>4 DEF DekkerInv, Litmus!LoadOther, Tally, Counts
  <1>5. ASSUME NEW s \in Litmus!Sides, Litmus!Count(s) PROVE DekkerInv'
    BY <1>5 DEF DekkerInv, Litmus!Count, Tally, Counts
  <1> QED
    BY <1>1, <1>2, <1>3, <1>4, <1>5 DEF Litmus!Dekker

(* Every step of the litmus programs keeps the invariant. *)
LEMMA LitmusNext == LitmusInv /\ [Litmus!Next]_(Litmus!vars) => LitmusInv'
  <1> SUFFICES ASSUME LitmusInv, [Litmus!Next]_(Litmus!vars) PROVE LitmusInv'
    OBVIOUS
  <1>1. CounterInv /\ MessageInv /\ DekkerInv
    BY DEF LitmusInv
  <1>2. ASSUME UNCHANGED Litmus!relaxed PROVE CounterInv'
    BY <1>1, <1>2 DEF CounterInv, Events, Litmus!relaxed
  <1>3. ASSUME UNCHANGED Litmus!message PROVE MessageInv'
    BY <1>1, <1>3 DEF MessageInv, Litmus!message
  <1>4. ASSUME UNCHANGED Litmus!dekker PROVE DekkerInv'
    BY <1>1, <1>4 DEF DekkerInv, Tally, Counts, Litmus!dekker
  <1>5. CASE UNCHANGED Litmus!vars
    BY <1>2, <1>3, <1>4, <1>5 DEF Litmus!vars, LitmusInv
  <1>6. CASE \E t \in Counters : Litmus!CountEvent(t)
    <2>1. UNCHANGED Litmus!message /\ UNCHANGED Litmus!dekker
      BY <1>6 DEF Litmus!CountEvent
    <2> QED
      BY <1>1, <1>3, <1>4, <1>6, <2>1, CountEventKeeps DEF LitmusInv
  <1>7. CASE Litmus!MessagePassing
    <2>1. UNCHANGED Litmus!relaxed /\ UNCHANGED Litmus!dekker
      BY <1>7 DEF Litmus!MessagePassing, Litmus!WriteField, Litmus!ReadField, Litmus!StoreReady,
                  Litmus!LoadReady, Litmus!ConsumerEnd
    <2> QED
      BY <1>1, <1>2, <1>4, <1>7, <2>1, MessageKeeps DEF LitmusInv
  <1>8. CASE Litmus!Dekker
    <2>1. UNCHANGED Litmus!relaxed /\ UNCHANGED Litmus!message
      BY <1>8 DEF Litmus!Dekker, Litmus!StartTrial, Litmus!StoreFlag, Litmus!LoadOther,
                  Litmus!Count, Litmus!JoinTrial
    <2> QED
      BY <1>1, <1>2, <1>3, <1>8, <2>1, DekkerKeeps DEF LitmusInv
  <1> QED
    BY <1>5, <1>6, <1>7, <1>8 DEF Litmus!Next, Litmus!Finished

(* The asserts follow. *)
LEMMA LitmusSound == LitmusInv => LitmusAsserts
  <1> SUFFICES ASSUME LitmusInv PROVE LitmusAsserts
    OBVIOUS
  <1>1. Litmus!CounterExact
    <2>0. Litmus!Cardinality(Counters) = Cardinality(Counters)
      BY DEF Litmus!Cardinality, Cardinality
    <2> SUFFICES ASSUME Litmus!CountersJoined
                 PROVE  stats_counter = Cardinality(Counters) * PER
      BY <2>0 DEF Litmus!CounterExact
    <2>1. Events = Counters \X (1 .. PER)
      BY DEF Litmus!CountersJoined, Events
    <2> QED
      BY <2>1, EventsFinite DEF LitmusInv, CounterInv
  <1>2. Litmus!PayloadVisible
    BY DEF LitmusInv, MessageInv, Litmus!PayloadVisible
  <1>3. observer_count <= 1
    BY DEF LitmusInv, DekkerInv, Tally, Counts
  <1> QED
    BY <1>1, <1>2, <1>3 DEF LitmusAsserts, Litmus!LitmusAsserts

(* The asserts of memory_model.cpp hold for any number of counting threads,
   events and trials, whatever stale values the loads may return. *)
THEOREM LitmusCorrect == Litmus!Init /\ [][Litmus!Next]_(Litmus!vars) => []LitmusAsserts
  BY LitmusInit, LitmusNext, LitmusSound, PTL

-----------------------------------------------------------------------------
(* The draining consumers of mutex_condvar.cpp.  Items rise along the buffer
   and along each consumer's vector, and everything consumed is below
   everything buffered, since a consumer always takes the whole buffer. *)
BufferRises ==
    /\ \A m \in 1 .. Len(buffer) : buffer[m] < i
    /\ \A m, n \in 1 .. Len(buffer) : m < n => buffer[m] < buffer[n]

VectorsRise ==
    \A c \in Consumers :
        /\ \A m \in 1 .. Len(consumed[c]) : consumed[c][m] < i
        /\ \A m, n \in 1 .. Len(consumed[c]) : m < n => consumed[c][m] < consumed[c][n]

ConsumedBelowBuffered ==
    \A c \in Consumers : \A m \in 1 .. Len(consumed[c]), n \in 1 .. Len(buffer) :
        consumed[c][m] < buffer[n]

ConsumedByOne ==
    \A c, d \in Consumers : c # d =>
        \A m \in 1 .. Len(consumed[c]), n \in 1 .. Len(consumed[d]) :
            consumed[c][m] # consumed[d][n]

ProducedIsSomewhere ==
    \A item \in 0 .. NUM_ITEMS - 1 : item < i =>
        \/ \E m \in 1 .. Len(buffer) : buffer[m] = item
        \/ \E c \in Consumers : \E m \in 1 .. Len(consumed[c]) : consumed[c][m] = item

(* done is set last, and a consumer leaves only after that, with nothing left. *)
LeavingInv ==
    /\ done <=> pcProducer \in {"notify_all", "exited"}
    /\ done => i = NUM_ITEMS
    /\ \A c \in Consumers : pcConsumer[c] = "exited" => done /\ buffer = <<>>

ItemsInv ==
    /\ BufferRises /\ VectorsRise /\ ConsumedBelowBuffered /\ ConsumedByOne
    /\ ProducedIsSomewhere

CondvarInv == Condvar!TypeOK /\ ItemsInv /\ LeavingInv /\ Condvar!NoLostWakeup

(* Items are numbers. *)
LEMMA ItemsTyped ==
    ASSUME Condvar!TypeOK
    PROVE  /\ i \in Nat /\ NUM_ITEMS \in Nat
           /\ Len(buffer) \in Nat /\ \A m \in 1 .. Len(buffer) : buffer[m] \in Nat
           /\ \A c \in Consumers :
                  /\ Len(consumed[c]) \in Nat
                  /\ \A m \in 1 .. Len(consumed[c]) : consumed[c][m] \in Nat
  <1>1. NUM_ITEMS \in Nat
    BY BoundsAssumption
  <1>2. 0 .. NUM_ITEMS - 1 \subseteq Nat
    BY <1>1
  <1>3. buffer \in Seq(0 .. NUM_ITEMS - 1) /\ \A c \in Consumers : consumed[c] \in Seq(0 .. NUM_ITEMS - 1)
    BY DEF Condvar!TypeOK
  <1>4. ASSUME NEW S \in SUBSET Nat, NEW s \in Seq(S)
        PROVE  Len(s) \in Nat /\ \A m \in 1 .. Len(s) : s[m] \in Nat
    <2>1. Len(s) \in Nat /\ \A m \in 1 .. Len(s) : s[m] \in S
      BY <1>4
    <2> QED
      BY <1>4, <2>1
  <1>5. i \in Nat
    BY <1>1 DEF Condvar!TypeOK
  <1> QED
    BY <1>1, <1>2, <1>3, <1>4, <1>5

(* Nothing is buffered, nobody waits. *)
LEMMA CondvarInit == Condvar!Init => CondvarInv
  <1> SUFFICES ASSUME Condvar!Init PROVE CondvarInv
    OBVIOUS
  <1> USE BoundsAssumption DEF Condvar!Init
  <1>1. buffer \in Seq(0 .. NUM_ITEMS - 1) /\ consumed \in [Consumers -> Seq(0 .. NUM_ITEMS - 1)]
    OBVIOUS
  <1>2. i \in 0 .. NUM_ITEMS
    OBVIOUS
  <1>3. Condvar!TypeOK
    BY <1>1, <1>2 DEF Condvar!TypeOK
  <1>4. Len(buffer) = 0 /\ \A c \in Consumers : Len(consumed[c]) = 0
    OBVIOUS
  <1>5. ItemsInv
    BY <1>2, <1>4 DEF ItemsInv, BufferRises, VectorsRise, ConsumedBelowBuffered, ConsumedByOne,
                      ProducedIsSomewhere
  <1>6. LeavingInv /\ Condvar!NoLostWakeup
    BY DEF LeavingInv, Condvar!NoLostWakeup
  <1> QED
    BY <1>3, <1>5, <1>6 DEF CondvarInv

(* The producer's scope (lines 39-43): item i is above every other one. *)
LEMMA ProduceKeeps ==
    ASSUME CondvarInv, Condvar!Produce PROVE CondvarInv'
  <1> USE BoundsAssumption
  <1>1. Condvar!TypeOK /\ ItemsInv /\ LeavingInv
    BY DEF CondvarInv
  <1>2. /\ i < NUM_ITEMS /\ buffer' = Append(buffer, i) /\ i' = i + 1
        /\ pcProducer = "produce" /\ pcProducer' = "notify_one"
        /\ UNCHANGED <<done, cv, pcConsumer, consumed>>
    BY DEF Condvar!Produce
  <1>3. /\ i \in Nat /\ NUM_ITEMS \in Nat
        /\ Len(buffer) \in Nat /\ \A m \in 1 .. Len(buffer) : buffer[m] \in Nat
        /\ \A c \in Consumers :
               /\ Len(consumed[c]) \in Nat
               /\ \A m \in 1 .. Len(consumed[c]) : consumed[c][m] \in Nat
    BY <1>1, ItemsTyped
  <1>4. i \in 0 .. NUM_ITEMS - 1 /\ i + 1 \in 0 .. NUM_ITEMS
    BY <1>2, <1>3
  <1>5. buffer' \in Seq(0 .. NUM_ITEMS - 1)
    BY <1>1, <1>2, <1>4 DEF Condvar!TypeOK
  <1>6. Condvar!TypeOK'
    BY <1>1, <1>2, <1>4, <1>5 DEF Condvar!TypeOK
  <1>7. /\ Len(buffer') = Len(buffer) + 1
        /\ \A m \in 1 .. Len(buffer) : buffer'[m] = buffer[m]
        /\ buffer'[Len(buffer) + 1] = i
    BY <1>1, <1>2, <1>4 DEF Condvar!TypeOK
  <1>8. \A m \in 1 .. Len(buffer') : m \in 1 .. Len(buffer) \/ m = Len(buffer) + 1
    BY <1>3, <1>7
  <1>9. BufferRises'
    <2>1. \A m \in 1 .. Len(buffer') : buffer'[m] < i'
      BY <1>1, <1>2, <1>3, <1>7, <1>8 DEF ItemsInv, BufferRises
    <2>2. ASSUME NEW m \in 1 .. Len(buffer'), NEW n \in 1 .. Len(buffer'), m < n
          PROVE  buffer'[m] < buffer'[n]
      <3>1. m \in 1 .. Len(buffer)
        BY <1>3, <1>7, <2>2
      <3> QED
        BY <1>1, <1>3, <1>7, <1>8, <2>2, <3>1 DEF ItemsInv, BufferRises
    <2> QED
      BY <2>1, <2>2 DEF BufferRises
  <1>10. VectorsRise'
    <2>1. \A c \in Consumers : \A m \in 1 .. Len(consumed[c]) : consumed[c][m] < i + 1
      BY <1>1, <1>3 DEF ItemsInv, VectorsRise
    <2> QED
      BY <1>1, <1>2, <2>1 DEF ItemsInv, VectorsRise
  <1>11. ConsumedBelowBuffered'
    BY <1>1, <1>2, <1>3, <1>7, <1>8 DEF ItemsInv, VectorsRise, ConsumedBelowBuffered
  <1>12. ConsumedByOne'
    BY <1>1, <1>2 DEF ItemsInv, ConsumedByOne
  <1>13. ProducedIsSomewhere'
    <2> SUFFICES ASSUME NEW item \in 0 .. NUM_ITEMS - 1, item < i'
                 PROVE  \/ \E m \in 1 .. Len(buffer') : buffer'[m] = item
                        \/ \E c \in Consumers : \E m \in 1 .. Len(consumed'[c]) : consumed'[c][m] = item
      BY DEF ProducedIsSomewhere
    <2>1. CASE item = i
      BY <1>3, <1>7, <2>1
    <2>2. CASE item < i
      <3>1. CASE \E m \in 1 .. Len(buffer) : buffer[m] = item
        BY <1>3, <1>7, <3>1
      <3>2. CASE \E c \in Consumers : \E m \in 1 .. Len(consumed[c]) : consumed[c][m] = item
        BY <1>2, <3>2
      <3> QED
        BY <1>1, <2>2, <3>1, <3>2 DEF ItemsInv, ProducedIsSomewhere
    <2> QED
      BY <1>2, <1>3, <2>1, <2>2
  <1>14. LeavingInv' /\ Condvar!NoLostWakeup'
    <2>1. ~done
      BY <1>1, <1>2 DEF LeavingInv
    <2> QED
      BY <1>1, <1>2, <2>1 DEF LeavingInv, Condvar!NoLostWakeup
  <1> QED
    BY <1>6, <1>9, <1>10, <1>11, <1>12, <1>13, <1>14 DEF CondvarInv, ItemsInv

(* The producer's other steps move no item; a notification leaves some
   consumer awake (lines 44-50). *)
LEMMA ProducerSignals ==
    ASSUME CondvarInv, Condvar!ProduceNotify \/ Condvar!SetDone \/ Condvar!DoneNotify
    PROVE  CondvarInv'
  <1> USE BoundsAssumption
  <1>1. Condvar!TypeOK /\ ItemsInv /\ LeavingInv /\ Condvar!NoLostWakeup
    BY DEF CondvarInv
  <1>2. UNCHANGED <<buffer, i, pcConsumer, consumed>>
    BY DEF Condvar!ProduceNotify, Condvar!SetDone, Condvar!DoneNotify
  <1>3. ItemsInv'
    BY <1>1, <1>2 DEF ItemsInv, BufferRises, VectorsRise, ConsumedBelowBuffered, ConsumedByOne,
                      ProducedIsSomewhere
  <1>4. CASE Condvar!ProduceNotify
    <2>1. (cv = {} /\ cv' = {}) \/ (\E w \in cv : cv' = cv \ {w})
      BY <1>4 DEF Condvar!ProduceNotify, Condvar!notify_one
    <2>2. Condvar!TypeOK'
      BY <1>1, <1>4, <2>1 DEF Condvar!ProduceNotify, Condvar!TypeOK
    <2>3. LeavingInv'
      BY <1>1, <1>4 DEF Condvar!ProduceNotify, LeavingInv
    <2>4. cv' # Consumers
      BY <1>1, <2>1 DEF Condvar!TypeOK
    <2> QED
      BY <1>3, <2>2, <2>3, <2>4 DEF CondvarInv, Condvar!NoLostWakeup
  <1>5. CASE Condvar!SetDone
    <2>1. Condvar!TypeOK'
      BY <1>1, <1>5 DEF Condvar!SetDone, Condvar!TypeOK
    <2>2. LeavingInv' /\ Condvar!NoLostWakeup'
      BY <1>1, <1>5 DEF Condvar!SetDone, LeavingInv, Condvar!NoLostWakeup
    <2> QED
      BY <1>3, <2>1, <2>2 DEF CondvarInv
  <1>6. CASE Condvar!DoneNotify
    <2>1. cv' = {}
      BY <1>6 DEF Condvar!DoneNotify, Condvar!notify_all
    <2>2. Condvar!TypeOK'
      BY <1>1, <1>6, <2>1 DEF Condvar!DoneNotify, Condvar!TypeOK
    <2>3. LeavingInv' /\ Condvar!NoLostWakeup'
      BY <1>1, <1>6, <2>1 DEF Condvar!DoneNotify, LeavingInv, Condvar!NoLostWakeup
    <2> QED
      BY <1>3, <2>2, <2>3 DEF CondvarInv
  <1> QED
    BY <1>4, <1>5, <1>6

(* A consumer blocks only while there is nothing for it, and may wake up at
   any moment (line 56). *)
LEMMA WaitKeeps ==
    ASSUME CondvarInv, NEW c \in Consumers, Condvar!Block(c) \/ Condvar!SpuriousWakeup(c)
    PROVE  CondvarInv'
  <1>1. Condvar!TypeOK /\ ItemsInv /\ LeavingInv /\ Condvar!NoLostWakeup
    BY DEF CondvarInv
  <1>2. UNCHANGED <<buffer, done, i, pcProducer, pcConsumer, consumed>>
    BY DEF Condvar!Block, Condvar!SpuriousWakeup
  <1>3. ItemsInv' /\ LeavingInv'
    <2>1. ItemsInv'
      <3>1. BufferRises' /\ VectorsRise'
        BY <1>1, <1>2 DEF ItemsInv, BufferRises, VectorsRise
      <3>2. ConsumedBelowBuffered' /\ ConsumedByOne'
        BY <1>1, <1>2 DEF ItemsInv, ConsumedBelowBuffered, ConsumedByOne
      <3>3. ProducedIsSomewhere'
        BY <1>1, <1>2 DEF ItemsInv, ProducedIsSomewhere
      <3> QED
        BY <3>1, <3>2, <3>3 DEF ItemsInv
    <2>2. LeavingInv'
      BY <1>1, <1>2 DEF LeavingInv
    <2> QED
      BY <2>1, <2>2
  <1>4. Condvar!TypeOK'
    BY <1>1, <1>2 DEF Condvar!Block, Condvar!SpuriousWakeup, Condvar!TypeOK
  <1>5. Condvar!NoLostWakeup'
    BY <1>1, <1>2 DEF Condvar!Block, Condvar!SpuriousWakeup, Condvar!NoLostWakeup, Condvar!TypeOK
  <1> QED
    BY <1>3, <1>4, <1>5 DEF CondvarInv

(* A drain moves the whole buffer to the end of one vector (lines 58-64). *)
LEMMA DrainKeeps ==
    ASSUME CondvarInv, NEW c \in Consumers, Condvar!Drain(c) PROVE CondvarInv'
  <1>1. Condvar!TypeOK /\ ItemsInv /\ LeavingInv
    BY DEF CondvarInv
  <1>2. /\ pcConsumer[c] = "wait" /\ c \notin cv
        /\ consumed' = [consumed EXCEPT ![c] = consumed[c] \o buffer]
        /\ buffer' = <<>>
        /\ pcConsumer' = [pcConsumer EXCEPT ![c] = IF done THEN "exited" ELSE "wait"]
        /\ UNCHANGED <<done, cv, i, pcProducer>>
    BY DEF Condvar!Drain
  <1>3. /\ i \in Nat /\ NUM_ITEMS \in Nat
        /\ Len(buffer) \in Nat /\ \A m \in 1 .. Len(buffer) : buffer[m] \in Nat
        /\ \A d \in Consumers :
               /\ Len(consumed[d]) \in Nat
               /\ \A m \in 1 .. Len(consumed[d]) : consumed[d][m] \in Nat
    BY <1>1, ItemsTyped
  <1>4. consumed[c] \in Seq(0 .. NUM_ITEMS - 1) /\ buffer \in Seq(0 .. NUM_ITEMS - 1)
    BY <1>1 DEF Condvar!TypeOK
  <1>5. consumed[c] \o buffer \in Seq(0 .. NUM_ITEMS - 1)
    BY <1>4
  <1>6. /\ consumed'[c] = consumed[c] \o buffer
        /\ \A d \in Consumers : d # c => consumed'[d] = consumed[d]
    BY <1>1, <1>2 DEF Condvar!TypeOK
  <1>7. consumed' \in [Consumers -> Seq(0 .. NUM_ITEMS - 1)]
    BY <1>1, <1>2, <1>5 DEF Condvar!TypeOK
  <1>8. buffer' \in Seq(0 .. NUM_ITEMS - 1) /\ Len(buffer') = 0
    BY <1>2
  <1>9. Condvar!TypeOK'
    BY <1>1, <1>2, <1>7, <1>8 DEF Condvar!TypeOK
  <1>10. /\ Len(consumed'[c]) = Len(consumed[c]) + Len(buffer)
         /\ \A m \in 1 .. Len(consumed[c]) : consumed'[c][m] = consumed[c][m]
         /\ \A m \in 1 .. Len(buffer) : consumed'[c][Len(consumed[c]) + m] = buffer[m]
    BY <1>4, <1>6
  <1>11. ASSUME NEW m \in 1 .. Len(consumed'[c])
         PROVE  \/ m \in 1 .. Len(consumed[c]) /\ consumed'[c][m] = consumed[c][m]
                \/ \E n \in 1 .. Len(buffer) : m = Len(consumed[c]) + n /\ consumed'[c][m] = buffer[n]
    <2>1. CASE m \in 1 .. Len(consumed[c])
      BY <1>10, <2>1
    <2>2. CASE m \notin 1 .. Len(consumed[c])
      <3> DEFINE n == m - Len(consumed[c])
      <3>1. n \in 1 .. Len(buffer) /\ m = Len(consumed[c]) + n
        BY <1>3, <1>10, <2>2
      <3> QED
        BY <1>10, <3>1
    <2> QED
      BY <2>1, <2>2
  <1>12. BufferRises' /\ ConsumedBelowBuffered'
    BY <1>8 DEF BufferRises, ConsumedBelowBuffered
  <1>13. VectorsRise'
    <2>1. \A m \in 1 .. Len(consumed'[c]) : consumed'[c][m] < i
      BY <1>1, <1>11 DEF ItemsInv, BufferRises, VectorsRise
    <2>2. ASSUME NEW m \in 1 .. Len(consumed'[c]), NEW n \in 1 .. Len(consumed'[c]), m < n
          PROVE  consumed'[c][m] < consumed'[c][n]
      <3>1. CASE n \in 1 .. Len(consumed[c])
        <4>1. m \in 1 .. Len(consumed[c])
          BY <1>3, <2>2, <3>1
        <4> QED
          BY <1>1, <1>10, <2>2, <3>1, <4>1 DEF ItemsInv, VectorsRise
      <3>2. CASE n \notin 1 .. Len(consumed[c])
        <4>1. PICK k \in 1 .. Len(buffer) : n = Len(consumed[c]) + k /\ consumed'[c][n] = buffer[k]
          BY <1>11, <3>2
        <4>2. CASE m \in 1 .. Len(consumed[c])
          BY <1>1, <1>10, <4>1, <4>2 DEF ItemsInv, ConsumedBelowBuffered
        <4>3. CASE m \notin 1 .. Len(consumed[c])
          <5>1. PICK l \in 1 .. Len(buffer) : m = Len(consumed[c]) + l /\ consumed'[c][m] = buffer[l]
            BY <1>11, <4>3
          <5>2. l < k
            BY <1>3, <2>2, <4>1, <5>1
          <5> QED
            BY <1>1, <4>1, <5>1, <5>2 DEF ItemsInv, BufferRises
        <4> QED
          BY <4>2, <4>3
      <3> QED
        BY <3>1, <3>2
    <2> QED
      BY <1>1, <1>2, <1>6, <2>1, <2>2 DEF ItemsInv, VectorsRise
  <1>14. ConsumedByOne'
    <2>1. ASSUME NEW d \in Consumers, d # c,
                 NEW m \in 1 .. Len(consumed'[c]), NEW n \in 1 .. Len(consumed[d])
          PROVE  consumed'[c][m] # consumed[d][n]
      <3>1. consumed[d][n] \in Nat
        BY <1>3
      <3>2. CASE m \in 1 .. Len(consumed[c])
        BY <1>1, <1>10, <2>1, <3>2 DEF ItemsInv, ConsumedByOne
      <3>3. CASE m \notin 1 .. Len(consumed[c])
        <4>1. PICK l \in 1 .. Len(buffer) : consumed'[c][m] = buffer[l]
          BY <1>11, <3>3
        <4>2. consumed[d][n] < buffer[l] /\ buffer[l] \in Nat
          BY <1>1, <1>3 DEF ItemsInv, ConsumedBelowBuffered
        <4> QED
          BY <3>1, <4>1, <4>2
      <3> QED
        BY <3>2, <3>3
    <2>2. ASSUME NEW d \in Consumers, NEW e \in Consumers, d # e,
                 NEW m \in 1 .. Len(consumed'[d]), NEW n \in 1 .. Len(consumed'[e])
          PROVE  consumed'[d][m] # consumed'[e][n]
      <3>1. CASE d # c /\ e # c
        BY <1>1, <1>6, <2>2, <3>1 DEF ItemsInv, ConsumedByOne
      <3>2. CASE d = c
        <4>1. e # c /\ m \in 1 .. Len(consumed'[c]) /\ consumed'[e] = consumed[e] /\ n \in 1 .. Len(consumed[e])
          BY <1>6, <2>2, <3>2
        <4>2. consumed'[c][m] # consumed[e][n]
          BY <2>1, <4>1
        <4> QED
          BY <3>2, <4>1, <4>2
      <3>3. CASE e = c
        <4>1. d # c /\ n \in 1 .. Len(consumed'[c]) /\ consumed'[d] = consumed[d] /\ m \in 1 .. Len(consumed[d])
          BY <1>6, <2>2, <3>3
        <4>2. consumed'[c][n] # consumed[d][m]
          BY <2>1, <4>1
        <4> QED
          BY <3>3, <4>1, <4>2
      <3> QED
        BY <3>1, <3>2, <3>3
    <2> QED
      BY <2>2 DEF ConsumedByOne
  <1>15. ProducedIsSomewhere'
    <2> SUFFICES ASSUME NEW item \in 0 .. NUM_ITEMS - 1, item < i
                 PROVE  \E d \in Consumers : \E m \in 1 .. Len(consumed'[d]) : consumed'[d][m] = item
      BY <1>2 DEF ProducedIsSomewhere
    <2>1. CASE \E m \in 1 .. Len(buffer) : buffer[m] = item
      <3>1. PICK m \in 1 .. Len(buffer) : buffer[m] = item
        BY <2>1
      <3>2. Len(consumed[c]) + m \in 1 .. Len(consumed'[c])
        BY <1>3, <1>10
      <3> QED
        BY <1>10, <3>1, <3>2
    <2>2. CASE \E d \in Consumers : \E m \in 1 .. Len(consumed[d]) : consumed[d][m] = item
      <3>1. PICK d \in Consumers : \E m \in 1 .. Len(consumed[d]) : consumed[d][m] = item
        BY <2>2
      <3>2. PICK m \in 1 .. Len(consumed[d]) : consumed[d][m] = item
        BY <3>1
      <3>3. m \in 1 .. Len(consumed'[d]) /\ consumed'[d][m] = item
        BY <1>3, <1>6, <1>10, <3>2, SMTT(30)
      <3> QED
        BY <3>3
    <2> QED
      BY <1>1, <2>1, <2>2 DEF ItemsInv, ProducedIsSomewhere
  <1>16. LeavingInv' /\ Condvar!NoLostWakeup'
    <2>1. cv # Consumers
      BY <1>2
    <2> QED
      BY <1>1, <1>2, <2>1 DEF LeavingInv, Condvar!NoLostWakeup, Condvar!TypeOK
  <1> QED
    BY <1>9, <1>12, <1>13, <1>14, <1>15, <1>16 DEF CondvarInv, ItemsInv

(* Every step of the producer or a consumer. *)
LEMMA CondvarNext == CondvarInv /\ [Condvar!Next]_(Condvar!vars) => CondvarInv'
  <1> SUFFICES ASSUME CondvarInv, [Condvar!Next]_(Condvar!vars) PROVE CondvarInv'
    OBVIOUS
  <1>1. CASE UNCHANGED Condvar!vars
    BY <1>1 DEF Condvar!vars, CondvarInv, Condvar!TypeOK, ItemsInv, BufferRises, VectorsRise,
                ConsumedBelowBuffered, ConsumedByOne, ProducedIsSomewhere, LeavingInv,
                Condvar!NoLostWakeup
  <1>2. CASE Condvar!Producer
    BY <1>2, ProduceKeeps, ProducerSignals DEF Condvar!Producer
  <1>3. CASE \E c \in Consumers : Condvar!Consumer(c) \/ Condvar!SpuriousWakeup(c)
    BY <1>3, WaitKeeps, DrainKeeps DEF Condvar!Consumer
  <1> QED
    BY <1>1, <1>2, <1>3 DEF Condvar!Next, Condvar!Joined

(* When all have left, the buffer is empty and all items were produced. *)
LEMMA CondvarImplies == CondvarInv => CondvarSound
  <1> SUFFICES ASSUME CondvarInv PROVE CondvarSound
    OBVIOUS
  <1>1. \A c \in Consumers : DOMAIN consumed[c] = 1 .. Len(consumed[c])
    BY DEF CondvarInv, Condvar!TypeOK
  <1>2. ASSUME Condvar!AllDone, NEW item \in 0 .. NUM_ITEMS - 1
        PROVE  \E c \in Consumers : \E n \in DOMAIN consumed[c] : consumed[c][n] = item
    <2>1. done /\ i = NUM_ITEMS /\ buffer = <<>>
      BY <1>2, BoundsAssumption DEF CondvarInv, LeavingInv, Condvar!AllDone
    <2>2. Len(buffer) = 0 /\ item < i
      BY <2>1, BoundsAssumption
    <2> QED
      BY <1>1, <2>2 DEF CondvarInv, ItemsInv, ProducedIsSomewhere
  <1>3. Condvar!ConsumedOnceInOrder
    BY <1>1, <1>2, SMTT(30) DEF CondvarInv, ItemsInv, VectorsRise, ConsumedByOne, Condvar!ConsumedOnceInOrder
  <1> QED
    BY <1>3 DEF CondvarInv, CondvarSound

(* With any number of consumers and items, every item is consumed once and in
   order, and no notification is lost. *)
THEOREM CondvarCorrect == Condvar!Init /\ [][Condvar!Next]_(Condvar!vars) => []CondvarSound
  BY CondvarInit, CondvarNext, CondvarImplies, PTL

-----------------------------------------------------------------------------
(* The transfers of mutex_condvar.cpp.  Which mutexes a thread holds follows
   from its place: none before std::lock has one, the first only between the
   lock and the try_lock, its two and no other in the body. *)
OwnsOnlyItsTwo ==
    \A t \in Movers : \A x \in Accounts : owner[x] = t => x \in {From[t], To[t]}

TryOwnsFirst ==
    \A t \in Movers : pcTransfer[t] = "try" =>
        owner[first[t]] = t /\ owner[Transfer!Second(t)] # t

TransferLeft == \A t \in Movers : pcTransfer[t] # "lock" => transferred[t] < Transfers

OwnersInv ==
    /\ Transfer!TypeOK /\ TransferLeft
    /\ Transfer!BodyOwnsBoth /\ Transfer!NoHoldAndWait
    /\ OwnsOnlyItsTwo /\ TryOwnsFirst

(* What a thread has checked or read of a balance still holds when it writes,
   because it owns the accounts in between. *)
CheckStillHolds ==
    \A t \in Movers : pcTransfer[t] \in {"debit", "debiting"} => balance[From[t]] >= Amount[t]

ReadStillHolds ==
    \A t \in Movers :
        /\ pcTransfer[t] = "debiting" => sum[t] = balance[From[t]]
        /\ pcTransfer[t] = "crediting" => sum[t] = balance[To[t]]

NotOverdrawn == \A x \in Accounts : balance[x] >= 0

BalancesInv == CheckStillHolds /\ ReadStillHolds /\ NotOverdrawn /\ Transfer!MoneyConserved

TransferInv == OwnersInv /\ BalancesInv

(* Accounts, amounts and the second account of a thread. *)
LEMMA TransferTyped ==
    ASSUME Transfer!TypeOK, NEW t \in Movers
    PROVE  /\ From[t] \in Accounts /\ To[t] \in Accounts /\ From[t] # To[t] /\ t # NoOne
           /\ first[t] \in {From[t], To[t]} /\ first[t] \in Accounts
           /\ Transfer!Second(t) \in Accounts /\ Transfer!Second(t) # first[t]
           /\ {first[t], Transfer!Second(t)} = {From[t], To[t]}
           /\ Amount[t] \in Nat /\ transferred[t] \in Nat /\ transferred[t] <= Transfers
           /\ sum[t] \in Int /\ balance[From[t]] \in Int /\ balance[To[t]] \in Int
  <1>1. /\ From[t] \in Accounts /\ To[t] \in Accounts /\ From[t] # To[t] /\ t # NoOne
        /\ Amount[t] \in Nat
    BY TransferAssumption
  <1>2. /\ first[t] \in {From[t], To[t]} /\ first[t] \in Accounts
        /\ sum[t] \in Int /\ balance[From[t]] \in Int /\ balance[To[t]] \in Int
    BY <1>1 DEF Transfer!TypeOK
  <1>3. transferred[t] \in Nat /\ transferred[t] <= Transfers
    BY BoundsAssumption DEF Transfer!TypeOK
  <1>4. /\ Transfer!Second(t) \in Accounts /\ Transfer!Second(t) # first[t]
        /\ {first[t], Transfer!Second(t)} = {From[t], To[t]}
    BY <1>1, <1>2 DEF Transfer!Second
  <1> QED
    BY <1>1, <1>2, <1>3, <1>4

(* The totals of AccountTransfer are the sums of Arithmetic. *)
LEMMA TotalIsSum ==
    ASSUME NEW f, NEW S PROVE Transfer!Total(f, S) = SumOver(f, S)
  BY DEF Transfer!Total, Transfer!MapThenSumSet, Transfer!MapThenFoldSet,
         SumOver, MapThenSumSet, MapThenFoldSet

(* Nobody holds a mutex, and nothing is between accounts. *)
LEMMA TransferInit == Transfer!Init => TransferInv
  <1> SUFFICES ASSUME Transfer!Init PROVE TransferInv
    OBVIOUS
  <1> USE BoundsAssumption, TransferAssumption DEF Transfer!Init
  <1>1. Transfer!TypeOK
    <2>1. owner \in [Accounts -> Movers \cup {NoOne}]
      OBVIOUS
    <2>2. balance \in [Accounts -> Int] /\ sum \in [Movers -> Int]
      OBVIOUS
    <2>3. transferred \in [Movers -> 0 .. Transfers]
      OBVIOUS
    <2>4. first \in [Movers -> Accounts] /\ \A t \in Movers : first[t] \in {From[t], To[t]}
      OBVIOUS
    <2> QED
      BY <2>1, <2>2, <2>3, <2>4 DEF Transfer!TypeOK
  <1>2. \A t \in Movers : pcTransfer[t] = "lock" /\ \A x \in Accounts : owner[x] # t
    OBVIOUS
  <1>3. OwnersInv
    BY <1>1, <1>2 DEF OwnersInv, TransferLeft, Transfer!BodyOwnsBoth, Transfer!NoHoldAndWait,
                      OwnsOnlyItsTwo, TryOwnsFirst
  <1>4. CheckStillHolds /\ ReadStillHolds /\ NotOverdrawn
    BY DEF CheckStillHolds, ReadStillHolds, NotOverdrawn
  <1>5. Transfer!MoneyConserved
    <2>1. Transfer!InFlight = {}
      BY <1>2 DEF Transfer!InFlight
    <2>2. Transfer!Total(Amount, Transfer!InFlight) = 0
      BY <2>1, TotalIsSum, SumEmpty
    <2>3. Transfer!Total(InitialBalance, Accounts) \in Int
      BY TotalIsSum, SumType
    <2> QED
      BY <2>2, <2>3 DEF Transfer!MoneyConserved
  <1> QED
    BY <1>3, <1>4, <1>5 DEF TransferInv, BalancesInv

(* A step that moves no money and leaves the set of open transfers as it is. *)
LEMMA MoneyUnmoved ==
    ASSUME Transfer!MoneyConserved, balance' = balance, Transfer!InFlight' = Transfer!InFlight
    PROVE  Transfer!MoneyConserved'
  BY DEF Transfer!MoneyConserved

(* The finite sets and the numbers the totals are over. *)
LEMMA MoneyTyped ==
    ASSUME Transfer!TypeOK
    PROVE  /\ IsFiniteSet(Accounts) /\ IsFiniteSet(Transfer!InFlight)
           /\ Transfer!InFlight \subseteq Movers
           /\ \A x \in Accounts : balance[x] \in Int
           /\ \A t \in Movers : Amount[t] \in Int
           /\ SumOver(balance, Accounts) \in Int
           /\ SumOver(Amount, Transfer!InFlight) \in Int
           /\ SumOver(InitialBalance, Accounts) \in Int
  <1>1. Transfer!InFlight \subseteq Movers
    BY DEF Transfer!InFlight
  <1>2. IsFiniteSet(Transfer!InFlight)
    BY <1>1, TransferAssumption, FS_Subset
  <1>3. /\ \A x \in Accounts : balance[x] \in Int /\ InitialBalance[x] \in Int
        /\ \A t \in Movers : Amount[t] \in Int
    BY TransferAssumption DEF Transfer!TypeOK
  <1> QED
    BY <1>1, <1>2, <1>3, TransferAssumption, SumType

(* std::lock and the unlock (line 77): mutexes change hands only by being
   free, so nobody else's are touched. *)
LEMMA LockStepKeeps ==
    ASSUME TransferInv, NEW t \in Movers,
           Transfer!LockFirst(t) \/ Transfer!TryLockSecond(t) \/ Transfer!BackOff(t) \/ Transfer!Unlock(t)
    PROVE  TransferInv'
  <1> USE BoundsAssumption
  <1>1. OwnersInv /\ Transfer!TypeOK /\ BalancesInv
    BY DEF TransferInv, OwnersInv
  <1>2. balance' = balance /\ sum' = sum
    BY DEF Transfer!LockFirst, Transfer!TryLockSecond, Transfer!BackOff, Transfer!Unlock
  <1>3. \A u \in Movers : u # t => /\ pcTransfer'[u] = pcTransfer[u] /\ first'[u] = first[u]
                                   /\ transferred'[u] = transferred[u]
    BY <1>1 DEF Transfer!LockFirst, Transfer!TryLockSecond, Transfer!BackOff, Transfer!Unlock,
                Transfer!TypeOK
  <1>4. /\ From[t] \in Accounts /\ To[t] \in Accounts /\ From[t] # To[t] /\ t # NoOne
        /\ first[t] \in {From[t], To[t]} /\ first[t] \in Accounts
        /\ Transfer!Second(t) \in Accounts /\ Transfer!Second(t) # first[t]
        /\ {first[t], Transfer!Second(t)} = {From[t], To[t]}
        /\ transferred[t] \in Nat /\ transferred[t] <= Transfers
    BY <1>1, TransferTyped
  <1>5. \A u \in Movers : u # NoOne /\ From[u] \in Accounts /\ To[u] \in Accounts
    BY TransferAssumption
  <1>6. pcTransfer'[t] \in {"lock", "try", "check"} /\ pcTransfer[t] \in {"lock", "try", "unlock"}
    BY <1>1 DEF Transfer!LockFirst, Transfer!TryLockSecond, Transfer!BackOff, Transfer!Unlock,
                Transfer!TypeOK
  <1>7. Transfer!MoneyConserved'
    <2>1. Transfer!InFlight' = Transfer!InFlight
      BY <1>3, <1>6 DEF Transfer!InFlight
    <2> QED
      BY <1>1, <1>2, <2>1, MoneyUnmoved DEF BalancesInv
  <1>8. BalancesInv'
    BY <1>1, <1>2, <1>3, <1>6, <1>7 DEF BalancesInv, CheckStillHolds, ReadStillHolds, NotOverdrawn
  <1>9. Transfer!TypeOK'
    <2>1. CASE Transfer!Unlock(t)
      <3>1. transferred[t] + 1 \in 0 .. Transfers
        BY <1>1, <1>4, <2>1 DEF Transfer!Unlock, OwnersInv, TransferLeft
      <3> QED
        BY <1>1, <1>4, <2>1, <3>1 DEF Transfer!Unlock, Transfer!TypeOK
    <2>2. CASE Transfer!LockFirst(t)
      BY <1>1, <1>4, <2>2 DEF Transfer!LockFirst, Transfer!TypeOK
    <2>3. CASE Transfer!TryLockSecond(t)
      BY <1>1, <1>4, <2>3 DEF Transfer!TryLockSecond, Transfer!TypeOK
    <2>4. CASE Transfer!BackOff(t)
      <3>1. Transfer!Second(t) \in {From[t], To[t]}
        BY <1>4
      <3> QED
        BY <1>1, <1>4, <2>4, <3>1 DEF Transfer!BackOff, Transfer!TypeOK
    <2> QED
      BY <2>1, <2>2, <2>3, <2>4
  <1>10. TransferLeft'
    <2>1. pcTransfer'[t] # "lock" => transferred'[t] < Transfers
      BY <1>1 DEF Transfer!LockFirst, Transfer!TryLockSecond, Transfer!BackOff, Transfer!Unlock,
                  Transfer!TypeOK, OwnersInv, TransferLeft
    <2> QED
      BY <1>1, <1>3, <2>1 DEF OwnersInv, TransferLeft
  <1>11. /\ \A x \in Accounts : owner[x] \notin {t, NoOne} => owner'[x] = owner[x]
         /\ \A x \in Accounts : owner'[x] \notin {t, NoOne} => owner'[x] = owner[x]
    <2>1. CASE Transfer!LockFirst(t)
      BY <1>1, <1>4, <2>1 DEF Transfer!LockFirst, Transfer!TypeOK
    <2>2. CASE Transfer!TryLockSecond(t)
      BY <1>1, <1>4, <2>2 DEF Transfer!TryLockSecond, Transfer!TypeOK
    <2>3. CASE Transfer!BackOff(t)
      BY <1>1, <1>4, <2>3 DEF Transfer!BackOff, Transfer!TypeOK, OwnersInv, TryOwnsFirst
    <2>4. CASE Transfer!Unlock(t)
      BY <1>1, <1>4, <2>4 DEF Transfer!Unlock, Transfer!TypeOK, OwnersInv, Transfer!BodyOwnsBoth
    <2> QED
      BY <2>1, <2>2, <2>3, <2>4
  <1>12. /\ pcTransfer'[t] = "check" => owner'[From[t]] = t /\ owner'[To[t]] = t
         /\ pcTransfer'[t] = "lock" => \A x \in Accounts : owner'[x] # t
         /\ pcTransfer'[t] = "try" => owner'[first'[t]] = t /\ owner'[Transfer!Second(t)'] # t
         /\ \A x \in Accounts : owner'[x] = t => x \in {From[t], To[t]}
    <2>1. CASE Transfer!LockFirst(t)
      <3>1. /\ pcTransfer'[t] = "try" /\ first'[t] = first[t] /\ Transfer!Second(t)' = Transfer!Second(t)
            /\ owner' = [owner EXCEPT ![first[t]] = t] /\ owner \in [Accounts -> Movers \cup {NoOne}]
        BY <1>1, <2>1 DEF Transfer!LockFirst, Transfer!TypeOK, Transfer!Second
      <3>2. \A x \in Accounts : owner[x] # t
        BY <1>1, <2>1 DEF Transfer!LockFirst, OwnersInv, Transfer!NoHoldAndWait
      <3> QED
        BY <1>4, <3>1, <3>2
    <2>2. CASE Transfer!TryLockSecond(t)
      <3>1. /\ pcTransfer'[t] = "check" /\ owner' = [owner EXCEPT ![Transfer!Second(t)] = t]
            /\ owner \in [Accounts -> Movers \cup {NoOne}] /\ owner[first[t]] = t
        BY <1>1, <2>2 DEF Transfer!TryLockSecond, Transfer!TypeOK, OwnersInv, TryOwnsFirst
      <3>2. owner'[first[t]] = t /\ owner'[Transfer!Second(t)] = t
        BY <1>4, <3>1
      <3>3. \A x \in Accounts : owner'[x] = t => x \in {From[t], To[t]}
        BY <1>1, <1>4, <3>1 DEF OwnersInv, OwnsOnlyItsTwo
      <3> QED
        BY <1>4, <3>1, <3>2, <3>3
    <2>3. CASE Transfer!BackOff(t)
      <3>1. /\ pcTransfer'[t] = "lock" /\ owner' = [owner EXCEPT ![first[t]] = NoOne]
            /\ owner \in [Accounts -> Movers \cup {NoOne}] /\ owner[Transfer!Second(t)] # t
        BY <1>1, <2>3 DEF Transfer!BackOff, Transfer!TypeOK, OwnersInv, TryOwnsFirst
      <3>2. \A x \in Accounts : owner[x] = t => x \in {first[t], Transfer!Second(t)}
        BY <1>1, <1>4 DEF OwnersInv, OwnsOnlyItsTwo
      <3>3. \A x \in Accounts : owner'[x] # t
        BY <1>4, <3>1, <3>2
      <3> QED
        BY <3>1, <3>3
    <2>4. CASE Transfer!Unlock(t)
      <3>1. /\ pcTransfer'[t] = "lock"
            /\ owner' = [owner EXCEPT ![From[t]] = NoOne, ![To[t]] = NoOne]
            /\ owner \in [Accounts -> Movers \cup {NoOne}]
        BY <1>1, <2>4 DEF Transfer!Unlock, Transfer!TypeOK
      <3>2. \A x \in Accounts : owner'[x] # t
        BY <1>1, <1>4, <3>1 DEF OwnersInv, OwnsOnlyItsTwo
      <3> QED
        BY <3>1, <3>2
    <2> QED
      BY <2>1, <2>2, <2>3, <2>4
  <1>13. Transfer!BodyOwnsBoth'
    BY <1>1, <1>3, <1>5, <1>6, <1>11, <1>12 DEF OwnersInv, Transfer!BodyOwnsBoth
  <1>14. Transfer!NoHoldAndWait'
    <2> SUFFICES ASSUME NEW u \in Movers, pcTransfer'[u] = "lock", NEW x \in Accounts
                 PROVE  owner'[x] # u
      BY DEF Transfer!NoHoldAndWait
    <2>1. CASE u = t
      BY <1>12, <2>1
    <2>2. CASE u # t
      BY <1>1, <1>3, <1>5, <1>11, <2>2 DEF OwnersInv, Transfer!NoHoldAndWait
    <2> QED
      BY <2>1, <2>2
  <1>15. OwnsOnlyItsTwo'
    BY <1>1, <1>5, <1>11, <1>12 DEF OwnersInv, OwnsOnlyItsTwo
  <1>16. TryOwnsFirst'
    <2> SUFFICES ASSUME NEW u \in Movers, pcTransfer'[u] = "try"
                 PROVE  owner'[first'[u]] = u /\ owner'[Transfer!Second(u)'] # u
      BY DEF TryOwnsFirst
    <2>1. CASE u = t
      BY <1>12, <2>1
    <2>2. CASE u # t
      <3>1. first[u] \in Accounts /\ Transfer!Second(u) \in Accounts
        BY <1>1, TransferTyped
      <3>2. owner[first[u]] = u /\ owner[Transfer!Second(u)] # u
        BY <1>1, <1>3, <2>2 DEF OwnersInv, TryOwnsFirst
      <3>3. first'[u] = first[u] /\ Transfer!Second(u)' = Transfer!Second(u)
        BY <1>3, <2>2 DEF Transfer!Second
      <3> QED
        BY <1>5, <1>11, <2>2, <3>1, <3>2, <3>3
    <2> QED
      BY <2>1, <2>2
  <1> QED
    BY <1>8, <1>9, <1>10, <1>13, <1>14, <1>15, <1>16 DEF TransferInv, OwnersInv

(* In the body no mutex changes hands. *)
LEMMA BodyKeepsOwners ==
    ASSUME OwnersInv, NEW t \in Movers, UNCHANGED <<owner, first, transferred>>,
           NEW place \in {"debit", "debiting", "credit", "crediting", "unlock"},
           pcTransfer[t] \notin {"lock", "try"},
           pcTransfer' = [pcTransfer EXCEPT ![t] = place],
           balance' \in [Accounts -> Int], sum' \in [Movers -> Int]
    PROVE  /\ OwnersInv' /\ pcTransfer'[t] = place
           /\ \A u \in Movers : u # t => pcTransfer'[u] = pcTransfer[u]
  <1>1. Transfer!TypeOK
    BY DEF OwnersInv
  <1>2. /\ pcTransfer'[t] = place
        /\ \A u \in Movers : u # t => pcTransfer'[u] = pcTransfer[u]
    BY <1>1 DEF Transfer!TypeOK
  <1>3. Transfer!TypeOK'
    BY <1>1 DEF Transfer!TypeOK
  <1>4. TransferLeft'
    BY <1>2 DEF OwnersInv, TransferLeft
  <1>5. Transfer!BodyOwnsBoth' /\ Transfer!NoHoldAndWait' /\ OwnsOnlyItsTwo'
    BY <1>2 DEF OwnersInv, Transfer!BodyOwnsBoth, Transfer!NoHoldAndWait, OwnsOnlyItsTwo
  <1>6. TryOwnsFirst'
    BY <1>2 DEF OwnersInv, TryOwnsFirst, Transfer!Second
  <1> QED
    BY <1>2, <1>3, <1>4, <1>5, <1>6 DEF OwnersInv

(* A thread in its body shares no account with another one. *)
LEMMA BodiesApart ==
    ASSUME OwnersInv, NEW t \in Movers, NEW u \in Movers, t # u,
           pcTransfer[t] \notin {"lock", "try"}, pcTransfer[u] \notin {"lock", "try"}
    PROVE  From[u] \notin {From[t], To[t]} /\ To[u] \notin {From[t], To[t]}
  BY DEF OwnersInv, Transfer!BodyOwnsBoth

(* The balance check and the reads (lines 78-80) write no balance. *)
LEMMA ReadStepKeeps ==
    ASSUME TransferInv, NEW t \in Movers, Transfer!CheckBalance(t) \/ Transfer!Read(t)
    PROVE  TransferInv'
  <1>1. OwnersInv /\ Transfer!TypeOK /\ BalancesInv
    BY DEF TransferInv, OwnersInv
  <1>2. /\ balance[From[t]] \in Int /\ balance[To[t]] \in Int /\ Amount[t] \in Nat
    BY <1>1, TransferTyped
  <1>3. balance' = balance /\ balance' \in [Accounts -> Int]
    BY <1>1 DEF Transfer!CheckBalance, Transfer!Read, Transfer!TypeOK
  <1>4. CASE Transfer!CheckBalance(t)
    <2> DEFINE place == IF balance[From[t]] >= Amount[t] THEN "debit" ELSE "unlock"
    <2>1. /\ pcTransfer[t] = "check" /\ pcTransfer' = [pcTransfer EXCEPT ![t] = place]
          /\ UNCHANGED <<owner, first, transferred>> /\ sum' = sum /\ sum' \in [Movers -> Int]
      BY <1>1, <1>4 DEF Transfer!CheckBalance, Transfer!TypeOK
    <2>2. place \in {"debit", "unlock"} /\ (place = "debit" => balance[From[t]] >= Amount[t])
      OBVIOUS
    <2> HIDE DEF place
    <2>3. /\ OwnersInv' /\ pcTransfer'[t] = place
          /\ \A u \in Movers : u # t => pcTransfer'[u] = pcTransfer[u]
      BY <1>1, <1>3, <2>1, <2>2, BodyKeepsOwners
    <2>4. Transfer!InFlight' = Transfer!InFlight
      BY <2>1, <2>2, <2>3 DEF Transfer!InFlight
    <2>5. Transfer!MoneyConserved'
      BY <1>1, <1>3, <2>4, MoneyUnmoved DEF BalancesInv
    <2>6. CheckStillHolds'
      BY <1>1, <1>3, <2>2, <2>3 DEF BalancesInv, CheckStillHolds
    <2>7. ReadStillHolds' /\ NotOverdrawn'
      BY <1>1, <1>3, <2>1, <2>2, <2>3 DEF BalancesInv, ReadStillHolds, NotOverdrawn
    <2> QED
      BY <2>3, <2>5, <2>6, <2>7 DEF TransferInv, BalancesInv
  <1>5. CASE Transfer!Read(t)
    <2> DEFINE place == IF pcTransfer[t] = "debit" THEN "debiting" ELSE "crediting"
               value == balance[IF pcTransfer[t] = "debit" THEN From[t] ELSE To[t]]
    <2>1. /\ pcTransfer[t] \in {"debit", "credit"} /\ pcTransfer' = [pcTransfer EXCEPT ![t] = place]
          /\ UNCHANGED <<owner, first, transferred>> /\ sum' = [sum EXCEPT ![t] = value]
      BY <1>5 DEF Transfer!Read
    <2>2. /\ pcTransfer[t] = "debit" => place = "debiting" /\ value = balance[From[t]]
          /\ pcTransfer[t] = "credit" => place = "crediting" /\ value = balance[To[t]]
      OBVIOUS
    <2> HIDE DEF place, value
    <2>3. value \in Int /\ sum' \in [Movers -> Int] /\ sum'[t] = value
          /\ \A u \in Movers : u # t => sum'[u] = sum[u]
      BY <1>1, <1>2, <2>1, <2>2 DEF Transfer!TypeOK
    <2>4. /\ OwnersInv' /\ pcTransfer'[t] = place
          /\ \A u \in Movers : u # t => pcTransfer'[u] = pcTransfer[u]
      BY <1>1, <1>3, <2>1, <2>2, <2>3, BodyKeepsOwners
    <2>5. Transfer!InFlight' = Transfer!InFlight
      BY <2>1, <2>2, <2>4 DEF Transfer!InFlight
    <2>6. Transfer!MoneyConserved'
      BY <1>1, <1>3, <2>5, MoneyUnmoved DEF BalancesInv
    <2>7. CheckStillHolds'
      BY <1>1, <1>3, <2>1, <2>2, <2>4 DEF BalancesInv, CheckStillHolds
    <2>8. ReadStillHolds' /\ NotOverdrawn'
      BY <1>1, <1>3, <2>1, <2>2, <2>3, <2>4 DEF BalancesInv, ReadStillHolds, NotOverdrawn
    <2> QED
      BY <2>4, <2>6, <2>7, <2>8 DEF TransferInv, BalancesInv
  <1> QED
    BY <1>4, <1>5

(* A write of one of the thread's own balances leaves what the other threads
   have checked and read valid. *)
LEMMA WriteLeavesOthers ==
    ASSUME OwnersInv, BalancesInv, NEW t \in Movers, pcTransfer[t] \notin {"lock", "try"},
           NEW x \in {From[t], To[t]}, NEW value \in Int,
           balance' = [balance EXCEPT ![x] = value], sum' = sum,
           \A u \in Movers : u # t => pcTransfer'[u] = pcTransfer[u],
           pcTransfer'[t] \in {"credit", "unlock"}
    PROVE  CheckStillHolds' /\ ReadStillHolds'
  <1>1. ASSUME NEW u \in Movers, u # t, pcTransfer[u] \notin {"lock", "try"}
        PROVE  balance'[From[u]] = balance[From[u]] /\ balance'[To[u]] = balance[To[u]]
    <2>1. From[u] \notin {From[t], To[t]} /\ To[u] \notin {From[t], To[t]}
      BY <1>1, BodiesApart
    <2>2. balance \in [Accounts -> Int] /\ From[u] \in Accounts /\ To[u] \in Accounts
      BY TransferAssumption DEF OwnersInv, Transfer!TypeOK
    <2> QED
      BY <2>1, <2>2
  <1>2. CheckStillHolds'
    BY <1>1 DEF BalancesInv, CheckStillHolds
  <1>3. ReadStillHolds'
    BY <1>1 DEF BalancesInv, ReadStillHolds
  <1> QED
    BY <1>2, <1>3

(* from.balance -= amount (line 79): the account still holds what was read
   and at least the amount, and the amount is now in flight. *)
LEMMA DebitKeeps ==
    ASSUME TransferInv, NEW t \in Movers, Transfer!Debit(t) PROVE TransferInv'
  <1>1. OwnersInv /\ Transfer!TypeOK /\ BalancesInv
    BY DEF TransferInv, OwnersInv
  <1>2. /\ From[t] \in Accounts /\ Amount[t] \in Nat /\ sum[t] \in Int
        /\ balance[From[t]] \in Int
    BY <1>1, TransferTyped
  <1>3. /\ pcTransfer[t] = "debiting" /\ pcTransfer' = [pcTransfer EXCEPT ![t] = "credit"]
        /\ balance' = [balance EXCEPT ![From[t]] = sum[t] - Amount[t]]
        /\ UNCHANGED <<owner, first, transferred>> /\ sum' = sum /\ sum \in [Movers -> Int]
    BY <1>1 DEF Transfer!Debit, Transfer!TypeOK
  <1>4. sum[t] = balance[From[t]] /\ balance[From[t]] >= Amount[t]
    BY <1>1, <1>3 DEF BalancesInv, CheckStillHolds, ReadStillHolds
  <1>5. /\ balance' \in [Accounts -> Int] /\ balance'[From[t]] = balance[From[t]] - Amount[t]
        /\ \A x \in Accounts : x # From[t] => balance'[x] = balance[x]
    BY <1>1, <1>2, <1>3, <1>4 DEF Transfer!TypeOK
  <1>6. /\ OwnersInv' /\ pcTransfer'[t] = "credit"
        /\ \A u \in Movers : u # t => pcTransfer'[u] = pcTransfer[u]
    BY <1>1, <1>3, <1>5, BodyKeepsOwners
  <1>7. CheckStillHolds' /\ ReadStillHolds'
    <2>1. sum[t] - Amount[t] \in Int /\ From[t] \in {From[t], To[t]}
      BY <1>2
    <2> QED
      BY <1>1, <1>3, <1>6, <2>1, WriteLeavesOthers
  <1>8. NotOverdrawn'
    BY <1>1, <1>2, <1>4, <1>5 DEF BalancesInv, NotOverdrawn
  <1>9. Transfer!MoneyConserved'
    <2>1. Transfer!InFlight' = Transfer!InFlight \cup {t} /\ t \notin Transfer!InFlight
      BY <1>3, <1>6 DEF Transfer!InFlight
    <2>2. /\ IsFiniteSet(Accounts) /\ IsFiniteSet(Transfer!InFlight)
          /\ Transfer!InFlight \subseteq Movers
          /\ \A x \in Accounts : balance[x] \in Int
          /\ \A u \in Movers : Amount[u] \in Int
          /\ SumOver(balance, Accounts) \in Int
          /\ SumOver(Amount, Transfer!InFlight) \in Int
          /\ SumOver(InitialBalance, Accounts) \in Int
      BY <1>1, MoneyTyped
    <2>3. SumOver(balance', Accounts) = SumOver(balance, Accounts) + (balance'[From[t]] - balance[From[t]])
      <3>1. balance'[From[t]] \in Int
        BY <1>2, <1>5
      <3> QED
        BY <1>2, <1>5, <2>2, <3>1, SumChange
    <2>4. SumOver(Amount, Transfer!InFlight \cup {t}) = Amount[t] + SumOver(Amount, Transfer!InFlight)
      <3>1. \A u \in Transfer!InFlight \cup {t} : Amount[u] \in Int
        BY <2>2
      <3> QED
        BY <2>1, <2>2, <3>1, SumPutIn
    <2>5. SumOver(balance, Accounts) + SumOver(Amount, Transfer!InFlight) = SumOver(InitialBalance, Accounts)
      BY <1>1, TotalIsSum DEF BalancesInv, Transfer!MoneyConserved
    <2>6. SumOver(balance', Accounts) + SumOver(Amount, Transfer!InFlight') = SumOver(InitialBalance, Accounts)
      BY <1>2, <1>5, <2>1, <2>2, <2>3, <2>4, <2>5
    <2> QED
      BY <2>6, TotalIsSum DEF Transfer!MoneyConserved
  <1> QED
    BY <1>6, <1>7, <1>8, <1>9 DEF TransferInv, BalancesInv

(* to.balance += amount (line 80): the amount in flight arrives. *)
LEMMA CreditKeeps ==
    ASSUME TransferInv, NEW t \in Movers, Transfer!Credit(t) PROVE TransferInv'
  <1>1. OwnersInv /\ Transfer!TypeOK /\ BalancesInv
    BY DEF TransferInv, OwnersInv
  <1>2. /\ To[t] \in Accounts /\ Amount[t] \in Nat /\ sum[t] \in Int
        /\ balance[To[t]] \in Int
    BY <1>1, TransferTyped
  <1>3. /\ pcTransfer[t] = "crediting" /\ pcTransfer' = [pcTransfer EXCEPT ![t] = "unlock"]
        /\ balance' = [balance EXCEPT ![To[t]] = sum[t] + Amount[t]]
        /\ UNCHANGED <<owner, first, transferred>> /\ sum' = sum /\ sum \in [Movers -> Int]
    BY <1>1 DEF Transfer!Credit, Transfer!TypeOK
  <1>4. sum[t] = balance[To[t]]
    BY <1>1, <1>3 DEF BalancesInv, ReadStillHolds
  <1>5. /\ balance' \in [Accounts -> Int] /\ balance'[To[t]] = balance[To[t]] + Amount[t]
        /\ \A x \in Accounts : x # To[t] => balance'[x] = balance[x]
    BY <1>1, <1>2, <1>3, <1>4 DEF Transfer!TypeOK
  <1>6. /\ OwnersInv' /\ pcTransfer'[t] = "unlock"
        /\ \A u \in Movers : u # t => pcTransfer'[u] = pcTransfer[u]
    BY <1>1, <1>3, <1>5, BodyKeepsOwners
  <1>7. CheckStillHolds' /\ ReadStillHolds'
    <2>1. sum[t] + Amount[t] \in Int /\ To[t] \in {From[t], To[t]}
      BY <1>2
    <2> QED
      BY <1>1, <1>3, <1>6, <2>1, WriteLeavesOthers
  <1>8. NotOverdrawn'
    BY <1>1, <1>2, <1>5 DEF BalancesInv, NotOverdrawn
  <1>9. Transfer!MoneyConserved'
    <2>1. Transfer!InFlight' = Transfer!InFlight \ {t} /\ t \in Transfer!InFlight
      BY <1>3, <1>6 DEF Transfer!InFlight
    <2>2. /\ IsFiniteSet(Accounts) /\ IsFiniteSet(Transfer!InFlight)
          /\ Transfer!InFlight \subseteq Movers
          /\ \A x \in Accounts : balance[x] \in Int
          /\ \A u \in Movers : Amount[u] \in Int
          /\ SumOver(balance, Accounts) \in Int
          /\ SumOver(Amount, Transfer!InFlight) \in Int
          /\ SumOver(InitialBalance, Accounts) \in Int
      BY <1>1, MoneyTyped
    <2>3. SumOver(balance', Accounts) = SumOver(balance, Accounts) + (balance'[To[t]] - balance[To[t]])
      <3>1. balance'[To[t]] \in Int
        BY <1>2, <1>5
      <3> QED
        BY <1>2, <1>5, <2>2, <3>1, SumChange
    <2>4. /\ SumOver(Amount, Transfer!InFlight) = Amount[t] + SumOver(Amount, Transfer!InFlight \ {t})
          /\ SumOver(Amount, Transfer!InFlight \ {t}) \in Int
      <3>1. \A u \in Transfer!InFlight : Amount[u] \in Int
        BY <2>2
      <3>2. IsFiniteSet(Transfer!InFlight \ {t})
        BY <2>2, FS_Subset
      <3> QED
        BY <2>1, <2>2, <3>1, <3>2, SumTakeOut, SumType
    <2>5. SumOver(balance, Accounts) + SumOver(Amount, Transfer!InFlight) = SumOver(InitialBalance, Accounts)
      BY <1>1, TotalIsSum DEF BalancesInv, Transfer!MoneyConserved
    <2>6. SumOver(balance', Accounts) + SumOver(Amount, Transfer!InFlight') = SumOver(InitialBalance, Accounts)
      BY <1>2, <1>5, <2>1, <2>2, <2>3, <2>4, <2>5
    <2> QED
      BY <2>6, TotalIsSum DEF Transfer!MoneyConserved
  <1> QED
    BY <1>6, <1>7, <1>8, <1>9 DEF TransferInv, BalancesInv

(* Every step of every thread. *)
LEMMA TransferNext == TransferInv /\ [Transfer!Next]_(Transfer!vars) => TransferInv'
  <1> SUFFICES ASSUME TransferInv, [Transfer!Next]_(Transfer!vars) PROVE TransferInv'
    OBVIOUS
  <1>1. CASE UNCHANGED Transfer!vars
    <2>1. OwnersInv'
      BY <1>1 DEF Transfer!vars, TransferInv, OwnersInv, Transfer!TypeOK, TransferLeft,
                  Transfer!BodyOwnsBoth, Transfer!NoHoldAndWait, OwnsOnlyItsTwo, TryOwnsFirst,
                  Transfer!Second
    <2>2. Transfer!MoneyConserved'
      BY <1>1, MoneyUnmoved DEF Transfer!vars, Transfer!InFlight, TransferInv, BalancesInv
    <2>3. CheckStillHolds' /\ ReadStillHolds' /\ NotOverdrawn'
      BY <1>1 DEF Transfer!vars, TransferInv, BalancesInv, CheckStillHolds, ReadStillHolds, NotOverdrawn
    <2> QED
      BY <2>1, <2>2, <2>3 DEF TransferInv, BalancesInv
  <1>2. CASE \E t \in Movers : Transfer!Transfer(t)
    BY <1>2, LockStepKeeps, ReadStepKeeps, DebitKeeps, CreditKeeps DEF Transfer!Transfer
  <1> QED
    BY <1>1, <1>2 DEF Transfer!Next, Transfer!Joined

(* For any threads, accounts and amounts, transfers never run on another
   thread's accounts, never hold one mutex while waiting for another, never
   overdraw, and conserve money at every moment. *)
THEOREM TransfersCorrect == Transfer!Spec => []TransfersAtomic
  <1>1. TransferInv => TransfersAtomic
    BY DEF TransferInv, OwnersInv, BalancesInv, NotOverdrawn, TransfersAtomic, Transfer!TransfersAtomic
  <1> QED
    BY <1>1, TransferInit, TransferNext, PTL DEF Transfer!Spec

-----------------------------------------------------------------------------
(* Whichever part main runs, the promises of all of them hold: a step of one
   part leaves the variables of the others as they are. *)
THEOREM PartsCorrect ==
    PartSpec => [](LockSound /\ CondvarSound /\ TransfersAtomic /\ MaximumSound /\ LitmusAsserts)
  <1> DEFINE PartsInv == LockInv /\ CondvarInv /\ TransferInv /\ MaxInv /\ LitmusInv
  <1>1. PartInit => PartsInv
    BY InitLockInv, CondvarInit, TransferInit, MaxInit, LitmusInit DEF PartInit
  <1>2. PartsInv /\ [PartNext]_partVars => PartsInv'
    <2> SUFFICES ASSUME PartsInv, [PartNext]_partVars PROVE PartsInv'
      OBVIOUS
    <2>1. [Next]_vars
      BY DEF PartNext, partVars
    <2>2. [Condvar!Next]_(Condvar!vars)
      BY DEF PartNext, partVars, condvarVars, Condvar!vars
    <2>3. [Transfer!Next]_(Transfer!vars)
      BY DEF PartNext, partVars, transferVars, Transfer!vars
    <2>4. [Maximum!Next]_(Maximum!vars)
      BY DEF PartNext, partVars, maximumVars, Maximum!vars
    <2>5. [Litmus!Next]_(Litmus!vars)
      BY DEF PartNext, partVars, litmusVars, Litmus!vars, Litmus!relaxed, Litmus!message,
             Litmus!dekker
    <2> QED
      BY <2>1, <2>2, <2>3, <2>4, <2>5, NextLockInv, CondvarNext, TransferNext, MaxNext, LitmusNext
  <1>3. PartsInv =>
            LockSound /\ CondvarSound /\ TransfersAtomic /\ MaximumSound /\ LitmusAsserts
    <2>1. LockInv => LockSound
      BY DEF LockInv, LockSound
    <2>2. TransferInv => TransfersAtomic
      BY DEF TransferInv, OwnersInv, BalancesInv, NotOverdrawn, TransfersAtomic,
             Transfer!TransfersAtomic
    <2> QED
      BY <2>1, <2>2, CondvarImplies, MaxAtEnd, LitmusSound
  <1> QED
    BY <1>1, <1>2, <1>3, PTL DEF PartSpec
==============================================================================
