------------------------------ MODULE PartsProofs ------------------------------
(***************************************************************************)
(* Theorems about the six components of the run parts, which share         *)
(* nothing: the front end, for any number of adapters and any calls,       *)
(* restarts and requests; the LED, for any colours and pauses; the doze    *)
(* service, for any limits of its gestures and any number of broadcasts    *)
(* and calls on their way; the heap of timers, for any objects and ranks;  *)
(* the configuration, for any tables, files, updates and devices; and the  *)
(* NMEA sentences, for any reports and any length of the sentences.        *)
(***************************************************************************)
EXTENDS LocFront, Lights, Doze, LocHeap, Config, Nmea,
        FiniteSetTheorems, SequenceTheorems, TLAPS

-----------------------------------------------------------------------------
(* The front end                                                           *)

Adapters == Others \cup {Engine}

\* addAdapter and removeAdapter leave no hole and put nobody in twice.
Packed(array) == \A i, j \in Slots : i < j /\ array[i] = None => array[j] = None
Once(array) ==
  \A i, j \in Slots : array[i] = array[j] /\ array[i] # None => i = j

ArrayOK(array) ==
  /\ array \in [Slots -> Adapters \cup {None}]
  /\ Packed(array) /\ Once(array)

\* Only loc_init makes the adapter, and sets its flags after that.
EngineFirst ==
  /\ context \in [agps : BOOLEAN, cpi : BOOLEAN, vote : BOOLEAN, ondemand : BOOLEAN]
  /\ supports \in [agps : BOOLEAN, time : BOOLEAN, vote : BOOLEAN]
  /\ fw = "flags" => Initialised
  /\ supports.agps => Initialised /\ ~context.agps

IInv == ArrayOK(mLocAdapters) /\ EngineFirst

-----------------------------------------------------------------------------
(* Numbers                                                                 *)

\* A finite set of integers has a greatest and a least one: those that are
\* beyond x are a strict subset of those beyond any other, for the right x.
LEMMA Extremes ==
  ASSUME NEW S \in SUBSET Int, IsFiniteSet(S), S # {}
  PROVE  /\ Max(S) \in S /\ \A y \in S : Max(S) >= y
         /\ Min(S) \in S /\ \A y \in S : Min(S) <= y
<1> DEFINE Above(x) == {y \in S : y > x}
           Below(x) == {y \in S : y < x}
           Aboves == {Above(x) : x \in S}
           Belows == {Below(x) : x \in S}
<1>1. IsWellFoundedOn(StrictSubsetOrdering(S), SUBSET S)
  BY FS_StrictSubsetOrderingWellFounded, FS_FiniteSubsetsOfFinite, IsFiniteSet(S)
<1>2. \E x \in S : \A y \in S : x >= y
  <2>1. Aboves \subseteq SUBSET S /\ Aboves # {}
    BY S # {}
  <2>2. PICK least \in Aboves : \A U \in Aboves : <<U, least>> \notin StrictSubsetOrdering(S)
    <3> HIDE DEF Aboves
    <3> QED  BY <1>1, <2>1, WFMin
  <2>3. PICK x \in S : least = Above(x)
    BY <2>2
  <2>4. ASSUME NEW y \in S, ~(x >= y)  PROVE FALSE
    <3>1. y > x
      BY <2>3, <2>4
    <3>2. Above(y) \subseteq Above(x) /\ y \in Above(x) /\ y \notin Above(y)
      <4>1. x \in Int /\ y \in Int /\ S \subseteq Int
        OBVIOUS
      <4>2. \A z \in Int : z > y => z > x
        BY <3>1, <4>1
      <4>3. Above(y) \subseteq Above(x)
        BY <4>1, <4>2
      <4>4. y \in Above(x) /\ y \notin Above(y)
        BY <3>1, <4>1
      <4> QED  BY <4>3, <4>4
    <3>3. <<Above(y), Above(x)>> \in StrictSubsetOrdering(S)
      <4> HIDE DEF Above
      <4>1. Above(y) \in SUBSET S /\ Above(x) \in SUBSET S
        BY DEF Above
      <4> QED  BY <3>2, <4>1 DEF StrictSubsetOrdering
    <3> QED  BY <2>2, <2>3, <3>3
  <2> QED  BY <2>4
<1>3. \E x \in S : \A y \in S : x <= y
  <2>1. Belows \subseteq SUBSET S /\ Belows # {}
    BY S # {}
  <2>2. PICK least \in Belows : \A U \in Belows : <<U, least>> \notin StrictSubsetOrdering(S)
    <3> HIDE DEF Belows
    <3> QED  BY <1>1, <2>1, WFMin
  <2>3. PICK x \in S : least = Below(x)
    BY <2>2
  <2>4. ASSUME NEW y \in S, ~(x <= y)  PROVE FALSE
    <3>1. y < x
      BY <2>3, <2>4
    <3>2. Below(y) \subseteq Below(x) /\ y \in Below(x) /\ y \notin Below(y)
      <4>1. x \in Int /\ y \in Int /\ S \subseteq Int
        OBVIOUS
      <4>2. \A z \in Int : z < y => z < x
        BY <3>1, <4>1
      <4>3. Below(y) \subseteq Below(x)
        BY <4>1, <4>2
      <4>4. y \in Below(x) /\ y \notin Below(y)
        BY <3>1, <4>1
      <4> QED  BY <4>3, <4>4
    <3>3. <<Below(y), Below(x)>> \in StrictSubsetOrdering(S)
      <4> HIDE DEF Below
      <4>1. Below(y) \in SUBSET S /\ Below(x) \in SUBSET S
        BY DEF Below
      <4> QED  BY <3>2, <4>1 DEF StrictSubsetOrdering
    <3> QED  BY <2>2, <2>3, <3>3
  <2> QED  BY <2>4
<1> QED  BY <1>2, <1>3 DEF Max, Min

\* What holds of 0, and of a number if it holds of the one before, holds of all.
LEMMA Induction ==
  ASSUME NEW T \in SUBSET Nat, 0 \in T, \A n \in T : n + 1 \in T
  PROVE  T = Nat
<1> SUFFICES ASSUME NEW n \in Nat, n \notin T  PROVE FALSE
  OBVIOUS
<1> DEFINE S == {k \in 0..n : k \notin T}
<1>1. S \in SUBSET Int /\ n \in S /\ S \subseteq 0..n
  OBVIOUS
<1>2. IsFiniteSet(0..n)
  BY FS_Interval
<1>3. IsFiniteSet(S)
  BY <1>1, <1>2, FS_Subset
<1>4. Min(S) \in S /\ \A y \in S : Min(S) <= y
  <2> HIDE DEF S
  <2> QED  BY <1>1, <1>3, Extremes
<1>5. PICK k \in 0..n : k \notin T /\ \A y \in S : k <= y
  BY <1>4
<1>6. k # 0 /\ k - 1 \in 0..n /\ k - 1 \notin S
  BY <1>5
<1>7. k - 1 \in T
  BY <1>6
<1>8. (k - 1) + 1 = k
  BY <1>5
<1> QED  BY <1>5, <1>7, <1>8

LEMMA Bounded ==
  ASSUME NEW D \in SUBSET Nat, IsFiniteSet(D)
  PROVE  \E m \in Nat : \A i \in D : i <= m
<1>1. CASE D = {}
  BY <1>1
<1>2. CASE D # {}
  <2>1. D \in SUBSET Int
    OBVIOUS
  <2>2. Max(D) \in D /\ \A i \in D : Max(D) >= i
    BY <1>2, <2>1, Extremes
  <2>3. PICK m \in D : \A i \in D : m >= i
    BY <2>2
  <2>4. m \in Nat /\ D \subseteq Nat
    OBVIOUS
  <2>5. \A i \in D : i <= m
    BY <2>3, <2>4
  <2> QED  BY <2>4, <2>5
<1> QED  BY <1>1, <1>2

LEMMA SlotsAreFinite ==
  ASSUME NEW S \in SUBSET Slots
  PROVE  IsFiniteSet(S) /\ S \subseteq Int
<1>1. IsFiniteSet(Slots)
  BY FS_Interval, AdaptersFit DEF Slots
<1>2. IsFiniteSet(S)
  BY <1>1, FS_Subset
<1>3. S \subseteq Int
  BY DEF Slots
<1> QED  BY <1>2, <1>3

-----------------------------------------------------------------------------
(* The array                                                               *)

LEMMA NamesDiffer ==
  /\ None # Engine /\ None \notin Others /\ Engine \notin Others
  /\ None \notin Adapters
  BY AdaptersFit DEF None, Engine, Adapters

\* Loops over a packed array get to see all that is in it.
LEMMA ReachedAll ==
  ASSUME ArrayOK(mLocAdapters)
  PROVE  Reached = {i \in Slots : mLocAdapters[i] # None}
<1>1. ASSUME NEW i \in Slots, \A j \in 0..i : mLocAdapters[j] # None
      PROVE  mLocAdapters[i] # None
  <2>1. i \in 0..i
    BY AdaptersFit DEF Slots
  <2> QED  BY <1>1, <2>1
<1>2. ASSUME NEW i \in Slots, mLocAdapters[i] # None, NEW j \in 0..i
      PROVE  mLocAdapters[j] # None
  <2>1. j \in Slots /\ (j = i \/ j < i)
    BY AdaptersFit DEF Slots
  <2> QED  BY <1>2, <2>1 DEF ArrayOK, Packed
<1> QED  BY <1>1, <1>2 DEF Reached

\* There is always a place for one more: the others leave one.
LEMMA PlaceForOne ==
  ASSUME ArrayOK(mLocAdapters), \A i \in Slots : mLocAdapters[i] # Engine
  PROVE  \E i \in Slots : mLocAdapters[i] = None
<1> SUFFICES ASSUME \A i \in Slots : mLocAdapters[i] # None  PROVE FALSE
  OBVIOUS
<1>1. mLocAdapters \in [Slots -> Others]
  BY DEF ArrayOK, Adapters
<1>2. IsFiniteSet(Slots) /\ Cardinality(Slots) = MaxAdapters
  <2>1. IsFiniteSet(0..MaxAdapters - 1)
    BY FS_Interval, AdaptersFit
  <2>2. Cardinality(0..MaxAdapters - 1)
          = IF 0 > MaxAdapters - 1 THEN 0 ELSE MaxAdapters - 1 - 0 + 1
    BY FS_Interval, AdaptersFit
  <2> QED  BY <2>1, <2>2, AdaptersFit DEF Slots
<1>3. PICK i, j \in Slots : i # j /\ mLocAdapters[i] = mLocAdapters[j]
  BY <1>1, <1>2, AdaptersFit, FS_PigeonHole
<1> QED  BY <1>3 DEF ArrayOK, Once

\* An adapter that comes takes the first free place.
LEMMA AddedOK ==
  ASSUME ArrayOK(mLocAdapters), NEW adapter \in Adapters
  PROVE  /\ ArrayOK(Added(adapter))
         /\ \A i \in Slots : mLocAdapters[i] # None => Added(adapter)[i] = mLocAdapters[i]
         /\ adapter = Engine => \E i \in Slots : Added(adapter)[i] = Engine
<1> DEFINE free == {i \in Slots : mLocAdapters[i] = None}
           first == Min(free)
<1>1. CASE free = {} \/ \E i \in Slots : mLocAdapters[i] = adapter
  <2>1. Added(adapter) = mLocAdapters
    BY <1>1 DEF Added
  <2>2. adapter = Engine => \E i \in Slots : mLocAdapters[i] = Engine
    BY <1>1, PlaceForOne
  <2> QED  BY <2>1, <2>2
<1>2. CASE free # {} /\ \A i \in Slots : mLocAdapters[i] # adapter
  <2>1. first \in free /\ \A i \in free : first <= i
    <3>1. free \in SUBSET Int /\ IsFiniteSet(free)
      BY SlotsAreFinite
    <3> HIDE DEF free
    <3> QED  BY <1>2, <3>1, Extremes
  <2>2. Added(adapter) = [mLocAdapters EXCEPT ![first] = adapter]
    BY <1>2 DEF Added
  <2> HIDE DEF first
  <2> DEFINE array == Added(adapter)
  <2>3. first \in Slots /\ mLocAdapters[first] = None
    BY <2>1
  <2>4. /\ array \in [Slots -> Adapters \cup {None}]
        /\ array[first] = adapter
        /\ \A i \in Slots \ {first} : array[i] = mLocAdapters[i]
    BY <2>2, <2>3 DEF ArrayOK
  <2> HIDE DEF array
  <2>5. Packed(array)
    <3> SUFFICES ASSUME NEW i \in Slots, NEW j \in Slots, i < j, array[i] = None
                 PROVE  array[j] = None
      BY DEF Packed
    <3>1. i # first
      BY <2>4, NamesDiffer
    <3>2. mLocAdapters[i] = None
      BY <2>4, <3>1
    <3>3. first < i
      <4>1. first <= i
        BY <2>1, <3>2
      <4> QED  BY <2>3, <3>1, <4>1, AdaptersFit DEF Slots
    <3>4. j # first
      BY <2>3, <3>3 DEF Slots
    <3> QED  BY <2>4, <3>2, <3>4 DEF ArrayOK, Packed
  <2>6. Once(array)
    BY <1>2, <2>4 DEF ArrayOK, Once
  <2> QED  BY <2>3, <2>4, <2>5, <2>6 DEF ArrayOK, array
<1> QED  BY <1>1, <1>2

\* The last one fills the place of an adapter that goes.
LEMMA RemovedOK ==
  ASSUME ArrayOK(mLocAdapters), NEW adapter \in Others,
         \E i \in Slots : mLocAdapters[i] = adapter
  PROVE  /\ ArrayOK(Removed(adapter))
         /\ (\E i \in Slots : mLocAdapters[i] = Engine)
              => \E i \in Slots : Removed(adapter)[i] = Engine
<1> DEFINE place == PlaceOf(adapter)
           end == Max(Reached)
           array == Removed(adapter)
<1>1. place \in Slots /\ mLocAdapters[place] = adapter
  BY DEF PlaceOf
<1>2. Reached = {i \in Slots : mLocAdapters[i] # None}
  BY ReachedAll
<1>3. end \in Reached /\ \A i \in Reached : end >= i
  <2>1. Reached \in SUBSET Int /\ IsFiniteSet(Reached)
    BY <1>2, SlotsAreFinite
  <2>2. Reached # {}
    BY <1>1, <1>2, NamesDiffer
  <2> QED  BY <2>1, <2>2, Extremes
<1>4. end \in Slots /\ mLocAdapters[end] # None
  BY <1>2, <1>3
<1>5. array = [mLocAdapters EXCEPT ![place] = mLocAdapters[end], ![end] = None]
  BY DEF Removed
<1> HIDE DEF place, end, array
<1>6. /\ array \in [Slots -> Adapters \cup {None}]
      /\ array[end] = None
      /\ place # end => array[place] = mLocAdapters[end]
      /\ \A i \in Slots \ {place, end} : array[i] = mLocAdapters[i]
  BY <1>1, <1>4, <1>5 DEF ArrayOK
<1>7. \A i \in Slots : i > end => array[i] = None
  <2> SUFFICES ASSUME NEW i \in Slots, i > end  PROVE array[i] = None
    OBVIOUS
  <2>1. mLocAdapters[i] = None
    BY <1>2, <1>3, <1>4 DEF Slots
  <2>2. i # end /\ i # place
    BY <1>1, <1>4, <2>1, NamesDiffer DEF Slots
  <2> QED  BY <1>6, <2>1, <2>2
<1>8. \A i \in Slots : i < end => array[i] # None
  <2> SUFFICES ASSUME NEW i \in Slots, i < end  PROVE array[i] # None
    OBVIOUS
  <2>1. i # end
    BY <1>4 DEF Slots
  <2>2. CASE i = place
    BY <1>4, <1>6, <2>1, <2>2
  <2>3. CASE i # place
    BY <1>4, <1>6, <2>1, <2>3 DEF ArrayOK, Packed
  <2> QED  BY <2>2, <2>3
<1>9. Packed(array)
  <2> SUFFICES ASSUME NEW i \in Slots, NEW j \in Slots, i < j, array[i] = None
               PROVE  array[j] = None
    BY DEF Packed
  <2>1. ~(i < end)
    BY <1>8
  <2>2. j > end
    BY <1>4, <2>1, AdaptersFit DEF Slots
  <2> QED  BY <1>7, <2>2
<1>10. Once(array)
  <2> SUFFICES ASSUME NEW i \in Slots, NEW j \in Slots, array[i] = array[j], array[i] # None
               PROVE  i = j
    BY DEF Once
  <2>1. i # end /\ j # end
    BY <1>6
  <2>2. CASE i = place /\ j # place
    <3>1. mLocAdapters[end] = mLocAdapters[j]
      BY <1>6, <2>1, <2>2
    <3> QED  BY <1>4, <2>1, <3>1 DEF ArrayOK, Once
  <2>3. CASE j = place /\ i # place
    <3>1. mLocAdapters[i] = mLocAdapters[end]
      BY <1>6, <2>1, <2>3
    <3> QED  BY <1>4, <2>1, <3>1 DEF ArrayOK, Once
  <2>4. CASE i # place /\ j # place
    <3>1. mLocAdapters[i] = mLocAdapters[j] /\ mLocAdapters[i] # None
      BY <1>6, <2>1, <2>4
    <3> QED  BY <3>1 DEF ArrayOK, Once
  <2> QED  BY <2>2, <2>3, <2>4
<1>11. ASSUME NEW i \in Slots, mLocAdapters[i] = Engine
       PROVE  \E k \in Slots : array[k] = Engine
  <2>1. i # place
    BY <1>1, <1>11, NamesDiffer
  <2>2. CASE i = end
    BY <1>1, <1>6, <1>11, <2>1, <2>2
  <2>3. CASE i # end
    BY <1>6, <1>11, <2>1, <2>3
  <2> QED  BY <2>2, <2>3
<1> QED  BY <1>6, <1>9, <1>10, <1>11 DEF ArrayOK, array

-----------------------------------------------------------------------------
(* The steps                                                               *)

\* Any step either leaves the array alone, or is one of the two operations.
LEMMA NextIInv ==
  ASSUME IInv, [Next]_vars
  PROVE  IInv'
<1>1. CASE InitEngine
  <2>1. CASE Initialised
    <3>1. UNCHANGED <<mLocAdapters, context, supports>>
      BY <1>1, <2>1 DEF InitEngine, frontVars
    <3> QED  BY <2>1, <3>1, IInv DEF IInv, EngineFirst, ArrayOK, Packed, Once, Initialised
  <2>2. CASE ~Initialised
    <3>1. mLocAdapters' = Added(Engine) /\ UNCHANGED <<context, supports>>
      BY <1>1, <2>2 DEF InitEngine, frontVars
    <3>2. ArrayOK(mLocAdapters') /\ \E i \in Slots : mLocAdapters'[i] = Engine
      BY <3>1, AddedOK, IInv DEF IInv, Adapters
    <3>3. Initialised'
      BY <3>2 DEF Initialised, ArrayOK
    <3> QED  BY <3>1, <3>2, <3>3, IInv DEF IInv, EngineFirst
  <2> QED  BY <2>1, <2>2
<1>2. ASSUME NEW adapter \in Others, Arrive(adapter)
      PROVE  IInv'
  <2>1. mLocAdapters' = Added(adapter) /\ UNCHANGED <<context, supports, fw>>
    BY <1>2 DEF Arrive, otherVars
  <2>2. ArrayOK(mLocAdapters')
    BY <2>1, AddedOK, IInv DEF IInv, Adapters
  <2>3. Initialised => Initialised'
    BY <2>1, <2>2, AddedOK, IInv, NamesDiffer DEF IInv, Initialised, ArrayOK, Adapters
  <2> QED  BY <2>1, <2>2, <2>3, IInv DEF IInv, EngineFirst
<1>3. ASSUME NEW adapter \in Others, Leave(adapter)
      PROVE  IInv'
  <2>1. mLocAdapters' = Removed(adapter) /\ UNCHANGED <<context, supports, fw>>
    BY <1>3 DEF Leave, otherVars
  <2>2. \E i \in Slots : mLocAdapters[i] = adapter
    BY <1>3 DEF Leave
  <2>3. ArrayOK(mLocAdapters')
    BY <2>1, <2>2, RemovedOK, IInv DEF IInv
  <2>4. Initialised => Initialised'
    BY <2>1, <2>2, <2>3, RemovedOK, IInv DEF IInv, Initialised, ArrayOK
  <2> QED  BY <2>1, <2>3, <2>4, IInv DEF IInv, EngineFirst
<1>4. CASE InitFlags
  <2>1. /\ UNCHANGED <<context, mLocAdapters>>
        /\ fw = "flags" /\ fw' = "vote"
        /\ supports' = [supports EXCEPT !.agps = ~context.agps, !.time = ~context.cpi]
    BY <1>4 DEF InitFlags, frontVars
  <2>2. /\ supports' \in [agps : BOOLEAN, time : BOOLEAN, vote : BOOLEAN]
        /\ supports'.agps = ~context.agps
    BY <2>1, IInv DEF IInv, EngineFirst
  <2> QED
    BY <2>1, <2>2, IInv DEF IInv, EngineFirst, ArrayOK, Packed, Once, Initialised
<1>5. CASE InitVote \/ ProcInject
  <2>1. /\ UNCHANGED <<context, mLocAdapters>>
        /\ fw' = fw \/ fw' # "flags"
    BY <1>5 DEF InitVote, SetVote, frontVars, ProcInject, taskVars, adapterVars
  <2>2. /\ supports' \in [agps : BOOLEAN, time : BOOLEAN, vote : BOOLEAN]
        /\ supports'.agps = supports.agps
    <3>1. context.vote \in BOOLEAN
      BY IInv DEF IInv, EngineFirst
    <3> QED  BY <1>5, <3>1, IInv DEF InitVote, ProcInject, IInv, EngineFirst
  <2> QED
    BY <2>1, <2>2, IInv DEF IInv, EngineFirst, ArrayOK, Packed, Once, Initialised
<1>6. CASE \/ InitSends \/ CleanupBegin \/ CleanupSends
           \/ MeasurementInit \/ MeasurementClose \/ XtraInit
           \/ \E kind \in {"xtra", "time"} : Fetched(kind) \/ RequestData(kind)
           \/ ProcReadsVote \/ ProcSendsVote
           \/ ProcOpen \/ ProcLock \/ ProcMask \/ ProcRequest
           \/ Crash \/ Return \/ UNCHANGED vars
  <2>1. /\ UNCHANGED <<context, mLocAdapters, supports>>
        /\ fw' = fw \/ fw' # "flags"
    BY <1>6 DEF InitSends, CleanupBegin, CleanupSends, SetVote, MeasurementInit,
       MeasurementClose, XtraInit, Fetched, RequestData, ProcReadsVote, ProcSendsVote,
       ProcOpen, ProcLock, ProcMask, ProcRequest, Crash, Return, vars, Call,
       frontVars, measurementVars, taskVars, modemVars, adapterVars
  <2> QED
    BY <2>1, IInv DEF IInv, EngineFirst, ArrayOK, Packed, Once, Initialised
<1> QED  BY <1>1, <1>2, <1>3, <1>4, <1>5, <1>6, [Next]_vars DEF Next

\* What the array is makes the dispatch right.
LEMMA DispatchIsRight ==
  ASSUME IInv
  PROVE  EveryAdapterIsReached
<1>1. Reached = {i \in Slots : mLocAdapters[i] # None}
  BY ReachedAll, IInv DEF IInv
<1>2. AdaptersAt(Reached) = AdaptersAt(Slots) \ {None}
  BY <1>1 DEF AdaptersAt
<1>3. ASSUME NEW i \in Takers, NEW j \in Takers  PROVE i = j
  <2>1. i \in Int /\ j \in Int /\ 0 <= i /\ 0 <= j
    BY <1>1 DEF Takers, Slots
  <2>2. ~(i < j) /\ ~(j < i)
    BY <2>1 DEF Takers
  <2> QED  BY <2>1, <2>2
<1>4. Cardinality(Takers) <= 1
  <2>1. CASE Takers = {}
    BY <2>1, FS_EmptySet
  <2>2. CASE Takers # {}
    <3>1. PICK i \in Takers : TRUE
      BY <2>2
    <3>2. Takers = {i}
      BY <1>3, <3>1
    <3> QED  BY <3>2, FS_Singleton
  <2> QED  BY <2>1, <2>2
<1>5. ASSUME supports.agps  PROVE AdaptersAt(Takers) = {Engine}
  <2>1. PICK e \in Slots : mLocAdapters[e] = Engine
    BY <1>5, IInv DEF IInv, EngineFirst, Initialised, ArrayOK
  <2>2. ASSUME NEW i \in Slots, mLocAdapters[i] # None
        PROVE  Handles(mLocAdapters[i]) <=> mLocAdapters[i] = Engine
    BY <1>5, <2>2, IInv DEF IInv, EngineFirst, Handles
  <2>3. e \in Reached
    BY <1>1, <2>1, NamesDiffer
  <2>4. \A j \in 0..e - 1 : j \in Slots /\ mLocAdapters[j] # None /\ mLocAdapters[j] # Engine
    <3> SUFFICES ASSUME NEW j \in 0..e - 1
                 PROVE  j \in Slots /\ mLocAdapters[j] # None /\ mLocAdapters[j] # Engine
      OBVIOUS
    <3>1. j \in Slots /\ j < e
      BY AdaptersFit DEF Slots
    <3> QED  BY <2>1, <3>1, IInv, NamesDiffer DEF IInv, ArrayOK, Packed, Once
  <2>5. e \in Takers
    BY <2>1, <2>2, <2>3, <2>4, NamesDiffer DEF Takers
  <2>6. Takers = {e}
    BY <1>3, <2>5
  <2> QED  BY <2>1, <2>6 DEF AdaptersAt
<1> QED  BY <1>2, <1>4, <1>5 DEF EveryAdapterIsReached

\* For any adapters of others, at most MAX_ADAPTERS - 1 of them: a report
\* reaches every adapter in the array of LocApiBase, a request at most one, and
\* after loc_init that is the engine's where it supports such requests.
THEOREM AdaptersAreReached == Spec => []EveryAdapterIsReached
<1>1. Init => IInv
  <2> SUFFICES ASSUME Init  PROVE IInv
    OBVIOUS
  <2>1. mLocAdapters = [i \in Slots |-> None]
    BY Init DEF Init
  <2>2. ArrayOK(mLocAdapters)
    BY <2>1 DEF ArrayOK, Packed, Once
  <2>3. context \in [agps : BOOLEAN, cpi : BOOLEAN, vote : BOOLEAN, ondemand : BOOLEAN]
    BY Init, Builds DEF Init
  <2>4. /\ supports \in [agps : BOOLEAN, time : BOOLEAN, vote : BOOLEAN]
        /\ supports.agps = FALSE
    BY Init DEF Init
  <2>5. fw # "flags"
    BY Init DEF Init
  <2> QED  BY <2>2, <2>3, <2>4, <2>5 DEF IInv, EngineFirst
<1>2. IInv /\ [Next]_vars => IInv'
  BY NextIInv
<1>3. IInv => EveryAdapterIsReached
  BY DispatchIsRight
<1> QED  BY <1>1, <1>2, <1>3, PTL DEF Spec

-----------------------------------------------------------------------------
(* What is on its way to the modem and to the framework                    *)

Kinds == {"xtra", "time"}
Messages ==
  [type : {"Open", "Up"}] \cup [type : {"Lock"}, lock : {0, 3}]
  \cup [type : {"Mask"}, on : BOOLEAN] \cup [type : {"Request", "Inject"}, kind : Kinds]
ModemStates ==
  [up : BOOLEAN, open : BOOLEAN, lock : {0, 3}, vote : {0, 101, 103}, measures : BOOLEAN]

Types ==
  /\ queue \in Seq(Messages)
  /\ modem \in ModemStates
  /\ vote \in BOOLEAN /\ raced \in BOOLEAN /\ task \in {0, 101, 103}
  /\ wants \in SUBSET Kinds /\ download \in SUBSET Kinds
  /\ lost \in SUBSET {"lock", "measurement"} /\ lastLock \in {0, 3}

Queued(type) == \E i \in DOMAIN queue : queue[i].type = type
Carried(kind) ==
  \E i \in 1..Len(queue) : queue[i].type \in {"Request", "Inject"} /\ queue[i].kind = kind
OpenBefore(i) == \E j \in DOMAIN queue : j < i /\ queue[j].type = "Open"
OpenThenUp == \E i \in DOMAIN queue : queue[i].type = "Up" /\ OpenBefore(i)
IsLast(type, i) ==
  queue[i].type = type /\ \A j \in DOMAIN queue : j > i => queue[j].type # type

\* Only the engine is asked for data, once it is made and its flags are set.
EngineAsked ==
  /\ supports.agps => supports.time \/ context.cpi
  /\ wants # {} \/ download # {} \/ Queued("Request") \/ Queued("Inject") => supports.agps

\* Nobody but the engine votes and sets, and it stays.
EngineThere ==
  /\ fw # "idle" \/ supports.vote \/ "measurement" \in callbacks => Initialised
  /\ Queued("Up") \/ Queued("Lock") \/ Queued("Mask") => Initialised

Connected ==
  /\ modem.open => modem.up
  /\ ~modem.up => lost = {"lock", "measurement"}

\* A modem that is back is connected before it is told.
UpAfterOpen == modem.up /\ ~modem.open /\ Queued("Up") => OpenThenUp

\* The vote is sent, or will be.
VoteComes ==
  /\ fw = "send_up" => vote
  /\ fw = "send_down" => ~vote
  /\ ~raced => task \in {0, Code(vote)}
  /\ ~raced /\ supports.vote /\ modem.up =>
       \/ fw \in {"send_up", "send_down"}
       \/ Queued("Up")
       \/ modem.open /\ task = Code(vote)
       \/ modem.open /\ modem.vote = Code(vote)

\* The last message about a setting carries what was asked for last, and there is
\* a connection when the MsgTask comes to it.
LockComes ==
  "lock" \notin lost =>
    /\ \A i \in DOMAIN queue : IsLast("Lock", i) =>
         queue[i].lock = lastLock /\ (modem.open \/ OpenBefore(i))
    /\ ~Queued("Lock") => modem.lock = lastLock

MaskComes ==
  "measurement" \notin lost =>
    /\ \A i \in DOMAIN queue : IsLast("Mask", i) =>
         (queue[i].on <=> "measurement" \in callbacks) /\ (modem.open \/ OpenBefore(i))
    /\ ~Queued("Mask") => (modem.measures <=> "measurement" \in callbacks)

Comes ==
  /\ Types /\ EngineAsked /\ EngineThere /\ Connected /\ UpAfterOpen /\ VoteComes
  /\ LockComes /\ MaskComes /\ RequestIsOnItsWay

(* The queue                                                               *)

LEMMA MessageTypes ==
  /\ [type |-> "Open"] \in Messages /\ [type |-> "Up"] \in Messages
  /\ \A lock \in {0, 3} : [type |-> "Lock", lock |-> lock] \in Messages
  /\ \A on \in BOOLEAN : [type |-> "Mask", on |-> on] \in Messages
  /\ \A type \in {"Request", "Inject"}, kind \in Kinds : [type |-> type, kind |-> kind] \in Messages
<1>1. [type |-> "Open"] \in Messages /\ [type |-> "Up"] \in Messages
  BY DEF Messages
<1>2. \A lock \in {0, 3} : [type |-> "Lock", lock |-> lock] \in Messages
  BY DEF Messages
<1>3. \A on \in BOOLEAN : [type |-> "Mask", on |-> on] \in Messages
  BY DEF Messages
<1>4. \A type \in {"Request", "Inject"}, kind \in Kinds : [type |-> type, kind |-> kind] \in Messages
  BY DEF Messages
<1> QED  BY <1>1, <1>2, <1>3, <1>4

LEMMA MessageFields ==
  ASSUME NEW m \in Messages
  PROVE  /\ m.type \in {"Open", "Up", "Lock", "Mask", "Request", "Inject"}
         /\ m.type = "Lock" => m.lock \in {0, 3}
         /\ m.type = "Mask" => m.on \in BOOLEAN
         /\ m.type \in {"Request", "Inject"} => m.kind \in Kinds
<1>1. CASE m \in [type : {"Open", "Up"}] \/ m \in [type : {"Lock"}, lock : {0, 3}]
  BY <1>1
<1>2. CASE m \in [type : {"Mask"}, on : BOOLEAN]
  BY <1>2
<1>3. CASE m \in [type : {"Request", "Inject"}, kind : Kinds]
  BY <1>3
<1> QED  BY <1>1, <1>2, <1>3 DEF Messages

LEMMA Posted ==
  ASSUME Types, NEW ms \in Seq(Messages), queue' = queue \o ms
  PROVE  /\ queue' \in Seq(Messages)
         /\ \A i \in DOMAIN queue : i \in DOMAIN queue' /\ queue'[i] = queue[i]
         /\ \A k \in DOMAIN ms : Len(queue) + k \in DOMAIN queue' /\ queue'[Len(queue) + k] = ms[k]
         /\ \A i \in DOMAIN queue' : i \notin DOMAIN queue =>
              i > Len(queue) /\ i - Len(queue) \in DOMAIN ms /\ queue'[i] = ms[i - Len(queue)]
<1>1. queue \in Seq(Messages)
  BY DEF Types
<1> HIDE DEF Messages
<1>2. queue' \in Seq(Messages)
  BY <1>1
<1>3. /\ Len(queue') = Len(queue) + Len(ms)
      /\ \A i \in 1..Len(queue) + Len(ms) :
           queue'[i] = IF i <= Len(queue) THEN queue[i] ELSE ms[i - Len(queue)]
  BY <1>1
<1>4. /\ Len(queue) \in Nat /\ Len(ms) \in Nat
      /\ DOMAIN queue = 1..Len(queue) /\ DOMAIN ms = 1..Len(ms)
      /\ DOMAIN queue' = 1..(Len(queue) + Len(ms))
  BY <1>1, <1>2, <1>3
<1> QED  BY <1>2, <1>3, <1>4

\* What was queued stays so.
LEMMA PostedKeeps ==
  ASSUME Types, NEW ms \in Seq(Messages), queue' = queue \o ms
  PROVE  /\ \A type : Queued(type)' <=> Queued(type) \/ \E k \in DOMAIN ms : ms[k].type = type
         /\ \A kind : Carried(kind) => Carried(kind)'
         /\ OpenThenUp => OpenThenUp'
         /\ \A i \in DOMAIN queue : OpenBefore(i) => OpenBefore(i)'
         /\ \A type : \A i \in DOMAIN queue' :
              IsLast(type, i)' /\ (\A k \in DOMAIN ms : ms[k].type # type)
                => i \in DOMAIN queue /\ IsLast(type, i) /\ queue'[i] = queue[i]
<1> USE Posted
<1>1. ASSUME NEW type
      PROVE  Queued(type)' <=> Queued(type) \/ \E k \in DOMAIN ms : ms[k].type = type
  <2>1. Queued(type) => Queued(type)'
    BY DEF Queued
  <2>2. ASSUME NEW k \in DOMAIN ms, ms[k].type = type  PROVE Queued(type)'
    BY <2>2 DEF Queued
  <2>3. ASSUME Queued(type)', ~Queued(type)  PROVE \E k \in DOMAIN ms : ms[k].type = type
    <3>1. PICK i \in DOMAIN queue' : queue'[i].type = type
      BY <2>3 DEF Queued
    <3>2. i \notin DOMAIN queue
      BY <2>3, <3>1 DEF Queued
    <3> QED  BY <3>1, <3>2
  <2> QED  BY <2>1, <2>2, <2>3
<1>2. \A kind : Carried(kind) => Carried(kind)'
  <2>1. DOMAIN queue = 1..Len(queue) /\ DOMAIN queue' = 1..Len(queue')
    BY DEF Types
  <2> QED  BY <2>1 DEF Carried
<1>3. \A i \in DOMAIN queue : OpenBefore(i) => OpenBefore(i)'
  BY DEF OpenBefore
<1>4. OpenThenUp => OpenThenUp'
  BY <1>3 DEF OpenThenUp
<1>5. ASSUME NEW type, NEW i \in DOMAIN queue', IsLast(type, i)', \A k \in DOMAIN ms : ms[k].type # type
      PROVE  i \in DOMAIN queue /\ IsLast(type, i) /\ queue'[i] = queue[i]
  <2>1. queue'[i].type = type
    BY <1>5 DEF IsLast
  <2>2. i \in DOMAIN queue /\ queue'[i] = queue[i]
    BY <1>5, <2>1
  <2>3. ASSUME NEW j \in DOMAIN queue, j > i  PROVE queue[j].type # type
    <3>1. j \in DOMAIN queue' /\ queue'[j] = queue[j]
      OBVIOUS
    <3> QED  BY <1>5, <2>3, <3>1 DEF IsLast
  <2> QED  BY <2>1, <2>2, <2>3 DEF IsLast
<1> QED  BY <1>1, <1>2, <1>3, <1>4, <1>5

Taken == queue # <<>> /\ queue' = Tail(queue)

LEMMA TakenIndices ==
  ASSUME Types, Taken
  PROVE  /\ queue' \in Seq(Messages)
         /\ Head(queue) \in Messages /\ Head(queue) = queue[1] /\ 1 \in DOMAIN queue
         /\ \A i \in DOMAIN queue' : i \in Nat /\ i + 1 \in DOMAIN queue /\ queue'[i] = queue[i + 1]
         /\ \A i \in DOMAIN queue : i # 1 =>
              i > 1 /\ i - 1 \in DOMAIN queue' /\ queue'[i - 1] = queue[i]
         /\ DOMAIN queue \subseteq Nat \ {0} /\ DOMAIN queue' \subseteq Nat \ {0}
<1>1. queue \in Seq(Messages) /\ queue # <<>> /\ queue' = Tail(queue)
  BY DEF Types, Taken
<1> HIDE DEF Messages
<1>2. queue' \in Seq(Messages) /\ Head(queue) \in Messages /\ Head(queue) = queue[1]
  BY <1>1
<1>3. /\ Len(queue) \in Nat \ {0} /\ DOMAIN queue = 1..Len(queue)
      /\ DOMAIN queue' = 1..(Len(queue) - 1)
      /\ \A i \in 1..(Len(queue) - 1) : queue'[i] = queue[i + 1]
  BY <1>1
<1> QED  BY <1>2, <1>3

\* Only the first message goes.
LEMMA TakenKeeps ==
  ASSUME Types, Taken
  PROVE  /\ Queued(Head(queue).type)
         /\ \A type : Queued(type)' => Queued(type)
         /\ \A type : Queued(type) /\ Head(queue).type # type => Queued(type)'
         /\ \A kind : Carried(kind) /\ ~(Head(queue).type \in {"Request", "Inject"} /\ Head(queue).kind = kind)
              => Carried(kind)'
         /\ OpenThenUp /\ Head(queue).type # "Open" => OpenThenUp'
         /\ \A i \in DOMAIN queue' : OpenBefore(i + 1) /\ Head(queue).type # "Open" => OpenBefore(i)'
         /\ \A type : \A i \in DOMAIN queue' :
              IsLast(type, i)' => i + 1 \in DOMAIN queue /\ IsLast(type, i + 1) /\ queue'[i] = queue[i + 1]
         /\ \A type : Head(queue).type = type => Queued(type)' \/ IsLast(type, 1)
         /\ ~OpenBefore(1)
<1> USE TakenIndices
<1>1. Queued(Head(queue).type)
  BY DEF Queued
<1>2. \A type : Queued(type)' => Queued(type)
  BY DEF Queued
<1>3. \A type : Queued(type) /\ Head(queue).type # type => Queued(type)'
  BY DEF Queued
<1>4. ASSUME NEW kind, Carried(kind),
             ~(Head(queue).type \in {"Request", "Inject"} /\ Head(queue).kind = kind)
      PROVE  Carried(kind)'
  <2>1. DOMAIN queue = 1..Len(queue) /\ DOMAIN queue' = 1..Len(queue')
    BY DEF Types
  <2> QED  BY <1>4, <2>1 DEF Carried
<1>5. ASSUME NEW i \in DOMAIN queue', OpenBefore(i + 1), Head(queue).type # "Open"
      PROVE  OpenBefore(i)'
  <2>1. PICK j \in DOMAIN queue : j < i + 1 /\ queue[j].type = "Open"
    BY <1>5 DEF OpenBefore
  <2>2. j - 1 \in DOMAIN queue' /\ j - 1 < i /\ queue'[j - 1].type = "Open"
    BY <1>5, <2>1
  <2> QED  BY <2>2 DEF OpenBefore
<1>6. ~OpenBefore(1)
  BY DEF OpenBefore
<1>7. ASSUME OpenThenUp, Head(queue).type # "Open"  PROVE OpenThenUp'
  <2>1. PICK i \in DOMAIN queue : queue[i].type = "Up" /\ OpenBefore(i)
    BY <1>7 DEF OpenThenUp
  <2>2. i # 1
    BY <1>6, <2>1
  <2>3. i - 1 \in DOMAIN queue' /\ queue'[i - 1] = queue[i] /\ (i - 1) + 1 = i
    BY <2>2
  <2>4. OpenBefore(i - 1)'
    <3> DEFINE k == i - 1
    <3>1. k \in DOMAIN queue' /\ k + 1 = i
      BY <2>3
    <3> HIDE DEF k
    <3>2. OpenBefore(k + 1)
      BY <2>1, <3>1
    <3>3. OpenBefore(k)'
      BY <1>5, <1>7, <3>1, <3>2
    <3> QED  BY <3>3 DEF k
  <2> QED  BY <2>1, <2>3, <2>4 DEF OpenThenUp
<1>8. ASSUME NEW type, NEW i \in DOMAIN queue', IsLast(type, i)'
      PROVE  i + 1 \in DOMAIN queue /\ IsLast(type, i + 1) /\ queue'[i] = queue[i + 1]
  <2>1. i \in Nat /\ i + 1 \in DOMAIN queue /\ queue'[i] = queue[i + 1]
    OBVIOUS
  <2>2. ASSUME NEW j \in DOMAIN queue, j > i + 1  PROVE queue[j].type # type
    <3>1. j - 1 \in DOMAIN queue' /\ j - 1 > i /\ queue'[j - 1] = queue[j]
      BY <2>1, <2>2
    <3> QED  BY <1>8, <3>1 DEF IsLast
  <2> QED  BY <1>8, <2>1, <2>2 DEF IsLast
<1>9. ASSUME NEW type, Head(queue).type = type, ~IsLast(type, 1)  PROVE Queued(type)'
  <2>1. PICK j \in DOMAIN queue : j > 1 /\ queue[j].type = type
    BY <1>9 DEF IsLast
  <2>2. j - 1 \in DOMAIN queue' /\ queue'[j - 1].type = type
    BY <2>1
  <2> QED  BY <2>2 DEF Queued
<1> QED  BY <1>1, <1>2, <1>3, <1>4, <1>5, <1>6, <1>7, <1>8, <1>9

\* One message more.
LEMMA PostedOne ==
  ASSUME Types, NEW m \in Messages, Post(<<m>>)
  PROVE  /\ queue' \in Seq(Messages)
         /\ \A type : Queued(type)' <=> Queued(type) \/ m.type = type
         /\ \A kind : Carried(kind) => Carried(kind)'
         /\ m.type \in {"Request", "Inject"} => Carried(m.kind)'
         /\ OpenThenUp => OpenThenUp'
         /\ \A i \in DOMAIN queue : OpenBefore(i) => OpenBefore(i)'
         /\ \A type : \A i \in DOMAIN queue' : IsLast(type, i)' /\ m.type # type
              => i \in DOMAIN queue /\ IsLast(type, i) /\ queue'[i] = queue[i]
         /\ \A i \in DOMAIN queue' : IsLast(m.type, i)'
              => queue'[i] = m /\ (Queued("Open") => OpenBefore(i)')
<1> DEFINE ms == <<m>>
<1>1. ms \in Seq(Messages) /\ DOMAIN ms = {1} /\ ms[1] = m
  <2> HIDE DEF Messages
  <2> QED  OBVIOUS
<1>2. queue' = queue \o ms
  BY DEF Post
<1> HIDE DEF ms
<1>3. /\ queue' \in Seq(Messages)
      /\ \A kind : Carried(kind) => Carried(kind)'
      /\ OpenThenUp => OpenThenUp'
      /\ \A i \in DOMAIN queue : OpenBefore(i) => OpenBefore(i)'
  BY <1>1, <1>2, Posted, PostedKeeps
<1>7. ASSUME NEW type
      PROVE  Queued(type)' <=> Queued(type) \/ m.type = type
  <2>1. (\E k \in DOMAIN ms : ms[k].type = type) <=> m.type = type
    BY <1>1
  <2> QED  BY <1>1, <1>2, <2>1, PostedKeeps
<1>8. ASSUME NEW type, NEW i \in DOMAIN queue', IsLast(type, i)', m.type # type
      PROVE  i \in DOMAIN queue /\ IsLast(type, i) /\ queue'[i] = queue[i]
  <2>1. \A k \in DOMAIN ms : ms[k].type # type
    BY <1>1, <1>8
  <2> QED  BY <1>1, <1>2, <1>8, <2>1, PostedKeeps
<1>4. /\ Len(queue) \in Nat /\ DOMAIN queue = 1..Len(queue)
      /\ Len(queue) + 1 \in DOMAIN queue' /\ queue'[Len(queue) + 1] = m
      /\ \A i \in DOMAIN queue' : i \in DOMAIN queue \/ i = Len(queue) + 1
      /\ \A i \in DOMAIN queue : i \in DOMAIN queue' /\ queue'[i] = queue[i]
  <2>1. Len(queue) \in Nat /\ DOMAIN queue = 1..Len(queue)
    BY DEF Types
  <2>2. DOMAIN queue' \subseteq Nat
    BY <1>3
  <2>3. /\ Len(queue) + 1 \in DOMAIN queue' /\ queue'[Len(queue) + 1] = m
        /\ \A i \in DOMAIN queue : i \in DOMAIN queue' /\ queue'[i] = queue[i]
    BY <1>1, <1>2, Posted
  <2>4. ASSUME NEW i \in DOMAIN queue', i \notin DOMAIN queue  PROVE i = Len(queue) + 1
    <3>1. i - Len(queue) = 1
      BY <1>1, <1>2, <2>4, Posted
    <3> QED  BY <2>1, <2>2, <3>1
  <2> QED  BY <2>1, <2>3, <2>4
<1>5. m.type \in {"Request", "Inject"} => Carried(m.kind)'
  <2>1. DOMAIN queue' = 1..Len(queue')
    BY <1>3
  <2> QED  BY <1>4, <2>1 DEF Carried
<1>6. ASSUME NEW i \in DOMAIN queue', IsLast(m.type, i)'
      PROVE  queue'[i] = m /\ (Queued("Open") => OpenBefore(i)')
  <2>1. i = Len(queue) + 1
    BY <1>4, <1>6 DEF IsLast
  <2>2. Queued("Open") => OpenBefore(i)'
    BY <1>4, <2>1 DEF Queued, OpenBefore
  <2> QED  BY <1>4, <2>1, <2>2
<1> QED  BY <1>3, <1>5, <1>6, <1>7, <1>8

LEMMA EngineReached ==
  ASSUME IInv
  PROVE  Engine \in AdaptersAt(Reached) <=> Initialised
<1>1. Reached = {i \in Slots : mLocAdapters[i] # None}
  BY ReachedAll DEF IInv
<1> QED  BY <1>1, NamesDiffer DEF IInv, ArrayOK, AdaptersAt, Initialised

\* The modem is back: the engine is told after the connection is open.
LEMMA Returned ==
  ASSUME IInv, Types, Return
  PROVE  /\ queue' \in Seq(Messages)
         /\ \A type : Queued(type)' <=> Queued(type) \/ type = "Open" \/ (type = "Up" /\ Initialised)
         /\ \A kind : Carried(kind) => Carried(kind)'
         /\ Initialised \/ OpenThenUp => OpenThenUp'
<1> DEFINE ms == <<[type |-> "Open"]>> \o IF Initialised THEN <<[type |-> "Up"]>> ELSE <<>>
<1>1. queue' = queue \o ms
  BY EngineReached DEF Return, Post, OpenBeforeUp
<1>2. CASE Initialised
  <2>1. /\ ms \in Seq(Messages) /\ DOMAIN ms = {1, 2}
        /\ ms[1].type = "Open" /\ ms[2].type = "Up"
    <3> DEFINE open == [type |-> "Open"]
               up == [type |-> "Up"]
               both == <<open>> \o <<up>>
    <3>1. open \in Messages /\ up \in Messages /\ open.type = "Open" /\ up.type = "Up"
      BY MessageTypes
    <3>2. ms = both
      BY <1>2
    <3> HIDE DEF ms, open, up, Messages
    <3>3. both \in Seq(Messages) /\ Len(both) = 2 /\ both[1] = open /\ both[2] = up
      BY <3>1
    <3> HIDE DEF both
    <3>4. DOMAIN both = 1..2
      BY <3>3
    <3> QED  BY <3>1, <3>2, <3>3, <3>4
  <2> HIDE DEF ms
  <2>2. OpenThenUp'
    <3>1. PICK n \in Nat : n = Len(queue)
      BY DEF Types
    <3>2. /\ n + 1 \in DOMAIN queue' /\ queue'[n + 1].type = "Open"
          /\ n + 2 \in DOMAIN queue' /\ queue'[n + 2].type = "Up"
      BY <1>1, <2>1, <3>1, Posted
    <3>3. OpenBefore(n + 2)'
      BY <3>2 DEF OpenBefore
    <3> QED  BY <3>2, <3>3 DEF OpenThenUp
  <2>3. ASSUME NEW type
        PROVE  Queued(type)' <=> Queued(type) \/ type = "Open" \/ type = "Up"
    <3>1. (\E k \in DOMAIN ms : ms[k].type = type) <=> type = "Open" \/ type = "Up"
      BY <2>1
    <3> QED  BY <1>1, <2>1, <3>1, PostedKeeps
  <2> QED  BY <1>1, <1>2, <2>1, <2>2, <2>3, Posted, PostedKeeps
<1>3. CASE ~Initialised
  <2>1. ms \in Seq(Messages) /\ DOMAIN ms = {1} /\ ms[1].type = "Open"
    <3> DEFINE open == [type |-> "Open"]
               one == <<open>> \o <<>>
    <3>1. open \in Messages /\ open.type = "Open"
      BY MessageTypes
    <3>2. ms = one
      BY <1>3
    <3> HIDE DEF ms, open, Messages
    <3>3. one \in Seq(Messages) /\ Len(one) = 1 /\ one[1] = open
      BY <3>1
    <3> HIDE DEF one
    <3>4. DOMAIN one = 1..1
      BY <3>3
    <3> QED  BY <3>1, <3>2, <3>3, <3>4
  <2> HIDE DEF ms
  <2>2. ASSUME NEW type
        PROVE  Queued(type)' <=> Queued(type) \/ type = "Open"
    <3>1. (\E k \in DOMAIN ms : ms[k].type = type) <=> type = "Open"
      BY <2>1
    <3> QED  BY <1>1, <2>1, <3>1, PostedKeeps
  <2> QED  BY <1>1, <1>3, <2>1, <2>2, Posted, PostedKeeps
<1> QED  BY <1>2, <1>3

(* The steps.                                                              *)

\* The engine's adapter stays.
LEMMA EngineStays ==
  ASSUME IInv, [Next]_vars
  PROVE  Initialised => Initialised'
<1>1. CASE InitEngine
  BY <1>1, AddedOK, NextIInv DEF InitEngine, IInv, ArrayOK, Initialised, Adapters
<1>2. ASSUME NEW adapter \in Others, Arrive(adapter)
      PROVE  Initialised => Initialised'
  BY <1>2, AddedOK, NextIInv, NamesDiffer DEF Arrive, IInv, ArrayOK, Initialised, Adapters
<1>3. ASSUME NEW adapter \in Others, Leave(adapter)
      PROVE  Initialised => Initialised'
  <2>1. \E i \in Slots : mLocAdapters[i] = adapter
    BY <1>3 DEF Leave
  <2> QED  BY <1>3, <2>1, RemovedOK, NextIInv DEF Leave, IInv, ArrayOK, Initialised
<1>4. CASE mLocAdapters' = mLocAdapters
  BY <1>4 DEF Initialised
<1>5. CASE \/ InitFlags \/ InitVote \/ InitSends \/ CleanupBegin \/ CleanupSends
           \/ MeasurementInit \/ MeasurementClose \/ XtraInit
           \/ \E kind \in {"xtra", "time"} : Fetched(kind) \/ RequestData(kind)
           \/ ProcReadsVote \/ ProcSendsVote
           \/ ProcOpen \/ ProcLock \/ ProcMask \/ ProcRequest \/ ProcInject
           \/ Crash \/ Return \/ UNCHANGED vars
  <2>1. mLocAdapters' = mLocAdapters
    BY <1>5 DEF InitFlags, InitVote, InitSends, CleanupBegin, CleanupSends, SetVote, MeasurementInit,
       MeasurementClose, XtraInit, Fetched, RequestData, ProcReadsVote, ProcSendsVote,
       ProcOpen, ProcLock, ProcMask, ProcRequest, ProcInject, Crash, Return, vars,
       measurementVars, taskVars, modemVars, adapterVars
  <2> QED  BY <1>4, <2>1
<1> QED  BY <1>1, <1>2, <1>3, <1>5 DEF Next

\* The engine stays when others leave, so the connection does, too.
LEMMA LastToLeave ==
  ASSUME IInv, NEW adapter \in Others, Leave(adapter), Max(Reached) = 0
  PROVE  ~Initialised
<1> SUFFICES ASSUME Initialised  PROVE FALSE
  OBVIOUS
<1>1. PICK e \in Slots : mLocAdapters[e] = Engine
  BY DEF Initialised, IInv, ArrayOK
<1>2. PICK a \in Slots : mLocAdapters[a] = adapter
  BY DEF Leave
<1>3. e # a
  BY <1>1, <1>2, NamesDiffer
<1>4. Reached = {i \in Slots : mLocAdapters[i] # None}
  BY ReachedAll DEF IInv
<1>5. e \in Reached /\ a \in Reached
  BY <1>1, <1>2, <1>4, NamesDiffer
<1>6. \A y \in Reached : Max(Reached) >= y
  <2>1. Reached \in SUBSET Int /\ IsFiniteSet(Reached)
    BY <1>4, SlotsAreFinite
  <2> QED  BY <1>5, <2>1, Extremes
<1>7. 0 >= e /\ 0 >= a /\ e \in Nat /\ a \in Nat
  BY <1>5, <1>6 DEF Slots
<1> QED  BY <1>3, <1>7

\* The queue changes by one message, or by the two of a modem that is back.
LEMMA QueueSteps ==
  ASSUME Types, [Next]_vars
  PROVE  \/ UNCHANGED queue
         \/ \E m \in Messages : Post(<<m>>)
         \/ /\ Taken /\ task = 0
            /\ Head(queue).type = "Open" => ProcOpen
            /\ Head(queue).type = "Up" => ProcReadsVote
         \/ Return
<1> USE MessageTypes
<1>1. ASSUME NEW adapter \in Others, Arrive(adapter) \/ Leave(adapter)
      PROVE  UNCHANGED queue \/ \E m \in Messages : Post(<<m>>)
  BY <1>1 DEF Arrive, Leave
<1>2. CASE InitEngine \/ InitFlags \/ InitVote \/ InitSends
  BY <1>2 DEF InitEngine, InitFlags, InitVote, SetVote, InitSends
<1>3. CASE CleanupBegin \/ CleanupSends \/ MeasurementInit \/ MeasurementClose \/ XtraInit
  BY <1>3 DEF CleanupBegin, SetVote, CleanupSends, MeasurementInit, MeasurementClose, XtraInit
<1>4. ASSUME NEW kind \in {"xtra", "time"}, Fetched(kind) \/ RequestData(kind)
      PROVE  UNCHANGED queue \/ \E m \in Messages : Post(<<m>>)
  BY <1>4 DEF Fetched, RequestData, Kinds
<1>5. CASE ProcReadsVote \/ ProcOpen \/ ProcLock \/ ProcMask \/ ProcRequest \/ ProcInject
  BY <1>5 DEF ProcReadsVote, ProcOpen, ProcLock, ProcMask, ProcRequest, ProcInject, Proc, Taken
<1>6. CASE ProcSendsVote \/ Crash \/ UNCHANGED vars
  BY <1>6 DEF ProcSendsVote, Crash, vars
<1> QED  BY <1>1, <1>2, <1>3, <1>4, <1>5, <1>6 DEF Next

LEMMA NextTypes ==
  ASSUME IInv, Types, [Next]_vars
  PROVE  Types'
<1>1. queue' \in Seq(Messages)
  BY QueueSteps, PostedOne, TakenIndices, Returned DEF Types
<1>2. modem' \in ModemStates
  <2> USE DEF Types
  <2>1. CASE UNCHANGED modem
    BY <2>1
  <2>2. CASE ProcLock
    <3>1. Head(queue) \in Messages /\ Head(queue).type = "Lock"
      BY <2>2, TakenIndices DEF ProcLock, Proc, Taken
    <3>2. Head(queue).lock \in {0, 3}
      BY <3>1, MessageFields
    <3> QED  BY <2>2, <3>2 DEF ProcLock, Told, ModemStates
  <2>3. CASE ProcMask
    <3>1. Head(queue) \in Messages /\ Head(queue).type = "Mask"
      BY <2>3, TakenIndices DEF ProcMask, Proc, Taken
    <3>2. Head(queue).on \in BOOLEAN
      BY <3>1, MessageFields
    <3>3. modem' = modem \/ modem' = [modem EXCEPT !.measures = Head(queue).on]
      BY <2>3 DEF ProcMask, Told
    <3> QED  BY <3>2, <3>3 DEF ModemStates
  <2>4. CASE ProcSendsVote \/ InitSends \/ CleanupSends
    <3>1. modem' = modem \/ \E code \in {0, 101, 103} : modem' = [modem EXCEPT !.vote = code]
      BY <2>4 DEF ProcSendsVote, InitSends, CleanupSends, RequestPowerVote, Told, Code
    <3> QED  BY <3>1 DEF ModemStates
  <2>5. CASE ProcOpen
    <3>1. modem.up \in BOOLEAN
      BY DEF ModemStates
    <3>2. modem' = [modem EXCEPT !.open = modem.up]
      BY <2>5 DEF ProcOpen
    <3> QED  BY <3>1, <3>2 DEF ModemStates
  <2>6. CASE Crash
    <3>1. modem.lock \in {0, 3}
      BY DEF ModemStates
    <3> QED  BY <2>6, <3>1 DEF Crash, ModemStates
  <2>9. CASE Return
    <3>1. modem' = [modem EXCEPT !.up = TRUE]
      BY <2>9 DEF Return
    <3> QED  BY <3>1 DEF ModemStates
  <2>7. ASSUME NEW adapter \in Others, Leave(adapter)
        PROVE  modem' \in ModemStates
    <3>1. modem' = modem \/ modem' = [modem EXCEPT !.open = FALSE]
      BY <2>7 DEF Leave
    <3>2. CASE modem' = modem
      BY <3>2
    <3>3. CASE modem' = [modem EXCEPT !.open = FALSE]
      BY <3>3 DEF ModemStates
    <3> QED  BY <3>1, <3>2, <3>3
  <2>8. CASE \/ \E adapter \in Others : Arrive(adapter)
             \/ InitEngine \/ InitFlags \/ InitVote \/ CleanupBegin
             \/ MeasurementInit \/ MeasurementClose \/ XtraInit
             \/ \E kind \in {"xtra", "time"} : Fetched(kind) \/ RequestData(kind)
             \/ ProcReadsVote \/ ProcRequest \/ ProcInject \/ UNCHANGED vars
    <3>1. UNCHANGED modem
      BY <2>8 DEF Arrive, InitEngine, InitFlags, InitVote, CleanupBegin, SetVote, MeasurementInit,
         MeasurementClose, XtraInit, Fetched, RequestData, ProcReadsVote, ProcRequest,
         ProcInject, vars, measurementVars
    <3> QED  BY <2>1, <3>1
  <2> QED  BY <2>2, <2>3, <2>4, <2>5, <2>6, <2>7, <2>8, <2>9 DEF Next
<1>3. vote' \in BOOLEAN
  BY DEF Next, Arrive, Leave, otherVars, InitEngine, InitFlags, InitVote, InitSends, SetVote,
     CleanupBegin, CleanupSends, MeasurementInit, MeasurementClose, XtraInit, Fetched, RequestData,
     ProcReadsVote, ProcSendsVote, ProcOpen, ProcLock, ProcMask, ProcRequest, ProcInject, Crash,
     Return, vars, measurementVars, taskVars, modemVars, Types
<1>4. raced' \in BOOLEAN
  <2>1. raced' = raced \/ raced' = (task # 0) \/ raced' = (raced \/ BeforeOpen)
    BY DEF Next, Arrive, Leave, otherVars, InitEngine, InitFlags, InitVote, InitSends, SetVote,
       CleanupBegin, CleanupSends, MeasurementInit, MeasurementClose, XtraInit, Fetched, RequestData,
       ProcReadsVote, ProcSendsVote, ProcOpen, ProcLock, ProcMask, ProcRequest, ProcInject, Crash,
       Return, vars, measurementVars, taskVars, modemVars, history
  <2> QED  BY <2>1 DEF Types
<1>5. task' \in {0, 101, 103}
  <2>1. task' = task \/ task' = 0 \/ task' = Code(vote)
    BY DEF Next, Arrive, Leave, otherVars, InitEngine, InitFlags, InitVote, InitSends, SetVote,
       CleanupBegin, CleanupSends, MeasurementInit, MeasurementClose, XtraInit, Fetched, RequestData,
       ProcReadsVote, ProcSendsVote, ProcOpen, ProcLock, ProcMask, ProcRequest, ProcInject, Proc, Crash,
       Return, vars, measurementVars, frontVars, modemVars
  <2> QED  BY <2>1 DEF Code, Types
<1>6. lastLock' \in {0, 3} /\ lost' \in SUBSET {"lock", "measurement"}
  BY DEF Next, Arrive, Leave, otherVars, InitEngine, InitFlags, InitVote, InitSends, SetVote,
     CleanupBegin, CleanupSends, MeasurementInit, MeasurementClose, XtraInit, Fetched, RequestData,
     ProcReadsVote, ProcSendsVote, ProcOpen, ProcLock, ProcMask, ProcRequest, ProcInject, Crash,
     Return, vars, measurementVars, taskVars, modemVars, history, LostAfter, Types
<1>7. wants' \in SUBSET Kinds /\ download' \in SUBSET Kinds
  <2>1. CASE UNCHANGED <<wants, download>>
    BY <2>1 DEF Types
  <2>2. ASSUME NEW kind \in {"xtra", "time"}, Fetched(kind) \/ RequestData(kind)
        PROVE  wants' \in SUBSET Kinds /\ download' \in SUBSET Kinds
    <3>1. /\ wants' = wants \/ wants' = wants \ {kind} \/ wants' = wants \cup {kind}
          /\ download' = download \/ download' = download \ {kind}
      BY <2>2 DEF Fetched, RequestData
    <3> QED  BY <3>1 DEF Kinds, Types
  <2>3. CASE ProcRequest
    <3>1. Head(queue) \in Messages /\ Head(queue).type = "Request"
      BY <2>3, TakenIndices DEF ProcRequest, Proc, Taken
    <3>2. Head(queue).kind \in Kinds
      BY <3>1, MessageFields
    <3> QED  BY <2>3, <3>2 DEF ProcRequest, Types
  <2>4. CASE ProcInject
    BY <2>4 DEF ProcInject, Types
  <2>5. CASE Crash
    BY <2>5 DEF Crash, Types
  <2>6. CASE \/ \E adapter \in Others : Arrive(adapter) \/ Leave(adapter)
             \/ InitEngine \/ InitFlags \/ InitVote \/ InitSends
             \/ CleanupBegin \/ CleanupSends
             \/ MeasurementInit \/ MeasurementClose \/ XtraInit
             \/ ProcReadsVote \/ ProcSendsVote
             \/ ProcOpen \/ ProcLock \/ ProcMask \/ Return \/ UNCHANGED vars
    <3>1. UNCHANGED <<wants, download>>
      BY <2>6 DEF Arrive, Leave, otherVars, InitEngine, InitFlags, InitVote, InitSends, SetVote,
         CleanupBegin, CleanupSends, MeasurementInit, MeasurementClose, XtraInit,
         ProcReadsVote, ProcSendsVote, ProcOpen, ProcLock, ProcMask,
         Return, vars, measurementVars, frontVars, requestVars
    <3> QED  BY <2>1, <3>1
  <2> QED  BY <2>2, <2>3, <2>4, <2>5, <2>6 DEF Next
<1> QED  BY <1>1, <1>2, <1>3, <1>4, <1>5, <1>6, <1>7 DEF Types

\* Who queues what.
LEMMA NewlyQueued ==
  ASSUME IInv, Types, [Next]_vars, NEW type, Queued(type)', ~Queued(type)
  PROVE  \/ type = "Open"
         \/ type = "Up" /\ Initialised /\ Return
         \/ type = "Lock" /\ (InitFlags \/ CleanupSends)
         \/ type = "Mask" /\ Initialised
         \/ type = "Inject" /\ \E kind \in Kinds : Fetched(kind)
         \/ type = "Request" /\ \E kind \in Kinds : RequestData(kind) /\ Engine \in AdaptersAt(Takers)
<1> USE MessageTypes
<1>1. ASSUME NEW m \in Messages, Post(<<m>>)  PROVE type = m.type
  BY <1>1, PostedOne
<1>2. queue' # queue
  BY DEF Queued
<1>3. ~Taken
  BY TakenKeeps
<1>4. CASE Return
  BY <1>4, Returned
<1>5. CASE InitEngine \/ \E adapter \in Others : Arrive(adapter) \/ Leave(adapter)
  <2>1. UNCHANGED queue \/ Post(<<[type |-> "Open"]>>)
    BY <1>5 DEF InitEngine, Arrive, Leave
  <2> QED  BY <1>1, <1>2, <2>1
<1>6. CASE InitFlags \/ CleanupSends
  <2>1. \E lock \in {0, 3} : Post(<<[type |-> "Lock", lock |-> lock]>>)
    BY <1>6 DEF InitFlags, CleanupSends
  <2> QED  BY <1>1, <1>6, <2>1
<1>7. CASE MeasurementInit \/ MeasurementClose
  <2>1. Initialised /\ \E on \in BOOLEAN : Post(<<[type |-> "Mask", on |-> on]>>)
    BY <1>7 DEF MeasurementInit, MeasurementClose
  <2> QED  BY <1>1, <2>1
<1>8. ASSUME NEW kind \in Kinds, Fetched(kind)
      PROVE  type = "Inject"
  <2>1. UNCHANGED queue \/ Post(<<[type |-> "Inject", kind |-> kind]>>)
    BY <1>8 DEF Fetched
  <2> QED  BY <1>1, <1>2, <2>1
<1>9. ASSUME NEW kind \in Kinds, RequestData(kind)
      PROVE  type = "Request" /\ Engine \in AdaptersAt(Takers)
  <2>1. CASE Engine \in AdaptersAt(Takers)
    <3>1. Post(<<[type |-> "Request", kind |-> kind]>>)
      BY <1>9, <2>1 DEF RequestData
    <3> QED  BY <1>1, <2>1, <3>1
  <2>2. CASE Engine \notin AdaptersAt(Takers)
    BY <1>2, <1>9, <2>2 DEF RequestData
  <2> QED  BY <2>1, <2>2
<1>10. CASE \/ InitVote \/ InitSends \/ CleanupBegin \/ XtraInit \/ ProcSendsVote \/ Crash
            \/ UNCHANGED vars
  <2>1. UNCHANGED queue
    BY <1>10 DEF InitVote, InitSends, CleanupBegin, SetVote, XtraInit, ProcSendsVote, Crash, vars
  <2> QED  BY <1>2, <2>1
<1>11. CASE ProcReadsVote \/ ProcOpen \/ ProcLock \/ ProcMask \/ ProcRequest \/ ProcInject
  <2>1. Taken
    BY <1>11 DEF ProcReadsVote, ProcOpen, ProcLock, ProcMask, ProcRequest, ProcInject, Proc, Taken
  <2> QED  BY <1>3, <2>1
<1> QED  BY <1>4, <1>5, <1>6, <1>7, <1>8, <1>9, <1>10, <1>11 DEF Next, Kinds

LEMMA NextEngineThere ==
  ASSUME IInv, Types, EngineThere, [Next]_vars
  PROVE  EngineThere'
<1> USE DEF EngineThere
<1>1. Initialised => Initialised'
  BY EngineStays
<1>2. IInv'
  BY NextIInv
<1>3. fw' # "idle" \/ supports'.vote \/ "measurement" \in callbacks' => Initialised'
  <2>1. CASE InitEngine
    BY <1>2, <2>1 DEF InitEngine, IInv, EngineFirst
  <2>2. CASE InitFlags \/ InitVote \/ InitSends \/ CleanupSends
    <3>1. Initialised
      BY <2>2 DEF InitFlags, InitVote, InitSends, CleanupSends
    <3> QED  BY <1>1, <3>1
  <2>3. CASE CleanupBegin \/ MeasurementInit \/ MeasurementClose
    BY <1>1, <2>3 DEF CleanupBegin, MeasurementInit, MeasurementClose
  <2>4. CASE XtraInit
    BY <1>1, <2>4 DEF XtraInit
  <2>5. CASE ProcInject
    BY <1>1, <2>5 DEF ProcInject, taskVars, IInv, EngineFirst
  <2>6. CASE \/ \E adapter \in Others : Arrive(adapter) \/ Leave(adapter)
             \/ \E kind \in {"xtra", "time"} : Fetched(kind) \/ RequestData(kind)
             \/ ProcReadsVote \/ ProcSendsVote \/ ProcOpen \/ ProcLock \/ ProcMask \/ ProcRequest
             \/ Crash \/ Return \/ UNCHANGED vars
    <3>1. UNCHANGED <<fw, supports, callbacks>>
      BY <2>6 DEF Arrive, Leave, otherVars, Fetched, RequestData, ProcReadsVote, ProcSendsVote,
         ProcOpen, ProcLock, ProcMask, ProcRequest, Crash, Return, vars, taskVars, modemVars
    <3> QED  BY <1>1, <3>1
  <2> QED  BY <2>1, <2>2, <2>3, <2>4, <2>5, <2>6 DEF Next
<1>4. ASSUME NEW type \in {"Up", "Lock", "Mask"}, Queued(type)'
      PROVE  Initialised'
  <2>1. CASE Queued(type)
    BY <1>1, <2>1
  <2>2. CASE ~Queued(type)
    <3>1. Initialised \/ InitFlags \/ CleanupSends
      BY <1>4, <2>2, NewlyQueued
    <3> QED  BY <1>1, <3>1 DEF InitFlags, CleanupSends
  <2> QED  BY <2>1, <2>2
<1> QED  BY <1>3, <1>4

\* Who opens and closes the connection.
LEMMA ConnectionSteps ==
  ASSUME Types, [Next]_vars
  PROVE  \/ modem'.up = modem.up /\ modem'.open = modem.open
         \/ Return /\ modem'.up /\ modem'.open = modem.open
         \/ Crash /\ ~modem'.up /\ ~modem'.open
         \/ ProcOpen /\ modem'.up = modem.up /\ modem'.open = modem.up
         \/ /\ \E adapter \in Others : Leave(adapter) /\ Max(Reached) = 0
            /\ UNCHANGED queue
            /\ modem'.up = modem.up /\ ~modem'.open
<1> USE DEF Types
<1>1. CASE Return
  BY <1>1 DEF Return, ModemStates
<1>2. CASE Crash
  BY <1>2 DEF Crash
<1>3. CASE ProcOpen
  BY <1>3 DEF ProcOpen, ModemStates
<1>4. ASSUME NEW adapter \in Others, Leave(adapter)
      PROVE  \/ modem'.up = modem.up /\ modem'.open = modem.open
             \/ Max(Reached) = 0 /\ UNCHANGED queue /\ modem'.up = modem.up /\ ~modem'.open
  <2>1. CASE Max(Reached) = 0
    <3>1. modem' = [modem EXCEPT !.open = FALSE] /\ UNCHANGED queue
      BY <1>4, <2>1 DEF Leave
    <3> QED  BY <2>1, <3>1 DEF ModemStates
  <2>2. CASE Max(Reached) # 0
    BY <1>4, <2>2 DEF Leave
  <2> QED  BY <2>1, <2>2
<1>5. CASE \/ \E adapter \in Others : Arrive(adapter)
           \/ InitEngine \/ InitFlags \/ InitVote \/ InitSends \/ CleanupBegin \/ CleanupSends
           \/ MeasurementInit \/ MeasurementClose \/ XtraInit
           \/ \E kind \in {"xtra", "time"} : Fetched(kind) \/ RequestData(kind)
           \/ ProcReadsVote \/ ProcSendsVote \/ ProcLock \/ ProcMask \/ ProcRequest \/ ProcInject
           \/ UNCHANGED vars
  <2>1. \/ UNCHANGED modem
        \/ \E field \in {"vote", "lock", "measures"} :
             \E value : modem' = [modem EXCEPT ![field] = value]
    BY <1>5 DEF Arrive, InitEngine, InitFlags, InitVote, InitSends, CleanupBegin, CleanupSends,
       SetVote, MeasurementInit, MeasurementClose, XtraInit, Fetched, RequestData, ProcReadsVote,
       ProcSendsVote, ProcLock, ProcMask, ProcRequest, ProcInject, vars, measurementVars,
       RequestPowerVote, Told
  <2> QED  BY <2>1 DEF ModemStates
<1> QED  BY <1>1, <1>2, <1>3, <1>4, <1>5 DEF Next

LEMMA NextConnected ==
  ASSUME Types, Connected, [Next]_vars
  PROVE  Connected'
<1> USE DEF Connected
<1>1. CASE Crash
  BY <1>1 DEF Crash
<1>2. modem'.open => modem'.up
  BY <1>1, ConnectionSteps DEF Connected, Crash
<1>3. ~modem.up => lost' = {"lock", "measurement"}
  <2>1. \/ lost' = lost \/ lost' = {"lock", "measurement"}
        \/ \E setting \in {"lock", "measurement"} : lost' = LostAfter(setting)
    BY DEF Next, Arrive, Leave, otherVars, InitEngine, InitFlags, InitVote, InitSends, CleanupBegin,
       CleanupSends, SetVote, MeasurementInit, MeasurementClose, XtraInit, Fetched, RequestData,
       ProcReadsVote, ProcSendsVote, ProcOpen, ProcLock, ProcMask, ProcRequest, ProcInject,
       Return, Crash, vars, measurementVars, taskVars, history
  <2> QED  BY <2>1 DEF LostAfter
<1>4. ~modem'.up => ~modem.up \/ Crash
  BY ConnectionSteps
<1> QED  BY <1>1, <1>2, <1>3, <1>4

LEMMA NextUpAfterOpen ==
  ASSUME IInv, Types, EngineThere, UpAfterOpen, [Next]_vars
  PROVE  UpAfterOpen'
<1> SUFFICES ASSUME modem'.up, ~modem'.open, Queued("Up")'
             PROVE  OpenThenUp'
  BY DEF UpAfterOpen
<1>1. CASE Return
  <2>1. Initialised
    BY <1>1, Returned DEF EngineThere
  <2> QED  BY <1>1, <2>1, Returned
<1>2. CASE ~Return
  <2>1. Queued("Up")
    BY <1>2, NewlyQueued
  <2>2. Initialised
    BY <2>1 DEF EngineThere
  <2>3. modem.up /\ ~modem.open /\ ~ProcOpen
    <3>1. ~ProcOpen
      BY DEF ProcOpen, Types, ModemStates
    <3>2. ~\E adapter \in Others : Leave(adapter) /\ Max(Reached) = 0
      BY <2>2, LastToLeave
    <3> QED  BY <1>2, <3>1, <3>2, ConnectionSteps
  <2>4. OpenThenUp
    BY <2>1, <2>3 DEF UpAfterOpen
  <2>5. CASE UNCHANGED queue
    BY <2>4, <2>5 DEF OpenThenUp, OpenBefore
  <2>6. ASSUME NEW m \in Messages, Post(<<m>>)  PROVE OpenThenUp'
    BY <2>4, <2>6, PostedOne
  <2>7. CASE Taken /\ Head(queue).type # "Open"
    BY <2>4, <2>7, TakenKeeps
  <2> QED  BY <1>2, <2>3, <2>5, <2>6, <2>7, QueueSteps
<1> QED  BY <1>1, <1>2

\* A step that has nothing to do with the vote.
LEMMA VoteStays ==
  ASSUME VoteComes, UNCHANGED <<vote, task, raced>>,
         supports'.vote = supports.vote,
         modem'.up = modem.up, modem'.open = modem.open, modem'.vote = modem.vote,
         fw' = fw \/ {fw, fw'} \cap {"send_up", "send_down"} = {},
         Queued("Up") => Queued("Up")'
  PROVE  VoteComes'
<1>1. /\ fw' = "send_up" <=> fw = "send_up"
      /\ fw' = "send_down" <=> fw = "send_down"
  OBVIOUS
<1>2. Code(vote)' = Code(vote)
  BY DEF Code
<1> QED  BY <1>1, <1>2 DEF VoteComes

LEMMA NextVoteComes ==
  ASSUME IInv, Types, EngineThere, UpAfterOpen, VoteComes, [Next]_vars
  PROVE  VoteComes'
<1>1. CASE ProcReadsVote
  <2>1. /\ UNCHANGED <<vote, raced, fw, supports, modem>>
        /\ task = 0 /\ task' = IF supports.vote THEN Code(vote) ELSE 0
        /\ Taken /\ Head(queue).type = "Up"
    BY <1>1 DEF ProcReadsVote, taskVars, history, Taken
  <2>2. Code(vote)' = Code(vote)
    BY <2>1 DEF Code
  <2>3. modem.up => modem.open \/ Queued("Up")'
    <3>1. Queued("Up")
      BY <2>1, TakenKeeps
    <3>2. OpenThenUp => OpenThenUp'
      BY <2>1, TakenKeeps
    <3> QED  BY <3>1, <3>2 DEF UpAfterOpen, OpenThenUp, Queued
  <2> QED  BY <2>1, <2>2, <2>3 DEF VoteComes
<1> SUFFICES ASSUME ~ProcReadsVote  PROVE VoteComes'
  BY <1>1
<1>2. Queued("Up") => Queued("Up")'
  <2>1. queue' = queue /\ Queued("Up") => Queued("Up")'
    BY DEF Queued
  <2> QED  BY <2>1, QueueSteps, PostedOne, TakenKeeps, Returned
<1>3. CASE InitVote \/ CleanupBegin
  <2>1. /\ raced' = (task # 0) /\ task' = task
        /\ (fw' = "send_up" /\ vote' = TRUE) \/ (fw' = "send_down" /\ vote' = FALSE)
    BY <1>3 DEF InitVote, CleanupBegin, SetVote, frontVars
  <2> QED  BY <2>1 DEF VoteComes
<1>4. CASE InitSends \/ CleanupSends
  <2>1. /\ fw' = "idle" /\ UNCHANGED <<vote, task, supports>>
        /\ raced' = (raced \/ BeforeOpen)
        /\ RequestPowerVote(vote)
    BY <1>4 DEF InitSends, CleanupSends, frontVars, VoteComes, Types
  <2>2. Code(vote)' = Code(vote)
    BY <2>1 DEF Code
  <2>3. ~raced' => ~raced /\ ~BeforeOpen
    BY <2>1 DEF Types
  <2>4. CASE modem.open
    <3>1. /\ supports.vote => modem'.vote = Code(vote)
          /\ modem'.open
      BY <2>1, <2>4 DEF RequestPowerVote, Told, ModemStates, Types
    <3> QED  BY <2>1, <2>2, <2>3, <3>1 DEF VoteComes
  <2>5. CASE ~modem.open
    <3>1. modem' = modem
      BY <2>1, <2>5 DEF RequestPowerVote, Told
    <3>2. ~BeforeOpen /\ modem.up => Queued("Up")
      <4>1. DOMAIN queue = 1..Len(queue)
        BY DEF Types
      <4> QED  BY <2>5, <4>1 DEF BeforeOpen, Queued
    <3> QED  BY <1>2, <2>1, <2>2, <2>3, <3>1, <3>2 DEF VoteComes
  <2> QED  BY <2>4, <2>5
<1>5. CASE ProcSendsVote
  <2>1. task' = 0 /\ modem' = Told("vote", task) /\ UNCHANGED <<fw, vote, raced, supports, queue>>
    BY <1>5 DEF ProcSendsVote, taskVars, history
  <2>2. Code(vote)' = Code(vote)
    BY <2>1 DEF Code
  <2>3. task # 0
    BY <1>5 DEF ProcSendsVote
  <2>4. CASE modem.open
    <3>1. modem'.vote = task /\ modem'.open
      BY <2>1, <2>4 DEF Told, ModemStates, Types
    <3> QED  BY <2>1, <2>2, <2>3, <3>1 DEF VoteComes
  <2>5. CASE ~modem.open
    <3>1. modem' = modem
      BY <2>1, <2>5 DEF Told
    <3> QED  BY <1>2, <2>1, <2>2, <2>5, <3>1 DEF VoteComes
  <2> QED  BY <2>4, <2>5
<1>6. CASE Crash
  <2>1. ~modem'.up /\ UNCHANGED <<fw, vote, raced, task>>
    BY <1>6 DEF Crash, modemVars
  <2>2. Code(vote)' = Code(vote)
    BY <2>1 DEF Code
  <2> QED  BY <2>1, <2>2 DEF VoteComes
<1>7. ASSUME NEW adapter \in Others, Leave(adapter)
      PROVE  VoteComes'
  <2>1. UNCHANGED <<vote, task, raced, supports, fw>>
    BY <1>7 DEF Leave, otherVars, history
  <2>2. CASE UNCHANGED modem
    BY <1>2, <2>1, <2>2, VoteStays
  <2>3. CASE Max(Reached) = 0
    <3>1. ~supports'.vote
      BY <1>7, <2>1, <2>3, LastToLeave DEF EngineThere
    <3>2. Code(vote)' = Code(vote)
      BY <2>1 DEF Code
    <3> QED  BY <2>1, <3>1, <3>2 DEF VoteComes
  <2> QED  BY <1>7, <2>2, <2>3 DEF Leave
<1>8. CASE \/ \E adapter \in Others : Arrive(adapter)
           \/ InitEngine \/ InitFlags
           \/ MeasurementInit \/ MeasurementClose \/ XtraInit
           \/ \E kind \in {"xtra", "time"} : Fetched(kind) \/ RequestData(kind)
           \/ UNCHANGED vars
  <2>1. /\ UNCHANGED <<vote, task, raced, modem>>
        /\ fw' = fw \/ {fw, fw'} \cap {"send_up", "send_down"} = {}
    BY <1>8 DEF Arrive, otherVars, InitEngine, InitFlags, Call, MeasurementInit, MeasurementClose,
       XtraInit, Fetched, RequestData, vars, measurementVars, frontVars, modemVars, history
  <2>2. supports'.vote = supports.vote
    BY <1>8, IInv DEF Arrive, otherVars, InitEngine, InitFlags, Call, MeasurementInit, MeasurementClose,
       XtraInit, Fetched, RequestData, vars, measurementVars, modemVars, IInv, EngineFirst
  <2> QED  BY <1>2, <2>1, <2>2, VoteStays
<1>9. CASE ProcLock \/ ProcMask \/ ProcRequest \/ ProcInject
  <2>1. /\ UNCHANGED <<vote, task, raced, fw>> /\ task = 0
    BY <1>9 DEF ProcLock, ProcMask, ProcRequest, ProcInject, Proc, taskVars, history
  <2>2. supports'.vote = supports.vote
    BY <1>9, IInv DEF ProcLock, ProcMask, ProcRequest, ProcInject, IInv, EngineFirst
  <2>3. /\ modem'.up = modem.up /\ modem'.open = modem.open /\ modem'.vote = modem.vote
    BY <1>9 DEF ProcLock, ProcMask, ProcRequest, ProcInject, Told, Types, ModemStates
  <2> QED  BY <1>2, <2>1, <2>2, <2>3, VoteStays
<1>10. CASE ProcOpen
  <2>1. UNCHANGED <<vote, task, raced, fw, supports>>
    BY <1>10 DEF ProcOpen, Proc, taskVars, history
  <2>2. modem'.up = modem.up /\ modem'.open = modem.up /\ modem'.vote = modem.vote
    BY <1>10 DEF ProcOpen, Types, ModemStates
  <2>3. Code(vote)' = Code(vote)
    BY <2>1 DEF Code
  <2> QED  BY <1>2, <2>1, <2>2, <2>3 DEF VoteComes
<1>11. CASE Return
  <2>1. UNCHANGED <<vote, task, raced, fw, supports>>
    BY <1>11 DEF Return, modemVars
  <2>2. supports.vote => Queued("Up")'
    BY <1>11, Returned DEF EngineThere
  <2>3. Code(vote)' = Code(vote)
    BY <2>1 DEF Code
  <2> QED  BY <2>1, <2>2, <2>3 DEF VoteComes
<1> QED  BY <1>3, <1>4, <1>5, <1>6, <1>7, <1>8, <1>9, <1>10, <1>11 DEF Next

\* The last message of a type, after a step that takes and adds none of it.
LEMMA LastStays ==
  ASSUME Types, NEW type,
         \/ UNCHANGED queue
         \/ \E m \in Messages : m.type # type /\ Post(<<m>>)
         \/ Taken /\ Head(queue).type # type /\ (Head(queue).type = "Open" => modem'.open),
         modem.open => modem'.open
  PROVE  /\ Queued(type)' <=> Queued(type)
         /\ \A i \in DOMAIN queue' : IsLast(type, i)' =>
              \E k \in DOMAIN queue : /\ IsLast(type, k) /\ queue'[i] = queue[k]
                                      /\ modem.open \/ OpenBefore(k) => modem'.open \/ OpenBefore(i)'
<1>1. CASE UNCHANGED queue
  BY <1>1 DEF Queued, IsLast, OpenBefore
<1>2. ASSUME NEW m \in Messages, m.type # type, Post(<<m>>)
      PROVE  /\ Queued(type)' <=> Queued(type)
             /\ \A i \in DOMAIN queue' : IsLast(type, i)' =>
                  \E k \in DOMAIN queue : /\ IsLast(type, k) /\ queue'[i] = queue[k]
                                          /\ modem.open \/ OpenBefore(k) => modem'.open \/ OpenBefore(i)'
  <2>1. Queued(type)' <=> Queued(type)
    BY <1>2, PostedOne
  <2>2. ASSUME NEW i \in DOMAIN queue', IsLast(type, i)'
        PROVE  /\ i \in DOMAIN queue /\ IsLast(type, i) /\ queue'[i] = queue[i]
               /\ OpenBefore(i) => OpenBefore(i)'
    BY <1>2, <2>2, PostedOne
  <2> QED  BY <2>1, <2>2
<1>3. CASE Taken /\ Head(queue).type # type /\ (Head(queue).type = "Open" => modem'.open)
  <2>1. Queued(type)' <=> Queued(type)
    BY <1>3, TakenKeeps
  <2>2. ASSUME NEW i \in DOMAIN queue', IsLast(type, i)'
        PROVE  /\ i + 1 \in DOMAIN queue /\ IsLast(type, i + 1) /\ queue'[i] = queue[i + 1]
               /\ OpenBefore(i + 1) => modem'.open \/ OpenBefore(i)'
    BY <1>3, <2>2, TakenKeeps
  <2> QED  BY <2>1, <2>2
<1> QED  BY <1>1, <1>2, <1>3

LEMMA LockStays ==
  ASSUME Types, LockComes, lastLock' = lastLock, modem'.lock = modem.lock,
         "lock" \notin lost' => "lock" \notin lost,
         \/ UNCHANGED queue
         \/ \E m \in Messages : m.type # "Lock" /\ Post(<<m>>)
         \/ Taken /\ Head(queue).type # "Lock" /\ (Head(queue).type = "Open" => modem'.open),
         modem.open => modem'.open
  PROVE  LockComes'
<1> SUFFICES ASSUME "lock" \notin lost'  PROVE LockComes'
  BY DEF LockComes
<1>1. Queued("Lock")' <=> Queued("Lock")
  BY LastStays
<1>2. ASSUME NEW i \in DOMAIN queue', IsLast("Lock", i)'
      PROVE  queue'[i].lock = lastLock /\ (modem'.open \/ OpenBefore(i)')
  <2>1. PICK k \in DOMAIN queue :
          /\ IsLast("Lock", k) /\ queue'[i] = queue[k]
          /\ modem.open \/ OpenBefore(k) => modem'.open \/ OpenBefore(i)'
    BY <1>2, LastStays
  <2> QED  BY <2>1 DEF LockComes
<1> QED  BY <1>1, <1>2 DEF LockComes

LEMMA NextLockComes ==
  ASSUME IInv, Types, EngineThere, Connected, LockComes, [Next]_vars
  PROVE  LockComes'
<1> USE MessageTypes
<1>1. CASE Crash \/ Return
  <2>1. "lock" \in lost'
    BY <1>1 DEF Crash, Return, Connected
  <2> QED  BY <2>1 DEF LockComes
<1>2. CASE InitFlags \/ CleanupSends
  <2>1. PICK lock \in {0, 3} :
          /\ Post(<<[type |-> "Lock", lock |-> lock]>>)
          /\ lastLock' = lock /\ lost' = LostAfter("lock")
    BY <1>2 DEF InitFlags, CleanupSends
  <2> DEFINE m == [type |-> "Lock", lock |-> lock]
  <2>2. m \in Messages /\ m.type = "Lock" /\ m.lock = lock
    OBVIOUS
  <2> HIDE DEF m
  <2>3. Post(<<m>>)
    BY <2>1 DEF m
  <2>4. modem'.open = modem.open
    BY <1>2 DEF InitFlags, CleanupSends, RequestPowerVote, Told, Types, ModemStates
  <2>5. "lock" \notin lost' => modem.open \/ Queued("Open")
    <3>1. DOMAIN queue = 1..Len(queue)
      BY DEF Types
    <3> QED  BY <2>1, <3>1 DEF LostAfter, Queued
  <2>6. Queued("Lock")'
    BY <2>2, <2>3, PostedOne
  <2>7. ASSUME NEW i \in DOMAIN queue', IsLast("Lock", i)'
        PROVE  queue'[i] = m /\ (Queued("Open") => OpenBefore(i)')
    BY <2>2, <2>3, <2>7, PostedOne
  <2> QED  BY <2>1, <2>2, <2>4, <2>5, <2>6, <2>7 DEF LockComes
<1>3. CASE ProcLock
  <2>1. /\ Taken /\ Head(queue).type = "Lock"
        /\ modem' = Told("lock", Head(queue).lock)
        /\ UNCHANGED <<lastLock, lost>>
    BY <1>3 DEF ProcLock, Proc, Taken, taskVars, history
  <2>2. modem'.open = modem.open /\ (modem.open => modem'.lock = Head(queue).lock)
    BY <2>1 DEF Told, Types, ModemStates
  <2>3. ASSUME NEW i \in DOMAIN queue', IsLast("Lock", i)'
        PROVE  /\ i + 1 \in DOMAIN queue /\ IsLast("Lock", i + 1) /\ queue'[i] = queue[i + 1]
               /\ OpenBefore(i + 1) => OpenBefore(i)'
    BY <2>1, <2>3, TakenKeeps
  <2>4. ~Queued("Lock")' => IsLast("Lock", 1) /\ ~OpenBefore(1)
    BY <2>1, TakenKeeps
  <2>5. 1 \in DOMAIN queue /\ Head(queue) = queue[1]
    BY <2>1, TakenIndices
  <2> QED  BY <2>1, <2>2, <2>3, <2>4, <2>5 DEF LockComes
<1>4. CASE ProcOpen
  <2>1. /\ Taken /\ Head(queue).type = "Open" /\ UNCHANGED <<lastLock, lost>>
        /\ modem'.open = modem.up /\ modem'.lock = modem.lock
    BY <1>4 DEF ProcOpen, Proc, Taken, taskVars, history, Types, ModemStates
  <2>2. CASE modem.up
    BY <2>1, <2>2, LockStays
  <2>3. CASE ~modem.up
    BY <2>1, <2>3 DEF Connected, LockComes
  <2> QED  BY <2>2, <2>3
<1>5. ASSUME NEW adapter \in Others, Leave(adapter)
      PROVE  LockComes'
  <2>1. UNCHANGED <<lastLock, lost>> /\ modem'.lock = modem.lock
    BY <1>5 DEF Leave, otherVars, history, Types, ModemStates
  <2>2. CASE Max(Reached) = 0
    <3>1. UNCHANGED queue /\ ~Queued("Lock")
      BY <1>5, <2>2, LastToLeave DEF Leave, EngineThere
    <3> QED  BY <2>1, <3>1 DEF LockComes, Queued, IsLast
  <2>3. CASE Max(Reached) # 0
    <3>1. Post(<<[type |-> "Open"]>>) /\ UNCHANGED modem
      BY <1>5, <2>3 DEF Leave
    <3> QED  BY <2>1, <3>1, LockStays
  <2> QED  BY <2>2, <2>3
<1>6. CASE MeasurementInit \/ MeasurementClose
  <2>1. /\ \E on \in BOOLEAN : Post(<<[type |-> "Mask", on |-> on]>>)
        /\ lost' = LostAfter("measurement") /\ UNCHANGED <<lastLock, modem>>
    BY <1>6 DEF MeasurementInit, MeasurementClose, measurementVars
  <2>2. "lock" \notin lost' => "lock" \notin lost
    BY <2>1 DEF LostAfter
  <2> QED  BY <2>1, <2>2, LockStays
<1>7. CASE \/ \E adapter \in Others : Arrive(adapter)
           \/ InitEngine \/ \E kind \in {"xtra", "time"} : Fetched(kind) \/ RequestData(kind)
  <2>1. UNCHANGED <<lastLock, lost, modem>>
    BY <1>7 DEF Arrive, otherVars, InitEngine, Fetched, RequestData, modemVars, history
  <2>2. UNCHANGED queue \/ \E m \in Messages : m.type # "Lock" /\ Post(<<m>>)
    <3>1. /\ [type |-> "Open"].type = "Open"
          /\ \A type \in {"Request", "Inject"}, kind \in Kinds :
               [type |-> type, kind |-> kind].type # "Lock"
      OBVIOUS
    <3> QED  BY <1>7, <3>1 DEF Arrive, InitEngine, Fetched, RequestData, Kinds
  <2> QED  BY <2>1, <2>2, LockStays
<1>8. CASE InitVote \/ InitSends \/ CleanupBegin \/ XtraInit \/ ProcSendsVote \/ UNCHANGED vars
  <2>1. UNCHANGED <<lastLock, lost, queue>>
    BY <1>8 DEF InitVote, InitSends, CleanupBegin, SetVote, XtraInit, ProcSendsVote, vars, taskVars, history
  <2>2. modem'.lock = modem.lock /\ modem'.open = modem.open
    <3>1. UNCHANGED modem \/ \E code : modem' = [modem EXCEPT !.vote = code]
      BY <1>8 DEF InitVote, InitSends, CleanupBegin, SetVote, XtraInit, ProcSendsVote, vars,
         RequestPowerVote, Told
    <3> QED  BY <3>1 DEF Types, ModemStates
  <2> QED  BY <2>1, <2>2, LockStays
<1>9. CASE ProcReadsVote \/ ProcMask \/ ProcRequest \/ ProcInject
  <2>1. /\ Taken /\ Head(queue).type \in {"Up", "Mask", "Request", "Inject"}
        /\ UNCHANGED <<lastLock, lost>>
    BY <1>9 DEF ProcReadsVote, ProcMask, ProcRequest, ProcInject, Proc, Taken, taskVars, history
  <2>2. modem'.lock = modem.lock /\ modem'.open = modem.open
    BY <1>9 DEF ProcReadsVote, ProcMask, ProcRequest, ProcInject, Told, Types, ModemStates
  <2> QED  BY <2>1, <2>2, LockStays
<1> QED  BY <1>1, <1>2, <1>3, <1>4, <1>5, <1>6, <1>7, <1>8, <1>9 DEF Next

LEMMA MaskStays ==
  ASSUME Types, MaskComes, modem'.measures = modem.measures,
         "measurement" \notin lost' => "measurement" \notin lost,
         "measurement" \in callbacks' <=> "measurement" \in callbacks,
         \/ UNCHANGED queue
         \/ \E m \in Messages : m.type # "Mask" /\ Post(<<m>>)
         \/ Taken /\ Head(queue).type # "Mask" /\ (Head(queue).type = "Open" => modem'.open),
         modem.open => modem'.open
  PROVE  MaskComes'
<1> SUFFICES ASSUME "measurement" \notin lost'  PROVE MaskComes'
  BY DEF MaskComes
<1>1. Queued("Mask")' <=> Queued("Mask")
  BY LastStays
<1>2. ASSUME NEW i \in DOMAIN queue', IsLast("Mask", i)'
      PROVE  /\ queue'[i].on <=> "measurement" \in callbacks'
             /\ modem'.open \/ OpenBefore(i)'
  <2>1. PICK k \in DOMAIN queue :
          /\ IsLast("Mask", k) /\ queue'[i] = queue[k]
          /\ modem.open \/ OpenBefore(k) => modem'.open \/ OpenBefore(i)'
    BY <1>2, LastStays
  <2> QED  BY <2>1 DEF MaskComes
<1> QED  BY <1>1, <1>2 DEF MaskComes

LEMMA NextMaskComes ==
  ASSUME IInv, Types, EngineThere, Connected, MaskComes, [Next]_vars
  PROVE  MaskComes'
<1> USE MessageTypes
<1>1. CASE Crash \/ Return
  <2>1. "measurement" \in lost'
    BY <1>1 DEF Crash, Return, Connected
  <2> QED  BY <2>1 DEF MaskComes
<1>2. CASE MeasurementInit \/ MeasurementClose
  <2>1. PICK on \in BOOLEAN :
          /\ Post(<<[type |-> "Mask", on |-> on]>>)
          /\ on <=> "measurement" \in callbacks'
          /\ lost' = LostAfter("measurement") /\ UNCHANGED modem
    <3>1. CASE MeasurementInit
      <4>1. /\ Post(<<[type |-> "Mask", on |-> TRUE]>>) /\ "measurement" \in callbacks'
            /\ lost' = LostAfter("measurement") /\ UNCHANGED modem
        BY <3>1 DEF MeasurementInit, measurementVars
      <4> QED  BY <4>1
    <3>2. CASE MeasurementClose
      <4>1. /\ Post(<<[type |-> "Mask", on |-> FALSE]>>) /\ "measurement" \notin callbacks'
            /\ lost' = LostAfter("measurement") /\ UNCHANGED modem
        BY <3>2 DEF MeasurementClose, measurementVars
      <4> QED  BY <4>1
    <3> QED  BY <1>2, <3>1, <3>2
  <2> DEFINE m == [type |-> "Mask", on |-> on]
  <2>2. m \in Messages /\ m.type = "Mask" /\ m.on = on
    OBVIOUS
  <2> HIDE DEF m
  <2>3. Post(<<m>>)
    BY <2>1 DEF m
  <2>5. "measurement" \notin lost' => modem.open \/ Queued("Open")
    <3>1. DOMAIN queue = 1..Len(queue)
      BY DEF Types
    <3> QED  BY <2>1, <3>1 DEF LostAfter, Queued
  <2>6. Queued("Mask")'
    BY <2>2, <2>3, PostedOne
  <2>7. ASSUME NEW i \in DOMAIN queue', IsLast("Mask", i)'
        PROVE  queue'[i] = m /\ (Queued("Open") => OpenBefore(i)')
    BY <2>2, <2>3, <2>7, PostedOne
  <2> QED  BY <2>1, <2>2, <2>5, <2>6, <2>7 DEF MaskComes
<1>3. CASE ProcMask
  <2>1. /\ Taken /\ Head(queue).type = "Mask"
        /\ modem' = Told("measures", Head(queue).on)
        /\ UNCHANGED <<callbacks, lost>>
    BY <1>3 DEF ProcMask, Proc, Taken, taskVars, history
  <2>2. modem'.open = modem.open /\ (modem.open => modem'.measures = Head(queue).on)
    BY <2>1 DEF Told, Types, ModemStates
  <2>3. ASSUME NEW i \in DOMAIN queue', IsLast("Mask", i)'
        PROVE  /\ i + 1 \in DOMAIN queue /\ IsLast("Mask", i + 1) /\ queue'[i] = queue[i + 1]
               /\ OpenBefore(i + 1) => OpenBefore(i)'
    BY <2>1, <2>3, TakenKeeps
  <2>4. ~Queued("Mask")' => IsLast("Mask", 1) /\ ~OpenBefore(1)
    BY <2>1, TakenKeeps
  <2>5. 1 \in DOMAIN queue /\ Head(queue) = queue[1]
    BY <2>1, TakenIndices
  <2> QED  BY <2>1, <2>2, <2>3, <2>4, <2>5 DEF MaskComes
<1>4. CASE ProcOpen
  <2>1. /\ Taken /\ Head(queue).type = "Open" /\ UNCHANGED <<callbacks, lost>>
        /\ modem'.open = modem.up /\ modem'.measures = modem.measures
    BY <1>4 DEF ProcOpen, Proc, Taken, taskVars, history, Types, ModemStates
  <2>2. CASE modem.up
    BY <2>1, <2>2, MaskStays
  <2>3. CASE ~modem.up
    BY <2>1, <2>3 DEF Connected, MaskComes
  <2> QED  BY <2>2, <2>3
<1>5. ASSUME NEW adapter \in Others, Leave(adapter)
      PROVE  MaskComes'
  <2>1. UNCHANGED <<callbacks, lost>> /\ modem'.measures = modem.measures
    BY <1>5 DEF Leave, otherVars, history, Types, ModemStates
  <2>2. CASE Max(Reached) = 0
    <3>1. UNCHANGED queue /\ ~Queued("Mask")
      BY <1>5, <2>2, LastToLeave DEF Leave, EngineThere
    <3> QED  BY <2>1, <3>1 DEF MaskComes, Queued, IsLast
  <2>3. CASE Max(Reached) # 0
    <3>1. Post(<<[type |-> "Open"]>>) /\ UNCHANGED modem
      BY <1>5, <2>3 DEF Leave
    <3> QED  BY <2>1, <3>1, MaskStays
  <2> QED  BY <2>2, <2>3
<1>6. CASE InitFlags \/ CleanupSends
  <2>1. \E lock \in {0, 3} : Post(<<[type |-> "Lock", lock |-> lock]>>)
    BY <1>6 DEF InitFlags, CleanupSends
  <2>2. /\ "measurement" \notin lost' => "measurement" \notin lost
        /\ "measurement" \in callbacks' <=> "measurement" \in callbacks
    BY <1>6 DEF InitFlags, CleanupSends, LostAfter
  <2>3. modem'.open = modem.open /\ modem'.measures = modem.measures
    <3>1. UNCHANGED modem \/ \E code : modem' = [modem EXCEPT !.vote = code]
      BY <1>6 DEF InitFlags, CleanupSends, RequestPowerVote, Told
    <3> QED  BY <3>1 DEF Types, ModemStates
  <2> QED  BY <2>1, <2>2, <2>3, MaskStays
<1>7. CASE \/ \E adapter \in Others : Arrive(adapter)
           \/ InitEngine \/ \E kind \in {"xtra", "time"} : Fetched(kind) \/ RequestData(kind)
  <2>1. UNCHANGED <<lost, modem>>
    BY <1>7 DEF Arrive, otherVars, InitEngine, Fetched, RequestData, modemVars, history
  <2>2. UNCHANGED queue \/ \E m \in Messages : m.type # "Mask" /\ Post(<<m>>)
    <3>1. /\ [type |-> "Open"].type = "Open"
          /\ \A type \in {"Request", "Inject"}, kind \in Kinds :
               [type |-> type, kind |-> kind].type # "Mask"
      OBVIOUS
    <3> QED  BY <1>7, <3>1 DEF Arrive, InitEngine, Fetched, RequestData, Kinds
  <2>3. "measurement" \in callbacks' <=> "measurement" \in callbacks
    BY <1>7 DEF Arrive, otherVars, InitEngine, Fetched, RequestData, modemVars, EngineThere
  <2> QED  BY <2>1, <2>2, <2>3, MaskStays
<1>8. CASE InitVote \/ InitSends \/ CleanupBegin \/ XtraInit \/ ProcSendsVote \/ UNCHANGED vars
  <2>1. UNCHANGED <<lost, queue>>
    BY <1>8 DEF InitVote, InitSends, CleanupBegin, SetVote, XtraInit, ProcSendsVote, vars, taskVars, history
  <2>2. modem'.measures = modem.measures /\ modem'.open = modem.open
    <3>1. UNCHANGED modem \/ \E code : modem' = [modem EXCEPT !.vote = code]
      BY <1>8 DEF InitVote, InitSends, CleanupBegin, SetVote, XtraInit, ProcSendsVote, vars,
         RequestPowerVote, Told
    <3> QED  BY <3>1 DEF Types, ModemStates
  <2>3. "measurement" \in callbacks' <=> "measurement" \in callbacks
    BY <1>8 DEF InitVote, InitSends, CleanupBegin, SetVote, XtraInit, ProcSendsVote, vars, taskVars
  <2> QED  BY <2>1, <2>2, <2>3, MaskStays
<1>9. CASE ProcReadsVote \/ ProcLock \/ ProcRequest \/ ProcInject
  <2>1. /\ Taken /\ Head(queue).type \in {"Up", "Lock", "Request", "Inject"}
        /\ UNCHANGED <<callbacks, lost>>
    BY <1>9 DEF ProcReadsVote, ProcLock, ProcRequest, ProcInject, Proc, Taken, taskVars, history
  <2>2. modem'.measures = modem.measures /\ modem'.open = modem.open
    BY <1>9 DEF ProcReadsVote, ProcLock, ProcRequest, ProcInject, Told, Types, ModemStates
  <2> QED  BY <2>1, <2>2, MaskStays
<1> QED  BY <1>1, <1>2, <1>3, <1>4, <1>5, <1>6, <1>7, <1>8, <1>9 DEF Next

LEMMA NextEngineAsked ==
  ASSUME IInv, Types, EngineAsked, [Next]_vars
  PROVE  EngineAsked'
<1>1. /\ supports.agps => supports'.agps
      /\ supports'.agps => supports'.time \/ context'.cpi
  <2>1. CASE InitFlags
    BY <2>1 DEF InitFlags, frontVars, IInv, EngineFirst
  <2>2. CASE InitVote
    BY <2>2 DEF InitVote, SetVote, frontVars, IInv, EngineFirst, EngineAsked
  <2>3. CASE ProcInject
    BY <2>3 DEF ProcInject, taskVars, IInv, EngineFirst, EngineAsked
  <2>4. CASE \/ \E adapter \in Others : Arrive(adapter) \/ Leave(adapter)
             \/ InitEngine \/ InitSends \/ CleanupBegin \/ CleanupSends
             \/ MeasurementInit \/ MeasurementClose \/ XtraInit
             \/ \E kind \in {"xtra", "time"} : Fetched(kind) \/ RequestData(kind)
             \/ ProcReadsVote \/ ProcSendsVote \/ ProcOpen \/ ProcLock \/ ProcMask \/ ProcRequest
             \/ Crash \/ Return \/ UNCHANGED vars
    <3>1. UNCHANGED <<supports, context>>
      BY <2>4 DEF Arrive, Leave, otherVars, InitEngine, InitSends, CleanupBegin, CleanupSends, SetVote,
         MeasurementInit, MeasurementClose, XtraInit, Fetched, RequestData, ProcReadsVote,
         ProcSendsVote, ProcOpen, ProcLock, ProcMask, ProcRequest, Crash, Return, vars, frontVars,
         measurementVars, taskVars, modemVars
    <3> QED  BY <3>1 DEF EngineAsked
  <2> QED  BY <2>1, <2>2, <2>3, <2>4 DEF Next
<1>2. Engine \in AdaptersAt(Takers) => supports.agps
  BY NamesDiffer DEF AdaptersAt, Takers, Handles
<1>3. ASSUME NEW type \in {"Request", "Inject"}, Queued(type)'
      PROVE  supports'.agps
  <2>1. CASE Queued(type)
    BY <1>1, <2>1 DEF EngineAsked
  <2>2. CASE ~Queued(type)
    <3>1. \/ Engine \in AdaptersAt(Takers)
          \/ \E kind \in Kinds : Fetched(kind)
      BY <1>3, <2>2, NewlyQueued
    <3> QED  BY <1>1, <1>2, <3>1 DEF Fetched, EngineAsked
  <2> QED  BY <2>1, <2>2
<1>4. ASSUME wants' # {} \/ download' # {}
      PROVE  supports'.agps
  <2>1. CASE UNCHANGED <<wants, download>>
    BY <1>1, <1>4, <2>1 DEF EngineAsked
  <2>2. ASSUME NEW kind \in {"xtra", "time"}, Fetched(kind)
        PROVE  supports'.agps
    BY <1>1, <2>2 DEF Fetched, EngineAsked
  <2>3. ASSUME NEW kind \in {"xtra", "time"}, RequestData(kind)
        PROVE  supports'.agps
    <3>1. Engine \in AdaptersAt(Takers) \/ UNCHANGED <<wants, download>>
      BY <2>3 DEF RequestData
    <3> QED  BY <1>1, <1>2, <2>1, <3>1
  <2>4. CASE ProcRequest \/ ProcInject
    <3>1. Taken /\ Head(queue).type \in {"Request", "Inject"}
      BY <2>4 DEF ProcRequest, ProcInject, Proc, Taken
    <3>2. Queued("Request") \/ Queued("Inject")
      <4>1. Queued(Head(queue).type)
        BY <3>1, TakenKeeps
      <4>2. Head(queue).type = "Request" \/ Head(queue).type = "Inject"
        BY <3>1
      <4> QED  BY <4>1, <4>2
    <3> QED  BY <1>1, <3>2 DEF EngineAsked
  <2>5. CASE Crash
    <3>1. wants' = {} /\ download' = download
      BY <2>5 DEF Crash
    <3> QED  BY <1>1, <1>4, <3>1 DEF EngineAsked
  <2>6. CASE \/ \E adapter \in Others : Arrive(adapter) \/ Leave(adapter)
             \/ InitEngine \/ InitFlags \/ InitVote \/ InitSends
             \/ CleanupBegin \/ CleanupSends
             \/ MeasurementInit \/ MeasurementClose \/ XtraInit
             \/ ProcReadsVote \/ ProcSendsVote
             \/ ProcOpen \/ ProcLock \/ ProcMask \/ Return \/ UNCHANGED vars
    <3>1. UNCHANGED <<wants, download>>
      BY <2>6 DEF Arrive, Leave, otherVars, InitEngine, InitFlags, InitVote, InitSends, SetVote,
         CleanupBegin, CleanupSends, MeasurementInit, MeasurementClose, XtraInit,
         ProcReadsVote, ProcSendsVote, ProcOpen, ProcLock, ProcMask,
         Return, vars, measurementVars, frontVars, requestVars
    <3> QED  BY <2>1, <3>1
  <2> QED  BY <2>2, <2>3, <2>4, <2>5, <2>6 DEF Next
<1> QED  BY <1>1, <1>3, <1>4 DEF EngineAsked

LEMMA NextRequest ==
  ASSUME IInv, Types, EngineAsked, RequestIsOnItsWay, [Next]_vars
  PROVE  RequestIsOnItsWay'
<1> USE MessageTypes DEF RequestIsOnItsWay, Carried
<1>0. context' = context
  BY DEF Next, Arrive, Leave, otherVars, InitEngine, InitFlags, InitVote, InitSends, SetVote,
     CleanupBegin, CleanupSends, MeasurementInit, MeasurementClose, XtraInit, Fetched, RequestData,
     ProcReadsVote, ProcSendsVote, ProcOpen, ProcLock, ProcMask, ProcRequest, ProcInject, Crash,
     Return, vars, measurementVars, frontVars, taskVars, modemVars
<1>1. ASSUME UNCHANGED <<wants, download>>,
             \A kind : Carried(kind) => Carried(kind)'
      PROVE  RequestIsOnItsWay'
  BY <1>0, <1>1
<1>2. ASSUME NEW kind \in {"xtra", "time"}, Fetched(kind)
      PROVE  RequestIsOnItsWay'
  <2> DEFINE m == [type |-> "Inject", kind |-> kind]
  <2>1. m \in Messages /\ m.type = "Inject" /\ m.kind = kind
    BY DEF Kinds
  <2> HIDE DEF m
  <2>2. CASE Post(<<m>>) /\ UNCHANGED wants
    <3>1. Carried(kind)' /\ \A other : Carried(other) => Carried(other)'
      BY <2>1, <2>2, PostedOne
    <3>2. download' = download \ {kind}
      BY <1>2 DEF Fetched
    <3> QED  BY <1>0, <2>2, <3>1, <3>2
  <2>3. CASE wants' = wants \ {kind} /\ UNCHANGED queue
    BY <1>0, <1>2, <2>3 DEF Fetched
  <2> QED  BY <1>2, <2>2, <2>3 DEF Fetched, m
<1>3. ASSUME NEW kind \in {"xtra", "time"}, RequestData(kind)
      PROVE  RequestIsOnItsWay'
  <2> DEFINE m == [type |-> "Request", kind |-> kind]
  <2>1. m \in Messages /\ m.type = "Request" /\ m.kind = kind
    BY DEF Kinds
  <2> HIDE DEF m
  <2>2. CASE Post(<<m>>) /\ wants' = wants \cup {kind}
    <3>1. Carried(kind)' /\ \A other : Carried(other) => Carried(other)'
      BY <2>1, <2>2, PostedOne
    <3>2. download' = download
      BY <1>3 DEF RequestData
    <3> QED  BY <1>0, <2>2, <3>1, <3>2
  <2>3. CASE UNCHANGED <<queue, wants>>
    BY <1>0, <1>3, <2>3 DEF RequestData
  <2> QED  BY <1>3, <2>2, <2>3 DEF RequestData, m
<1>4. CASE ProcRequest
  <2>1. /\ Taken /\ Head(queue).type = "Request"
        /\ \/ download' = download \cup {Head(queue).kind} /\ wants' = wants
           \/ download' = download /\ wants' = wants \ {Head(queue).kind}
           \/ /\ download' = download /\ wants' = wants
              /\ Head(queue).kind = "time" /\ ~context.ondemand
    BY <1>4 DEF ProcRequest, Proc, Taken
  <2>2. \A kind : Carried(kind) /\ kind # Head(queue).kind => Carried(kind)'
    BY <2>1, TakenKeeps
  <2>3. ASSUME NEW kind \in wants'
        PROVE  \/ kind \in download' \/ Carried(kind)'
               \/ kind = "time" /\ (context'.cpi \/ ~context'.ondemand)
    <3>1. /\ kind \in wants
          /\ \/ kind # Head(queue).kind \/ kind \in download'
             \/ kind = "time" /\ ~context.ondemand
      BY <2>1
    <3>2. \/ kind \in download \/ Carried(kind)
          \/ kind = "time" /\ (context.cpi \/ ~context.ondemand)
      BY <3>1
    <3>3. kind \in download => kind \in download'
      BY <2>1
    <3> HIDE DEF Carried, RequestIsOnItsWay
    <3> QED  BY <1>0, <2>2, <3>1, <3>2, <3>3
  <2> QED  BY <2>3
<1>5. CASE ProcInject
  <2>1. /\ Taken /\ Head(queue).type = "Inject" /\ download' = download
        /\ \/ Head(queue).kind = "time" /\ ~supports.time /\ wants' = wants
           \/ wants' = wants \ {Head(queue).kind}
    BY <1>5 DEF ProcInject, Proc, Taken
  <2>2. \A kind : Carried(kind) /\ kind # Head(queue).kind => Carried(kind)'
    BY <2>1, TakenKeeps
  <2>3. supports.time \/ context.cpi
    <3>1. Queued("Inject")
      BY <2>1, TakenKeeps
    <3> QED  BY <3>1 DEF EngineAsked
  <2> QED  BY <1>0, <2>1, <2>2, <2>3
<1>6. CASE Crash
  BY <1>6 DEF Crash
<1>7. CASE Return
  BY <1>1, <1>7, Returned DEF Return, requestVars
<1>8. CASE ProcReadsVote \/ ProcOpen \/ ProcLock \/ ProcMask
  <2>1. /\ Taken /\ Head(queue).type \in {"Up", "Open", "Lock", "Mask"}
        /\ UNCHANGED <<wants, download>>
    BY <1>8 DEF ProcReadsVote, ProcOpen, ProcLock, ProcMask, Proc, Taken, requestVars
  <2>2. \A kind : Carried(kind) => Carried(kind)'
    BY <2>1, TakenKeeps
  <2> QED  BY <1>1, <2>1, <2>2
<1>9. CASE \/ \E adapter \in Others : Arrive(adapter) \/ Leave(adapter)
           \/ InitEngine \/ InitFlags \/ InitVote \/ InitSends
           \/ CleanupBegin \/ CleanupSends
           \/ MeasurementInit \/ MeasurementClose \/ XtraInit
           \/ ProcSendsVote \/ UNCHANGED vars
  <2>1. UNCHANGED <<wants, download>>
    BY <1>9 DEF Arrive, Leave, otherVars, InitEngine, InitFlags, InitVote, InitSends, SetVote,
       CleanupBegin, CleanupSends, MeasurementInit, MeasurementClose, XtraInit,
       ProcSendsVote, vars, measurementVars, frontVars, requestVars
  <2>2. UNCHANGED queue \/ \E m \in Messages : Post(<<m>>)
    BY <1>9 DEF Arrive, Leave, InitEngine, InitFlags, InitVote, InitSends, SetVote,
       CleanupBegin, CleanupSends, MeasurementInit, MeasurementClose, XtraInit, ProcSendsVote, vars
  <2>3. \A kind : Carried(kind) => Carried(kind)'
    <3>1. CASE UNCHANGED queue
      BY <3>1
    <3>2. ASSUME NEW m \in Messages, Post(<<m>>), NEW kind, Carried(kind)  PROVE Carried(kind)'
      <4> HIDE DEF Carried
      <4> QED  BY <3>2, PostedOne
    <3> QED  BY <2>2, <3>1, <3>2
  <2> QED  BY <1>1, <2>1, <2>3
<1> QED  BY <1>2, <1>3, <1>4, <1>5, <1>6, <1>7, <1>8, <1>9 DEF Next

LEMMA NextComes ==
  ASSUME IInv, Comes, [Next]_vars
  PROVE  Comes'
BY NextTypes, NextEngineAsked, NextEngineThere, NextConnected, NextUpAfterOpen, NextVoteComes,
   NextLockComes, NextMaskComes, NextRequest DEF Comes

LEMMA AlwaysComes == Spec => [](IInv /\ Comes)
<1>1. Init => IInv
  <2> SUFFICES ASSUME Init  PROVE IInv
    OBVIOUS
  <2>1. ArrayOK(mLocAdapters)
    <3>1. mLocAdapters = [i \in Slots |-> None]
      BY Init DEF Init
    <3> QED  BY <3>1 DEF ArrayOK, Packed, Once
  <2>2. context \in [agps : BOOLEAN, cpi : BOOLEAN, vote : BOOLEAN, ondemand : BOOLEAN]
    BY Init, Builds DEF Init
  <2> QED  BY <2>1, <2>2, Init DEF IInv, EngineFirst, Init
<1>2. Init => Comes
  <2> SUFFICES ASSUME Init  PROVE Comes
    OBVIOUS
  <2> USE DEF Init
  <2>1. Types
    <3>1. queue \in Seq(Messages)
      OBVIOUS
    <3> QED  BY <3>1 DEF Types, ModemStates
  <2>2. \A type : ~Queued(type)
    BY DEF Queued
  <2>3. EngineAsked /\ EngineThere /\ Connected /\ UpAfterOpen /\ RequestIsOnItsWay
    BY <2>2 DEF EngineAsked, EngineThere, Connected, UpAfterOpen, RequestIsOnItsWay
  <2>4. VoteComes
    BY DEF VoteComes
  <2>5. LockComes /\ MaskComes
    <3>1. DOMAIN queue = {}
      OBVIOUS
    <3> QED  BY <2>2, <3>1 DEF LockComes, MaskComes
  <2> QED  BY <2>1, <2>3, <2>4, <2>5 DEF Comes
<1> QED  BY <1>1, <1>2, NextIInv, NextComes, PTL DEF Spec

\* For any adapters of others, and any number of calls, restarts and requests:
\* once everything is handled the modem has the vote, the lock and the
\* registration that the framework asked for last, through restarts, unless they
\* were asked for without a connection or the vote overlapped with the MsgTask.
THEOREM ModemFollowsProved == Spec => []ModemFollows
<1>1. Comes => ModemFollows
  <2> SUFFICES ASSUME Comes, Settled  PROVE ModemFollows
    BY DEF ModemFollows, VoteSettles, VoteIsLastSetting, SettingsSettle
  <2>1. \A type : ~Queued(type)
    BY DEF Settled, Queued
  <2>2. VoteSettles
    <3>1. Code(vote) # 0
      BY DEF Code
    <3> QED  BY <2>1, <3>1 DEF Comes, VoteComes, Connected, VoteSettles, VoteIsLastSetting, Settled
  <2>3. SettingsSettle
    <3>1. "measurement" \notin lost => (modem.measures <=> "measurement" \in callbacks)
      BY <2>1 DEF Comes, MaskComes
    <3>2. "measurement" \notin lost => modem.measures = ("measurement" \in callbacks)
      <4>1. modem.measures \in BOOLEAN
        BY DEF Comes, Types, ModemStates
      <4> QED  BY <3>1, <4>1
    <3> QED  BY <2>1, <3>2 DEF Comes, LockComes, SettingsSettle
  <2> QED  BY <2>2, <2>3 DEF ModemFollows
<1> QED  BY <1>1, AlwaysComes, PTL

\* For the same: what the modem asked for and the engine's adapter took is with
\* the MsgTask or the framework until it is injected.  The code drops the first
\* time that is injected where that is another's task, and requests for the time
\* if CAPABILITIES has no ON_DEMAND_TIME (LocEngRequestTime::proc).
THEOREM RequestsArrive == Spec => []RequestIsOnItsWay
<1>1. Comes => RequestIsOnItsWay
  BY DEF Comes
<1> QED  BY <1>1, AlwaysComes, PTL

-----------------------------------------------------------------------------
(* The LED                                                                 *)

States == [color : Colors \cup {0}, timed : BOOLEAN,
           onMS : Pauses \cup {0}, offMS : Pauses \cup {0}]

LedTypes ==
  /\ asked \in [Sources -> States]
  /\ led = [blink |-> led.blink, duty |-> led.duty, flags |-> led.flags,
            hi |-> led.hi, lo |-> led.lo]
  /\ led.blink \in BOOLEAN

\* Nobody said anything since the start: what the LED shows is unknown.
Untold == ~told => Wanting = {} /\ last_state = BREATH_SOURCE_NONE

\* last_state is what the files of the LED show.
LastIsShown ==
  told => IF Wanting = {} THEN last_state = BREATH_SOURCE_NONE /\ ~led.blink
          ELSE last_state = MostImportant(Wanting) /\ Shown = last_state /\ led.blink

LedIInv ==
  /\ LedTypes
  /\ told \in BOOLEAN
  /\ active_states = Wanting
  /\ Untold
  /\ LastIsShown
  /\ PausesAreAsked

-----------------------------------------------------------------------------

\* A set of sources has one that comes before all others.
LEMMA Importance ==
  ASSUME NEW S \in SUBSET Sources, S # {}
  PROVE  MostImportant(S) \in S /\ \A t \in S : MostImportant(S) <= t
<1>1. S \subseteq {1, 2, 4, 8}
  BY DEF Sources, BREATH_SOURCE_NOTIFICATION, BREATH_SOURCE_BATTERY,
         BREATH_SOURCE_BUTTONS, BREATH_SOURCE_ATTENTION
<1>2. \E s \in S : \A t \in S : s <= t
  <2>1. CASE 1 \in S  BY <1>1, <2>1
  <2>2. CASE 1 \notin S /\ 2 \in S  BY <1>1, <2>2
  <2>3. CASE 1 \notin S /\ 2 \notin S /\ 4 \in S  BY <1>1, <2>3
  <2>4. CASE S = {8}  BY <2>4
  <2> QED  BY <1>1, S # {}, <2>1, <2>2, <2>3, <2>4
<1> QED  BY <1>2 DEF MostImportant

\* ... and only one.
LEMMA ImportanceIsUnique ==
  ASSUME NEW S \in SUBSET Sources, NEW s \in S, \A t \in S : s <= t
  PROVE  MostImportant(S) = s
<1>1. MostImportant(S) \in S /\ \A t \in S : MostImportant(S) <= t
  BY Importance
<1>2. MostImportant(S) <= s /\ s <= MostImportant(S)
  BY <1>1, \A t \in S : s <= t
<1>3. MostImportant(S) \in Int /\ s \in Int
  <2>1. S \subseteq {1, 2, 4, 8}
    BY DEF Sources, BREATH_SOURCE_NOTIFICATION, BREATH_SOURCE_BATTERY,
           BREATH_SOURCE_BUTTONS, BREATH_SOURCE_ATTENTION
  <2>2. s \in {1, 2, 4, 8} /\ MostImportant(S) \in {1, 2, 4, 8}
    BY <1>1, <2>1, Zenon
  <2> QED  BY <2>2
<1> QED  BY <1>2, <1>3

\* What is written for a source shows that source and no other.
LEMMA BreathShows ==
  ASSUME NEW source \in Sources, NEW state, NEW breath \in Breaths(source, state),
         WriteBreath(breath)
  PROVE  Shown' = source /\ led'.blink
<1> USE DEF BREATH_SOURCE_NOTIFICATION, BREATH_SOURCE_BATTERY, BREATH_SOURCE_BUTTONS,
            BREATH_SOURCE_ATTENTION
<1>1. /\ led'.blink
      /\ led'.duty = breath.duty
      /\ led'.flags = breath.flags
  BY WriteBreath(breath) DEF WriteBreath
<1>2. CASE source = BREATH_SOURCE_NOTIFICATION
  <2>1. breath = NotificationBreath(state)
    BY <1>2 DEF Breaths
  <2>2. breath.duty = "NOTIFICATION" /\ "RAMP_UP" \in breath.flags
    BY <2>1 DEF NotificationBreath, Breath, RAMP_UP
  <2> QED  BY <1>1, <1>2, <2>2 DEF Shown
<1>3. CASE source = BREATH_SOURCE_BATTERY
  <2>1. breath \in BatteryBreaths
    BY <1>3 DEF Breaths
  <2>2. breath.duty \in {"BATTERY", "CHARGING"}
    BY <2>1 DEF BatteryBreaths, Breath
  <2> QED  BY <1>1, <1>3, <2>2 DEF Shown
<1>4. CASE source = BREATH_SOURCE_BUTTONS
  <2>1. breath.duty = "BUTTONS"
    BY <1>4 DEF Breaths, Breath
  <2> QED  BY <1>1, <1>4, <2>1 DEF Shown
<1>5. CASE source = BREATH_SOURCE_ATTENTION
  <2>1. breath = Breath("NOTIFICATION", {}, 0, 0)
    BY <1>5 DEF Breaths
  <2>2. breath.duty = "NOTIFICATION" /\ breath.flags = {}
    BY <2>1 DEF Breath
  <2> QED  BY <1>1, <1>5, <2>2 DEF Shown
<1> QED  BY <1>2, <1>3, <1>4, <1>5 DEF Sources

\* A notification's pattern has the pauses it was asked with.
LEMMA BreathPauses ==
  ASSUME NEW state \in States, WriteBreath(NotificationBreath(state)), Flashing(state)
  PROVE  /\ "LOOP" \in led'.flags
         /\ state.onMS > 0 => led'.hi = state.onMS
         /\ state.offMS > 0 => led'.lo = state.offMS
<1>1. state.timed
  BY Flashing(state) DEF Flashing
<1>2. /\ "LOOP" \in NotificationBreath(state).flags
      /\ NotificationBreath(state).hi = state.onMS
      /\ NotificationBreath(state).lo = state.offMS
  BY <1>1, Flashing(state) DEF NotificationBreath, Breath, LOOP
<1>3. /\ led'.flags = NotificationBreath(state).flags
      /\ led'.hi = (IF NotificationBreath(state).hi > 0
                    THEN NotificationBreath(state).hi ELSE led.hi)
      /\ led'.lo = (IF NotificationBreath(state).lo > 0
                    THEN NotificationBreath(state).lo ELSE led.lo)
  BY WriteBreath(NotificationBreath(state)) DEF WriteBreath
<1> QED  BY <1>2, <1>3

-----------------------------------------------------------------------------
\* The sources' numbers, and that of none is beyond them.
LEMMA Numbers ==
  /\ Sources \subseteq 1..8
  /\ BREATH_SOURCE_NONE = 255
  BY DEF Sources, BREATH_SOURCE_NOTIFICATION, BREATH_SOURCE_BATTERY,
         BREATH_SOURCE_BUTTONS, BREATH_SOURCE_ATTENTION, BREATH_SOURCE_NONE

\* A light that was not asked for is off.
LEMMA DarkIsNotLit == Dark \in States /\ ~Lit(Dark)
<1>1. Dark \in States
  BY DEF Dark, States
<1>2. rgb_to_brightness(Dark) = 0
  <2>1. 0 % 16777216 = 0 /\ 0 \div 65536 = 0 /\ 0 \div 256 = 0 /\ 0 % 256 = 0
    OBVIOUS
  <2>2. Dark.color = 0
    BY DEF Dark
  <2> QED  BY <2>1, <2>2 DEF rgb_to_brightness
<1> QED  BY <1>1, <1>2 DEF Lit

\* A call of any source keeps the LED in line with all four of them.
LEMMA SetSourceLedIInv ==
  ASSUME LedIInv, NEW source \in Sources, NEW state \in States,
         SetSource(source, state)
  PROVE  LedIInv'
<1> DEFINE active == IF Lit(state) THEN active_states \cup {source}
                     ELSE active_states \ {source}
<1>1. /\ asked' = [asked EXCEPT ![source] = state]
      /\ asked' \in [Sources -> States]
      /\ asked'[source] = state
      /\ \A s \in Sources \ {source} : asked'[s] = asked[s]
  BY LedIInv, SetSource(source, state) DEF SetSource, LedIInv, LedTypes
<1>2. /\ active_states' = active
      /\ told' = TRUE
      /\ IF active = {} THEN TurnOff
         ELSE IF last_state < source THEN UNCHANGED <<led, last_state>>
         ELSE ShowMostImportant(active, asked')
  BY <1>1, SetSource(source, state) DEF SetSource, set_breath_light_locked
<1>3. active = Wanting'
  BY <1>1, LedIInv DEF LedIInv, Wanting
<1>4. active \subseteq Sources
  BY <1>3 DEF Wanting
<1>5. SUFFICES /\ led' = [blink |-> led'.blink, duty |-> led'.duty, flags |-> led'.flags,
                          hi |-> led'.hi, lo |-> led'.lo]
               /\ led'.blink \in BOOLEAN
               /\ LastIsShown'
               /\ PausesAreAsked'
  BY <1>1, <1>2, <1>3 DEF LedIInv, LedTypes, Untold
<1> HIDE DEF active
<1>6. CASE active = {}
  <2>1. led' = [led EXCEPT !.blink = FALSE] /\ last_state' = BREATH_SOURCE_NONE
    BY <1>2, <1>6 DEF TurnOff
  <2>2. /\ led' = [blink |-> led'.blink, duty |-> led'.duty, flags |-> led'.flags,
                   hi |-> led'.hi, lo |-> led'.lo]
        /\ led'.blink = FALSE
    BY <2>1, LedIInv DEF LedIInv, LedTypes
  <2> QED  BY <1>3, <1>6, <2>1, <2>2 DEF LastIsShown, PausesAreAsked
<1>7. CASE active # {} /\ last_state < source
  <2>1. led' = led /\ last_state' = last_state
    BY <1>2, <1>7
  <2>2. last_state # BREATH_SOURCE_NONE
    BY <1>7, Numbers
  <2>3. told /\ Wanting # {}
    BY <2>2, LedIInv DEF LedIInv, Untold, LastIsShown
  <2>4. last_state = MostImportant(Wanting) /\ Shown = last_state /\ led.blink
    BY <2>3, LedIInv DEF LedIInv, LastIsShown
  <2>5. last_state \in Wanting /\ \A t \in Wanting : last_state <= t
    BY <2>3, <2>4, Importance DEF Wanting
  <2>6. last_state \in Sources /\ last_state # source
    BY <1>7, <2>5, Numbers DEF Wanting
  <2>7. last_state \in Wanting' /\ \A t \in Wanting' : last_state <= t
    <3>1. last_state \in Wanting'
      BY <1>1, <2>5, <2>6 DEF Wanting
    <3>2. ASSUME NEW t \in Wanting'  PROVE last_state <= t
      <4>1. CASE t = source
        BY <1>7, <2>6, <4>1, Numbers
      <4>2. CASE t # source
        BY <1>1, <2>5, <4>2 DEF Wanting
      <4> QED  BY <4>1, <4>2
    <3> QED  BY <3>1, <3>2
  <2>8. MostImportant(Wanting') = last_state
    BY <1>3, <1>4, <2>7, ImportanceIsUnique
  <2>9. Shown' = Shown
    BY <2>1 DEF Shown
  <2>10. LastIsShown'
    BY <2>1, <2>4, <2>7, <2>8, <2>9 DEF LastIsShown, MostImportant
  <2>11. PausesAreAsked'
    <3>1. CASE last_state = BREATH_SOURCE_NOTIFICATION
      <4>1. asked'[BREATH_SOURCE_NOTIFICATION] = asked[BREATH_SOURCE_NOTIFICATION]
        BY <1>1, <2>6, <3>1
      <4> QED  BY <2>1, <2>3, <2>9, <4>1, LedIInv DEF LedIInv, PausesAreAsked
    <3>2. CASE last_state # BREATH_SOURCE_NOTIFICATION
      BY <2>4, <2>9, <3>2 DEF PausesAreAsked
    <3> QED  BY <3>1, <3>2
  <2> QED  BY <2>1, <2>10, <2>11, LedIInv DEF LedIInv, LedTypes
<1>8. CASE active # {} /\ ~(last_state < source)
  <2> DEFINE top == MostImportant(active)
  <2>1. top \in active /\ top \in Sources
    BY <1>4, <1>8, Importance
  <2>2. MostImportant(Wanting') = top /\ Wanting' # {}
    BY <1>3, <1>8
  <2>3. ShowMostImportant(active, asked')
    BY <1>2, <1>8
  <2> HIDE DEF top
  <2>4. CASE IsShown(top)
    <3>1. led' = led /\ last_state' = last_state /\ last_state = top
      BY <2>3, <2>4 DEF ShowMostImportant, IsShown, top
    <3>2. Shown = last_state /\ led.blink
      BY <2>1, <3>1, Numbers, LedIInv DEF LedIInv, Untold, LastIsShown
    <3>3. Shown' = Shown
      BY <3>1 DEF Shown
    <3>4. top # BREATH_SOURCE_NOTIFICATION
      BY <2>4 DEF IsShown, BREATH_SOURCE_NOTIFICATION, BREATH_SOURCE_BATTERY,
                  BREATH_SOURCE_BUTTONS
    <3>5. LastIsShown'
      BY <2>2, <3>1, <3>2, <3>3 DEF LastIsShown
    <3>6. PausesAreAsked'
      BY <3>1, <3>2, <3>3, <3>4 DEF PausesAreAsked
    <3> QED  BY <3>1, <3>5, <3>6, LedIInv DEF LedIInv, LedTypes
  <2>5. CASE ~IsShown(top)
    <3>1. last_state' = top
      BY <2>3, <2>5 DEF ShowMostImportant, top
    <3>2. PICK breath \in Breaths(top, asked'[top]) : WriteBreath(breath)
      BY <2>3, <2>5 DEF ShowMostImportant, top
    <3>3. Shown' = top /\ led'.blink
      BY <2>1, <3>2, BreathShows
    <3>4. /\ led' = [blink |-> led'.blink, duty |-> led'.duty, flags |-> led'.flags,
                     hi |-> led'.hi, lo |-> led'.lo]
          /\ led'.blink = TRUE
      BY <3>2 DEF WriteBreath
    <3>5. LastIsShown'
      BY <2>2, <3>1, <3>3 DEF LastIsShown
    <3>6. PausesAreAsked'
      <4>1. CASE top = BREATH_SOURCE_NOTIFICATION
        <5>1. breath = NotificationBreath(asked'[top])
          BY <3>2, <4>1
          DEF Breaths, BREATH_SOURCE_NOTIFICATION, BREATH_SOURCE_BATTERY,
              BREATH_SOURCE_BUTTONS, BREATH_SOURCE_ATTENTION
        <5>2. asked'[top] \in States
          BY <1>1, <2>1
        <5>3. Flashing(asked'[top]) =>
                /\ "LOOP" \in led'.flags
                /\ asked'[top].onMS > 0 => led'.hi = asked'[top].onMS
                /\ asked'[top].offMS > 0 => led'.lo = asked'[top].offMS
          BY <3>2, <5>1, <5>2, BreathPauses
        <5> QED  BY <4>1, <5>3 DEF PausesAreAsked
      <4>2. CASE top # BREATH_SOURCE_NOTIFICATION
        BY <3>3, <4>2 DEF PausesAreAsked
      <4> QED  BY <4>1, <4>2
    <3> QED  BY <3>4, <3>5, <3>6
  <2> QED  BY <2>4, <2>5
<1> QED  BY <1>6, <1>7, <1>8

\* So does everything else: only a restart makes the LED unknown again.
LEMMA NextLedIInv ==
  ASSUME LedIInv, [LightsNext]_ledVars
  PROVE  LedIInv'
<1>1. CASE open_lights \/ close_lights \/ UNCHANGED ledVars
  <2>1. UNCHANGED <<asked, active_states, last_state, led, told>>
    BY <1>1 DEF open_lights, close_lights, ledVars
  <2> QED  BY <2>1, LedIInv DEF LedIInv, LedTypes, Untold, LastIsShown, PausesAreAsked, Wanting, Shown
<1>2. ASSUME NEW state \in LightStates(BREATH_SOURCE_BUTTONS),
             set_light_backlight(state)
      PROVE  LedIInv'
  <2>1. UNCHANGED <<asked, active_states, last_state, led, told>>
    BY <1>2 DEF set_light_backlight
  <2> QED  BY <2>1, LedIInv DEF LedIInv, LedTypes, Untold, LastIsShown, PausesAreAsked, Wanting, Shown
<1>3. ASSUME NEW source \in Sources, NEW state \in LightStates(source),
             SetSource(source, state)
      PROVE  LedIInv'
  <2>1. state \in States
    BY DEF LightStates, States
  <2> QED  BY <1>3, <2>1, SetSourceLedIInv, LedIInv
<1>4. CASE ProcessRestarts
  <2>1. /\ asked' = [s \in Sources |-> Dark]
        /\ active_states' = {} /\ last_state' = BREATH_SOURCE_NONE
        /\ told' = FALSE /\ led' = led
    BY <1>4 DEF ProcessRestarts
  <2>2. ~told' /\ told' \in BOOLEAN
    BY <2>1, Zenon
  <2>3. Dark \in States /\ ~Lit(Dark)
    BY DarkIsNotLit
  <2>4. Wanting' = {}
    BY <2>1, <2>3 DEF Wanting
  <2>5. LedTypes'
    BY <2>1, <2>3, LedIInv DEF LedIInv, LedTypes
  <2> QED  BY <2>1, <2>2, <2>4, <2>5 DEF LedIInv, Untold, LastIsShown, PausesAreAsked
<1>5. BREATH_SOURCE_BUTTONS \in Sources
  BY DEF Sources
<1> QED  BY <1>1, <1>2, <1>3, <1>4, <1>5, [LightsNext]_ledVars DEF LightsNext, set_light_buttons

\* In whatever order the sources go on and off, and however often the process
\* restarts, the LED shows the most important one that wants it, with the pauses it
\* asked for (set_breath_light_locked of lights.c).
THEOREM LedFollows == LightsSpec => []LedFollowsSources
<1>1. LightsInit => LedIInv
  <2> SUFFICES ASSUME LightsInit  PROVE LedIInv
    OBVIOUS
  <2>1. Dark \in States /\ ~Lit(Dark)
    BY DarkIsNotLit
  <2>2. ~told /\ told \in BOOLEAN
    BY LightsInit, Zenon DEF LightsInit
  <2>3. Wanting = {}
    BY <2>1, LightsInit DEF LightsInit, Wanting
  <2>4. LedTypes
    BY <2>1, LightsInit DEF LightsInit, LedTypes
  <2> QED  BY <2>2, <2>3, <2>4, LightsInit DEF LightsInit, LedIInv, Untold, LastIsShown, PausesAreAsked
<1>2. LedIInv /\ [LightsNext]_ledVars => LedIInv'
  BY NextLedIInv
<1>3. LedIInv => LedFollowsSources
  <2> SUFFICES ASSUME LedIInv  PROVE LedShowsMostImportant /\ PausesAreAsked
    BY DEF LedFollowsSources
  <2>1. CASE ~told
    BY <2>1, LedIInv DEF LedIInv, LedShowsMostImportant
  <2>2. CASE told /\ Wanting = {}
    <3>1. ~led.blink /\ led.blink \in BOOLEAN
      BY <2>2, LedIInv DEF LedIInv, LastIsShown, LedTypes
    <3> QED  BY <2>2, <3>1, LedIInv DEF LedIInv, LedShowsMostImportant
  <2>3. CASE told /\ Wanting # {}
    <3>1. led.blink /\ led.blink \in BOOLEAN /\ Shown = MostImportant(Wanting)
      BY <2>3, LedIInv DEF LedIInv, LastIsShown, LedTypes
    <3> QED  BY <2>3, <3>1, LedIInv DEF LedIInv, LedShowsMostImportant
  <2> QED  BY <2>1, <2>2, <2>3, LedIInv DEF LedIInv
<1> QED  BY <1>1, <1>2, <1>3, PTL DEF LightsSpec

-----------------------------------------------------------------------------
(* The doze service                                                        *)

Seconds == 0..PocketMin

\* A covered sensor was covered just now, and what the listener saw of a cover
\* is no older than it counts: mInPocketTime is never before the cover.
WaveIInv ==
  /\ sinceTime \in Seconds /\ sinceNear \in Seconds
  /\ near \in BOOLEAN /\ mSawNear \in BOOLEAN
  /\ near => sinceNear = 0
  /\ mSawNear => sinceNear <= sinceTime

\* Time goes on for both alike, up to the limit.
LEMMA OlderInOrder ==
  ASSUME PocketMin \in Nat, NEW s \in Seconds, NEW t \in Seconds, s <= t
  PROVE  Older(s) \in Seconds /\ Older(t) \in Seconds /\ Older(s) <= Older(t)
  BY DEF Older, Seconds

\* Every callback and every change of the world keeps the order.
LEMMA NextWaveIInv ==
  ASSUME PocketMin \in Nat, WaveIInv, [DozeNext]_dozeVars
  PROVE  WaveIInv'
<1> USE PocketMin \in Nat, WaveIInv DEF WaveIInv, Seconds, settings, sensor, world, CallService,
      enable, disable
<1>1. CASE onSensorChanged
  BY <1>1 DEF onSensorChanged
<1>2. CASE ScreenStateReceived
  BY <1>2 DEF ScreenStateReceived
<1>3. CASE onStartCommand
  <2>1. near' = near /\ sinceNear' = sinceNear
    BY <1>3 DEF onStartCommand
  <2>2. CASE running
    BY <1>3, <2>1, <2>2 DEF onStartCommand
  <2>3. CASE ~running
    <3>1. ~mSawNear' /\ mSawNear' \in BOOLEAN
      BY <1>3, <2>3, Zenon DEF onStartCommand
    <3>2. sinceTime' = PocketMin
      BY <1>3, <2>3 DEF onStartCommand
    <3> QED  BY <2>1, <3>1, <3>2
  <2> QED  BY <2>2, <2>3
<1>4. CASE onDestroy
  BY <1>4 DEF onDestroy
<1>5. CASE onAmbientChange \/ onGestureChange
  BY <1>5 DEF onAmbientChange, onGestureChange
<1>6. CASE DisplayChanges
  BY <1>6 DEF DisplayChanges
<1>7. CASE SensorChanges
  BY <1>7 DEF SensorChanges
<1>8. CASE SecondPasses
  BY <1>8 DEF SecondPasses, Older
<1>9. CASE ServiceKilled
  BY <1>9 DEF ServiceKilled
<1>10. CASE UNCHANGED dozeVars
  BY <1>10 DEF dozeVars
<1> QED  BY [DozeNext]_dozeVars, <1>1, <1>2, <1>3, <1>4, <1>5, <1>6, <1>7, <1>8, <1>9, <1>10 DEF DozeNext

\* A pulse is launched by onSensorChanged alone.
LEMMA StepIsShort ==
  ASSUME PocketMin \in Nat, HandwaveMax \in Nat, WaveIInv, WaveIsShort, [DozeNext]_dozeVars
  PROVE  WaveIsShort'
<1> USE WaveIsShort DEF WaveIsShort
<1>1. CASE onSensorChanged
  BY <1>1, PocketMin \in Nat, HandwaveMax \in Nat, WaveIInv DEF onSensorChanged, WaveIInv, Seconds,
     shouldPulse, BothEnabled, settings, world
<1>2. CASE DozeNext /\ ~onSensorChanged
  <2>1. pulse' = FALSE
    BY <1>2 DEF DozeNext, ScreenStateReceived, onStartCommand, onDestroy, onAmbientChange,
       onGestureChange, UserSwitches, DisplayChanges, SensorChanges, SecondPasses, ServiceKilled
  <2> QED  BY <2>1
<1>3. CASE UNCHANGED dozeVars
  BY <1>3 DEF dozeVars, settings, world
<1> QED  BY [DozeNext]_dozeVars, <1>1, <1>2, <1>3

\* For any limits, with the hand wave alone a pulse tells that the sensor was
\* covered less than HANDWAVE_MAX_DELTA_NS ago, whatever the display, the settings
\* and the system did meanwhile (ProximitySensor.java, onSensorChanged).
THEOREM WavesAreShort == DozeSpec => []WaveIsShort
<1>0. PocketMin \in Nat /\ HandwaveMax \in Nat
  BY DozeAssumption DEF DozeAssumption
<1>1. DozeInit => WaveIInv /\ WaveIsShort
  <2>1. ASSUME DozeInit  PROVE WaveIInv
    <3>1. ~mSawNear /\ mSawNear \in BOOLEAN /\ ~near /\ near \in BOOLEAN
      BY <2>1, Zenon DEF DozeInit
    <3>2. sinceTime = PocketMin /\ sinceNear = PocketMin
      BY <2>1 DEF DozeInit
    <3> QED  BY <1>0, <3>1, <3>2 DEF WaveIInv, Seconds
  <2>2. DozeInit => WaveIsShort
    BY DEF DozeInit, WaveIsShort
  <2> QED  BY <2>1, <2>2
<1>2. WaveIInv /\ WaveIsShort /\ [DozeNext]_dozeVars => WaveIInv' /\ WaveIsShort'
  BY <1>0, NextWaveIInv, StepIsShort
<1> QED  BY <1>1, <1>2, PTL DEF DozeSpec

-----------------------------------------------------------------------------
(* The listener and the display                                            *)

\* A service that does not run hears nothing; one that saw no change yet does
\* not listen; and once it saw one the last broadcast on its way tells what the
\* display is, and a listener is registered only while a gesture is on.
Follows ==
  /\ display \in BOOLEAN /\ listening \in BOOLEAN /\ broadcasts \in Seq(BOOLEAN)
  /\ ~running \/ saw = "nothing" => ~listening /\ broadcasts = <<>>
  /\ running /\ saw = "changes" =>
       /\ listening => sensorsEnabled
       /\ broadcasts # <<>> => broadcasts[Len(broadcasts)] = display
       /\ broadcasts = <<>> => listening = (~display /\ sensorsEnabled)

\* The handled broadcast is the display's state if it is the last one.
LEMMA ReceivedFollows ==
  ASSUME Follows, ScreenStateReceived  PROVE Follows'
<1>1. /\ broadcasts # <<>> /\ broadcasts \in Seq(BOOLEAN) /\ running /\ saw # "nothing"
      /\ broadcasts' = Tail(broadcasts) /\ broadcasts' \in Seq(BOOLEAN)
  <2>1. broadcasts # <<>> /\ broadcasts' = Tail(broadcasts) /\ broadcasts \in Seq(BOOLEAN)
    BY DEF ScreenStateReceived, Follows
  <2>2. running /\ saw # "nothing"
    BY <2>1, Zenon DEF Follows
  <2> QED  BY <2>1, <2>2
<1>2. UNCHANGED <<display, running, saw, handwave, pocket>> /\ sensorsEnabled' = sensorsEnabled
  BY DEF ScreenStateReceived, settings, sensorsEnabled
<1>3. listening' \in BOOLEAN
  BY Zenon DEF ScreenStateReceived, onDisplayOn, onDisplayOff, enable, disable, Follows
<1>4. CASE saw # "changes"
  BY <1>1, <1>2, <1>3, <1>4 DEF Follows
<1>5. CASE saw = "changes"
  <2>1. Head(broadcasts) \in BOOLEAN
    BY <1>1
  <2>2. listening' = IF ~sensorsEnabled THEN FALSE ELSE ~Head(broadcasts)
    BY <1>1, <1>5, <2>1, Zenon DEF ScreenStateReceived, Follows, onDisplayOn, onDisplayOff, enable, disable
  <2>3. listening' => sensorsEnabled'
    BY <1>2, <2>2
  <2>4. broadcasts' # <<>> => broadcasts'[Len(broadcasts')] = display'
    <3>1. broadcasts[Len(broadcasts)] = display
      BY <1>1, <1>5, Zenon DEF Follows
    <3> SUFFICES ASSUME broadcasts' # <<>>  PROVE broadcasts'[Len(broadcasts')] = display'
      OBVIOUS
    <3>2. Len(broadcasts') = Len(broadcasts) - 1 /\ Len(broadcasts') \in Nat \ {0}
      BY <1>1
    <3>3. \A i \in 1..Len(broadcasts') : broadcasts'[i] = broadcasts[i + 1]
      BY <1>1
    <3>4. broadcasts'[Len(broadcasts')] = broadcasts[Len(broadcasts)]
      BY <1>1, <3>2, <3>3
    <3> QED  BY <1>2, <3>1, <3>4
  <2>5. broadcasts' = <<>> => listening' = (~display' /\ sensorsEnabled')
    <3>1. broadcasts' = <<>> => Head(broadcasts) = broadcasts[Len(broadcasts)]
      <4>1. Len(broadcasts') = Len(broadcasts) - 1 /\ Len(broadcasts) \in Nat
        BY <1>1
      <4>2. broadcasts' = <<>> => Len(broadcasts) = 1
        BY <4>1
      <4> QED  BY <1>1, <4>2
    <3>2. broadcasts' = <<>> => Head(broadcasts) = display
      BY <1>1, <1>5, <3>1 DEF Follows
    <3> QED  BY <1>2, <2>2, <3>2, Zenon
  <2> QED  BY <1>1, <1>2, <1>3, <1>5, <2>3, <2>4, <2>5 DEF Follows
<1> QED  BY <1>4, <1>5

\* A gesture is switched with the display on: nothing listens then, or the
\* switch is late.
LEMMA GestureFollows ==
  ASSUME Follows, onGestureChange  PROVE Follows'
<1>1. UNCHANGED <<display, running, listening, broadcasts>> /\ display
  BY DEF onGestureChange, UserSwitches, sensor
<1>2. CASE broadcasts # <<>>
  BY <1>1, <1>2 DEF onGestureChange, Follows
<1>3. CASE broadcasts = <<>>
  <2>1. saw' = saw
    BY <1>3 DEF onGestureChange
  <2>2. running /\ saw = "changes" => ~listening
    BY <1>1, <1>3, Zenon DEF Follows
  <2>3. running' /\ saw' = "changes" => ~listening' /\ listening' = (~display' /\ sensorsEnabled')
    <3>1. running' /\ saw' = "changes" => listening' = FALSE /\ display' = TRUE
      BY <1>1, <2>1, <2>2, <1>3, Zenon DEF Follows
    <3> QED  BY <3>1
  <2> QED  BY <1>1, <1>3, <2>1, <2>3 DEF Follows
<1> QED  BY <1>2, <1>3

LEMMA DisplayFollows ==
  ASSUME Follows, DisplayChanges  PROVE Follows'
<1>1. UNCHANGED <<running, listening, handwave, pocket>> /\ display' = ~display /\ display' \in BOOLEAN
  BY Zenon DEF DisplayChanges, settings, sensor
<1>2. sensorsEnabled' = sensorsEnabled
  BY <1>1 DEF sensorsEnabled
<1>3. CASE ~running
  BY <1>1, <1>3 DEF DisplayChanges, Follows
<1>4. CASE running
  <2>1. broadcasts' = Append(broadcasts, display') /\ saw' = IF saw = "nothing" THEN "changes" ELSE saw
    BY <1>4 DEF DisplayChanges
  <2>2. /\ broadcasts' \in Seq(BOOLEAN) /\ broadcasts' # <<>>
        /\ broadcasts'[Len(broadcasts')] = display'
    BY <1>1, <2>1 DEF Follows
  <2>3. saw' = "changes" => (listening => sensorsEnabled)
    BY <1>4, <2>1 DEF Follows
  <2> QED  BY <1>1, <1>2, <1>4, <2>1, <2>2, <2>3 DEF Follows
<1> QED  BY <1>3, <1>4

LEMMA NextFollows ==
  ASSUME Follows, [DozeNext]_dozeVars
  PROVE  Follows'
<1>1. CASE ScreenStateReceived
  BY <1>1, ReceivedFollows, Zenon
     DEF ScreenStateReceived, onDisplayOn, onDisplayOff, enable, disable
<1>2. CASE onGestureChange
  BY <1>2, GestureFollows DEF onGestureChange, sensor
<1>3. CASE DisplayChanges
  BY <1>3, DisplayFollows DEF DisplayChanges, sensor
<1>4. CASE onStartCommand
  <2>1. UNCHANGED <<display, listening, broadcasts, handwave, pocket>> /\ running' = TRUE
    BY <1>4 DEF onStartCommand, settings
  <2>2. sensorsEnabled' = sensorsEnabled
    BY <2>1 DEF sensorsEnabled
  <2>3. saw' = IF running THEN saw ELSE "nothing"
    BY <1>4 DEF onStartCommand
  <2> QED  BY <2>1, <2>2, <2>3 DEF Follows
<1>5. CASE onDestroy \/ ServiceKilled
  <2>1. running' = FALSE /\ broadcasts' = <<>> /\ display' = display
    BY <1>5 DEF onDestroy, ServiceKilled
  <2>2. listening' = FALSE
    BY <1>5, Zenon DEF onDestroy, ServiceKilled, disable, Follows
  <2>3. broadcasts' \in Seq(BOOLEAN)
    BY <2>1
  <2>4. ~running'
    BY <2>1
  <2> QED  BY <2>1, <2>2, <2>3, <2>4, Zenon DEF Follows
<1>6. CASE onSensorChanged \/ onAmbientChange \/ SensorChanges \/ SecondPasses \/ UNCHANGED dozeVars
  <2>1. UNCHANGED <<display, running, listening, broadcasts, handwave, pocket, saw>>
    BY <1>6 DEF onSensorChanged, onAmbientChange, SensorChanges, SecondPasses, dozeVars, settings, sensor
  <2>2. sensorsEnabled' = sensorsEnabled
    BY <2>1 DEF sensorsEnabled
  <2> QED  BY <2>1, <2>2 DEF Follows
<1> QED  BY <1>1, <1>2, <1>3, <1>4, <1>5, <1>6 DEF DozeNext

\* Whatever is on its way and in whatever order it comes, a service that handled
\* its broadcasts listens just while the display is off and a gesture is on
\* (DozeService.java, onDisplayOn and onDisplayOff).
THEOREM ListensWhenDark == DozeSpec => []ListenerFollowsDisplay
<1>1. DozeInit => Follows
  <2> SUFFICES ASSUME DozeInit  PROVE Follows
    OBVIOUS
  <2>1. ~listening /\ listening \in BOOLEAN /\ ~running /\ display \in BOOLEAN
    BY Zenon DEF DozeInit
  <2>2. broadcasts = <<>>
    BY DEF DozeInit
  <2> QED  BY <2>1, <2>2 DEF Follows
<1>2. Follows /\ [DozeNext]_dozeVars => Follows'
  BY NextFollows
<1>3. Follows => ListenerFollowsDisplay
  BY DEF Follows, ListenerFollowsDisplay
<1> QED  BY <1>1, <1>2, <1>3, PTL DEF DozeSpec

-----------------------------------------------------------------------------
(* The tree of LocHeap                                                     *)

\* A function on the nodes of a tree can be defined from the top down.
TreeShaped(D) ==
  /\ D \in SUBSET (Nat \ {0}) /\ IsFiniteSet(D)
  /\ \A i \in D : i # 1 => i \div 2 \in D

FromTheTop(f, D, base, G) ==
  \A i \in D : f[i] = IF i = 1 THEN base ELSE G[i][f[i \div 2]]

LEMMA DownTheTree ==
  ASSUME NEW D, TreeShaped(D), NEW V, NEW base \in V, NEW G \in [D -> [V -> V]]
  PROVE  \E f \in [D -> V] : FromTheTop(f, D, base, G)
<1> USE DEF TreeShaped, FromTheTop
<1> DEFINE Right(f, i) == f[i] = IF i = 1 THEN base ELSE G[i][f[i \div 2]]
           UpTo(n) == \E f \in [D -> V] : \A i \in D : i <= n => Right(f, i)
           T == {n \in Nat : UpTo(n)}
<1>1. 0 \in T
  <2>1. [i \in D |-> base] \in [D -> V] /\ \A i \in D : ~(i <= 0)
    OBVIOUS
  <2> QED  BY <2>1
<1>2. ASSUME NEW n \in T  PROVE n + 1 \in T
  <2>1. PICK f \in [D -> V] : \A i \in D : i <= n => Right(f, i)
    BY <1>2
  <2>2. CASE n + 1 \notin D
    <3>1. \A i \in D : i <= n + 1 => i <= n
      BY <2>2
    <3> QED  BY <2>1, <3>1
  <2>3. CASE n + 1 \in D
    <3> DEFINE next == IF n + 1 = 1 THEN base ELSE G[n + 1][f[(n + 1) \div 2]]
               g == [f EXCEPT ![n + 1] = next]
    <3>1. n + 1 # 1 => (n + 1) \div 2 \in D
      BY <2>3
    <3>2. next \in V
      BY <2>3, <3>1
    <3>3. g \in [D -> V] /\ g[n + 1] = next /\ \A i \in D : i # n + 1 => g[i] = f[i]
      BY <2>3, <3>2
    <3>4. ASSUME NEW i \in D, i <= n + 1  PROVE Right(g, i)
      <4>1. i \in Nat /\ i # 0 /\ i \div 2 < i /\ (i # 1 => i \div 2 \in D)
        OBVIOUS
      <4>2. CASE i = n + 1
        <5>1. i # 1 => g[i \div 2] = f[i \div 2]
          BY <3>3, <4>1, <4>2
        <5> HIDE DEF g
        <5> QED  BY <3>3, <4>2, <5>1
      <4>3. CASE i # n + 1
        <5>1. i <= n /\ Right(f, i)
          BY <2>1, <3>4, <4>1, <4>3
        <5>2. i # 1 => i \div 2 # n + 1
          BY <4>1, <3>4
        <5>3. g[i] = f[i] /\ (i # 1 => g[i \div 2] = f[i \div 2])
          BY <3>3, <4>1, <4>3, <5>2
        <5> HIDE DEF g
        <5> QED  BY <5>1, <5>3
      <4> QED  BY <4>2, <4>3
    <3> HIDE DEF g
    <3> QED  BY <3>3, <3>4
  <2> QED  BY <2>2, <2>3
<1>3. T = Nat
  <2> HIDE DEF T
  <2>1. T \in SUBSET Nat
    BY DEF T
  <2> QED  BY <1>1, <1>2, <2>1, Induction
<1>4. PICK m \in Nat : \A i \in D : i <= m
  BY Bounded
<1>5. m \in T
  BY <1>3
<1> QED  BY <1>4, <1>5

HeapTyped ==
  /\ rank \in [Items -> Int]
  /\ Nodes \in SUBSET (Nat \ {0}) /\ IsFiniteSet(Nodes)
  /\ \A i \in Nodes : i # 1 => Parent(i) \in Nodes
  /\ mTree \in [Nodes -> [mData : Items, mSize : Int]]

\* No object is in two nodes.
Distinct == \A i, j \in Nodes : Data(i) = Data(j) => i = j

HeapIInv == HeapTyped /\ Distinct /\ TreeIsHeap

LEMMA NodesTyped ==
  ASSUME HeapTyped, NEW i \in Nodes
  PROVE  /\ i \in Nat /\ i # 0 /\ Data(i) \in Items /\ Size(i) \in Int
         /\ mTree[i].mSize = Size(i) /\ rank[Data(i)] \in Int
         /\ mTree[i] = [mData |-> Data(i), mSize |-> Size(i)]
<1>1. mTree[i] \in [mData : Items, mSize : Int]
  BY DEF HeapTyped
<1> QED  BY <1>1 DEF HeapTyped, Data, Size

\* The numbers of the places: a child has one parent, which is smaller.
LEMMA Children ==
  ASSUME NEW i \in Nat, i # 0
  PROVE  /\ mLeft(i) \in Nat /\ mLeft(i) > i /\ Parent(mLeft(i)) = i
         /\ mRight(i) \in Nat /\ mRight(i) > i /\ Parent(mRight(i)) = i
         /\ mLeft(i) # mRight(i) /\ mLeft(i) # 1 /\ mRight(i) # 1
         /\ i # 1 => Parent(i) \in Nat /\ Parent(i) # 0 /\ Parent(i) < i
         /\ i # 1 => i \in {mLeft(Parent(i)), mRight(Parent(i))}
BY DEF mLeft, mRight, Parent

LEMMA PlacesTyped ==
  ASSUME HeapTyped
  PROVE  /\ Places \in SUBSET (Nat \ {0}) /\ IsFiniteSet(Places)
         /\ 1 \in Places /\ Nodes \subseteq Places
         /\ \A i \in Nodes : mLeft(i) \in Places /\ mRight(i) \in Places
         /\ \A i \in Places : i # 1 => Parent(i) \in Nodes
<1>1. IsFiniteSet(Nodes) /\ Nodes \in SUBSET (Nat \ {0})
  BY DEF HeapTyped
<1>2. PICK m \in Nat : \A i \in Nodes : i <= m
  BY <1>1, Bounded
<1>3. Places \subseteq 1..(2 * m + 1)
  <2>1. ASSUME NEW i \in Nodes
        PROVE  {i, mLeft(i), mRight(i)} \subseteq 1..(2 * m + 1)
    <3>1. i \in Nat /\ i # 0 /\ i <= m
      BY <1>1, <1>2
    <3> QED  BY <3>1 DEF mLeft, mRight
  <2> QED  BY <2>1 DEF Places
<1>6. IsFiniteSet(Places)
  <2>1. IsFiniteSet(1..(2 * m + 1))
    BY FS_Interval
  <2> QED  BY <1>3, <2>1, FS_Subset
<1>7. 1 \in Places /\ \A i \in Nodes : i \in Places /\ mLeft(i) \in Places /\ mRight(i) \in Places
  BY DEF Places
<1>8. ASSUME NEW i \in Places
      PROVE  i \in Nat /\ i # 0 /\ (i # 1 => Parent(i) \in Nodes)
  <2>1. CASE i = 1
    BY <2>1
  <2>2. CASE i # 1
    <3>1. PICK n \in Nodes : i \in {n, mLeft(n), mRight(n)}
      BY <2>2 DEF Places
    <3>2. n \in Nat /\ n # 0
      BY <1>1
    <3>3. n # 1 => Parent(n) \in Nodes
      BY DEF HeapTyped
    <3> QED  BY <3>1, <3>2, <3>3, <2>2, Children
  <2> QED  BY <2>1, <2>2
<1> QED  BY <1>6, <1>7, <1>8

\* What push hands down: the equation that defines it has a solution.
LEMMA GivenIs ==
  ASSUME HeapTyped, NEW x \in Items
  PROVE  /\ Given(x) \in [Places -> Items \cup {Nobody}]
         /\ \A i \in Places :
              Given(x)[i] = IF i = 1 THEN x
                            ELSE IF Given(x)[Parent(i)] # Nobody /\ i = SubtreeFor(Parent(i))
                                 THEN Lower(Given(x)[Parent(i)], Data(Parent(i)))
                                 ELSE Nobody
<1> DEFINE V == Items \cup {Nobody}
           Hands(i, y) == IF y # Nobody /\ i = SubtreeFor(Parent(i))
                          THEN Lower(y, Data(Parent(i))) ELSE Nobody
           G == [i \in Places |-> [y \in V |->
                   IF i = 1 THEN Nobody ELSE Hands(i, y)]]
           Is(f) == f = [i \in Places |->
                           IF i = 1 THEN x
                           ELSE IF f[Parent(i)] # Nobody /\ i = SubtreeFor(Parent(i))
                                THEN Lower(f[Parent(i)], Data(Parent(i)))
                                ELSE Nobody]
<1>1. G \in [Places -> [V -> V]]
  <2>1. ASSUME NEW i \in Places, i # 1, NEW y \in V  PROVE Hands(i, y) \in V
    <3>1. Data(Parent(i)) \in Items
      BY <2>1, PlacesTyped, NodesTyped
    <3> QED  BY <3>1 DEF Lower
  <2> HIDE DEF Hands, V
  <2>2. Nobody \in V
    BY DEF V
  <2> QED  BY <2>1, <2>2
<1>2. \A i \in Places : i # 1 => i \div 2 \in Places
  BY PlacesTyped DEF Parent
<1>3. PICK f \in [Places -> V] : FromTheTop(f, Places, x, G)
  <2>1. x \in V /\ TreeShaped(Places)
    BY <1>2, PlacesTyped DEF TreeShaped
  <2> HIDE DEF G, V
  <2> QED  BY <1>1, <2>1, DownTheTree
<1>4. Is(f)
  <2>1. ASSUME NEW i \in Places, i # 1  PROVE f[i] = Hands(i, f[Parent(i)])
    <3>1. f[i \div 2] \in V
      BY <1>2, <2>1
    <3>2. G[i][f[i \div 2]] = Hands(i, f[i \div 2])
      <4> HIDE DEF Hands, V
      <4> QED  BY <3>1, <2>1
    <3> QED  BY <1>3, <2>1, <3>2 DEF Parent, FromTheTop
  <2>2. \A i \in Places : f[i] = IF i = 1 THEN x ELSE Hands(i, f[Parent(i)])
    BY <1>3, <2>1 DEF FromTheTop
  <2>3. f = [i \in Places |-> f[i]]
    OBVIOUS
  <2> QED  BY <2>2, <2>3
<1>5. Given(x) = CHOOSE g : Is(g)
  BY DEF Given
<1>6. Is(Given(x))
  <2> HIDE DEF Is
  <2> QED  BY <1>4, <1>5
<1>7. ASSUME NEW g, Is(g)  PROVE g \in [Places -> V]
  <2> DEFINE Ok(i) == g[i] \in V
             S == {i \in Places : ~Ok(i)}
  <2>1. \A i \in Places : g[i] = IF i = 1 THEN x ELSE Hands(i, g[Parent(i)])
    BY <1>7
  <2>2. ASSUME S # {}  PROVE FALSE
    <3>1. S \in SUBSET Int /\ IsFiniteSet(S)
      <4>1. S \subseteq Places /\ Places \subseteq Int /\ IsFiniteSet(Places)
        BY PlacesTyped
      <4> HIDE DEF S
      <4> QED  BY <4>1, FS_Subset
    <3>2. Min(S) \in S /\ \A y \in S : Min(S) <= y
      <4> HIDE DEF S
      <4> QED  BY <2>2, <3>1, Extremes
    <3>3. PICK i \in Places : ~Ok(i) /\ \A y \in S : i <= y
      BY <3>2
    <3>4. i \in Nat /\ i # 0
      BY PlacesTyped
    <3>5. CASE i = 1
      BY <2>1, <3>3, <3>5
    <3>6. CASE i # 1
      <4>1. Parent(i) \in Places /\ Parent(i) < i /\ Parent(i) \in Nodes /\ Parent(i) \in Nat
        BY <3>4, <3>6, PlacesTyped, Children
      <4>2. g[Parent(i)] \in V
        BY <3>3, <4>1, <3>4
      <4>3. Data(Parent(i)) \in Items
        BY <4>1, NodesTyped
      <4> QED  BY <2>1, <3>3, <3>6, <4>2, <4>3 DEF Lower
    <3> QED  BY <3>5, <3>6
  <2>3. \A i \in Places : g[i] \in V
    BY <2>2
  <2>4. g = [i \in Places |-> g[i]]
    BY <1>7
  <2> HIDE DEF V
  <2> QED  BY <2>3, <2>4
<1>8. Given(x) \in [Places -> V]
  <2> HIDE DEF Is, V
  <2> QED  BY <1>6, <1>7
<1>9. \A i \in Places : Given(x)[i] = IF i = 1 THEN x
                            ELSE IF Given(x)[Parent(i)] # Nobody /\ i = SubtreeFor(Parent(i))
                                 THEN Lower(Given(x)[Parent(i)], Data(Parent(i)))
                                 ELSE Nobody
  <2>1. ASSUME NEW g, Is(g)
        PROVE  \A i \in Places : g[i] = IF i = 1 THEN x
                            ELSE IF g[Parent(i)] # Nobody /\ i = SubtreeFor(Parent(i))
                                 THEN Lower(g[Parent(i)], Data(Parent(i)))
                                 ELSE Nobody
    BY <2>1
  <2> HIDE DEF Is
  <2> QED  BY <1>6, <2>1
<1> QED  BY <1>8, <1>9

LEMMA NodesShape == ASSUME HeapTyped PROVE TreeShaped(Nodes)
BY DEF HeapTyped, TreeShaped, Parent

\* An object in every set of nodes that is not empty is the nearest to the top.
LEMMA Nearest ==
  ASSUME HeapTyped, NEW S \in SUBSET Nodes, S # {}
  PROVE  \E i \in S : \A j \in S : i <= j
<1>1. S \in SUBSET Int /\ IsFiniteSet(S)
  <2>1. Nodes \in SUBSET (Nat \ {0}) /\ IsFiniteSet(Nodes)
    BY DEF HeapTyped
  <2>2. IsFiniteSet(S)
    BY <2>1, FS_Subset
  <2>3. S \in SUBSET Int
    BY <2>1
  <2> QED  BY <2>2, <2>3
<1>2. Min(S) \in S /\ \A j \in S : Min(S) <= j
  BY <1>1, Extremes
<1> QED  BY <1>2

-----------------------------------------------------------------------------
(* pop                                                                     *)

Giving(top) == {i \in Nodes : Gives(top)[i]}

LEMMA SubTopIs ==
  ASSUME HeapTyped, NEW i \in Nodes, ~IsLeaf(i)
  PROVE  /\ SubTop(i) \in Nodes /\ SubTop(i) # 1 /\ Parent(SubTop(i)) = i
         /\ SubTop(i) > i
         /\ \A child \in {mLeft(i), mRight(i)} \cap Nodes :
              rank[Data(child)] <= rank[Data(SubTop(i))]
<1>1. i \in Nat /\ i # 0
  BY NodesTyped
<1>2. SubTop(i) \in Nodes /\ SubTop(i) \in {mLeft(i), mRight(i)}
  BY DEF IsLeaf, SubTop
<1>3. SubTop(i) # 1 /\ Parent(SubTop(i)) = i /\ SubTop(i) > i
  BY <1>1, <1>2, Children
<1>4. ASSUME NEW child \in {mLeft(i), mRight(i)} \cap Nodes
      PROVE  rank[Data(child)] <= rank[Data(SubTop(i))]
  <2>1. rank[Data(child)] \in Int /\ rank[Data(SubTop(i))] \in Int
    BY <1>2, NodesTyped
  <2> QED  BY <2>1 DEF SubTop, OutRanks
<1> QED  BY <1>2, <1>3, <1>4

LEMMA GivesIs ==
  ASSUME HeapTyped, NEW top \in Nodes
  PROVE  \A i \in Nodes : Gives(top)[i] <=>
           (i = top \/ (i # 1 /\ Gives(top)[Parent(i)] /\ i = SubTop(Parent(i))))
<1> DEFINE G == [i \in Nodes |-> [y \in BOOLEAN |-> i = top \/ (y /\ i = SubTop(Parent(i)))]]
           Is(f) == f = [i \in Nodes |->
                           \/ i = top
                           \/ i # 1 /\ f[Parent(i)] /\ i = SubTop(Parent(i))]
           base == (top = 1)
<1>1. G \in [Nodes -> [BOOLEAN -> BOOLEAN]]
  OBVIOUS
<1>2. PICK f \in [Nodes -> BOOLEAN] : FromTheTop(f, Nodes, base, G)
  <2>1. TreeShaped(Nodes) /\ base \in BOOLEAN
    BY NodesShape
  <2> HIDE DEF G, base
  <2> QED  BY <1>1, <2>1, DownTheTree
<1>3. \A i \in Nodes : i # 1 => Parent(i) \in Nodes
  BY DEF HeapTyped
<1>4. Is(f)
  <2>1. ASSUME NEW i \in Nodes, i # 1
        PROVE  f[i] = (i = top \/ (i # 1 /\ f[Parent(i)] /\ i = SubTop(Parent(i))))
    <3>1. f[i] = G[i][f[Parent(i)]]
      BY <1>2, <2>1 DEF FromTheTop, Parent
    <3>2. f[Parent(i)] \in BOOLEAN
      BY <1>3, <2>1
    <3>3. G[i][f[Parent(i)]] = (i = top \/ (f[Parent(i)] /\ i = SubTop(Parent(i))))
      BY <3>2
    <3> HIDE DEF G
    <3> QED  BY <3>1, <3>3, <2>1
  <2>2. ASSUME NEW i \in Nodes, i = 1
        PROVE  f[i] = (i = top \/ (i # 1 /\ f[Parent(i)] /\ i = SubTop(Parent(i))))
    <3>1. f[i] = base
      BY <1>2, <2>2 DEF FromTheTop
    <3> QED  BY <3>1, <2>2
  <2>3. f = [i \in Nodes |-> f[i]]
    OBVIOUS
  <2>4. \A i \in Nodes : f[i] = (i = top \/ (i # 1 /\ f[Parent(i)] /\ i = SubTop(Parent(i))))
    BY <2>1, <2>2
  <2> QED  BY <2>3, <2>4, Zenon
<1>5. Gives(top) = CHOOSE g : Is(g)
  BY DEF Gives
<1>6. Is(Gives(top))
  <2> HIDE DEF Is
  <2> QED  BY <1>4, <1>5
<1>7. ASSUME NEW g, Is(g)
      PROVE  \A i \in Nodes : g[i] <=>
               (i = top \/ (i # 1 /\ g[Parent(i)] /\ i = SubTop(Parent(i))))
  BY <1>7
<1> HIDE DEF Is
<1> QED  BY <1>6, <1>7

\* The nodes whose data goes make a line down from the top that is popped.
LEMMA GivingLine ==
  ASSUME HeapTyped, NEW top \in Nodes
  PROVE  /\ Giving(top) \subseteq Nodes /\ top \in Giving(top)
         /\ \A i \in Giving(top) : i # top =>
              i # 1 /\ Parent(i) \in Giving(top) /\ i = SubTop(Parent(i))
         /\ \A i \in Giving(top) : ~IsLeaf(i) => SubTop(i) \in Giving(top)
         /\ \A i \in Giving(top) : i >= top
<1>1. Giving(top) \subseteq Nodes /\ top \in Giving(top)
  BY GivesIs DEF Giving
<1>2. ASSUME NEW i \in Giving(top), i # top
      PROVE  i # 1 /\ Parent(i) \in Giving(top) /\ i = SubTop(Parent(i))
  <2>1. i # 1 /\ Gives(top)[Parent(i)] /\ i = SubTop(Parent(i))
    BY <1>2, GivesIs DEF Giving
  <2>2. Parent(i) \in Nodes
    BY <1>1, <2>1 DEF HeapTyped
  <2> QED  BY <2>1, <2>2 DEF Giving
<1>3. ASSUME NEW i \in Giving(top), ~IsLeaf(i)  PROVE SubTop(i) \in Giving(top)
  <2>1. SubTop(i) \in Nodes /\ SubTop(i) # 1 /\ Parent(SubTop(i)) = i
    BY <1>1, <1>3, SubTopIs
  <2>2. Gives(top)[i]
    BY DEF Giving
  <2>3. Gives(top)[SubTop(i)]
    BY <2>1, <2>2, GivesIs
  <2> QED  BY <2>1, <2>3 DEF Giving
<1>4. ASSUME NEW n \in Giving(top), ~(n >= top)  PROVE FALSE
  <2> DEFINE S == {i \in Giving(top) : ~(i >= top)}
  <2>1. S \in SUBSET Nodes /\ S # {}
    BY <1>1, <1>4
  <2>2. PICK i \in S : \A j \in S : i <= j
    <3> HIDE DEF S
    <3> QED  BY <2>1, Nearest
  <2>3. i \in Giving(top) /\ ~(i >= top) /\ i \in Nat /\ i # 0 /\ top \in Nat
    BY <1>1, <2>2, NodesTyped
  <2>4. i # 1 /\ Parent(i) \in Giving(top)
    BY <1>2, <2>3
  <2>5. Parent(i) \in Nat /\ Parent(i) < i
    BY <2>3, <2>4, Children
  <2>6. ~(Parent(i) >= top)
    BY <2>3, <2>5
  <2>7. Parent(i) \in S
    BY <2>4, <2>6
  <2> QED  BY <2>2, <2>3, <2>5, <2>7
<1> QED  BY <1>1, <1>2, <1>3, <1>4

-----------------------------------------------------------------------------
(* remove                                                                  *)

LEMMA AncestorsAre ==
  ASSUME HeapTyped
  PROVE  \A i \in Nodes :
           Ancestors(i) = IF i = 1 THEN {} ELSE Ancestors(Parent(i)) \cup {Parent(i)}
<1> DEFINE V == SUBSET Nat
           G == [i \in Nodes |-> [y \in V |-> y \cup {Parent(i)}]]
           Is(f) == f = [i \in Nodes |-> IF i = 1 THEN {} ELSE f[Parent(i)] \cup {Parent(i)}]
           all == CHOOSE g : Is(g)
<1>1. \A i \in Nodes : Parent(i) \in Nat
  <2>1. \A i \in Nodes : i \in Nat
    BY NodesTyped
  <2> QED  BY <2>1 DEF Parent
<1>2. G \in [Nodes -> [V -> V]]
  BY <1>1
<1>3. PICK f \in [Nodes -> V] : FromTheTop(f, Nodes, {}, G)
  <2>1. TreeShaped(Nodes) /\ {} \in V
    BY NodesShape
  <2> HIDE DEF G, V
  <2> QED  BY <1>2, <2>1, DownTheTree
<1>4. \A i \in Nodes : i # 1 => Parent(i) \in Nodes
  BY DEF HeapTyped
<1>5. Is(f)
  <2>1. ASSUME NEW i \in Nodes
        PROVE  f[i] = IF i = 1 THEN {} ELSE f[Parent(i)] \cup {Parent(i)}
    <3>1. CASE i = 1
      BY <1>3, <3>1 DEF FromTheTop
    <3>2. CASE i # 1
      <4>1. f[i] = G[i][f[Parent(i)]] /\ f[Parent(i)] \in V
        <5> HIDE DEF G, V
        <5> QED  BY <1>3, <1>4, <3>2 DEF FromTheTop, Parent
      <4>2. G[i][f[Parent(i)]] = f[Parent(i)] \cup {Parent(i)}
        <5> HIDE DEF V
        <5> QED  BY <4>1
      <4> HIDE DEF G
      <4> QED  BY <3>2, <4>1, <4>2
    <3> QED  BY <3>1, <3>2
  <2>2. f = [i \in Nodes |-> f[i]]
    OBVIOUS
  <2> QED  BY <2>1, <2>2
<1>6. Is(all)
  <2> HIDE DEF Is
  <2> QED  BY <1>5
<1>7. \A i \in Nodes : Ancestors(i) = all[i]
  BY DEF Ancestors
<1>8. ASSUME NEW g, Is(g)
      PROVE  \A i \in Nodes : g[i] = IF i = 1 THEN {} ELSE g[Parent(i)] \cup {Parent(i)}
  BY <1>8
<1>9. \A i \in Nodes : all[i] = IF i = 1 THEN {} ELSE all[Parent(i)] \cup {Parent(i)}
  <2> HIDE DEF all, Is
  <2> QED  BY <1>6, <1>8
<1> HIDE DEF all, Is
<1> QED  BY <1>4, <1>7, <1>9

\* They make a line down from the top of the tree, and outrank the node if the
\* tree is a heap.
OneOf(i, S) == (mLeft(i) \in S) # (mRight(i) \in S)

LineTo(i) ==
  /\ Ancestors(i) \subseteq Nodes
  /\ \A n \in Ancestors(i) : n < i /\ OneOf(n, Ancestors(i) \cup {i})
  /\ \A n \in Ancestors(i) \cup {i} : n # 1 => Parent(n) \in Ancestors(i)
  /\ TreeIsHeap => \A n \in Ancestors(i) : rank[Data(i)] <= rank[Data(n)]

LEMMA HeapOrder ==
  ASSUME HeapTyped, TreeIsHeap, NEW i \in Nodes
  PROVE  /\ \A child \in {mLeft(i), mRight(i)} \cap Nodes : rank[Data(child)] <= rank[Data(i)]
         /\ Size(i) = 1 + Size(mLeft(i)) + Size(mRight(i))
<1>1. checkNodes(i)
  BY DEF TreeIsHeap
<1>2. ASSUME NEW child \in {mLeft(i), mRight(i)} \cap Nodes
      PROVE  rank[Data(child)] <= rank[Data(i)]
  <2>1. rank[Data(child)] \in Int /\ rank[Data(i)] \in Int
    BY NodesTyped
  <2> QED  BY <1>1, <2>1 DEF checkNodes, OutRanks
<1> QED  BY <1>1, <1>2 DEF checkNodes

LEMMA AncestorsLine ==
  ASSUME HeapTyped, NEW i \in Nodes
  PROVE  LineTo(i)
<1> DEFINE S == {n \in Nodes : ~LineTo(n)}
<1>1. SUFFICES ASSUME S # {}  PROVE FALSE
  OBVIOUS
<1>2. PICK n \in Nodes : ~LineTo(n) /\ \A m \in Nodes : ~LineTo(m) => n <= m
  <2>1. PICK n \in S : \A m \in S : n <= m
    <3>1. S \in SUBSET Nodes
      OBVIOUS
    <3> HIDE DEF S
    <3> QED  BY <1>1, <3>1, Nearest
  <2> QED  BY <2>1
<1>3. n \in Nat /\ n # 0
  BY NodesTyped
<1>4. CASE n = 1
  <2>1. Ancestors(n) = {}
    BY <1>4, AncestorsAre
  <2> QED  BY <1>2, <1>4, <2>1 DEF LineTo
<1>5. CASE n # 1
  <2> DEFINE p == Parent(n)
  <2>1. p \in Nodes /\ p \in Nat /\ p # 0 /\ p < n /\ n \in {mLeft(p), mRight(p)}
    BY <1>3, <1>5, Children DEF HeapTyped
  <2>2. LineTo(p)
    BY <1>2, <1>3, <2>1
  <2>3. Ancestors(n) = Ancestors(p) \cup {p}
    BY <1>5, AncestorsAre
  <2> HIDE DEF p
  <2>4. Ancestors(n) \subseteq Nodes
    BY <2>1, <2>2, <2>3 DEF LineTo
  <2>5. ASSUME NEW m \in Ancestors(n)
        PROVE  m < n /\ OneOf(m, Ancestors(n) \cup {n})
    <3>1. m \in Nat /\ m # 0
      BY <2>4, NodesTyped
    <3>2. mLeft(m) \in Nat /\ mRight(m) \in Nat /\ mLeft(m) > m /\ mRight(m) > m
          /\ Parent(mLeft(m)) = m /\ Parent(mRight(m)) = m /\ mLeft(m) # mRight(m)
      BY <3>1, Children
    <3>3. Parent(n) = p
      BY DEF p
    <3>4. CASE m = p
      <4>1. mLeft(p) \notin Ancestors(p) \cup {p} /\ mRight(p) \notin Ancestors(p) \cup {p}
        <5>1. \A k \in Ancestors(p) : k < p /\ k \in Nat
          BY <2>2, NodesTyped DEF LineTo
        <5>2. p \in Nat /\ mLeft(p) > p /\ mRight(p) > p
          BY <2>1, <3>2, <3>4
        <5> QED  BY <5>1, <5>2
      <4> QED  BY <2>1, <2>3, <3>2, <3>4, <4>1 DEF OneOf
    <3>5. CASE m # p
      <4>1. m \in Ancestors(p) /\ m < p
        BY <2>2, <2>3, <3>5 DEF LineTo
      <4>2. OneOf(m, Ancestors(p) \cup {p})
        BY <2>2, <4>1 DEF LineTo
      <4>3. mLeft(m) # n /\ mRight(m) # n
        BY <3>2, <3>3, <3>5
      <4> QED  BY <2>1, <1>3, <2>3, <3>1, <4>1, <4>2, <4>3 DEF OneOf
    <3> QED  BY <3>4, <3>5
  <2>6. ASSUME NEW m \in Ancestors(n) \cup {n}, m # 1  PROVE Parent(m) \in Ancestors(n)
    BY <2>2, <2>3, <2>6 DEF LineTo, p
  <2>7. ASSUME TreeIsHeap, NEW m \in Ancestors(n)  PROVE rank[Data(n)] <= rank[Data(m)]
    <3>1. rank[Data(n)] <= rank[Data(p)]
      BY <2>1, <2>7, HeapOrder
    <3>2. rank[Data(n)] \in Int /\ rank[Data(p)] \in Int /\ rank[Data(m)] \in Int
      BY <2>1, <2>4, NodesTyped
    <3>3. rank[Data(p)] <= rank[Data(m)]
      BY <2>2, <2>3, <2>7, <3>2 DEF LineTo
    <3> QED  BY <3>1, <3>2, <3>3
  <2> QED  BY <1>2, <2>4, <2>5, <2>6, <2>7 DEF LineTo
<1> QED  BY <1>4, <1>5

\* What is taken from the size of a node when i is removed: 1 on the line down
\* from the top of the tree to where a leaf is given up.
Loss(i, n) == IF n \in Giving(i) \cup Ancestors(i) THEN 1 ELSE 0
Leaves(i) == {n \in Giving(i) : IsLeaf(n)}

LEMMA LossAddsUp ==
  ASSUME HeapTyped, NEW i \in Nodes, NEW n \in Nodes \ Leaves(i)
  PROVE  Loss(i, n) = Loss(i, mLeft(n)) + Loss(i, mRight(n))
<1>1. /\ Giving(i) \subseteq Nodes /\ i \in Giving(i)
      /\ \A k \in Giving(i) : k # i => k # 1 /\ Parent(k) \in Giving(i) /\ k = SubTop(Parent(k))
      /\ \A k \in Giving(i) : ~IsLeaf(k) => SubTop(k) \in Giving(i)
      /\ \A k \in Giving(i) : k >= i
  BY GivingLine
<1>2. LineTo(i)
  BY AncestorsLine
<1>3. n \in Nat /\ n # 0 /\ i \in Nat /\ i # 0
  BY NodesTyped
<1>4. /\ mLeft(n) \in Nat /\ mRight(n) \in Nat /\ mLeft(n) > n /\ mRight(n) > n
      /\ Parent(mLeft(n)) = n /\ Parent(mRight(n)) = n /\ mLeft(n) # mRight(n)
      /\ mLeft(n) # 1 /\ mRight(n) # 1
  BY <1>3, Children
<1>5. CASE n \in Giving(i)
  <2>1. ~IsLeaf(n)
    BY <1>5 DEF Leaves
  <2>2. SubTop(n) \in Giving(i) /\ SubTop(n) \in {mLeft(n), mRight(n)}
    BY <1>1, <1>5, <2>1 DEF SubTop
  <2>3. \A c \in {mLeft(n), mRight(n)} : c # SubTop(n) => c \notin Giving(i)
    <3>1. n >= i
      BY <1>1, <1>5
    <3>2. \A c \in {mLeft(n), mRight(n)} : c # i
      BY <3>1, <1>3, <1>4
    <3> QED  BY <1>1, <1>4, <3>2
  <2>4. \A c \in {mLeft(n), mRight(n)} : c \notin Ancestors(i)
    <3>1. n >= i
      BY <1>1, <1>5
    <3>2. \A a \in Ancestors(i) : a < i
      BY <1>2 DEF LineTo
    <3> QED  BY <3>1, <3>2, <1>3, <1>4
  <2> QED  BY <1>4, <1>5, <2>2, <2>3, <2>4 DEF Loss
<1>6. CASE n \in Ancestors(i)
  <2>1. OneOf(n, Ancestors(i) \cup {i}) /\ n < i
    BY <1>2, <1>6 DEF LineTo
  <2>2. n \notin Giving(i)
    BY <1>1, <1>3, <2>1
  <2>3. \A c \in {mLeft(n), mRight(n)} : c \in Giving(i) => c = i
    BY <1>1, <1>4, <2>2
  <2>4. \A c \in {mLeft(n), mRight(n)} :
          c \in Giving(i) \cup Ancestors(i) <=> c \in Ancestors(i) \cup {i}
    BY <1>1, <2>3
  <2> QED  BY <1>6, <2>1, <2>4 DEF Loss, OneOf
<1>7. CASE n \notin Giving(i) \cup Ancestors(i)
  <2>1. \A c \in {mLeft(n), mRight(n)} : c \notin Ancestors(i) \cup {i}
    BY <1>2, <1>4, <1>7 DEF LineTo
  <2>2. \A c \in {mLeft(n), mRight(n)} : c \notin Giving(i)
    BY <1>1, <1>4, <1>7, <2>1
  <2> QED  BY <1>7, <2>1, <2>2 DEF Loss
<1> QED  BY <1>5, <1>6, <1>7

\* The tree without i, node by node.
DataWithout(i, n) == IF n \in Giving(i) THEN Data(SubTop(n)) ELSE Data(n)

LEMMA TreeWithout ==
  ASSUME HeapTyped, NEW i \in Nodes
  PROVE  /\ NodeRemove(i) \in [Nodes \ Leaves(i) -> [mData : Items, mSize : Int]]
         /\ \A n \in Nodes \ Leaves(i) :
              /\ NodeRemove(i)[n].mData = DataWithout(i, n)
              /\ NodeRemove(i)[n].mSize = Size(n) - Loss(i, n)
         /\ \A n \in Giving(i) \ Leaves(i) : SubTop(n) \in Nodes
<1> DEFINE P == NodePop(i)
           D == Nodes \ Leaves(i)
<1>1. /\ Giving(i) \subseteq Nodes
      /\ \A k \in Giving(i) : k >= i
  BY GivingLine
<1>2. \A n \in Ancestors(i) : n < i
  BY AncestorsLine DEF LineTo
<1>3. DOMAIN P = D
  BY DEF NodePop, Giving, Leaves
<1>4. \A n \in Giving(i) \ Leaves(i) : SubTop(n) \in Nodes
  BY <1>1, SubTopIs DEF Leaves
<1>5. ASSUME NEW n \in D, n \in Giving(i)
      PROVE  P[n] = [mData |-> DataWithout(i, n), mSize |-> Size(n) - Loss(i, n)]
             /\ Data(SubTop(n)) \in Items /\ Size(n) \in Int /\ n \notin Ancestors(i)
  <2>1. Gives(i)[n] /\ n \in {m \in Nodes : Gives(i)[m] => ~IsLeaf(m)}
    BY <1>5 DEF Giving, Leaves
  <2>2. P[n] = [mData |-> Data(SubTop(n)), mSize |-> Size(n) - 1]
    BY <2>1 DEF NodePop
  <2>3. Loss(i, n) = 1 /\ DataWithout(i, n) = Data(SubTop(n))
    BY <1>5 DEF Loss, DataWithout
  <2>4. Data(SubTop(n)) \in Items /\ Size(n) \in Int
    BY <1>4, <1>5, NodesTyped
  <2>5. n \notin Ancestors(i)
    <3>1. n \in Nat /\ i \in Nat /\ n >= i
      BY <1>1, <1>5, NodesTyped
    <3> QED  BY <1>2, <3>1
  <2> QED  BY <2>2, <2>3, <2>4, <2>5
<1>6. ASSUME NEW n \in D, n \notin Giving(i)
      PROVE  P[n] = mTree[n] /\ mTree[n] = [mData |-> DataWithout(i, n), mSize |-> Size(n)]
             /\ Data(n) \in Items /\ Size(n) \in Int
  <2>1. ~Gives(i)[n] /\ n \in {m \in Nodes : Gives(i)[m] => ~IsLeaf(m)}
    BY <1>6 DEF Giving
  <2>2. P[n] = mTree[n]
    BY <2>1 DEF NodePop
  <2>3. DataWithout(i, n) = Data(n)
    BY <1>6 DEF DataWithout
  <2> QED  BY <2>2, <2>3, NodesTyped
<1> DEFINE U(n) == IF n \in Ancestors(i) THEN [P[n] EXCEPT !.mSize = SizeAfter(@)] ELSE P[n]
<1>7. NodeRemove(i) = [n \in D |-> U(n)]
  BY <1>3 DEF NodeRemove
<1>8. ASSUME NEW n \in D
      PROVE  /\ U(n) = [mData |-> DataWithout(i, n), mSize |-> Size(n) - Loss(i, n)]
             /\ DataWithout(i, n) \in Items /\ Size(n) - Loss(i, n) \in Int
  <2>1. CASE n \in Giving(i)
    <3> HIDE DEF P
    <3>1. Loss(i, n) = 1
      BY <2>1 DEF Loss
    <3> QED  BY <1>5, <2>1, <3>1 DEF DataWithout
  <2>2. CASE n \notin Giving(i) /\ n \in Ancestors(i)
    <3> HIDE DEF P
    <3>1. P[n] = [mData |-> DataWithout(i, n), mSize |-> Size(n)]
      BY <1>6, <2>2
    <3>2. [P[n] EXCEPT !.mSize = SizeAfter(@)]
            = [mData |-> DataWithout(i, n), mSize |-> Size(n) - 1]
      BY <3>1 DEF SizeAfter
    <3>3. Loss(i, n) = 1
      BY <2>2 DEF Loss
    <3>4. DataWithout(i, n) \in Items /\ Size(n) \in Int
      BY <1>6, <2>2 DEF DataWithout
    <3> QED  BY <2>2, <3>2, <3>3, <3>4
  <2>3. CASE n \notin Giving(i) /\ n \notin Ancestors(i)
    <3> HIDE DEF P
    <3>1. P[n] = [mData |-> DataWithout(i, n), mSize |-> Size(n)] /\ Size(n) \in Int
      BY <1>6, <2>3
    <3>2. Loss(i, n) = 0
      BY <2>3 DEF Loss
    <3>3. DataWithout(i, n) \in Items /\ Size(n) - 0 = Size(n)
      BY <1>6, <2>3, <3>1 DEF DataWithout
    <3> QED  BY <2>3, <3>1, <3>2, <3>3
  <2> QED  BY <2>1, <2>2, <2>3
<1>9. NodeRemove(i) \in [D -> [mData : Items, mSize : Int]]
  <2> HIDE DEF U, D
  <2> QED  BY <1>7, <1>8
<1>10. ASSUME NEW n \in D
       PROVE  /\ NodeRemove(i)[n].mData = DataWithout(i, n)
              /\ NodeRemove(i)[n].mSize = Size(n) - Loss(i, n)
  <2> HIDE DEF U, D
  <2>1. NodeRemove(i)[n] = U(n)
    BY <1>7
  <2> QED  BY <1>8, <2>1
<1> QED  BY <1>4, <1>9, <1>10

LEMMA RemoveIInv ==
  ASSUME HeapIInv, NEW i \in Nodes, mTree' = NodeRemove(i), rank' = rank
  PROVE  HeapIInv' /\ Elements' = Elements \ {Data(i)}
<1>1. HeapTyped /\ Distinct /\ TreeIsHeap
  BY DEF HeapIInv
<1> DEFINE D == Nodes \ Leaves(i)
<1>2. /\ Giving(i) \subseteq Nodes /\ i \in Giving(i)
      /\ \A k \in Giving(i) : k # i => k # 1 /\ Parent(k) \in Giving(i) /\ k = SubTop(Parent(k))
      /\ \A k \in Giving(i) : ~IsLeaf(k) => SubTop(k) \in Giving(i)
  BY <1>1, GivingLine
<1>3. mTree' \in [D -> [mData : Items, mSize : Int]] /\ Nodes' = D
  BY <1>1, TreeWithout DEF Nodes
<1>4. \A n \in D : Data(n)' = DataWithout(i, n) /\ Size(n)' = Size(n) - Loss(i, n)
  BY <1>1, <1>3, TreeWithout DEF Data, Size
<1>5. \A n \in Giving(i) \ Leaves(i) :
        SubTop(n) \in Nodes /\ Parent(SubTop(n)) = n /\ SubTop(n) \in Giving(i)
  BY <1>1, <1>2, SubTopIs DEF Leaves
<1>6. \A n \in Nodes : n # 1 => Parent(n) \in D
  <2> SUFFICES ASSUME NEW n \in Nodes, n # 1  PROVE Parent(n) \in D
    OBVIOUS
  <2>1. Parent(n) \in Nodes /\ n \in {mLeft(Parent(n)), mRight(Parent(n))}
    BY <1>1, NodesTyped, Children DEF HeapTyped
  <2> QED  BY <2>1 DEF Leaves, IsLeaf
<1>7. HeapTyped'
  <2>1. IsFiniteSet(D) /\ D \in SUBSET (Nat \ {0})
    <3>1. IsFiniteSet(Nodes) /\ Nodes \in SUBSET (Nat \ {0}) /\ D \in SUBSET Nodes
      BY <1>1 DEF HeapTyped
    <3>2. IsFiniteSet(D)
      <4> HIDE DEF D
      <4> QED  BY <3>1, FS_Subset
    <3> QED  BY <3>1, <3>2
  <2>2. \A n \in D : n # 1 => Parent(n) \in D
    BY <1>6
  <2>3. rank' \in [Items -> Int]
    BY <1>1 DEF HeapTyped
  <2> HIDE DEF D
  <2> QED  BY <1>3, <2>1, <2>2, <2>3 DEF HeapTyped, Parent
<1>8. Distinct'
  <2>1. ASSUME NEW n \in D, NEW m \in D, DataWithout(i, n) = DataWithout(i, m)  PROVE n = m
    <3>1. \A k, l \in Nodes : Data(k) = Data(l) => k = l
      BY <1>1 DEF Distinct
    <3>2. n \in Nodes /\ m \in Nodes
      OBVIOUS
    <3>3. CASE n \in Giving(i) /\ m \in Giving(i)
      <4>1. SubTop(n) = SubTop(m)
        BY <1>5, <2>1, <3>1, <3>3 DEF DataWithout
      <4> QED  BY <1>5, <3>3, <4>1
    <3>4. CASE n \in Giving(i) /\ m \notin Giving(i)
      <4>1. SubTop(n) = m
        BY <1>5, <2>1, <3>1, <3>4 DEF DataWithout
      <4> QED  BY <1>5, <3>4, <4>1
    <3>5. CASE n \notin Giving(i) /\ m \in Giving(i)
      <4>1. SubTop(m) = n
        BY <1>5, <2>1, <3>1, <3>5 DEF DataWithout
      <4> QED  BY <1>5, <3>5, <4>1
    <3>6. CASE n \notin Giving(i) /\ m \notin Giving(i)
      BY <2>1, <3>1, <3>2, <3>6 DEF DataWithout
    <3> QED  BY <3>3, <3>4, <3>5, <3>6
  <2> HIDE DEF D
  <2> QED  BY <1>3, <1>4, <2>1 DEF Distinct
<1>9. TreeIsHeap'
  <2> SUFFICES ASSUME NEW n \in D  PROVE checkNodes(n)'
    BY <1>3 DEF TreeIsHeap
  <2>1. n \in Nodes /\ n \in Nat /\ n # 0 /\ Size(n) \in Int
    BY <1>1, NodesTyped
  <2>2. /\ \A c \in {mLeft(n), mRight(n)} \cap Nodes : rank[Data(c)] <= rank[Data(n)]
        /\ Size(n) = 1 + Size(mLeft(n)) + Size(mRight(n))
    BY <1>1, <2>1, HeapOrder
  <2>3. \A c \in {mLeft(n), mRight(n)} : Parent(c) = n /\ c # 1
    BY <2>1, Children
  <2>4. ASSUME NEW c \in {mLeft(n), mRight(n)} \cap D
        PROVE  rank[DataWithout(i, c)] <= rank[DataWithout(i, n)]
    <3>1. rank[DataWithout(i, c)] <= rank[Data(c)]
      <4>1. CASE c \in Giving(i)
        <5>1. ~IsLeaf(c)
          BY <2>4, <4>1 DEF Leaves
        <5>2. SubTop(c) \in {mLeft(c), mRight(c)} \cap Nodes
          BY <1>5, <2>4, <4>1 DEF SubTop
        <5>3. rank[Data(SubTop(c))] <= rank[Data(c)]
          BY <1>1, <2>4, <5>2, HeapOrder
        <5> QED  BY <4>1, <5>3 DEF DataWithout
      <4>2. CASE c \notin Giving(i)
        <5>1. rank[Data(c)] \in Int
          BY <1>1, <2>4, NodesTyped
        <5> QED  BY <4>2, <5>1 DEF DataWithout
      <4> QED  BY <4>1, <4>2
    <3>2. rank[Data(c)] <= rank[DataWithout(i, n)]
      <4>1. CASE n \in Giving(i)
        <5>1. ~IsLeaf(n)
          BY <4>1 DEF Leaves
        <5>2. rank[Data(c)] <= rank[Data(SubTop(n))]
          BY <1>1, <2>1, <2>4, <5>1, SubTopIs
        <5> QED  BY <4>1, <5>2 DEF DataWithout
      <4>2. CASE n \notin Giving(i)
        BY <2>2, <2>4, <4>2 DEF DataWithout
      <4> QED  BY <4>1, <4>2
    <3>3. rank[DataWithout(i, c)] \in Int /\ rank[Data(c)] \in Int /\ rank[DataWithout(i, n)] \in Int
      <4>1. DataWithout(i, c) \in Items /\ DataWithout(i, n) \in Items /\ Data(c) \in Items
        BY <1>1, <1>5, <2>1, <2>4, NodesTyped DEF DataWithout
      <4> QED  BY <1>1, <4>1 DEF HeapTyped
    <3> QED  BY <3>1, <3>2, <3>3
  <2>5. \A c \in {mLeft(n), mRight(n)} : Size(c)' = Size(c) - Loss(i, c) /\ Size(c) \in Int
    <3> SUFFICES ASSUME NEW c \in {mLeft(n), mRight(n)}
                 PROVE  Size(c)' = Size(c) - Loss(i, c) /\ Size(c) \in Int
      OBVIOUS
    <3>1. CASE c \in D
      BY <1>1, <1>4, <3>1, NodesTyped
    <3>2. CASE c \in Leaves(i)
      <4>1. c \in Nodes /\ c \in Giving(i) /\ IsLeaf(c)
        BY <1>2, <3>2 DEF Leaves
      <4>2. Size(c) = 1 + Size(mLeft(c)) + Size(mRight(c))
        BY <1>1, <4>1, HeapOrder
      <4>3. Size(mLeft(c)) = 0 /\ Size(mRight(c)) = 0
        BY <4>1 DEF IsLeaf, Size
      <4>4. Size(c)' = 0 /\ Loss(i, c) = 1
        BY <1>3, <3>2, <4>1 DEF Size, Loss
      <4> QED  BY <4>2, <4>3, <4>4
    <3>3. CASE c \notin Nodes
      <4>1. c \notin Giving(i) \cup Ancestors(i)
        BY <1>1, <1>2, <3>3, AncestorsLine DEF LineTo
      <4> QED  BY <1>3, <3>3, <4>1 DEF Size, Loss
    <3> QED  BY <3>1, <3>2, <3>3
  <2>6. Size(n)' = 1 + Size(mLeft(n))' + Size(mRight(n))'
    <3>1. Loss(i, n) = Loss(i, mLeft(n)) + Loss(i, mRight(n))
      BY <1>1, LossAddsUp
    <3>2. Loss(i, n) \in Int /\ Loss(i, mLeft(n)) \in Int /\ Loss(i, mRight(n)) \in Int
      BY DEF Loss
    <3> QED  BY <1>4, <2>1, <2>2, <2>5, <3>1, <3>2
  <2>7. ASSUME NEW c \in {mLeft(n), mRight(n)} \cap D  PROVE ~OutRanks(Data(c), Data(n))'
    <3>1. Data(c)' = DataWithout(i, c) /\ Data(n)' = DataWithout(i, n)
      BY <1>4
    <3>2. rank[DataWithout(i, c)] \in Int /\ rank[DataWithout(i, n)] \in Int
      <4>1. DataWithout(i, c) \in Items /\ DataWithout(i, n) \in Items
        BY <1>1, <1>5, <2>1, <2>7, NodesTyped DEF DataWithout
      <4> QED  BY <1>1, <4>1 DEF HeapTyped
    <3> QED  BY <2>4, <2>7, <3>1, <3>2 DEF OutRanks
  <2> HIDE DEF D
  <2> QED  BY <1>3, <2>6, <2>7 DEF checkNodes, mLeft, mRight
<1>10. Elements' = Elements \ {Data(i)}
  <2>1. Elements' = {DataWithout(i, n) : n \in D}
    <3> HIDE DEF D
    <3> QED  BY <1>3, <1>4 DEF Elements
  <2>2. ASSUME NEW n \in D  PROVE DataWithout(i, n) \in Elements \ {Data(i)}
    <3>1. CASE n \in Giving(i)
      <4>1. SubTop(n) \in Nodes /\ SubTop(n) # i
        <5>1. SubTop(n) \in Nodes /\ Parent(SubTop(n)) = n /\ SubTop(n) > n
          BY <1>1, <3>1, SubTopIs DEF Leaves
        <5>2. n >= i /\ n \in Nat /\ i \in Nat /\ SubTop(n) \in Nat
          BY <1>1, <3>1, <5>1, GivingLine, NodesTyped
        <5> QED  BY <5>1, <5>2
      <4>2. Data(SubTop(n)) # Data(i)
        BY <1>1, <4>1 DEF Distinct
      <4> QED  BY <3>1, <4>1, <4>2 DEF DataWithout, Elements
    <3>2. CASE n \notin Giving(i)
      <4>1. n \in Nodes /\ n # i
        BY <1>2, <3>2
      <4>2. Data(n) # Data(i)
        BY <1>1, <4>1 DEF Distinct
      <4> QED  BY <3>2, <4>1, <4>2 DEF DataWithout, Elements
    <3> QED  BY <3>1, <3>2
  <2>3. ASSUME NEW x \in Elements, x # Data(i)  PROVE \E n \in D : x = DataWithout(i, n)
    <3>1. PICK k \in Nodes : x = Data(k)
      BY <2>3 DEF Elements
    <3>2. k # i
      BY <2>3, <3>1
    <3>3. CASE k \in Giving(i)
      <4>1. k # 1 /\ Parent(k) \in Giving(i) /\ k = SubTop(Parent(k))
        BY <1>2, <3>2, <3>3
      <4>2. Parent(k) \in D
        BY <1>6, <4>1
      <4> QED  BY <3>1, <4>1, <4>2 DEF DataWithout
    <3>4. CASE k \notin Giving(i)
      <4>1. k \in D
        BY <3>4 DEF Leaves
      <4> QED  BY <3>1, <3>4, <4>1 DEF DataWithout
    <3> QED  BY <3>3, <3>4
  <2> HIDE DEF D
  <2> QED  BY <2>1, <2>2, <2>3
<1> QED  BY <1>7, <1>8, <1>9, <1>10 DEF HeapIInv

-----------------------------------------------------------------------------
(* push                                                                    *)

Passed(x) == {i \in Places : Given(x)[i] # Nobody}

LEMMA SubtreeIs ==
  ASSUME HeapTyped, NEW i \in Nodes
  PROVE  /\ SubtreeFor(i) \in Places /\ SubtreeFor(i) # 1 /\ Parent(SubtreeFor(i)) = i
         /\ SubtreeFor(i) > i /\ SubtreeFor(i) \in {mLeft(i), mRight(i)}
<1>1. i \in Nat /\ i # 0
  BY NodesTyped
<1>2. SubtreeFor(i) \in {mLeft(i), mRight(i)}
  BY DEF SubtreeFor
<1> QED  BY <1>1, <1>2, Children, PlacesTyped

\* push goes down one line, from the top of the tree to a place for a leaf.
LEMMA PassedLine ==
  ASSUME HeapTyped, NEW x \in Items
  PROVE  /\ 1 \in Passed(x) /\ Passed(x) \subseteq Places /\ Given(x)[1] = x
         /\ \A i \in Passed(x) : Given(x)[i] \in Items
         /\ \A i \in Passed(x) : i # 1 =>
              /\ Parent(i) \in Passed(x) /\ Parent(i) \in Nodes /\ i = SubtreeFor(Parent(i))
              /\ Given(x)[i] = Lower(Given(x)[Parent(i)], Data(Parent(i)))
         /\ \A i \in Passed(x) \cap Nodes : SubtreeFor(i) \in Passed(x)
<1> DEFINE g == Given(x)
<1>1. /\ g \in [Places -> Items \cup {Nobody}]
      /\ \A i \in Places :
           g[i] = IF i = 1 THEN x
                  ELSE IF g[Parent(i)] # Nobody /\ i = SubtreeFor(Parent(i))
                       THEN Lower(g[Parent(i)], Data(Parent(i)))
                       ELSE Nobody
  BY GivenIs
<1> HIDE DEF g
<1>2. Nobody \notin Items
  BY HeapAssumption
<1>3. Passed(x) = {i \in Places : g[i] # Nobody}
  BY DEF Passed, g
<1>4. 1 \in Passed(x) /\ g[1] = x
  BY <1>1, <1>2, <1>3, PlacesTyped
<1>5. \A i \in Passed(x) : g[i] \in Items
  BY <1>1, <1>3
<1>6. ASSUME NEW i \in Passed(x), i # 1
      PROVE  /\ Parent(i) \in Passed(x) /\ Parent(i) \in Nodes /\ i = SubtreeFor(Parent(i))
             /\ g[i] = Lower(g[Parent(i)], Data(Parent(i)))
  <2>1. i \in Places /\ g[i] # Nobody /\ Parent(i) \in Nodes /\ Parent(i) \in Places
    BY <1>3, <1>6, PlacesTyped
  <2> QED  BY <1>1, <1>3, <1>6, <2>1
<1>7. ASSUME NEW i \in Passed(x) \cap Nodes  PROVE SubtreeFor(i) \in Passed(x)
  <2>1. SubtreeFor(i) \in Places /\ SubtreeFor(i) # 1 /\ Parent(SubtreeFor(i)) = i
    BY SubtreeIs
  <2>2. g[SubtreeFor(i)] = Lower(g[i], Data(i))
    <3>1. g[i] # Nobody
      BY <1>3
    <3> QED  BY <1>1, <2>1, <3>1
  <2>3. Lower(g[i], Data(i)) \in Items
    BY <1>5, NodesTyped DEF Lower
  <2> QED  BY <1>2, <1>3, <2>1, <2>2, <2>3
<1> QED  BY <1>3, <1>4, <1>5, <1>6, <1>7 DEF g

\* Of two places on that line the upper one is at or above the other's parent.
LEMMA PassedOneByOne ==
  ASSUME HeapTyped, NEW x \in Items, NEW i \in Passed(x), NEW j \in Passed(x), i < j
  PROVE  i \in Nodes /\ i <= Parent(j)
<1> DEFINE Fits(k, l) == k \in Nodes /\ k <= Parent(l)
           Late == {l \in Passed(x) : \E k \in Passed(x) : k < l /\ ~Fits(k, l)}
<1>1. SUFFICES ASSUME Late # {}  PROVE FALSE
  OBVIOUS
<1>2. PICK l \in Late : \A m \in Late : l <= m
  <2>1. Late \in SUBSET Int /\ IsFiniteSet(Late)
    <3>1. Late \subseteq Places /\ IsFiniteSet(Places) /\ Places \subseteq Int
      BY PassedLine, PlacesTyped
    <3> HIDE DEF Late
    <3>2. IsFiniteSet(Late)
      BY <3>1, FS_Subset
    <3> QED  BY <3>1, <3>2
  <2>2. Min(Late) \in Late /\ \A m \in Late : Min(Late) <= m
    <3> HIDE DEF Late
    <3> QED  BY <1>1, <2>1, Extremes
  <2> HIDE DEF Late
  <2> QED  BY <2>2
<1>3. PICK k \in Passed(x) : k < l /\ ~Fits(k, l)
  BY <1>2
<1>4. l \in Passed(x) /\ k \in Nat /\ k # 0 /\ l \in Nat /\ l # 0 /\ l # 1
  BY <1>3, PassedLine, PlacesTyped
<1>5. /\ Parent(l) \in Passed(x) /\ Parent(l) \in Nodes /\ l = SubtreeFor(Parent(l))
      /\ Parent(l) \in Nat /\ Parent(l) # 0 /\ Parent(l) < l
  BY <1>4, PassedLine, Children
<1>6. CASE k <= Parent(l)
  <2>1. k \notin Nodes /\ k < Parent(l)
    BY <1>3, <1>4, <1>5, <1>6
  <2>2. Parent(l) \in Late
    BY <1>3, <1>5, <2>1
  <2> QED  BY <1>2, <1>4, <1>5, <2>2
<1>7. CASE Parent(l) < k
  <2>1. k # 1
    BY <1>5, <1>7
  <2>2. Parent(k) \in Nat /\ Parent(k) \in Nodes /\ k = SubtreeFor(Parent(k)) /\ Parent(k) < k
    BY <1>3, <1>4, <2>1, PassedLine, Children
  <2>3. Parent(k) # Parent(l)
    BY <1>3, <1>4, <1>5, <2>2
  <2>4. Parent(k) <= Parent(l)
    BY <1>3, <1>4 DEF Parent
  <2>5. ~(Parent(l) <= Parent(k))
    BY <1>5, <2>2, <2>3, <2>4
  <2>6. k \in Late
    BY <1>3, <1>5, <1>7, <2>5
  <2> QED  BY <1>2, <1>3, <1>4, <2>6
<1> QED  BY <1>4, <1>5, <1>6, <1>7

\* The tree with x, node by node.
DataWith(x, i) ==
  IF i \in Passed(x) THEN IF i \in Nodes THEN Higher(Given(x)[i], Data(i)) ELSE Given(x)[i]
  ELSE Data(i)
Gain(x, i) == IF i \in Passed(x) THEN 1 ELSE 0

LEMMA Pushed ==
  ASSUME HeapTyped, NEW x \in Items
  PROVE  /\ NodePush(x) \in [Nodes \cup Passed(x) -> [mData : Items, mSize : Int]]
         /\ \A i \in Nodes \cup Passed(x) :
              /\ NodePush(x)[i].mData = DataWith(x, i) /\ DataWith(x, i) \in Items
              /\ NodePush(x)[i].mSize = Size(i) + Gain(x, i)
<1> DEFINE g == Given(x)
           N == Nodes \cup Passed(x)
           U(i) == IF i \notin Nodes THEN Leaf(g[i])
                   ELSE IF i \in Passed(x)
                        THEN [mData |-> Higher(g[i], Data(i)), mSize |-> Size(i) + 1]
                        ELSE mTree[i]
<1>1. NodePush(x) = [i \in N |-> U(i)]
  BY DEF NodePush, Passed
<1>2. ASSUME NEW i \in N
      PROVE  /\ U(i) = [mData |-> DataWith(x, i), mSize |-> Size(i) + Gain(x, i)]
             /\ DataWith(x, i) \in Items /\ Size(i) + Gain(x, i) \in Int
  <2>1. CASE i \notin Nodes
    <3>1. i \in Passed(x) /\ g[i] \in Items
      BY <2>1, PassedLine
    <3>2. Size(i) = 0 /\ Gain(x, i) = 1 /\ DataWith(x, i) = g[i] /\ 0 + 1 = 1
      BY <2>1, <3>1 DEF Size, Gain, DataWith
    <3> HIDE DEF g
    <3> QED  BY <2>1, <3>1, <3>2 DEF Leaf
  <2>2. CASE i \in Nodes /\ i \in Passed(x)
    <3>1. g[i] \in Items /\ Data(i) \in Items /\ Size(i) \in Int
      BY <2>2, PassedLine, NodesTyped
    <3>2. Gain(x, i) = 1 /\ DataWith(x, i) = Higher(g[i], Data(i))
      BY <2>2 DEF Gain, DataWith
    <3> HIDE DEF g
    <3>3. Higher(g[i], Data(i)) \in Items
      BY <3>1 DEF Higher
    <3> QED  BY <2>2, <3>1, <3>2, <3>3
  <2>3. CASE i \in Nodes /\ i \notin Passed(x)
    <3>1. mTree[i] = [mData |-> Data(i), mSize |-> Size(i)] /\ Data(i) \in Items /\ Size(i) \in Int
      BY <2>3, NodesTyped
    <3>2. Gain(x, i) = 0 /\ DataWith(x, i) = Data(i) /\ Size(i) + 0 = Size(i)
      BY <2>3, <3>1 DEF Gain, DataWith
    <3> HIDE DEF g
    <3> QED  BY <2>3, <3>1, <3>2
  <2> QED  BY <2>1, <2>2, <2>3
<1>3. NodePush(x) \in [N -> [mData : Items, mSize : Int]]
  <2> HIDE DEF U, N
  <2> QED  BY <1>1, <1>2
<1>4. ASSUME NEW i \in N
      PROVE  /\ NodePush(x)[i].mData = DataWith(x, i) /\ DataWith(x, i) \in Items
             /\ NodePush(x)[i].mSize = Size(i) + Gain(x, i)
  <2> HIDE DEF U, N
  <2>1. NodePush(x)[i] = U(i)
    BY <1>1
  <2> QED  BY <1>2, <2>1
<1> QED  BY <1>3, <1>4

LEMMA GainAddsUp ==
  ASSUME HeapTyped, NEW x \in Items, NEW i \in Nodes
  PROVE  Gain(x, i) = Gain(x, mLeft(i)) + Gain(x, mRight(i))
<1>1. i \in Nat /\ i # 0 /\ mLeft(i) # mRight(i)
      /\ \A c \in {mLeft(i), mRight(i)} : c # 1 /\ Parent(c) = i
  BY NodesTyped, Children
<1>2. \A c \in {mLeft(i), mRight(i)} : c \in Passed(x) => i \in Passed(x) /\ c = SubtreeFor(i)
  BY <1>1, PassedLine
<1>3. CASE i \in Passed(x)
  <2>1. SubtreeFor(i) \in Passed(x) /\ SubtreeFor(i) \in {mLeft(i), mRight(i)}
    BY <1>3, PassedLine, SubtreeIs
  <2> QED  BY <1>1, <1>2, <1>3, <2>1 DEF Gain
<1>4. CASE i \notin Passed(x)
  BY <1>2, <1>4 DEF Gain
<1> QED  BY <1>3, <1>4

\* What a node is given is in no node below it or off the line, and was not put
\* into one above it.
GivenIsFree(x, i) ==
  \A j \in Nodes :
    IF j \in Passed(x) /\ j < i THEN DataWith(x, j) # Given(x)[i] ELSE Data(j) # Given(x)[i]

LEMMA GivenOnce ==
  ASSUME HeapTyped, Distinct, NEW x \in Items, x \notin Elements, NEW i \in Passed(x)
  PROVE  GivenIsFree(x, i)
<1> DEFINE g == Given(x)
           S == {k \in Passed(x) : ~GivenIsFree(x, k)}
<1>1. SUFFICES ASSUME S # {}  PROVE FALSE
  OBVIOUS
<1>2. PICK k \in S : \A m \in S : k <= m
  <2>1. S \in SUBSET Int /\ IsFiniteSet(S)
    <3>1. S \subseteq Places /\ IsFiniteSet(Places) /\ Places \subseteq Int
      BY PassedLine, PlacesTyped
    <3> HIDE DEF S
    <3>2. IsFiniteSet(S)
      BY <3>1, FS_Subset
    <3> QED  BY <3>1, <3>2
  <2>2. Min(S) \in S /\ \A m \in S : Min(S) <= m
    <3> HIDE DEF S
    <3> QED  BY <1>1, <2>1, Extremes
  <2> HIDE DEF S
  <2> QED  BY <2>2
<1>3. k \in Passed(x) /\ ~GivenIsFree(x, k) /\ k \in Nat /\ k # 0
  BY <1>2, PassedLine, PlacesTyped
<1>4. \A m, n \in Nodes : Data(m) = Data(n) => m = n
  BY DEF Distinct
<1>5. \A n \in Nodes : n \in Nat /\ n # 0
  BY NodesTyped
<1>6. CASE k = 1
  <2>1. g[k] = x
    BY <1>6, PassedLine
  <2>2. \A j \in Nodes : Data(j) # g[k] /\ ~(j < k)
    BY <1>5, <1>6, <2>1 DEF Elements
  <2> QED  BY <1>3, <2>2 DEF GivenIsFree
<1>7. CASE k # 1
  <2> DEFINE p == Parent(k)
  <2>1. /\ p \in Passed(x) /\ p \in Nodes /\ g[k] = Lower(g[p], Data(p))
        /\ p \in Nat /\ p # 0 /\ p < k
    BY <1>3, <1>7, PassedLine, Children
  <2>2. \A m \in Passed(x) : m < k => m \in Nodes /\ m <= p
    BY <1>3, PassedOneByOne
  <2> HIDE DEF p, g
  <2>3. ASSUME NEW m \in Passed(x), m < k, NEW j \in Nodes
        PROVE  IF j \in Passed(x) /\ j < m THEN DataWith(x, j) # g[m] ELSE Data(j) # g[m]
    <3>1. m \notin S
      BY <1>2, <1>3, <1>5, <2>2, <2>3
    <3> QED  BY <2>3, <3>1 DEF GivenIsFree, g
  <2>4. DataWith(x, p) = Higher(g[p], Data(p))
    BY <2>1 DEF DataWith, g
  <2>5. ASSUME NEW j \in Nodes
        PROVE  IF j \in Passed(x) /\ j < k THEN DataWith(x, j) # g[k] ELSE Data(j) # g[k]
    <3>1. j \in Nat
      BY <1>5
    <3>2. Data(p) # g[p]
      BY <2>1, <2>3
    <3>3. CASE OutRanks(g[p], Data(p))
      <4>1. g[k] = Data(p) /\ DataWith(x, p) = g[p]
        BY <2>1, <2>4, <3>3 DEF Lower, Higher
      <4>2. CASE j = p
        BY <2>1, <3>2, <4>1, <4>2
      <4>3. CASE j # p /\ j \in Passed(x) /\ j < k
        <5>1. DataWith(x, j) \in {g[j], Data(j)}
          BY DEF DataWith, Higher, g
        <5>2. Data(j) # Data(p)
          BY <1>4, <2>1, <4>3
        <5>3. j <= p /\ ~(p < j)
          BY <2>1, <2>2, <3>1, <4>3
        <5>4. Data(p) # g[j]
          BY <2>1, <2>3, <4>3, <5>3
        <5> QED  BY <4>1, <4>3, <5>1, <5>2, <5>4
      <4>4. CASE j # p /\ ~(j \in Passed(x) /\ j < k)
        BY <1>4, <2>1, <4>1, <4>4
      <4> QED  BY <4>2, <4>3, <4>4
    <3>4. CASE ~OutRanks(g[p], Data(p))
      <4>1. g[k] = g[p] /\ DataWith(x, p) = Data(p)
        BY <2>1, <2>4, <3>4 DEF Lower, Higher
      <4>2. CASE j = p
        BY <2>1, <3>2, <4>1, <4>2
      <4>3. CASE j # p /\ j \in Passed(x) /\ j < k
        <5>1. j < p
          BY <2>1, <2>2, <3>1, <4>3
        <5> QED  BY <2>1, <2>3, <4>1, <4>3, <5>1
      <4>4. CASE j # p /\ ~(j \in Passed(x) /\ j < k)
        <5>1. ~(j \in Passed(x) /\ j < p)
          BY <1>3, <2>1, <3>1, <4>4
        <5> QED  BY <2>1, <2>3, <4>1, <4>4, <5>1
      <4> QED  BY <4>2, <4>3, <4>4
    <3> QED  BY <3>3, <3>4
  <2> QED  BY <1>3, <2>5 DEF GivenIsFree, g
<1> QED  BY <1>6, <1>7

\* Every object handed down comes to a node: it is handed on at most to the leaf.
LEMMA GivenIsKept ==
  ASSUME HeapTyped, NEW x \in Items, NEW i \in Passed(x)
  PROVE  \E n \in Nodes \cup Passed(x) : Given(x)[i] = DataWith(x, n)
<1> DEFINE g == Given(x)
           Kept(k) == \E n \in Nodes \cup Passed(x) : g[k] = DataWith(x, n)
           S == {k \in Passed(x) : ~Kept(k)}
<1>1. SUFFICES ASSUME S # {}  PROVE FALSE
  OBVIOUS
<1>2. PICK k \in S : \A m \in S : k >= m
  <2>1. S \in SUBSET Int /\ IsFiniteSet(S)
    <3>1. S \subseteq Places /\ IsFiniteSet(Places) /\ Places \subseteq Int
      BY PassedLine, PlacesTyped
    <3> HIDE DEF S
    <3>2. IsFiniteSet(S)
      BY <3>1, FS_Subset
    <3> QED  BY <3>1, <3>2
  <2>2. Max(S) \in S /\ \A m \in S : Max(S) >= m
    <3> HIDE DEF S
    <3> QED  BY <1>1, <2>1, Extremes
  <2> HIDE DEF S
  <2> QED  BY <2>2
<1>3. k \in Passed(x) /\ ~Kept(k)
  BY <1>2
<1>4. CASE k \notin Nodes
  <2>1. DataWith(x, k) = g[k]
    BY <1>3, <1>4 DEF DataWith
  <2> QED  BY <1>3, <2>1
<1>5. CASE k \in Nodes
  <2>1. /\ SubtreeFor(k) \in Passed(x) /\ SubtreeFor(k) > k /\ SubtreeFor(k) # 1
        /\ Parent(SubtreeFor(k)) = k /\ k \in Nat /\ SubtreeFor(k) \in Nat
    BY <1>3, <1>5, PassedLine, PlacesTyped, SubtreeIs
  <2>2. g[SubtreeFor(k)] = Lower(g[k], Data(k))
    BY <2>1, PassedLine
  <2>3. DataWith(x, k) = Higher(g[k], Data(k))
    BY <1>3, <1>5 DEF DataWith
  <2>4. ~OutRanks(g[k], Data(k))
    BY <1>3, <2>3 DEF Higher
  <2>5. g[SubtreeFor(k)] = g[k]
    BY <2>2, <2>4 DEF Lower
  <2>6. SubtreeFor(k) \in S
    BY <1>3, <2>1, <2>5
  <2> QED  BY <1>2, <2>1, <2>6
<1> QED  BY <1>4, <1>5

LEMMA PushIInv ==
  ASSUME HeapIInv, NEW x \in Items, x \notin Elements, mTree' = NodePush(x), rank' = rank
  PROVE  HeapIInv' /\ Elements' = Elements \cup {x}
<1>1. HeapTyped /\ Distinct /\ TreeIsHeap
  BY DEF HeapIInv
<1> DEFINE g == Given(x)
           N == Nodes \cup Passed(x)
<1>2. mTree' \in [N -> [mData : Items, mSize : Int]] /\ Nodes' = N
  BY <1>1, Pushed DEF Nodes
<1>3. \A n \in N : /\ Data(n)' = DataWith(x, n) /\ DataWith(x, n) \in Items
                   /\ Size(n)' = Size(n) + Gain(x, n)
  BY <1>1, <1>2, Pushed DEF Data, Size
<1>4. /\ 1 \in Passed(x) /\ Passed(x) \subseteq Places /\ g[1] = x
      /\ \A i \in Passed(x) : g[i] \in Items
      /\ \A i \in Passed(x) : i # 1 =>
           /\ Parent(i) \in Passed(x) /\ Parent(i) \in Nodes /\ i = SubtreeFor(Parent(i))
           /\ g[i] = Lower(g[Parent(i)], Data(Parent(i)))
  BY <1>1, PassedLine
<1>5. \A n \in N : n # 1 => Parent(n) \in Nodes
  BY <1>1, <1>4 DEF HeapTyped
<1>6. \A n \in N : n \in Nat /\ n # 0
  BY <1>1, <1>4, PlacesTyped
<1> HIDE DEF g
<1>7. HeapTyped'
  <2>1. IsFiniteSet(N) /\ N \in SUBSET (Nat \ {0})
    <3>1. N \in SUBSET Places /\ IsFiniteSet(Places)
      BY <1>1, <1>4, PlacesTyped
    <3>2. IsFiniteSet(N)
      <4> HIDE DEF N
      <4> QED  BY <3>1, FS_Subset
    <3> QED  BY <1>6, <3>2
  <2>2. \A n \in N : n # 1 => Parent(n) \in N
    BY <1>5
  <2>3. rank' \in [Items -> Int]
    BY <1>1 DEF HeapTyped
  <2> HIDE DEF N
  <2> QED  BY <1>2, <2>1, <2>2, <2>3 DEF HeapTyped, Parent
<1>8. Distinct'
  <2>1. \A k, l \in Nodes : Data(k) = Data(l) => k = l
    BY <1>1 DEF Distinct
  <2>2. ASSUME NEW i \in N, NEW j \in N, i < j, DataWith(x, i) = DataWith(x, j)  PROVE FALSE
    <3>1. \A k \in Passed(x) : GivenIsFree(x, k)
      BY <1>1, GivenOnce
    <3>2. \A k \in N : \/ k \in Passed(x) /\ DataWith(x, k) = g[k]
                       \/ k \in Nodes /\ DataWith(x, k) = Data(k)
      BY DEF DataWith, Higher, g
    <3>3. ~(j < i) /\ i # j
      BY <1>6, <2>2
    <3>4. j \in Passed(x) => i \in Nodes
      <4>1. CASE i \in Passed(x)
        BY <1>1, <2>2, <4>1, PassedOneByOne
      <4> QED  BY <4>1
    <3>5. ASSUME j \in Passed(x), DataWith(x, j) = g[j]  PROVE FALSE
      <4>1. i \in Nodes /\ GivenIsFree(x, j)
        BY <3>1, <3>4, <3>5
      <4>2. i \notin Passed(x) => DataWith(x, i) = Data(i)
        BY DEF DataWith
      <4> QED  BY <2>2, <3>5, <4>1, <4>2 DEF GivenIsFree, g
    <3>6. ASSUME j \in Nodes, DataWith(x, j) = Data(j)  PROVE FALSE
      <4>1. CASE i \in Nodes /\ DataWith(x, i) = Data(i)
        BY <2>1, <2>2, <3>3, <3>6, <4>1
      <4>2. CASE i \in Passed(x) /\ DataWith(x, i) = g[i]
        BY <2>2, <3>1, <3>3, <3>6, <4>2 DEF GivenIsFree, g
      <4> QED  BY <3>2, <4>1, <4>2
    <3> QED  BY <3>2, <3>5, <3>6
  <2>3. ASSUME NEW i \in N, NEW j \in N, DataWith(x, i) = DataWith(x, j)  PROVE i = j
    <3>1. i \in Nat /\ j \in Nat
      BY <1>6
    <3>2. ~(i < j)
      BY <2>2, <2>3
    <3>3. ~(j < i)
      BY <2>2, <2>3
    <3> QED  BY <3>1, <3>2, <3>3
  <2> HIDE DEF N
  <2> QED  BY <1>2, <1>3, <2>3 DEF Distinct
<1>9. TreeIsHeap'
  <2> SUFFICES ASSUME NEW n \in N  PROVE checkNodes(n)'
    BY <1>2 DEF TreeIsHeap
  <2>1. \A c \in {mLeft(n), mRight(n)} : Parent(c) = n /\ c # 1
    BY <1>6, Children
  <2>2. CASE n \notin Nodes
    <3>1. \A c \in {mLeft(n), mRight(n)} : c \notin N
      BY <1>5, <2>1, <2>2
    <3>2. Size(n) = 0 /\ Gain(x, n) = 1
      BY <2>2 DEF Size, Gain
    <3>3. Size(n)' = 1 /\ Size(mLeft(n))' = 0 /\ Size(mRight(n))' = 0
      <4>1. Size(n)' = 1
        BY <1>3, <3>2
      <4>2. mLeft(n) \notin Nodes' /\ mRight(n) \notin Nodes'
        BY <1>2, <3>1
      <4> QED  BY <4>1, <4>2 DEF Size, mLeft, mRight
    <3> HIDE DEF N
    <3>4. {mLeft(n), mRight(n)} \cap Nodes' = {}
      BY <1>2, <3>1
    <3> QED  BY <3>3, <3>4 DEF checkNodes, mLeft, mRight
  <2>3. CASE n \in Nodes
    <3>1. Size(n) \in Int /\ Data(n) \in Items
      BY <1>1, <2>3, NodesTyped
    <3>2. /\ \A c \in {mLeft(n), mRight(n)} \cap Nodes : rank[Data(c)] <= rank[Data(n)]
          /\ Size(n) = 1 + Size(mLeft(n)) + Size(mRight(n))
      BY <1>1, <2>3, HeapOrder
    <3>3. \A y \in Items : rank[y] \in Int
      BY <1>1 DEF HeapTyped
    <3>4. ASSUME NEW c \in {mLeft(n), mRight(n)} \cap N
          PROVE  rank[DataWith(x, c)] <= rank[DataWith(x, n)]
      <4>1. DataWith(x, c) \in Items /\ DataWith(x, n) \in Items
        BY <1>3
      <4>2. rank[Data(n)] <= rank[DataWith(x, n)]
        <5>1. CASE n \in Passed(x)
          <6>1. g[n] \in Items /\ DataWith(x, n) = Higher(g[n], Data(n))
            BY <1>4, <2>3, <5>1 DEF DataWith, g
          <6> QED  BY <3>1, <3>3, <6>1 DEF Higher, OutRanks
        <5>2. CASE n \notin Passed(x)
          BY <3>1, <3>3, <5>2 DEF DataWith
        <5> QED  BY <5>1, <5>2
      <4>3. c \in Nodes => Data(c) \in Items /\ rank[Data(c)] <= rank[DataWith(x, n)]
        <5> SUFFICES ASSUME c \in Nodes
                     PROVE  Data(c) \in Items /\ rank[Data(c)] <= rank[DataWith(x, n)]
          OBVIOUS
        <5>1. Data(c) \in Items /\ rank[Data(c)] <= rank[Data(n)]
          BY <1>1, <3>2, <3>4, NodesTyped
        <5> QED  BY <3>1, <3>3, <4>1, <4>2, <5>1
      <4>4. CASE c \in Passed(x)
        <5>1. n \in Passed(x) /\ g[c] = Lower(g[n], Data(n)) /\ g[n] \in Items /\ g[c] \in Items
          BY <1>4, <2>1, <3>4, <4>4
        <5>2. DataWith(x, n) = Higher(g[n], Data(n))
          BY <2>3, <5>1 DEF DataWith, g
        <5>3. rank[g[c]] <= rank[DataWith(x, n)]
          BY <3>1, <3>3, <5>1, <5>2 DEF Lower, Higher, OutRanks
        <5>4. DataWith(x, c) = g[c] \/ (c \in Nodes /\ DataWith(x, c) = Data(c))
          BY <4>4 DEF DataWith, Higher, g
        <5> QED  BY <4>3, <5>3, <5>4
      <4>5. CASE c \notin Passed(x)
        BY <3>4, <4>3, <4>5 DEF DataWith
      <4> QED  BY <4>4, <4>5
    <3>5. \A c \in {mLeft(n), mRight(n)} : Size(c)' = Size(c) + Gain(x, c) /\ Size(c) \in Int
      <4> SUFFICES ASSUME NEW c \in {mLeft(n), mRight(n)}
                   PROVE  Size(c)' = Size(c) + Gain(x, c) /\ Size(c) \in Int
        OBVIOUS
      <4>1. Size(c) \in Int
        <5>1. CASE c \in Nodes
          BY <1>1, <5>1, NodesTyped
        <5>2. CASE c \notin Nodes
          BY <5>2 DEF Size
        <5> QED  BY <5>1, <5>2
      <4>2. CASE c \in N
        BY <1>3, <4>1, <4>2
      <4>3. CASE c \notin N
        <5>1. Size(c) = 0 /\ Gain(x, c) = 0
          BY <4>3 DEF Size, Gain
        <5>2. Size(c)' = 0
          BY <1>2, <4>3 DEF Size
        <5> QED  BY <5>1, <5>2
      <4> QED  BY <4>2, <4>3
    <3>6. Size(n)' = 1 + Size(mLeft(n))' + Size(mRight(n))'
      <4>1. Gain(x, n) = Gain(x, mLeft(n)) + Gain(x, mRight(n))
        BY <1>1, <2>3, GainAddsUp
      <4>2. Gain(x, n) \in Int /\ Gain(x, mLeft(n)) \in Int /\ Gain(x, mRight(n)) \in Int
        BY DEF Gain
      <4>3. Size(n)' = Size(n) + Gain(x, n)
        BY <1>3
      <4> QED  BY <3>1, <3>2, <3>5, <4>1, <4>2, <4>3
    <3>7. ASSUME NEW c \in {mLeft(n), mRight(n)} \cap N  PROVE ~OutRanks(Data(c), Data(n))'
      <4>1. Data(c)' = DataWith(x, c) /\ Data(n)' = DataWith(x, n)
            /\ DataWith(x, c) \in Items /\ DataWith(x, n) \in Items
        BY <1>3
      <4>2. rank[DataWith(x, c)] \in Int /\ rank[DataWith(x, n)] \in Int
        BY <3>3, <4>1
      <4> QED  BY <3>4, <3>7, <4>1, <4>2 DEF OutRanks
    <3> HIDE DEF N
    <3> QED  BY <1>2, <3>6, <3>7 DEF checkNodes, mLeft, mRight
  <2> QED  BY <2>2, <2>3
<1>10. Elements' = Elements \cup {x}
  <2>1. Elements' = {DataWith(x, n) : n \in N}
    <3> HIDE DEF N
    <3> QED  BY <1>2, <1>3 DEF Elements
  <2>2. ASSUME NEW i \in Passed(x)  PROVE g[i] \in Elements \cup {x}
    <3> DEFINE S == {k \in Passed(x) : g[k] \notin Elements \cup {x}}
    <3>1. SUFFICES ASSUME S # {}  PROVE FALSE
      OBVIOUS
    <3>2. PICK k \in S : \A m \in S : k <= m
      <4>1. S \in SUBSET Int /\ IsFiniteSet(S)
        <5>1. S \subseteq Places /\ IsFiniteSet(Places) /\ Places \subseteq Int
          BY <1>1, <1>4, PlacesTyped
        <5> HIDE DEF S
        <5>2. IsFiniteSet(S)
          BY <5>1, FS_Subset
        <5> QED  BY <5>1, <5>2
      <4>2. Min(S) \in S /\ \A m \in S : Min(S) <= m
        <5> HIDE DEF S
        <5> QED  BY <3>1, <4>1, Extremes
      <4> HIDE DEF S
      <4> QED  BY <4>2
    <3>3. k \in Passed(x) /\ g[k] \notin Elements \cup {x} /\ k # 1
      BY <1>4, <3>2
    <3>4. /\ Parent(k) \in Passed(x) /\ Parent(k) \in Nodes /\ Parent(k) < k
          /\ Parent(k) \in Nat /\ k \in Nat /\ g[k] = Lower(g[Parent(k)], Data(Parent(k)))
      BY <1>4, <1>6, <3>3, Children
    <3>5. Parent(k) \notin S
      BY <3>2, <3>4
    <3> QED  BY <3>3, <3>4, <3>5 DEF Lower, Elements
  <2>3. ASSUME NEW n \in N  PROVE DataWith(x, n) \in Elements \cup {x}
    <3>1. \/ n \in Passed(x) /\ DataWith(x, n) = g[n]
          \/ n \in Nodes /\ DataWith(x, n) = Data(n)
      BY DEF DataWith, Higher, g
    <3> QED  BY <2>2, <3>1 DEF Elements
  <2>4. ASSUME NEW i \in Passed(x)  PROVE \E n \in N : g[i] = DataWith(x, n)
    BY <1>1, GivenIsKept DEF g
  <2>5. ASSUME NEW y \in Elements \cup {x}  PROVE \E n \in N : y = DataWith(x, n)
    <3>1. CASE y = x
      BY <1>4, <2>4, <3>1
    <3>2. CASE y \in Elements
      <4>1. PICK k \in Nodes : y = Data(k)
        BY <3>2 DEF Elements
      <4>2. CASE DataWith(x, k) = Data(k)
        BY <4>1, <4>2
      <4>3. CASE DataWith(x, k) # Data(k)
        <5>1. k \in Passed(x) /\ DataWith(x, k) = Higher(g[k], Data(k))
          BY <4>3 DEF DataWith, g
        <5>2. OutRanks(g[k], Data(k))
          BY <4>3, <5>1 DEF Higher
        <5>3. SubtreeFor(k) \in Passed(x) /\ SubtreeFor(k) # 1 /\ Parent(SubtreeFor(k)) = k
          BY <1>1, <5>1, PassedLine, SubtreeIs
        <5>4. g[SubtreeFor(k)] = Data(k)
          BY <1>4, <5>2, <5>3 DEF Lower
        <5> QED  BY <2>4, <4>1, <5>3, <5>4
      <4> QED  BY <4>2, <4>3
    <3> QED  BY <3>1, <3>2
  <2> HIDE DEF N
  <2> QED  BY <2>1, <2>3, <2>5
<1> QED  BY <1>7, <1>8, <1>9, <1>10 DEF HeapIInv

-----------------------------------------------------------------------------
(* LocHeap and RankPool                                                    *)

LEMMA TopIsHighest ==
  ASSUME HeapTyped, TreeIsHeap, Nodes # {}
  PROVE  1 \in Nodes /\ \A i \in Nodes : rank[Data(i)] <= rank[Data(1)]
<1>1. 1 \in Nodes
  <2>1. PICK i \in Nodes : \A j \in Nodes : i <= j
    BY Nearest
  <2>2. i \in Nat /\ i # 0
    BY NodesTyped
  <2>3. ASSUME i # 1  PROVE FALSE
    <3>1. Parent(i) \in Nodes /\ Parent(i) \in Nat /\ Parent(i) < i
      BY <2>2, <2>3, Children DEF HeapTyped
    <3> QED  BY <2>1, <2>2, <3>1
  <2> QED  BY <2>3
<1> DEFINE S == {i \in Nodes : ~(rank[Data(i)] <= rank[Data(1)])}
<1>2. ASSUME S # {}  PROVE FALSE
  <2>1. PICK i \in S : \A j \in S : i <= j
    <3>1. S \in SUBSET Nodes
      OBVIOUS
    <3> HIDE DEF S
    <3> QED  BY <1>2, <3>1, Nearest
  <2>2. i \in Nodes /\ i \in Nat /\ i # 0 /\ ~(rank[Data(i)] <= rank[Data(1)])
    BY <2>1, NodesTyped
  <2>3. rank[Data(1)] \in Int /\ rank[Data(i)] \in Int
    BY <1>1, <2>2, NodesTyped
  <2>4. i # 1
    BY <2>2, <2>3
  <2>5. /\ Parent(i) \in Nodes /\ Parent(i) \in Nat /\ Parent(i) < i
        /\ i \in {mLeft(Parent(i)), mRight(Parent(i))}
    BY <2>2, <2>4, Children DEF HeapTyped
  <2>6. rank[Data(i)] <= rank[Data(Parent(i))] /\ rank[Data(Parent(i))] \in Int
    BY <2>2, <2>5, HeapOrder, NodesTyped
  <2>7. Parent(i) \in S
    BY <2>2, <2>3, <2>5, <2>6
  <2> QED  BY <2>1, <2>2, <2>5, <2>7
<1> QED  BY <1>1, <1>2

\* remove finds what is there: no node above it lets the search stop short.
LEMMA SearchFinds ==
  ASSUME HeapTyped, TreeIsHeap, NEW x \in Items
  PROVE  /\ Found(x) = {} <=> x \notin Elements
         /\ \A i \in Found(x) : i \in Nodes /\ Data(i) = x
<1>1. \A i \in Found(x) : i \in Nodes /\ Data(i) = x
  BY DEF Found
<1>2. ASSUME NEW i \in Nodes, Data(i) = x  PROVE i \in Found(x)
  <2>1. ASSUME NEW n \in Ancestors(i)  PROVE MayBeBelow(x, n)
    <3>1. LineTo(i)
      BY AncestorsLine
    <3>2. n \in Nodes /\ rank[x] <= rank[Data(n)]
      BY <1>2, <2>1, <3>1 DEF LineTo
    <3>3. rank[x] \in Int /\ rank[Data(n)] \in Int
      BY <1>2, <3>2, NodesTyped
    <3> QED  BY <3>2, <3>3 DEF MayBeBelow, OutRanks
  <2> QED  BY <1>2, <2>1 DEF Found
<1>3. Found(x) = {} <=> x \notin Elements
  BY <1>1, <1>2 DEF Elements
<1> QED  BY <1>1, <1>3

LEMMA PopIsRemove ==
  ASSUME HeapTyped, 1 \in Nodes
  PROVE  NodePop(1) = NodeRemove(1)
<1>1. Ancestors(1) = {}
  BY AncestorsAre
<1>2. NodeRemove(1) = [n \in DOMAIN NodePop(1) |-> NodePop(1)[n]]
  BY <1>1 DEF NodeRemove
<1>3. NodePop(1) = [n \in DOMAIN NodePop(1) |-> NodePop(1)[n]]
  BY DEF NodePop
<1> QED  BY <1>2, <1>3

\* peek gives one of the highest ranked, if there is one.
LEMMA PeekIs ==
  HeapIInv =>
    /\ Elements = {} => peek = Nobody
    /\ Elements # {} => 1 \in Nodes /\ peek = Data(1) /\ peek \in Pool!Highest(Elements)
<1> SUFFICES ASSUME HeapIInv
             PROVE  /\ Elements = {} => peek = Nobody
                    /\ Elements # {} =>
                         1 \in Nodes /\ peek = Data(1) /\ peek \in Pool!Highest(Elements)
  OBVIOUS
<1>1. ASSUME Elements = {}  PROVE peek = Nobody
  BY <1>1 DEF peek, Elements
<1>2. ASSUME Elements # {}
      PROVE  1 \in Nodes /\ peek = Data(1) /\ peek \in Pool!Highest(Elements)
  <2>1. HeapTyped /\ TreeIsHeap /\ Nodes # {}
    BY <1>2 DEF HeapIInv, Elements
  <2>2. 1 \in Nodes /\ \A i \in Nodes : rank[Data(i)] <= rank[Data(1)]
    BY <2>1, TopIsHighest
  <2>3. Data(1) \in Pool!Highest(Elements)
    BY <2>2 DEF Elements, Pool!Highest
  <2> QED  BY <2>2, <2>3 DEF peek
<1> QED  BY <1>1, <1>2

LEMMA PeekIsNext == HeapIInv' => (/\ Elements = {} => peek = Nobody
                                  /\ Elements # {} => peek \in Pool!Highest(Elements))'
<1>1. HeapIInv => /\ Elements = {} => peek = Nobody
                  /\ Elements # {} => peek \in Pool!Highest(Elements)
  BY PeekIs
<1> QED  BY <1>1, PTL

\* What each call does to the tree, to the objects in it and to the one on top.
LEMMA RemovedIsOut ==
  ASSUME HeapIInv, NEW i \in Nodes, mTree' = NodeRemove(i), rank' = rank
  PROVE  HeapIInv' /\ Pool!TakesOut(Data(i))
<1> DEFINE x == Data(i)
<1>1. HeapIInv' /\ Elements' = Elements \ {x} /\ Elements # {}
  BY RemoveIInv DEF Elements
<1>2. 1 \in Nodes /\ peek = Data(1)
  BY <1>1, PeekIs
<1>3. ASSUME x # peek  PROVE peek' = peek
  <2>1. i # 1
    BY <1>2, <1>3
  <2>2. 1 \notin Giving(i)
    BY <2>1, GivingLine DEF HeapIInv
  <2>3. 1 \in Nodes \ Leaves(i)
    BY <1>2, <2>2 DEF Leaves
  <2>4. /\ NodeRemove(i) \in [Nodes \ Leaves(i) -> [mData : Items, mSize : Int]]
        /\ NodeRemove(i)[1].mData = DataWithout(i, 1)
    BY <2>3, TreeWithout DEF HeapIInv
  <2>5. 1 \in DOMAIN mTree' /\ mTree'[1].mData = Data(1)
    BY <2>2, <2>3, <2>4 DEF DataWithout
  <2> QED  BY <1>2, <2>5 DEF peek, Nodes, Data
<1>4. /\ Elements' = {} => peek' = Nobody
      /\ Elements' # {} => peek' \in Pool!Highest(Elements')
  BY <1>1, PeekIsNext DEF Pool!Highest
<1> QED  BY <1>1, <1>3, <1>4 DEF Pool!TakesOut

LEMMA PushedIsIn ==
  ASSUME HeapIInv, NEW x \in Items, x \notin Elements, mTree' = NodePush(x), rank' = rank
  PROVE  HeapIInv' /\ Pool!Adds(x)
<1>1. HeapIInv' /\ Elements' = Elements \cup {x}
  BY PushIInv
<1>2. 1 \in Passed(x) /\ Given(x)[1] = x
  BY PassedLine DEF HeapIInv
<1>3. peek' = DataWith(x, 1)
  <2>1. /\ NodePush(x) \in [Nodes \cup Passed(x) -> [mData : Items, mSize : Int]]
        /\ NodePush(x)[1].mData = DataWith(x, 1)
    BY <1>2, Pushed DEF HeapIInv
  <2> QED  BY <1>2, <2>1 DEF peek, Nodes, Data
<1>4. CASE Elements = {}
  <2>1. DataWith(x, 1) = x
    BY <1>2, <1>4 DEF DataWith, Elements
  <2> QED  BY <1>1, <1>3, <1>4, <2>1 DEF Pool!Adds
<1>5. CASE Elements # {}
  <2>1. 1 \in Nodes /\ peek = Data(1)
    BY <1>5, PeekIs
  <2>2. peek' = Higher(x, Data(1))
    BY <1>2, <1>3, <2>1 DEF DataWith
  <2>3. rank[x] \in Int /\ rank[Data(1)] \in Int
    BY <2>1, NodesTyped DEF HeapIInv, HeapTyped
  <2>4. peek' = IF rank[peek] < rank[x] THEN x ELSE peek
    BY <2>1, <2>2, <2>3 DEF Higher, OutRanks
  <2> QED  BY <1>1, <1>5, <2>4 DEF Pool!Adds
<1> QED  BY <1>4, <1>5

LEMMA PopStep ==
  ASSUME HeapIInv, pop, UNCHANGED rank
  PROVE  HeapIInv' /\ Pool!pop
<1>1. CASE mTree = NULL
  <2>1. UNCHANGED <<rank, mTree>> /\ last' = <<"pop">>
    BY <1>1 DEF pop
  <2>2. HeapIInv' /\ peek' = peek /\ Elements' = Elements
    BY <2>1 DEF HeapIInv, HeapTyped, Distinct, TreeIsHeap, checkNodes, Nodes, Data, Size, OutRanks,
                Parent, mLeft, mRight, peek, Elements
  <2>3. Elements = {}
    BY <1>1 DEF Elements, Nodes, NULL
  <2> QED  BY <2>1, <2>2, <2>3 DEF Pool!pop
<1>2. CASE mTree # NULL
  <2>1. Nodes # {}
    <3>1. mTree \in [Nodes -> [mData : Items, mSize : Int]]
      BY DEF HeapIInv, HeapTyped
    <3>2. NULL \in [{} -> [mData : Items, mSize : Int]]
      BY DEF NULL
    <3>3. \A f, g \in [{} -> [mData : Items, mSize : Int]] : f = g
      OBVIOUS
    <3> QED  BY <1>2, <3>1, <3>2, <3>3
  <2>2. 1 \in Nodes /\ peek = Data(1) /\ peek \in Pool!Highest(Elements)
    BY <2>1, PeekIs DEF Elements
  <2>3. mTree' = NodeRemove(1) /\ last' = <<"pop", peek>>
    BY <1>2, <2>2, PopIsRemove DEF pop, HeapIInv
  <2>4. HeapIInv' /\ Pool!TakesOut(peek)
    BY <2>2, <2>3, RemovedIsOut
  <2> QED  BY <2>2, <2>3, <2>4 DEF Pool!pop
<1> QED  BY <1>1, <1>2

LEMMA RemoveStep ==
  ASSUME HeapIInv, NEW x \in Items, remove(x), UNCHANGED rank
  PROVE  HeapIInv' /\ Pool!remove(x)
<1>1. HeapTyped /\ TreeIsHeap
  BY DEF HeapIInv
<1>2. CASE x \notin Elements
  <2>1. Found(x) = {}
    BY <1>1, <1>2, SearchFinds
  <2>2. UNCHANGED <<rank, mTree>> /\ last' = <<"remove", x, FALSE>>
    BY <2>1 DEF remove
  <2>3. HeapIInv' /\ Elements' = Elements /\ peek' = peek
    BY <2>2 DEF HeapIInv, HeapTyped, Distinct, TreeIsHeap, checkNodes, Nodes, Data, Size, OutRanks,
                Parent, mLeft, mRight, Elements, peek
  <2>4. (x \in Elements) = FALSE
    BY <1>2
  <2>5. x # peek
    BY <1>2, PeekIs, HeapAssumption DEF Pool!Highest
  <2>6. Pool!TakesOut(x)
    BY <1>2, <2>3, <2>5 DEF Pool!TakesOut
  <2> QED  BY <2>2, <2>3, <2>4, <2>6 DEF Pool!remove
<1>3. CASE x \in Elements
  <2>1. Found(x) # {} /\ \A i \in Found(x) : i \in Nodes /\ Data(i) = x
    BY <1>1, <1>3, SearchFinds
  <2>2. PICK i \in Nodes : Data(i) = x /\ mTree' = NodeRemove(i) /\ last' = <<"remove", x, TRUE>>
    BY <2>1 DEF remove
  <2>3. HeapIInv' /\ Pool!TakesOut(x)
    BY <2>2, RemovedIsOut
  <2>4. (x \in Elements) = TRUE
    BY <1>3
  <2> QED  BY <2>2, <2>3, <2>4 DEF Pool!remove
<1> QED  BY <1>2, <1>3

LEMMA HeapStutters ==
  ASSUME HeapIInv, UNCHANGED heapVars
  PROVE  HeapIInv' /\ Elements' = Elements /\ peek' = peek
BY DEF HeapIInv, HeapTyped, Distinct, TreeIsHeap, checkNodes, Nodes, Data, Size, OutRanks,
       Parent, mLeft, mRight, Elements, peek, heapVars

LEMMA HeapStarts == ASSUME HeapInit PROVE HeapIInv /\ Elements = {} /\ peek = Nobody
<1>1. Nodes = {} /\ mTree \in [{} -> [mData : Items, mSize : Int]]
  BY DEF HeapInit, NULL, Nodes
<1>2. rank \in [Items -> Int]
  BY HeapAssumption DEF HeapInit
<1>3. IsFiniteSet({})
  BY FS_EmptySet
<1> QED  BY <1>1, <1>2, <1>3 DEF HeapIInv, HeapTyped, Distinct, TreeIsHeap, Elements, peek

LEMMA NextHeapIInv == HeapIInv /\ [HeapNext]_heapVars => HeapIInv'
<1> SUFFICES ASSUME HeapIInv, [HeapNext]_heapVars  PROVE HeapIInv'
  OBVIOUS
<1>1. CASE pop /\ UNCHANGED rank
  BY <1>1, PopStep
<1>2. ASSUME NEW x \in Items, push(x), UNCHANGED rank  PROVE HeapIInv'
  BY <1>2, PushedIsIn DEF push
<1>3. ASSUME NEW x \in Items, remove(x), UNCHANGED rank  PROVE HeapIInv'
  BY <1>3, RemoveStep
<1>4. CASE UNCHANGED heapVars
  BY <1>4, HeapStutters
<1> QED  BY <1>1, <1>2, <1>3, <1>4 DEF HeapNext

LEMMA HeapInvariant == HeapSpec => []HeapIInv
<1>1. HeapInit => HeapIInv
  BY HeapStarts
<1> QED  BY <1>1, NextHeapIInv, PTL DEF HeapSpec

\* After any sequence of calls, of any length and for any objects and ranks, the
\* sizes of all subtrees are right and no node is outranked by one below it.
THEOREM TreeStaysHeap == HeapSpec => []TreeIsHeap
<1>1. HeapIInv => TreeIsHeap
  BY DEF HeapIInv
<1> QED  BY <1>1, HeapInvariant, PTL

\* Every call does to the objects of the tree what RankPool says: push adds, pop
\* takes a highest ranked one, remove takes the very object and tells whether it
\* was there, and peek keeps its answer until it is outranked or taken out.
THEOREM HeapIsRankPool == HeapSpec => ImplementsRankPool
<1>1. HeapInit => Pool!Init
  <2> SUFFICES ASSUME HeapInit  PROVE Pool!Init
    OBVIOUS
  <2>1. HeapIInv /\ Elements = {} /\ peek = Nobody
    BY HeapStarts
  <2>2. last = <<"init">> /\ rank \in [Items -> Int]
    BY <2>1 DEF HeapInit, HeapIInv, HeapTyped
  <2> QED  BY <2>1, <2>2 DEF Pool!Init
<1>2. HeapIInv /\ [HeapNext]_heapVars => [Pool!Next]_<<rank, Elements, peek, last>>
  <2> SUFFICES ASSUME HeapIInv, [HeapNext]_heapVars
               PROVE  Pool!Next \/ UNCHANGED <<rank, Elements, peek, last>>
    OBVIOUS
  <2>1. CASE pop /\ UNCHANGED rank
    <3>1. Pool!pop
      BY <2>1, PopStep
    <3> QED  BY <2>1, <3>1 DEF Pool!Next
  <2>2. ASSUME NEW x \in Items, push(x), UNCHANGED rank  PROVE Pool!Next
    <3>1. Pool!Adds(x) /\ last' = <<"push", x>>
      BY <2>2, PushedIsIn DEF push
    <3>2. Pool!push(x)
      BY <3>1 DEF Pool!push
    <3> QED  BY <2>2, <3>2 DEF Pool!Next
  <2>3. ASSUME NEW x \in Items, remove(x), UNCHANGED rank  PROVE Pool!Next
    <3>1. Pool!remove(x)
      BY <2>3, RemoveStep
    <3> QED  BY <2>3, <3>1 DEF Pool!Next
  <2>4. CASE UNCHANGED heapVars
    BY <2>4, HeapStutters DEF heapVars
  <2> QED  BY <2>1, <2>2, <2>3, <2>4 DEF HeapNext
<1> QED  BY <1>1, <1>2, HeapInvariant, PTL DEF HeapSpec, ImplementsRankPool, Pool!Spec

-----------------------------------------------------------------------------
(* The configuration: reading lines is a recursive function, so that what  *)
(* holds after any number of them is shown by induction over the lines.    *)

\* The recursion of FillAll, over the first n of the lines.
After(f, table, state, lines, n) ==
  f = [i \in 0..n |-> IF i = 0 THEN state ELSE Fill(table, f[i - 1], lines[i])]

LEMMA AfterThere ==
  ASSUME NEW table, NEW state, NEW lines, NEW n \in Nat
  PROVE  \E f : After(f, table, state, lines, n)
<1> DEFINE T == {k \in Nat : \E f : After(f, table, state, lines, k)}
<1> HIDE DEF Fill
<1>1. 0 \in T
  <2>1. After([i \in 0..0 |-> state], table, state, lines, 0)
    BY DEF After
  <2> QED  BY <2>1
<1>2. ASSUME NEW k \in T  PROVE k + 1 \in T
  <2>1. PICK f : After(f, table, state, lines, k)
    OBVIOUS
  <2> DEFINE g == [i \in 0..(k + 1) |-> IF i = k + 1 THEN Fill(table, f[k], lines[k + 1]) ELSE f[i]]
  <2>2. ASSUME NEW i \in 0..(k + 1)
        PROVE  g[i] = IF i = 0 THEN state ELSE Fill(table, g[i - 1], lines[i])
    <3>1. CASE i = k + 1
      <4>1. (k + 1) - 1 = k /\ k \in 0..(k + 1) /\ k # k + 1 /\ k + 1 # 0
        OBVIOUS
      <4>2. g[k] = f[k]
        BY <4>1
      <4> QED  BY <3>1, <4>1, <4>2
    <3>2. CASE i # k + 1
      <4>1. i \in 0..k /\ (i # 0 => i - 1 \in 0..k /\ i - 1 # k + 1)
        BY <3>2
      <4>2. f[i] = IF i = 0 THEN state ELSE Fill(table, f[i - 1], lines[i])
        BY <2>1, <4>1 DEF After
      <4>3. i # 0 => g[i - 1] = f[i - 1]
        BY <4>1
      <4>4. g[i] = f[i]
        BY <3>2
      <4> QED  BY <4>2, <4>3, <4>4
    <3> QED  BY <3>1, <3>2
  <2>3. g = [i \in 0..(k + 1) |-> IF i = 0 THEN state ELSE Fill(table, g[i - 1], lines[i])]
    <3>1. g = [i \in 0..(k + 1) |-> g[i]]
      OBVIOUS
    <3> HIDE DEF g
    <3> QED  BY <2>2, <3>1
  <2>4. After(g, table, state, lines, k + 1)
    <3> HIDE DEF g
    <3> QED  BY <2>3 DEF After
  <2> QED  BY <2>4
<1>3. T = Nat
  <2> HIDE DEF T
  <2>1. T \in SUBSET Nat
    BY DEF T
  <2> QED  BY <1>1, <1>2, <2>1, Induction
<1> QED  BY <1>3

LEMMA FillAllIs ==
  ASSUME NEW table, NEW state, NEW lines, Len(lines) \in Nat
  PROVE  \E f : /\ After(f, table, state, lines, Len(lines))
                /\ FillAll(table, state, lines) = f[Len(lines)]
<1> DEFINE f == CHOOSE g : After(g, table, state, lines, Len(lines))
<1>1. After(f, table, state, lines, Len(lines))
  BY AfterThere
<1>2. FillAll(table, state, lines) = f[Len(lines)]
  BY DEF FillAll, After
<1> QED  BY <1>1, <1>2

-----------------------------------------------------------------------------
\* What reading is about: a value for every name, and how many entries may
\* still be set.
Reading(state) ==
  /\ state = [num_params |-> state.num_params, conf |-> state.conf,
              valid |-> state.valid, read |-> state.read]
  /\ state.num_params \in Int
  /\ state.conf = [p \in Names |-> state.conf[p]]

\* The names of the table that the first n lines have, and the state after these.
Named(table, lines, n) == {p \in table : \E i \in 1..n : lines[i].name = p}
ToldFirst(table, state, lines, n, now) ==
  /\ Reading(now)
  /\ \A p \in Names :
       /\ \A i \in 1..n : p \in table /\ lines[i].name = p => now.conf[p] = lines[i].value
       /\ p \notin Named(table, lines, n) => now.conf[p] = state.conf[p]
  /\ now.valid = state.valid \cup (Named(table, lines, n) \cap Valid)
  /\ now.num_params = state.num_params - Cardinality(Named(table, lines, n))
OnlyOnce(lines, n, p) == \A i, j \in 1..n : lines[i].name = p /\ lines[j].name = p => i = j

LEMMA OneMore ==
  ASSUME NEW table, NEW lines, NEW k \in Nat
  PROVE  Named(table, lines, k + 1) =
           Named(table, lines, k) \cup (table \cap {lines[k + 1].name})
<1>1. 1..(k + 1) = 1..k \cup {k + 1}
  OBVIOUS
<1> QED  BY <1>1 DEF Named

\* Each line of the table tells its value, as long as no name is there twice and
\* the names are no more than the entries that may be set.
LEMMA FillOne ==
  ASSUME NEW table, table \subseteq Names, IsFiniteSet(table), NEW state, NEW lines,
         NEW n \in Nat, \A p \in table : OnlyOnce(lines, n, p),
         Cardinality(Named(table, lines, n)) <= state.num_params,
         Reading(state),
         NEW k \in Nat, k + 1 <= n, NEW now, ToldFirst(table, state, lines, k, now)
  PROVE  ToldFirst(table, state, lines, k + 1, Fill(table, now, lines[k + 1]))
<1> DEFINE line == lines[k + 1]
           before == Named(table, lines, k)
           after == Named(table, lines, k + 1)
           next == Fill(table, now, line)
<1>1. k + 1 \in 1..n /\ 1..(k + 1) = 1..k \cup {k + 1} /\ 1..(k + 1) \subseteq 1..n
      /\ k + 1 \notin 1..k
  OBVIOUS
<1>2. after = before \cup (table \cap {line.name}) /\ after \subseteq Named(table, lines, n)
  <2>1. after \subseteq Named(table, lines, n)
    BY <1>1 DEF Named
  <2> QED  BY <2>1, OneMore
<1>3. IsFiniteSet(Named(table, lines, n)) /\ IsFiniteSet(before) /\ IsFiniteSet(after)
  <2>1. Named(table, lines, n) \subseteq table /\ before \subseteq table /\ after \subseteq table
    BY DEF Named
  <2> HIDE DEF before, after
  <2> QED  BY <2>1, FS_Subset
<1>4. CASE line.name \in table
  <2>1. line.name \notin before
    <3> SUFFICES ASSUME line.name \in before  PROVE FALSE
      OBVIOUS
    <3>1. PICK i \in 1..k : lines[i].name = line.name
      BY DEF Named
    <3>2. i \in 1..n
      OBVIOUS
    <3>3. OnlyOnce(lines, n, line.name)
      BY <1>4
    <3>4. i = k + 1
      BY <1>1, <3>1, <3>2, <3>3 DEF OnlyOnce
    <3> QED  BY <1>1, <3>4
  <2>2. after = before \cup {line.name}
    BY <1>2, <1>4
  <2>3. Cardinality(after) = Cardinality(before) + 1 /\ Cardinality(before) \in Nat
    <3> HIDE DEF before, after
    <3>1. Cardinality(before) \in Nat
      BY <1>3, FS_CardinalityType
    <3> QED  BY <1>3, <2>1, <2>2, <3>1, FS_AddElement
  <2>4. Cardinality(after) <= Cardinality(Named(table, lines, n))
        /\ Cardinality(Named(table, lines, n)) \in Nat
    <3> HIDE DEF before, after
    <3>1. Cardinality(Named(table, lines, n)) \in Nat
      BY <1>3, FS_CardinalityType
    <3> QED  BY <1>2, <1>3, <3>1, FS_Subset
  <2>5. now.num_params = state.num_params - Cardinality(before) /\ state.num_params \in Int
    BY DEF ToldFirst, Reading
  <2>6. now.num_params # 0 /\ now.num_params - 1 = state.num_params - Cardinality(after)
    BY <2>3, <2>4, <2>5
  <2>7. next = [num_params |-> now.num_params - 1,
                conf |-> [now.conf EXCEPT ![line.name] = line.value],
                valid |-> now.valid \cup ({line.name} \cap Valid),
                read |-> now.read + 1]
    BY <1>4, <2>6 DEF Fill
  <2>8. Reading(now)
    BY DEF ToldFirst
  <2>9. /\ next.num_params = now.num_params - 1
        /\ next.conf = [now.conf EXCEPT ![line.name] = line.value]
        /\ next.valid = now.valid \cup ({line.name} \cap Valid)
        /\ next = [num_params |-> next.num_params, conf |-> next.conf,
                   valid |-> next.valid, read |-> next.read]
    <3> HIDE DEF next
    <3> QED  BY <2>7
  <2>10. \A p \in Names : next.conf[p] = IF p = line.name THEN line.value ELSE now.conf[p]
    <3> HIDE DEF next, line
    <3> QED  BY <2>8, <2>9 DEF Reading
  <2>11. Reading(next)
    <3> HIDE DEF next, line
    <3>1. next.num_params \in Int
      BY <2>8, <2>9 DEF Reading
    <3>2. next.conf = [p \in Names |-> next.conf[p]]
      BY <2>8, <2>9 DEF Reading
    <3> QED  BY <2>9, <3>1, <3>2 DEF Reading
  <2>12. ASSUME NEW p \in Names
         PROVE  /\ \A i \in 1..(k + 1) : p \in table /\ lines[i].name = p => next.conf[p] = lines[i].value
                /\ p \notin after => next.conf[p] = state.conf[p]
    <3> HIDE DEF next
    <3>1. CASE p = line.name
      <4>1. \A i \in 1..k : lines[i].name # p
        BY <1>4, <2>1, <3>1 DEF Named
      <4>2. next.conf[p] = line.value /\ p \in after
        BY <2>2, <2>10, <3>1
      <4> QED  BY <1>1, <4>1, <4>2
    <3>2. CASE p # line.name
      <4>1. next.conf[p] = now.conf[p]
        BY <2>10, <3>2
      <4>2. p \notin after => p \notin before
        BY <2>2
      <4>3. \A i \in 1..k : p \in table /\ lines[i].name = p => now.conf[p] = lines[i].value
        BY DEF ToldFirst
      <4>4. p \notin before => now.conf[p] = state.conf[p]
        BY DEF ToldFirst
      <4> HIDE DEF before, after
      <4> QED  BY <1>1, <3>2, <4>1, <4>2, <4>3, <4>4
    <3> QED  BY <3>1, <3>2
  <2>13. next.valid = state.valid \cup (after \cap Valid)
    <3>1. now.valid = state.valid \cup (before \cap Valid)
      BY DEF ToldFirst
    <3> HIDE DEF next, before, after, line
    <3> QED  BY <2>2, <2>9, <3>1
  <2>14. next.num_params = state.num_params - Cardinality(after)
    <3> HIDE DEF next, before, after, line
    <3> QED  BY <2>6, <2>9
  <2> HIDE DEF next, line
  <2> QED  BY <2>11, <2>12, <2>13, <2>14 DEF ToldFirst, line, next
<1>5. CASE line.name \notin table
  <2>1. after = before
    BY <1>2, <1>5
  <2>2. Reading(now)
    BY DEF ToldFirst
  <2>3. next = now \/ next = [now EXCEPT !.read = @ + 1]
    BY <1>5 DEF Fill
  <2>4. /\ next.num_params = now.num_params /\ next.conf = now.conf /\ next.valid = now.valid
        /\ next = [num_params |-> next.num_params, conf |-> next.conf,
                   valid |-> next.valid, read |-> next.read]
    <3> HIDE DEF next
    <3>1. CASE next = now
      BY <2>2, <3>1 DEF Reading
    <3>2. CASE next = [now EXCEPT !.read = @ + 1]
      <4>1. now = [num_params |-> now.num_params, conf |-> now.conf,
                   valid |-> now.valid, read |-> now.read]
        BY <2>2 DEF Reading
      <4>2. next = [num_params |-> now.num_params, conf |-> now.conf,
                    valid |-> now.valid, read |-> now.read + 1]
        BY <3>2, <4>1
      <4> QED  BY <4>2
    <3> QED  BY <2>3, <3>1, <3>2
  <2>5. \A p \in Names, i \in 1..(k + 1) :
          p \in table /\ lines[i].name = p => i \in 1..k /\ now.conf[p] = lines[i].value
    <3>1. \A p \in Names, i \in 1..k : p \in table /\ lines[i].name = p => now.conf[p] = lines[i].value
      BY DEF ToldFirst
    <3> QED  BY <1>1, <1>5, <3>1
  <2> HIDE DEF next, line, before, after
  <2>6. ToldFirst(table, state, lines, k + 1, next)
    <3>1. Reading(next)
      BY <2>2, <2>4 DEF Reading
    <3>2. \A p \in Names, i \in 1..(k + 1) :
            p \in table /\ lines[i].name = p => next.conf[p] = lines[i].value
      BY <2>4, <2>5
    <3>3. \A p \in Names : p \notin after => next.conf[p] = state.conf[p]
      BY <2>1, <2>4 DEF ToldFirst, before
    <3>4. next.valid = state.valid \cup (after \cap Valid)
      BY <2>1, <2>4 DEF ToldFirst, before
    <3>5. next.num_params = state.num_params - Cardinality(after)
      BY <2>1, <2>4 DEF ToldFirst, before
    <3> QED  BY <3>1, <3>2, <3>3, <3>4, <3>5 DEF ToldFirst, after
  <2> QED  BY <2>6 DEF next, line
<1> QED  BY <1>4, <1>5

LEMMA FillAllTells ==
  ASSUME NEW table, table \subseteq Names, IsFiniteSet(table), NEW state, NEW lines,
         Len(lines) \in Nat, \A p \in table : OnlyOnce(lines, Len(lines), p),
         Cardinality(Named(table, lines, Len(lines))) <= state.num_params, Reading(state)
  PROVE  ToldFirst(table, state, lines, Len(lines), FillAll(table, state, lines))
<1> DEFINE n == Len(lines)
<1>1. PICK f : After(f, table, state, lines, n) /\ FillAll(table, state, lines) = f[n]
  BY FillAllIs
<1> DEFINE T == {k \in Nat : k <= n => ToldFirst(table, state, lines, k, f[k])}
<1>2. 0 \in T
  <2>1. f[0] = state
    <3>1. 0 \in 0..n
      OBVIOUS
    <3> HIDE DEF Fill
    <3> QED  BY <1>1, <3>1 DEF After
  <2>2. Named(table, lines, 0) = {} /\ 1..0 = {} /\ Cardinality({}) = 0
    BY FS_EmptySet DEF Named
  <2>3. ToldFirst(table, state, lines, 0, state)
    <3>1. state.num_params - 0 = state.num_params
      BY DEF Reading
    <3> QED  BY <2>2, <3>1 DEF ToldFirst
  <2> QED  BY <2>1, <2>3
<1>3. ASSUME NEW k \in T  PROVE k + 1 \in T
  <2> SUFFICES ASSUME k + 1 <= n  PROVE ToldFirst(table, state, lines, k + 1, f[k + 1])
    OBVIOUS
  <2>1. k \in Nat /\ k + 1 \in 0..n /\ k + 1 # 0 /\ (k + 1) - 1 = k /\ k <= n
    OBVIOUS
  <2>2. ToldFirst(table, state, lines, k, f[k])
    BY <2>1
  <2>3. f[k + 1] = Fill(table, f[k], lines[k + 1])
    <3> HIDE DEF Fill
    <3> QED  BY <1>1, <2>1 DEF After
  <2> HIDE DEF T
  <2> QED  BY <2>1, <2>2, <2>3, FillOne
<1>4. T = Nat
  <2> HIDE DEF T
  <2>1. T \in SUBSET Nat
    BY DEF T
  <2> QED  BY <1>2, <1>3, <2>1, Induction
<1> QED  BY <1>1, <1>4

\* Whatever the lines are, other names keep their values and flags, and the
\* capabilities stay a number.
Keeps(table, state, now) ==
  /\ Reading(now)
  /\ \A p \in Names \ table : now.conf[p] = state.conf[p] /\ (p \in now.valid <=> p \in state.valid)
  /\ now.conf["CAPABILITIES"] \in Int
NumbersIn(lines) ==
  \A i \in 1..Len(lines) : lines[i].name = "CAPABILITIES" => lines[i].value \in Int

LEMMA FillKeeps ==
  ASSUME NEW table, table \subseteq Names, NEW state, NEW now, Keeps(table, state, now),
         NEW line, line.name = "CAPABILITIES" => line.value \in Int
  PROVE  Keeps(table, state, Fill(table, now, line))
<1> DEFINE next == Fill(table, now, line)
<1>1. Reading(now)
  BY DEF Keeps
<1>2. now = [num_params |-> now.num_params, conf |-> now.conf, valid |-> now.valid, read |-> now.read]
  BY <1>1 DEF Reading
<1>3. CASE next = now
  <2> HIDE DEF next
  <2>1. Keeps(table, state, next)
    BY <1>3
  <2> QED  BY <2>1 DEF next
<1>4. CASE next = [now EXCEPT !.read = @ + 1]
  <2> HIDE DEF next
  <2>1. next = [num_params |-> now.num_params, conf |-> now.conf,
                valid |-> now.valid, read |-> now.read + 1]
    BY <1>2, <1>4
  <2>2. /\ next.num_params = now.num_params /\ next.conf = now.conf /\ next.valid = now.valid
        /\ next = [num_params |-> next.num_params, conf |-> next.conf,
                   valid |-> next.valid, read |-> next.read]
    BY <2>1
  <2>3. Keeps(table, state, next)
    BY <1>1, <2>2 DEF Keeps, Reading
  <2> QED  BY <2>3 DEF next
<1>5. CASE /\ line.name \in table
           /\ next = [num_params |-> now.num_params - 1,
                      conf |-> [now.conf EXCEPT ![line.name] = line.value],
                      valid |-> now.valid \cup ({line.name} \cap Valid),
                      read |-> now.read + 1]
  <2> HIDE DEF next
  <2>1. /\ next.num_params = now.num_params - 1
        /\ next.conf = [now.conf EXCEPT ![line.name] = line.value]
        /\ next.valid = now.valid \cup ({line.name} \cap Valid)
        /\ next = [num_params |-> next.num_params, conf |-> next.conf,
                   valid |-> next.valid, read |-> next.read]
    BY <1>5
  <2>2. \A p \in Names : next.conf[p] = IF p = line.name THEN line.value ELSE now.conf[p]
    BY <1>1, <2>1 DEF Reading
  <2>3. Reading(next)
    <3>1. next.num_params \in Int
      BY <1>1, <2>1 DEF Reading
    <3>2. next.conf = [p \in Names |-> next.conf[p]]
      BY <1>1, <2>1 DEF Reading
    <3> QED  BY <2>1, <3>1, <3>2 DEF Reading
  <2>4. \A p \in Names \ table :
          next.conf[p] = state.conf[p] /\ (p \in next.valid <=> p \in state.valid)
    <3> SUFFICES ASSUME NEW p \in Names \ table
                 PROVE  next.conf[p] = state.conf[p] /\ (p \in next.valid <=> p \in state.valid)
      OBVIOUS
    <3>1. p # line.name
      BY <1>5
    <3>2. now.conf[p] = state.conf[p] /\ (p \in now.valid <=> p \in state.valid)
      BY DEF Keeps
    <3>3. p \in next.valid <=> p \in now.valid
      BY <2>1, <3>1
    <3> QED  BY <2>2, <3>1, <3>2, <3>3
  <2>5. next.conf["CAPABILITIES"] \in Int
    <3>1. "CAPABILITIES" \in Names
      BY ConfAssumption DEF Names
    <3> QED  BY <2>2, <3>1 DEF Keeps
  <2>6. Keeps(table, state, next)
    BY <2>3, <2>4, <2>5 DEF Keeps
  <2> QED  BY <2>6 DEF next
<1> QED  BY <1>3, <1>4, <1>5 DEF Fill

LEMMA FillAllKeeps ==
  ASSUME NEW table, table \subseteq Names, NEW state, Reading(state),
         state.conf["CAPABILITIES"] \in Int,
         NEW lines, Len(lines) \in Nat, NumbersIn(lines)
  PROVE  Keeps(table, state, FillAll(table, state, lines))
<1> DEFINE n == Len(lines)
<1>1. PICK f : After(f, table, state, lines, n) /\ FillAll(table, state, lines) = f[n]
  BY FillAllIs
<1> DEFINE T == {k \in Nat : k <= n => Keeps(table, state, f[k])}
<1>2. 0 \in T
  <2>1. f[0] = state
    <3>1. 0 \in 0..n
      OBVIOUS
    <3> HIDE DEF Fill
    <3> QED  BY <1>1, <3>1 DEF After
  <2>2. Keeps(table, state, state)
    BY DEF Keeps
  <2> QED  BY <2>1, <2>2
<1>3. ASSUME NEW k \in T  PROVE k + 1 \in T
  <2> SUFFICES ASSUME k + 1 <= n  PROVE Keeps(table, state, f[k + 1])
    OBVIOUS
  <2>1. k \in Nat /\ k + 1 \in 0..n /\ k + 1 \in 1..n /\ k + 1 # 0 /\ (k + 1) - 1 = k /\ k <= n
    OBVIOUS
  <2>2. Keeps(table, state, f[k])
    BY <2>1
  <2>3. f[k + 1] = Fill(table, f[k], lines[k + 1])
    <3> HIDE DEF Fill
    <3> QED  BY <1>1, <2>1 DEF After
  <2>4. lines[k + 1].name = "CAPABILITIES" => lines[k + 1].value \in Int
    BY <2>1 DEF NumbersIn
  <2> HIDE DEF T
  <2> QED  BY <2>2, <2>3, <2>4, FillKeeps
<1>4. T = Nat
  <2> HIDE DEF T
  <2>1. T \in SUBSET Nat
    BY DEF T
  <2> QED  BY <1>2, <1>3, <2>1, Induction
<1> QED  BY <1>1, <1>4

-----------------------------------------------------------------------------
LEMMA EachOnce ==
  ASSUME NEW table, NEW lines, Len(lines) \in Nat, NamesEachOnce(lines, table), NEW p \in table
  PROVE  OnlyOnce(lines, Len(lines), p)
<1> DEFINE N == Naming(lines, p)
<1> SUFFICES ASSUME NEW i \in 1..Len(lines), NEW j \in 1..Len(lines),
                    lines[i].name = p, lines[j].name = p, i # j
             PROVE  FALSE
  BY DEF OnlyOnce
<1>1. IsFiniteSet(N)
  <2>1. IsFiniteSet(1..Len(lines))
    BY FS_Interval
  <2>2. N \subseteq 1..Len(lines)
    BY DEF Naming
  <2> QED  BY <2>1, <2>2, FS_Subset
<1>2. i \in N /\ j \in N /\ Cardinality(N) <= 1
  BY DEF Naming, NamesEachOnce
<1> HIDE DEF N
<1> DEFINE One == {i}
           Two == One \cup {j}
<1>3. IsFiniteSet(One) /\ Cardinality(One) = 1 /\ j \notin One /\ Two \subseteq N
  BY <1>2, FS_Singleton
<1> HIDE DEF One
<1>4. Cardinality(Two) = 1 + 1
  BY <1>3, FS_AddElement
<1> HIDE DEF Two
<1>5. Cardinality(Two) <= Cardinality(N) /\ Cardinality(N) \in Nat
  BY <1>1, <1>3, FS_Subset, FS_CardinalityType
<1> QED  BY <1>2, <1>4, <1>5

\* In the words of the properties.
TellsIn(table, state, lines, now) ==
  \A p \in table :
    /\ now.conf[p] = ValueIn(lines, p, state.conf[p])
    /\ p \in now.valid <=> p \in state.valid \/ (p \in Valid /\ Naming(lines, p) # {})

LEMMA TellsValues ==
  ASSUME NEW table, table \subseteq Names, NEW state, NEW lines, Len(lines) \in Nat, NEW now,
         ToldFirst(table, state, lines, Len(lines), now)
  PROVE  TellsIn(table, state, lines, now)
<1> SUFFICES ASSUME NEW p \in table
             PROVE  /\ now.conf[p] = ValueIn(lines, p, state.conf[p])
                    /\ p \in now.valid
                         <=> p \in state.valid \/ (p \in Valid /\ Naming(lines, p) # {})
  BY DEF TellsIn
<1>0. p \in Names
  OBVIOUS
<1> DEFINE N == Naming(lines, p)
           n == Len(lines)
<1>1. p \in Named(table, lines, n) <=> N # {}
  BY DEF Named, Naming
<1>2. p \in now.valid <=> p \in state.valid \/ (p \in Valid /\ N # {})
  <2> HIDE DEF N
  <2> QED  BY <1>0, <1>1 DEF ToldFirst
<1>3. CASE N = {}
  BY <1>0, <1>1, <1>2, <1>3 DEF ToldFirst, ValueIn
<1>4. CASE N # {}
  <2>1. N \subseteq 1..n /\ N \in SUBSET Int
    BY DEF Naming
  <2>2. IsFiniteSet(N)
    <3>1. IsFiniteSet(1..n)
      BY FS_Interval
    <3> HIDE DEF N
    <3> QED  BY <2>1, <3>1, FS_Subset
  <2>3. Max(N) \in N
    <3> HIDE DEF N
    <3> QED  BY <1>4, <2>1, <2>2, Extremes
  <2>4. PICK i \in N : i = Max(N)
    BY <2>3
  <2>5. i \in 1..n /\ lines[i].name = p
    BY DEF Naming
  <2>6. now.conf[p] = lines[i].value
    BY <1>0, <2>5 DEF ToldFirst
  <2>7. ValueIn(lines, p, state.conf[p]) = lines[i].value
    <3> HIDE DEF N
    <3> QED  BY <1>4, <2>4 DEF ValueIn, N
  <2> QED  BY <1>2, <2>6, <2>7
<1> QED  BY <1>3, <1>4

-----------------------------------------------------------------------------
LEMMA TablesApart ==
  /\ Tables.gps \subseteq Names /\ Tables.sap \subseteq Names /\ Tables.log \subseteq Names
  /\ IsFiniteSet(Tables.gps) /\ IsFiniteSet(Tables.sap) /\ IsFiniteSet(Tables.log)
  /\ "CAPABILITIES" \in Tables.gps
  /\ \A p \in Tables.gps : p \notin Tables.sap /\ p \notin Tables.log
  /\ \A p \in Tables.sap : p \notin Tables.gps /\ p \notin Tables.log
  /\ \A p \in Tables.log : p \notin Tables.gps /\ p \notin Tables.sap
  BY ConfAssumption DEF Names

\* A table that is read has the values and the flags of the file.
LEMMA ReadTableTells ==
  ASSUME NEW table, table \subseteq Names, IsFiniteSet(table), NEW state, Reading(state),
         NEW lines, Len(lines) \in Nat, NamesEachOnce(lines, table), NEW p \in table
  PROVE  /\ ReadTable(table, state, lines).conf[p] = ValueIn(lines, p, state.conf[p])
         /\ p \in ReadTable(table, state, lines).valid <=> p \in Valid /\ Naming(lines, p) # {}
<1> DEFINE start == [num_params |-> Cardinality(table), conf |-> state.conf,
                     valid |-> state.valid \ table, read |-> 0]
<1>1. Cardinality(table) \in Nat
  BY FS_CardinalityType
<1>2. /\ Reading(start) /\ start.num_params = Cardinality(table)
      /\ start.conf = state.conf /\ start.valid = state.valid \ table
  BY <1>1 DEF Reading
<1> HIDE DEF start
<1>3. \A q \in table : OnlyOnce(lines, Len(lines), q)
  BY EachOnce
<1>4. Cardinality(Named(table, lines, Len(lines))) <= Cardinality(table)
  <2>1. Named(table, lines, Len(lines)) \subseteq table
    BY DEF Named
  <2> QED  BY <2>1, FS_Subset
<1>5. ToldFirst(table, start, lines, Len(lines), FillAll(table, start, lines))
  BY <1>2, <1>3, <1>4, FillAllTells
<1>6. /\ FillAll(table, start, lines).conf[p] = ValueIn(lines, p, start.conf[p])
      /\ p \in FillAll(table, start, lines).valid
           <=> p \in start.valid \/ (p \in Valid /\ Naming(lines, p) # {})
  <2>1. TellsIn(table, start, lines, FillAll(table, start, lines))
    BY <1>5, TellsValues
  <2> QED  BY <2>1 DEF TellsIn
<1>7. p \notin start.valid
  BY <1>2
<1>8. ReadTable(table, state, lines) = FillAll(table, start, lines)
  BY DEF ReadTable, start
<1> QED  BY <1>2, <1>6, <1>7, <1>8

LEMMA ReadTableKeeps ==
  ASSUME NEW table, table \subseteq Names, IsFiniteSet(table), NEW state, Reading(state),
         state.conf["CAPABILITIES"] \in Int,
         NEW lines, Len(lines) \in Nat, NumbersIn(lines)
  PROVE  Keeps(table, state, ReadTable(table, state, lines))
<1> DEFINE start == [num_params |-> Cardinality(table), conf |-> state.conf,
                     valid |-> state.valid \ table, read |-> 0]
<1>1. Cardinality(table) \in Nat
  BY FS_CardinalityType
<1>2. Reading(start) /\ start.conf = state.conf /\ start.valid = state.valid \ table
  BY <1>1 DEF Reading
<1> HIDE DEF start
<1>3. Keeps(table, start, FillAll(table, start, lines))
  BY <1>2, FillAllKeeps
<1>4. ReadTable(table, state, lines) = FillAll(table, start, lines)
  BY DEF ReadTable, start
<1> QED  BY <1>2, <1>3, <1>4 DEF Keeps

\* A file as the program may find it.
File(lines) == Len(lines) \in Nat /\ NumbersIn(lines)

\* What reading the two files leaves: the part of FilesCount about it.
FilesTold(gps, sap, read) ==
  /\ Reading(read) /\ read.conf["CAPABILITIES"] \in Int
  /\ NamesEachOnce(gps, Tables.gps) =>
       \A p \in Tables.gps : read.conf[p] = ValueIn(gps, p, Default[p])
  /\ NamesEachOnce(sap, Tables.sap) =>
       \A p \in Tables.sap : /\ read.conf[p] = ValueIn(sap, p, Default[p])
                             /\ p \in read.valid <=> p \in Valid /\ Naming(sap, p) # {}
  /\ NamesEachOnce(gps, Tables.log) /\ NamesEachOnce(sap, Tables.log) =>
       \A p \in Tables.log : read.conf[p] = ValueIn(sap, p, ValueIn(gps, p, Default[p]))

LEMMA ReadConfigTells ==
  ASSUME NEW gps, NEW sap, File(gps), File(sap)
  PROVE  FilesTold(gps, sap, ReadConfig(gps, sap))
<1> DEFINE start == [num_params |-> 0, conf |-> Default, valid |-> {}, read |-> 0]
           one == ReadTable(Tables.gps, start, gps)
           two == ReadTable(Tables.log, one, gps)
           three == ReadTable(Tables.sap, two, sap)
           four == ReadTable(Tables.log, three, sap)
<1> USE TablesApart DEF File
<1>1. Reading(start) /\ start.conf = Default /\ Default["CAPABILITIES"] \in Int
  <2>1. Default = [p \in Names |-> Default[p]]
    BY ConfAssumption
  <2> QED  BY <2>1, ConfAssumption DEF Reading
<1> HIDE DEF start
<1>2. Keeps(Tables.gps, start, one)
  BY <1>1, ReadTableKeeps
<1>3. NamesEachOnce(gps, Tables.gps) =>
        \A p \in Tables.gps : one.conf[p] = ValueIn(gps, p, Default[p])
  BY <1>1, ReadTableTells
<1> HIDE DEF one
<1>4. Keeps(Tables.log, one, two)
  BY <1>2, ReadTableKeeps DEF Keeps
<1>5. NamesEachOnce(gps, Tables.log) =>
        \A p \in Tables.log : two.conf[p] = ValueIn(gps, p, one.conf[p])
  BY <1>2, ReadTableTells DEF Keeps
<1> HIDE DEF two
<1>6. Keeps(Tables.sap, two, three)
  BY <1>4, ReadTableKeeps DEF Keeps
<1>7. NamesEachOnce(sap, Tables.sap) =>
        \A p \in Tables.sap : /\ three.conf[p] = ValueIn(sap, p, two.conf[p])
                              /\ p \in three.valid <=> p \in Valid /\ Naming(sap, p) # {}
  BY <1>4, ReadTableTells DEF Keeps
<1> HIDE DEF three
<1>8. Keeps(Tables.log, three, four)
  BY <1>6, ReadTableKeeps DEF Keeps
<1>9. NamesEachOnce(sap, Tables.log) =>
        \A p \in Tables.log : four.conf[p] = ValueIn(sap, p, three.conf[p])
  BY <1>6, ReadTableTells DEF Keeps
<1> HIDE DEF four
<1>10. ReadConfig(gps, sap) = four
  BY DEF ReadConfig, ReadFile, start, one, two, three, four
<1>11. Reading(four) /\ four.conf["CAPABILITIES"] \in Int
  BY <1>8 DEF Keeps
<1>12. \A p \in Tables.gps : four.conf[p] = one.conf[p]
  BY <1>4, <1>6, <1>8 DEF Keeps
<1>13. \A p \in Tables.sap : /\ two.conf[p] = Default[p] /\ four.conf[p] = three.conf[p]
                             /\ p \in four.valid <=> p \in three.valid
  BY <1>1, <1>2, <1>4, <1>8 DEF Keeps
<1>14. \A p \in Tables.log : one.conf[p] = Default[p] /\ three.conf[p] = two.conf[p]
  BY <1>1, <1>2, <1>6 DEF Keeps
<1>15. NamesEachOnce(gps, Tables.gps) =>
         \A p \in Tables.gps : four.conf[p] = ValueIn(gps, p, Default[p])
  BY <1>3, <1>12
<1>16. NamesEachOnce(sap, Tables.sap) =>
         \A p \in Tables.sap : /\ four.conf[p] = ValueIn(sap, p, Default[p])
                               /\ p \in four.valid <=> p \in Valid /\ Naming(sap, p) # {}
  BY <1>7, <1>13
<1>17. NamesEachOnce(gps, Tables.log) /\ NamesEachOnce(sap, Tables.log) =>
         \A p \in Tables.log : four.conf[p] = ValueIn(sap, p, ValueIn(gps, p, Default[p]))
  BY <1>5, <1>9, <1>14
<1> QED  BY <1>10, <1>11, <1>15, <1>16, <1>17 DEF FilesTold

LEMMA UpdateTells ==
  ASSUME NEW lines, File(lines), NEW old, old = [p \in Names |-> old[p]],
         NamesEachOnce(lines, Tables.gps), NEW missing \in Tables.gps, Naming(lines, missing) = {},
         NEW p \in Tables.gps
  PROVE  UpdateTable(Tables.gps, old, lines)[p] = ValueIn(lines, p, old[p])
<1> DEFINE table == Tables.gps
           start == [num_params |-> Cardinality(table) - 1, conf |-> old,
                     valid |-> valid, read |-> 0]
           N == Named(table, lines, Len(lines))
<1> USE TablesApart DEF File
<1>1. Cardinality(table) \in Nat
  BY FS_CardinalityType
<1>2. Reading(start) /\ start.num_params = Cardinality(table) - 1 /\ start.conf = old
  BY <1>1 DEF Reading
<1>3. \A q \in table : OnlyOnce(lines, Len(lines), q)
  BY EachOnce
<1>4. Cardinality(N) <= Cardinality(table) - 1
  <2>1. N \subseteq table /\ missing \notin N
    BY DEF Named, Naming
  <2>2. IsFiniteSet(N)
    <3> HIDE DEF N
    <3> QED  BY <2>1, FS_Subset
  <2>3. Cardinality(N \cup {missing}) = Cardinality(N) + 1 /\ Cardinality(N) \in Nat
    <3> HIDE DEF N
    <3>1. Cardinality(N) \in Nat
      BY <2>2, FS_CardinalityType
    <3> QED  BY <2>1, <2>2, <3>1, FS_AddElement
  <2>4. Cardinality(N \cup {missing}) <= Cardinality(table)
    <3>1. N \cup {missing} \subseteq table
      BY <2>1
    <3> HIDE DEF N
    <3> QED  BY <3>1, FS_Subset
  <2> HIDE DEF N
  <2> QED  BY <1>1, <2>3, <2>4
<1> HIDE DEF start
<1>5. ToldFirst(table, start, lines, Len(lines), FillAll(table, start, lines))
  BY <1>2, <1>3, <1>4, FillAllTells
<1>6. FillAll(table, start, lines).conf[p] = ValueIn(lines, p, start.conf[p])
  <2>1. TellsIn(table, start, lines, FillAll(table, start, lines))
    BY <1>5, TellsValues
  <2> QED  BY <2>1 DEF TellsIn
<1> QED  BY <1>2, <1>6 DEF UpdateTable, start

-----------------------------------------------------------------------------
\* Who has the interface on a board of another kind has a target, and where that
\* has no assistance the capabilities do not say so.
ConfTyped ==
  /\ conf = [p \in Names |-> conf[p]] /\ conf["CAPABILITIES"] \in Int
  /\ device.board \in BOOLEAN
TargetKnown == handed /\ ~device.board => gTarget # Unset
ConfIInv == ConfTyped /\ TargetKnown /\ FilesCount /\ UpdatesCount /\ TargetCounts

LEMMA InputsAreFiles ==
  \A lines \in GpsFiles \cup SapFiles \cup Updates : File(lines)
  BY ConfAssumption DEF File, NumbersIn

LEMMA InitConfIInv == ConfInit => ConfIInv
<1> SUFFICES ASSUME ConfInit  PROVE ConfIInv
  OBVIOUS
<1>1. ConfTyped
  <2>1. conf = [p \in Names |-> 0] /\ device \in Devices
    BY DEF ConfInit
  <2> QED  BY <2>1, TablesApart, ConfAssumption DEF ConfTyped
<1>2. TargetKnown /\ FilesCount /\ UpdatesCount /\ TargetCounts
  BY DEF ConfInit, TargetKnown, FilesCount, UpdatesCount, TargetCounts
<1> QED  BY <1>1, <1>2 DEF ConfIInv

LEMMA TargetStays ==
  ASSUME loc_get_target, device' = device
  PROVE  /\ gTarget # Unset => gTarget' = gTarget
         /\ ~device.board => gTarget' # Unset
  BY DEF loc_get_target, DetectTarget, Unset

LEMMA UnassistedIsEven ==
  ASSUME NEW c \in Int  PROVE Unassisted(c) \in Int /\ Unassisted(c) % 2 = 0
  BY DEF Unassisted

\* The capabilities are all that changes for the target.
LEMMA GetInterfaceValues ==
  ASSUME NEW read, read.conf = [p \in Names |-> read.conf[p]], read.conf["CAPABILITIES"] \in Int,
         NEW now, now = IF gTarget' \in Standalone
                        THEN [read.conf EXCEPT !["CAPABILITIES"] = Unassisted(@)]
                        ELSE read.conf
  PROVE  /\ now = [p \in Names |-> now[p]] /\ now["CAPABILITIES"] \in Int
         /\ \A p \in Names \ {"CAPABILITIES"} : now[p] = read.conf[p]
         /\ now["CAPABILITIES"] = read.conf["CAPABILITIES"]
              \/ now["CAPABILITIES"] = Unassisted(read.conf["CAPABILITIES"])
         /\ gTarget' \in Standalone => now["CAPABILITIES"] % 2 = 0
<1>1. "CAPABILITIES" \in Names
  BY TablesApart
<1>2. CASE gTarget' \in Standalone
  <2>1. now = [read.conf EXCEPT !["CAPABILITIES"] = Unassisted(read.conf["CAPABILITIES"])]
    BY <1>2
  <2>2. \A p \in Names : now[p] = IF p = "CAPABILITIES" THEN Unassisted(read.conf["CAPABILITIES"])
                                                        ELSE read.conf[p]
    BY <2>1
  <2>3. now = [p \in Names |-> now[p]]
    BY <2>1
  <2>4. now["CAPABILITIES"] = Unassisted(read.conf["CAPABILITIES"])
    BY <1>1, <2>2
  <2>5. now["CAPABILITIES"] \in Int /\ now["CAPABILITIES"] % 2 = 0
    BY <2>4, UnassistedIsEven
  <2> QED  BY <2>2, <2>3, <2>4, <2>5
<1>3. CASE gTarget' \notin Standalone
  BY <1>3
<1> QED  BY <1>2, <1>3

LEMMA GetInterfaceIInv ==
  ASSUME ConfIInv, NEW gps \in GpsFiles, NEW sap \in SapFiles, GetInterface(gps, sap)
  PROVE  ConfIInv'
<1> DEFINE state == IF configAlreadyRead THEN [conf |-> conf, valid |-> valid]
                    ELSE ReadConfig(gps, sap)
<1>1. File(gps) /\ File(sap)
  BY InputsAreFiles
<1>2. /\ loc_get_target /\ device' = device
      /\ conf' = IF gTarget' \in Standalone
                 THEN [state.conf EXCEPT !["CAPABILITIES"] = Unassisted(@)]
                 ELSE state.conf
      /\ valid' = state.valid
      /\ taken' = IF configAlreadyRead THEN [by |-> "nothing"]
                  ELSE [by |-> "files", gps |-> gps, sap |-> sap]
  BY DEF GetInterface
<1>3. state.conf = [p \in Names |-> state.conf[p]] /\ state.conf["CAPABILITIES"] \in Int
  <2>1. CASE configAlreadyRead
    BY <2>1 DEF ConfIInv, ConfTyped
  <2>2. CASE ~configAlreadyRead
    <3>1. FilesTold(gps, sap, ReadConfig(gps, sap))
      BY <1>1, ReadConfigTells
    <3> QED  BY <2>2, <3>1 DEF FilesTold, Reading
  <2> QED  BY <2>1, <2>2
<1>4. ~configAlreadyRead => FilesTold(gps, sap, state)
  BY <1>1, ReadConfigTells
<1> HIDE DEF state
<1>5. /\ conf' = [p \in Names |-> conf'[p]] /\ conf'["CAPABILITIES"] \in Int
      /\ \A p \in Names \ {"CAPABILITIES"} : conf'[p] = state.conf[p]
      /\ conf'["CAPABILITIES"] = state.conf["CAPABILITIES"]
           \/ conf'["CAPABILITIES"] = Unassisted(state.conf["CAPABILITIES"])
      /\ gTarget' \in Standalone => conf'["CAPABILITIES"] % 2 = 0
  BY <1>2, <1>3, GetInterfaceValues
<1>6. ConfTyped'
  BY <1>2, <1>5 DEF ConfIInv, ConfTyped
<1>7. TargetKnown'
  BY <1>2, TargetStays DEF TargetKnown
<1>8. TargetCounts'
  BY <1>5 DEF TargetCounts
<1>9. CASE configAlreadyRead
  <2>1. FilesCount' /\ UpdatesCount'
    <3>1. taken'.by = "nothing"
      BY <1>2, <1>9
    <3> QED  BY <3>1 DEF FilesCount, UpdatesCount
  <2> QED  BY <1>6, <1>7, <1>8, <2>1 DEF ConfIInv
<1>10. CASE ~configAlreadyRead
  <2>1. taken'.by = "files" /\ taken'.gps = gps /\ taken'.sap = sap
    BY <1>2, <1>10
  <2>2. UpdatesCount'
    BY <2>1 DEF UpdatesCount
  <2>3. FilesTold(gps, sap, state)
    BY <1>4, <1>10
  <2>4. NamesEachOnce(gps, Tables.gps) =>
          \A p \in Tables.gps :
            \/ conf'[p] = ValueIn(gps, p, Default[p])
            \/ p = "CAPABILITIES" /\ conf'[p] = Unassisted(ValueIn(gps, p, Default[p]))
    <3>1. \A p \in Tables.gps : p \in Names
      BY TablesApart
    <3> QED  BY <1>5, <2>3, <3>1 DEF FilesTold
  <2>5. NamesEachOnce(sap, Tables.sap) =>
          \A p \in Tables.sap : /\ conf'[p] = ValueIn(sap, p, Default[p])
                                /\ p \in valid' <=> p \in Valid /\ Naming(sap, p) # {}
    <3>1. \A p \in Tables.sap : p \in Names \ {"CAPABILITIES"}
      BY TablesApart
    <3> QED  BY <1>2, <1>5, <2>3, <3>1 DEF FilesTold
  <2>6. NamesEachOnce(gps, Tables.log) /\ NamesEachOnce(sap, Tables.log) =>
          \A p \in Tables.log : conf'[p] = ValueIn(sap, p, ValueIn(gps, p, Default[p]))
    <3>1. \A p \in Tables.log : p \in Names \ {"CAPABILITIES"}
      BY TablesApart
    <3> QED  BY <1>5, <2>3, <3>1 DEF FilesTold
  <2>7. FilesCount'
    BY <2>1, <2>4, <2>5, <2>6 DEF FilesCount
  <2> QED  BY <1>6, <1>7, <1>8, <2>2, <2>7 DEF ConfIInv
<1> QED  BY <1>9, <1>10

LEMMA UpdateIInv ==
  ASSUME ConfIInv, NEW lines \in Updates, ConfigurationUpdate(lines)
  PROVE  ConfIInv'
<1> DEFINE new == UpdateTable(Tables.gps, conf, lines)
<1>1. /\ conf' = [p \in Names |-> IF p \in Updatable THEN new[p] ELSE conf[p]]
      /\ taken' = [by |-> "update", lines |-> lines, old |-> conf]
      /\ UNCHANGED <<device, gTarget, valid, handed>>
  BY DEF ConfigurationUpdate, Restored
<1>2. File(lines)
  BY InputsAreFiles
<1>3. conf = [p \in Names |-> conf[p]]
  BY DEF ConfIInv, ConfTyped
<1>4. /\ NamesEachOnce(lines, Tables.gps)
      /\ \E p \in Tables.gps : Naming(lines, p) = {}
      => \A p \in Tables.gps : new[p] = ValueIn(lines, p, conf[p])
  BY <1>2, <1>3, UpdateTells
<1> HIDE DEF new
<1>5. \A p \in Updatable : p \in Names /\ p \in Tables.gps /\ p # "CAPABILITIES"
  BY ConfAssumption DEF Names
<1>6. /\ conf' = [p \in Names |-> conf'[p]]
      /\ \A p \in Names : conf'[p] = IF p \in Updatable THEN new[p] ELSE conf[p]
  BY <1>1
<1>7. conf'["CAPABILITIES"] = conf["CAPABILITIES"]
  BY <1>5, <1>6, TablesApart
<1>8. ConfTyped' /\ TargetKnown' /\ TargetCounts'
  BY <1>1, <1>6, <1>7 DEF ConfIInv, ConfTyped, TargetKnown, TargetCounts
<1>9. taken'.by = "update" /\ taken'.lines = lines /\ taken'.old = conf
  BY <1>1
<1>10. FilesCount'
  BY <1>9 DEF FilesCount
<1>11. UpdatesCount'
  <2>1. \A p \in Names \ Updatable : conf'[p] = conf[p]
    BY <1>6
  <2>2. /\ NamesEachOnce(lines, Tables.gps)
        /\ \E p \in Tables.gps : Naming(lines, p) = {}
        => \A p \in Updatable : conf'[p] = ValueIn(lines, p, conf[p])
    BY <1>4, <1>5, <1>6
  <2> QED  BY <1>9, <2>1, <2>2 DEF UpdatesCount
<1> QED  BY <1>8, <1>10, <1>11 DEF ConfIInv

\* In the others only the target may become known.
LEMMA OthersIInv ==
  ASSUME ConfIInv, UNCHANGED <<device, conf, valid, taken, handed>>,
         gTarget # Unset => gTarget' = gTarget, ~device.board => gTarget' = gTarget \/ ~handed
  PROVE  ConfIInv'
<1>1. ConfTyped'
  BY DEF ConfIInv, ConfTyped
<1>2. TargetKnown' /\ TargetCounts'
  BY DEF ConfIInv, TargetKnown, TargetCounts
<1>3. FilesCount' /\ UpdatesCount'
  BY DEF ConfIInv, FilesCount, UpdatesCount
<1> QED  BY <1>1, <1>2, <1>3 DEF ConfIInv

LEMMA NextConfIInv == ConfIInv /\ [ConfNext]_confVars => ConfIInv'
<1> SUFFICES ASSUME ConfIInv, [ConfNext]_confVars  PROVE ConfIInv'
  OBVIOUS
<1>1. CASE UNCHANGED confVars
  BY <1>1, OthersIInv DEF confVars
<1>2. ASSUME NEW gps \in GpsFiles, NEW sap \in SapFiles, GetInterface(gps, sap)  PROVE ConfIInv'
  BY <1>2, GetInterfaceIInv
<1>3. CASE AskTarget
  <2>1. /\ loc_get_target
        /\ UNCHANGED <<device, conf, valid, taken, handed>>
    BY <1>3 DEF AskTarget
  <2>2. ~device.board => gTarget # Unset \/ ~handed
    BY DEF ConfIInv, TargetKnown
  <2> QED  BY <2>1, <2>2, TargetStays, OthersIInv
<1>4. ASSUME NEW lines \in Updates, ConfigurationUpdate(lines)  PROVE ConfIInv'
  BY <1>4, UpdateIInv
<1>5. CASE DetectionEnds
  BY <1>5, OthersIInv DEF DetectionEnds
<1> QED  BY <1>1, <1>2, <1>3, <1>4, <1>5 DEF ConfNext

\* Whatever files and updates there are, and on every device: a parameter that is
\* there once has its value wherever it stands, the log parameters go by the last
\* file, an update changes only what it may, and the capabilities go by the target.
THEOREM ConfigIsRead == ConfSpec => []ConfigCounts
<1>1. ConfIInv => ConfigCounts
  BY DEF ConfIInv, ConfigCounts
<1> QED  BY <1>1, InitConfIInv, NextConfIInv, PTL DEF ConfSpec

-----------------------------------------------------------------------------
(* The sentences: which satellites are in which of them is a recursive     *)
(* function too, over the satellites of the report.                        *)

Filling(f, svs, talker, n) ==
  f = [i \in 0..n |-> IF i = 0 THEN <<>>
                      ELSE IF svs[i] # talker THEN f[i - 1] ELSE Listed(f[i - 1], i)]

LEMMA FillingThere ==
  ASSUME NEW svs, NEW talker, NEW n \in Nat
  PROVE  \E f : Filling(f, svs, talker, n)
<1> DEFINE T == {k \in Nat : \E f : Filling(f, svs, talker, k)}
           Then(g, i) == IF svs[i] # talker THEN g ELSE Listed(g, i)
<1> HIDE DEF Listed
<1>1. 0 \in T
  <2>1. Filling([i \in 0..0 |-> <<>>], svs, talker, 0)
    BY DEF Filling
  <2> QED  BY <2>1
<1>2. ASSUME NEW k \in T  PROVE k + 1 \in T
  <2>1. PICK f : Filling(f, svs, talker, k)
    OBVIOUS
  <2> DEFINE g == [i \in 0..(k + 1) |-> IF i = k + 1 THEN Then(f[k], k + 1) ELSE f[i]]
  <2>2. ASSUME NEW i \in 0..(k + 1)
        PROVE  g[i] = IF i = 0 THEN <<>> ELSE Then(g[i - 1], i)
    <3>1. CASE i = k + 1
      <4>1. (k + 1) - 1 = k /\ k \in 0..(k + 1) /\ k # k + 1 /\ k + 1 # 0
        OBVIOUS
      <4>2. g[k] = f[k]
        BY <4>1
      <4> HIDE DEF Then
      <4> QED  BY <3>1, <4>1, <4>2
    <3>2. CASE i # k + 1
      <4>1. i \in 0..k /\ (i # 0 => i - 1 \in 0..k /\ i - 1 # k + 1)
        BY <3>2
      <4>2. f[i] = IF i = 0 THEN <<>> ELSE Then(f[i - 1], i)
        BY <2>1, <4>1 DEF Filling
      <4> HIDE DEF Then
      <4>3. i # 0 => g[i - 1] = f[i - 1]
        BY <4>1
      <4>4. g[i] = f[i]
        BY <3>2
      <4> QED  BY <4>2, <4>3, <4>4
    <3> QED  BY <3>1, <3>2
  <2>3. g = [i \in 0..(k + 1) |-> IF i = 0 THEN <<>> ELSE Then(g[i - 1], i)]
    <3>1. g = [i \in 0..(k + 1) |-> g[i]]
      OBVIOUS
    <3> HIDE DEF g, Then
    <3> QED  BY <2>2, <3>1
  <2>4. Filling(g, svs, talker, k + 1)
    <3> HIDE DEF g
    <3> QED  BY <2>3 DEF Filling
  <2> QED  BY <2>4
<1>3. T = Nat
  <2> HIDE DEF T
  <2>1. T \in SUBSET Nat
    BY DEF T
  <2> QED  BY <1>1, <1>2, <2>1, Induction
<1> QED  BY <1>3

LEMMA FilledFills ==
  ASSUME NEW svs, NEW talker, Len(svs) \in Nat
  PROVE  \E f : Filling(f, svs, talker, Len(svs)) /\ Filled(svs, talker) = f[Len(svs)]
<1> DEFINE f == CHOOSE g : Filling(g, svs, talker, Len(svs))
<1>1. Filling(f, svs, talker, Len(svs))
  BY FillingThere
<1>2. Filled(svs, talker) = f[Len(svs)]
  BY DEF Filled, Filling
<1> QED  BY <1>1, <1>2

\* One more satellite comes behind all the others: it is the last of the last
\* sentence, and the others stay where they are.
AtTheEnd(gsv, new, n) ==
  LET newest == Len(new)
  IN /\ new \in Seq(Seq(Nat))
     /\ newest # 0 /\ Len(new[newest]) # 0 /\ new[newest][Len(new[newest])] = n
     /\ \/ /\ newest = Len(gsv) + 1 /\ Len(new[newest]) = 1
           /\ Len(gsv) # 0 => Len(gsv[Len(gsv)]) = PerSentence
        \/ /\ newest = Len(gsv) /\ Len(new[newest]) = Len(gsv[newest]) + 1
           /\ Len(gsv[newest]) # PerSentence
           /\ \A i \in 1..Len(gsv[newest]) : new[newest][i] = gsv[newest][i]
     /\ \A k \in 1..(newest - 1) : new[k] = gsv[k]

LEMMA ListedLast ==
  ASSUME NEW gsv \in Seq(Seq(Nat)), NEW n \in Nat
  PROVE  AtTheEnd(gsv, Listed(gsv, n), n)
<1> SUFFICES ASSUME NEW new, new = Listed(gsv, n)
             PROVE  AtTheEnd(gsv, new, n)
  OBVIOUS
<1> DEFINE old == Len(gsv)
           newest == Len(new)
<1>1. CASE old = 0 \/ Len(gsv[old]) = PerSentence
  <2>1. new = Append(gsv, <<n>>)
    BY <1>1 DEF Listed
  <2>2. new \in Seq(Seq(Nat)) /\ Len(new) = old + 1 /\ new[old + 1] = <<n>>
        /\ \A k \in 1..old : new[k] = gsv[k]
    BY <2>1
  <2>3. old \in Nat /\ (old + 1) - 1 = old /\ Len(<<n>>) = 1 /\ <<n>>[1] = n
    OBVIOUS
  <2>4. Len(new[old + 1]) = 1 /\ new[old + 1][1] = n
    BY <2>2, <2>3
  <2>5. newest = old + 1 /\ newest # 0 /\ newest - 1 = old
    BY <2>2, <2>3
  <2>6. Len(new[newest]) = 1 /\ new[newest][Len(new[newest])] = n
    BY <2>4, <2>5
  <2>7. \A k \in 1..(newest - 1) : new[k] = gsv[k]
    BY <2>2, <2>5
  <2>8. old # 0 => Len(gsv[old]) = PerSentence
    BY <1>1
  <2>9. new \in Seq(Seq(Nat)) /\ newest = old + 1 /\ newest # 0
    BY <2>2, <2>5
  <2> QED  BY <2>6, <2>7, <2>8, <2>9 DEF AtTheEnd
<1>2. CASE old # 0 /\ Len(gsv[old]) # PerSentence
  <2>1. new = [gsv EXCEPT ![old] = Append(gsv[old], n)]
    BY <1>2 DEF Listed
  <2>2. old \in 1..Len(gsv) /\ gsv[old] \in Seq(Nat)
    BY <1>2
  <2>3. Append(gsv[old], n) \in Seq(Nat) /\ Len(Append(gsv[old], n)) = Len(gsv[old]) + 1
        /\ Append(gsv[old], n)[Len(gsv[old]) + 1] = n
        /\ \A i \in 1..Len(gsv[old]) : Append(gsv[old], n)[i] = gsv[old][i]
        /\ Len(gsv[old]) \in Nat
    BY <2>2
  <2>4. new \in Seq(Seq(Nat)) /\ Len(new) = old /\ new[old] = Append(gsv[old], n)
        /\ \A k \in 1..(old - 1) : new[k] = gsv[k]
    BY <2>1, <2>2, <2>3
  <2>5. newest = old
    BY <2>4
  <2>6. Len(new[newest]) # 0 /\ new[newest][Len(new[newest])] = n
    BY <2>3, <2>4, <2>5
  <2> QED  BY <1>2, <2>3, <2>4, <2>5, <2>6 DEF AtTheEnd
<1> QED  BY <1>1, <1>2

-----------------------------------------------------------------------------
\* The satellites of the talker among the first n, and what their sentences are.
Theirs(svs, talker, n) == {m \in 1..n : svs[m] = talker}

LenOfLast(count) == IF count % PerSentence = 0 THEN PerSentence ELSE count % PerSentence

AllFull(gsv, count) ==
  /\ gsv \in Seq(Seq(Nat))
  /\ Len(gsv) = TotalSentences(count)
  /\ \A k \in 1..Len(gsv) : Len(gsv[k]) = IF k = Len(gsv) THEN LenOfLast(count) ELSE PerSentence

InOrder(gsv) ==
  \A k, l \in 1..Len(gsv) : \A i \in 1..Len(gsv[k]), j \in 1..Len(gsv[l]) :
    k < l \/ (k = l /\ i < j) => gsv[k][i] < gsv[l][j]

ListsThese(gsv, S) ==
  /\ \A k \in 1..Len(gsv) : \A i \in 1..Len(gsv[k]) : gsv[k][i] \in S
  /\ \A m \in S : \E k \in 1..Len(gsv) : \E i \in 1..Len(gsv[k]) : gsv[k][i] = m

\* Division with remainder, one further
LEMMA DivStep ==
  ASSUME NEW c \in Nat, NEW d \in Nat \ {0}
  PROVE  /\ c \div d \in Nat /\ c % d \in 0..(d - 1)
         /\ IF c % d = d - 1
            THEN (c + 1) % d = 0 /\ (c + 1) \div d = (c \div d) + 1
            ELSE (c + 1) % d = (c % d) + 1 /\ (c + 1) \div d = c \div d
<1>1. c \div d \in Nat /\ c % d \in 0..(d - 1)
  OBVIOUS
<1>2. IF c % d = d - 1
      THEN (c + 1) % d = 0 /\ (c + 1) \div d = (c \div d) + 1
      ELSE (c + 1) % d = (c % d) + 1 /\ (c + 1) \div d = c \div d
  OBVIOUS
<1> QED  BY <1>1, <1>2

\* With one satellite more there is one more sentence if the last one is full,
\* and none otherwise.
LEMMA OneMoreSentence ==
  ASSUME NEW c \in Nat
  PROVE  /\ TotalSentences(0) = 0
         /\ TotalSentences(c) \in Nat /\ LenOfLast(c) \in 1..PerSentence
         /\ c # 0 => TotalSentences(c) # 0
         /\ c = 0 \/ LenOfLast(c) = PerSentence
              => TotalSentences(c + 1) = TotalSentences(c) + 1 /\ LenOfLast(c + 1) = 1
         /\ c # 0 /\ LenOfLast(c) # PerSentence
              => /\ TotalSentences(c + 1) = TotalSentences(c)
                 /\ LenOfLast(c + 1) = LenOfLast(c) + 1
<1> DEFINE d == PerSentence
<1>1. d \in Nat \ {0}
  BY NmeaAssumption
<1>2. 0 \div d = 0 /\ 0 % d = 0
  BY <1>1
<1>3. /\ c \div d \in Nat /\ c % d \in 0..(d - 1)
      /\ IF c % d = d - 1
         THEN (c + 1) % d = 0 /\ (c + 1) \div d = (c \div d) + 1
         ELSE (c + 1) % d = (c % d) + 1 /\ (c + 1) \div d = c \div d
  BY <1>1, DivStep
<1>4. c # 0 => c \div d # 0 \/ c % d # 0
  BY <1>1
<1>5. TotalSentences(0) = 0
  BY <1>2 DEF TotalSentences
<1>6. TotalSentences(c) \in Nat /\ LenOfLast(c) \in 1..d /\ (c # 0 => TotalSentences(c) # 0)
  BY <1>1, <1>3, <1>4 DEF TotalSentences, LenOfLast
<1>7. CASE c = 0 \/ LenOfLast(c) = d
  <2>1. c % d = 0
    BY <1>1, <1>2, <1>3, <1>7 DEF LenOfLast
  <2>2. TotalSentences(c) = c \div d
    BY <2>1, <1>3 DEF TotalSentences
  <2>3. TotalSentences(c + 1) = (c \div d) + 1 /\ LenOfLast(c + 1) = 1
    BY <1>1, <1>3, <2>1 DEF TotalSentences, LenOfLast
  <2>4. c # 0 => ~(LenOfLast(c) # PerSentence)
    BY <1>7
  <2> QED  BY <1>5, <1>6, <2>2, <2>3, <2>4
<1>8. CASE c # 0 /\ LenOfLast(c) # d
  <2>1. c % d # 0 /\ LenOfLast(c) = c % d
    BY <1>8 DEF LenOfLast
  <2>2. TotalSentences(c) = (c \div d) + 1
    BY <2>1 DEF TotalSentences
  <2>3. TotalSentences(c + 1) = (c \div d) + 1 /\ LenOfLast(c + 1) = (c % d) + 1
    BY <1>1, <1>3, <2>1 DEF TotalSentences, LenOfLast
  <2> QED  BY <1>5, <1>6, <1>8, <2>1, <2>2, <2>3
<1> QED  BY <1>7, <1>8

LEMMA StaysFull ==
  ASSUME NEW gsv, NEW c \in Nat, AllFull(gsv, c), NEW n \in Nat
  PROVE  AllFull(Listed(gsv, n), c + 1)
<1> DEFINE new == Listed(gsv, n)
           newest == Len(new)
           old == Len(gsv)
<1>1. gsv \in Seq(Seq(Nat)) /\ old = TotalSentences(c) /\ old \in Nat
      /\ \A k \in 1..old : Len(gsv[k]) = IF k = old THEN LenOfLast(c) ELSE PerSentence
  BY DEF AllFull
<1>2. /\ new \in Seq(Seq(Nat))
      /\ newest # 0 /\ newest \in Nat
      /\ \/ /\ newest = old + 1 /\ Len(new[newest]) = 1
            /\ old # 0 => Len(gsv[old]) = PerSentence
         \/ /\ newest = old /\ Len(new[newest]) = Len(gsv[newest]) + 1
            /\ Len(gsv[newest]) # PerSentence
      /\ \A k \in 1..(newest - 1) : new[k] = gsv[k]
  <2>1. AtTheEnd(gsv, new, n)
    BY <1>1, ListedLast
  <2> HIDE DEF new
  <2>2. new \in Seq(Seq(Nat)) /\ newest # 0
    BY <2>1 DEF AtTheEnd
  <2>3. newest \in Nat
    BY <2>2
  <2>4. \/ /\ newest = old + 1 /\ Len(new[newest]) = 1
           /\ old # 0 => Len(gsv[old]) = PerSentence
        \/ /\ newest = old /\ Len(new[newest]) = Len(gsv[newest]) + 1
           /\ Len(gsv[newest]) # PerSentence
    BY <2>1 DEF AtTheEnd
  <2>5. \A k \in 1..(newest - 1) : new[k] = gsv[k]
    BY <2>1 DEF AtTheEnd
  <2> QED  BY <2>2, <2>3, <2>4, <2>5
<1> HIDE DEF new
<1>3. old = 0 <=> c = 0
  BY <1>1, OneMoreSentence
<1>4. old # 0 => Len(gsv[old]) = LenOfLast(c)
  BY <1>1
<1>5. CASE newest = old + 1
  <2>1. Len(new[newest]) = 1 /\ (old # 0 => LenOfLast(c) = PerSentence)
    <3>1. newest # old
      BY <1>1, <1>5
    <3> QED  BY <1>2, <1>4, <1>5, <3>1
  <2>2. TotalSentences(c + 1) = old + 1 /\ LenOfLast(c + 1) = 1
    BY <1>1, <1>3, <2>1, OneMoreSentence
  <2>3. ASSUME NEW k \in 1..newest, k # newest  PROVE Len(new[k]) = PerSentence
    <3>1. k \in 1..old /\ k \in 1..(newest - 1)
      BY <1>1, <1>2, <1>5, <2>3
    <3>2. new[k] = gsv[k]
      BY <1>2, <3>1
    <3> QED  BY <1>1, <1>3, <2>1, <3>1, <3>2
  <2> QED  BY <1>2, <1>5, <2>1, <2>2, <2>3 DEF AllFull, new
<1>6. CASE newest = old
  <2>1. Len(new[newest]) = LenOfLast(c) + 1 /\ LenOfLast(c) # PerSentence
    <3>1. newest # old + 1
      BY <1>1, <1>6
    <3> QED  BY <1>2, <1>4, <1>6, <3>1
  <2>2. TotalSentences(c + 1) = old /\ LenOfLast(c + 1) = LenOfLast(c) + 1
    BY <1>1, <1>2, <1>3, <1>6, <2>1, OneMoreSentence
  <2>3. ASSUME NEW k \in 1..newest, k # newest  PROVE Len(new[k]) = PerSentence
    <3>1. k \in 1..old /\ k # old /\ new[k] = gsv[k]
      BY <1>1, <1>2, <1>6, <2>3
    <3> QED  BY <1>1, <3>1
  <2> QED  BY <1>2, <1>6, <2>1, <2>2, <2>3 DEF AllFull, new
<1> QED  BY <1>2, <1>5, <1>6

\* Whoever is not the last of some comes before the last; the last is one of
\* those before it if it is none but the last of one fewer.
LEMMA BeforeLast ==
  ASSUME NEW e \in Nat, NEW i \in 1..e, i # e
  PROVE  e # 1 /\ i \in 1..(e - 1)
  OBVIOUS

LEMMA LastOrBefore ==
  ASSUME NEW e \in Nat, NEW m \in Nat, e = m + 1 \/ e = m, NEW k \in 1..m, k \notin 1..(e - 1)
  PROVE  k = e /\ e = m
  OBVIOUS

LEMMA StaysInOrder ==
  ASSUME NEW gsv \in Seq(Seq(Nat)), NEW S \in SUBSET Nat, InOrder(gsv), ListsThese(gsv, S),
         NEW n \in Nat, \A m \in S : m < n
  PROVE  InOrder(Listed(gsv, n)) /\ ListsThese(Listed(gsv, n), S \cup {n})
<1> DEFINE new == Listed(gsv, n)
           newest == Len(new)
           end == Len(new[newest])
<1>1. /\ new \in Seq(Seq(Nat))
      /\ newest # 0 /\ end # 0 /\ new[newest][end] = n
      /\ \/ newest = Len(gsv) + 1 /\ end = 1
         \/ /\ newest = Len(gsv) /\ end = Len(gsv[newest]) + 1
            /\ \A i \in 1..Len(gsv[newest]) : new[newest][i] = gsv[newest][i]
      /\ \A k \in 1..(newest - 1) : new[k] = gsv[k]
  <2>1. AtTheEnd(gsv, new, n)
    BY ListedLast
  <2> HIDE DEF new
  <2>2. /\ new \in Seq(Seq(Nat))
        /\ newest # 0 /\ end # 0 /\ new[newest][end] = n
    BY <2>1 DEF AtTheEnd
  <2>3. \/ newest = Len(gsv) + 1 /\ end = 1
        \/ /\ newest = Len(gsv) /\ end = Len(gsv[newest]) + 1
           /\ \A i \in 1..Len(gsv[newest]) : new[newest][i] = gsv[newest][i]
    BY <2>1 DEF AtTheEnd
  <2>4. \A k \in 1..(newest - 1) : new[k] = gsv[k]
    BY <2>1 DEF AtTheEnd
  <2> QED  BY <2>2, <2>3, <2>4
<1> HIDE DEF new
<1>2. newest \in Nat /\ Len(gsv) \in Nat /\ new[newest] \in Seq(Nat)
  BY <1>1
<1>3. end \in Nat /\ (newest = Len(gsv) + 1 \/ newest = Len(gsv))
  BY <1>1, <1>2
<1>4. ASSUME NEW k \in 1..newest, NEW i \in 1..Len(new[k]), k # newest \/ i # end
      PROVE  k \in 1..Len(gsv) /\ i \in 1..Len(gsv[k]) /\ new[k][i] = gsv[k][i]
  <2>1. CASE k # newest
    <3>1. k \in 1..(newest - 1) /\ k \in 1..Len(gsv)
      <4> HIDE DEF newest
      <4> QED  BY <1>2, <1>3, <2>1
    <3> QED  BY <1>1, <3>1
  <2>2. CASE k = newest
    <3>1. i \in 1..end /\ i # end
      BY <1>4, <2>2
    <3>2. end # 1 /\ i \in 1..(end - 1)
      <4> HIDE DEF end
      <4> QED  BY <1>3, <3>1, BeforeLast
    <3>3. newest = Len(gsv) /\ end = Len(gsv[newest]) + 1
          /\ \A j \in 1..Len(gsv[newest]) : new[newest][j] = gsv[newest][j]
      BY <1>1, <3>2
    <3>4. gsv[newest] \in Seq(Nat)
      <4>1. newest \in 1..Len(gsv)
        BY <2>2, <3>3
      <4> QED  BY <4>1
    <3>5. Len(gsv[newest]) \in Nat
      BY <3>4
    <3>6. i \in 1..Len(gsv[newest])
      BY <3>2, <3>3, <3>5
    <3> QED  BY <2>2, <3>3, <3>6
  <2> QED  BY <2>1, <2>2
<1>5. ASSUME NEW k \in 1..Len(gsv), NEW i \in 1..Len(gsv[k])
      PROVE  k \in 1..newest /\ i \in 1..Len(new[k]) /\ new[k][i] = gsv[k][i]
  <2>1. CASE k \in 1..(newest - 1)
    <3>1. new[k] = gsv[k]
      BY <1>1, <2>1
    <3>2. k \in 1..newest
      BY <1>2, <2>1
    <3> QED  BY <3>1, <3>2
  <2>2. CASE k \notin 1..(newest - 1)
    <3>1. k = newest /\ newest = Len(gsv)
      <4> HIDE DEF newest
      <4> QED  BY <1>2, <1>3, <2>2, LastOrBefore
    <3>2. end = Len(gsv[newest]) + 1 /\ new[newest][i] = gsv[newest][i]
      BY <1>1, <1>2, <3>1
    <3>3. Len(gsv[newest]) \in Nat
      BY <3>1
    <3> QED  BY <1>2, <3>1, <3>2, <3>3
  <2> QED  BY <2>1, <2>2
<1>6. \A k \in 1..Len(gsv) : \A i \in 1..Len(gsv[k]) : gsv[k][i] \in S /\ gsv[k][i] < n
  BY DEF ListsThese
<1>7. InOrder(new)
  <2> SUFFICES ASSUME NEW k \in 1..newest, NEW l \in 1..newest,
                      NEW i \in 1..Len(new[k]), NEW j \in 1..Len(new[l]),
                      k < l \/ (k = l /\ i < j)
               PROVE  new[k][i] < new[l][j]
    BY DEF InOrder
  <2>1. k # newest \/ i # end
    <3> SUFFICES ASSUME k = newest, i = end  PROVE FALSE
      OBVIOUS
    <3>1. k = l /\ i < j
      <4>1. ~(newest < l)
        BY <1>2
      <4> QED  BY <4>1
    <3>2. j \in 1..end
      BY <3>1
    <3> HIDE DEF end
    <3> QED  BY <1>3, <3>1, <3>2
  <2>2. k \in 1..Len(gsv) /\ i \in 1..Len(gsv[k]) /\ new[k][i] = gsv[k][i]
    BY <1>4, <2>1
  <2>3. CASE l = newest /\ j = end
    BY <1>1, <1>6, <2>2, <2>3
  <2>4. CASE l # newest \/ j # end
    <3>1. l \in 1..Len(gsv) /\ j \in 1..Len(gsv[l]) /\ new[l][j] = gsv[l][j]
      BY <1>4, <2>4
    <3>2. gsv[k][i] < gsv[l][j]
      BY <2>2, <3>1 DEF InOrder
    <3> QED  BY <2>2, <3>1, <3>2
  <2> QED  BY <2>3, <2>4
<1>8. ListsThese(new, S \cup {n})
  <2>1. ASSUME NEW k \in 1..newest, NEW i \in 1..Len(new[k])  PROVE new[k][i] \in S \cup {n}
    <3>1. CASE k = newest /\ i = end
      BY <1>1, <3>1
    <3>2. CASE k # newest \/ i # end
      BY <1>4, <1>6, <3>2
    <3> QED  BY <3>1, <3>2
  <2>2. ASSUME NEW m \in S \cup {n}
        PROVE  \E k \in 1..newest : \E i \in 1..Len(new[k]) : new[k][i] = m
    <3>1. CASE m = n
      <4>1. newest \in 1..newest /\ end \in 1..end
        BY <1>1, <1>2, <1>3
      <4> QED  BY <1>1, <3>1, <4>1
    <3>2. CASE m \in S
      <4>1. PICK k \in 1..Len(gsv) : \E i \in 1..Len(gsv[k]) : gsv[k][i] = m
        BY <3>2 DEF ListsThese
      <4>2. PICK i \in 1..Len(gsv[k]) : gsv[k][i] = m
        BY <4>1
      <4> QED  BY <1>5, <4>2
    <3> QED  BY <3>1, <3>2
  <2> QED  BY <2>1, <2>2 DEF ListsThese
<1> QED  BY <1>7, <1>8 DEF new

-----------------------------------------------------------------------------
\* What is in the sentences after the first n satellites of the report.
FilledWith(svs, talker, n, gsv) ==
  /\ AllFull(gsv, Cardinality(Theirs(svs, talker, n)))
  /\ InOrder(gsv)
  /\ ListsThese(gsv, Theirs(svs, talker, n))

LEMMA TheirsGrow ==
  ASSUME NEW svs, NEW talker, NEW n \in Nat
  PROVE  /\ IsFiniteSet(Theirs(svs, talker, n))
         /\ Cardinality(Theirs(svs, talker, n)) \in Nat
         /\ svs[n + 1] # talker => Theirs(svs, talker, n + 1) = Theirs(svs, talker, n)
         /\ svs[n + 1] = talker =>
              /\ Theirs(svs, talker, n + 1) = Theirs(svs, talker, n) \cup {n + 1}
              /\ Cardinality(Theirs(svs, talker, n + 1))
                   = Cardinality(Theirs(svs, talker, n)) + 1
<1>1. IsFiniteSet(1..n)
  BY FS_Interval
<1>2. Theirs(svs, talker, n) \subseteq 1..n
  BY DEF Theirs
<1>3. IsFiniteSet(Theirs(svs, talker, n))
  BY <1>1, <1>2, FS_Subset
<1>4. Cardinality(Theirs(svs, talker, n)) \in Nat
  BY <1>3, FS_CardinalityType
<1>5. 1..(n + 1) = 1..n \cup {n + 1} /\ n + 1 \notin 1..n
  OBVIOUS
<1>6. svs[n + 1] # talker => Theirs(svs, talker, n + 1) = Theirs(svs, talker, n)
  BY <1>5 DEF Theirs
<1>7. svs[n + 1] = talker => Theirs(svs, talker, n + 1) = Theirs(svs, talker, n) \cup {n + 1}
  BY <1>5 DEF Theirs
<1>8. n + 1 \notin Theirs(svs, talker, n)
  BY <1>2, <1>5
<1>9. svs[n + 1] = talker => Cardinality(Theirs(svs, talker, n + 1))
                               = Cardinality(Theirs(svs, talker, n)) + 1
  BY <1>3, <1>7, <1>8, FS_AddElement
<1> QED  BY <1>3, <1>4, <1>6, <1>7, <1>9

LEMMA NoneFilled ==
  ASSUME NEW svs, NEW talker
  PROVE  FilledWith(svs, talker, 0, <<>>)
<1>1. Theirs(svs, talker, 0) = {}
  BY DEF Theirs
<1>2. Cardinality(Theirs(svs, talker, 0)) = 0
  BY <1>1, FS_EmptySet
<1>3. AllFull(<<>>, 0)
  BY OneMoreSentence DEF AllFull
<1>4. InOrder(<<>>) /\ ListsThese(<<>>, {})
  BY DEF InOrder, ListsThese
<1> QED  BY <1>1, <1>2, <1>3, <1>4 DEF FilledWith

LEMMA FilledStep ==
  ASSUME NEW svs, NEW talker, NEW n \in Nat, NEW gsv, FilledWith(svs, talker, n, gsv),
         NEW new, new = IF svs[n + 1] # talker THEN gsv ELSE Listed(gsv, n + 1)
  PROVE  FilledWith(svs, talker, n + 1, new)
<1> DEFINE S == Theirs(svs, talker, n)
           c == Cardinality(S)
<1>1. CASE svs[n + 1] # talker
  <2>1. Theirs(svs, talker, n + 1) = S /\ new = gsv
    BY <1>1, TheirsGrow
  <2> QED  BY <2>1 DEF FilledWith
<1>2. CASE svs[n + 1] = talker
  <2>1. Theirs(svs, talker, n + 1) = S \cup {n + 1} /\ c \in Nat
        /\ Cardinality(Theirs(svs, talker, n + 1)) = c + 1
    BY <1>2, TheirsGrow
  <2>2. new = Listed(gsv, n + 1) /\ n + 1 \in Nat
    BY <1>2
  <2>3. AllFull(gsv, c) /\ InOrder(gsv) /\ ListsThese(gsv, S)
    BY DEF FilledWith
  <2>4. gsv \in Seq(Seq(Nat)) /\ S \in SUBSET Nat /\ \A m \in S : m < n + 1
    BY <2>3 DEF AllFull, Theirs
  <2> HIDE DEF S, c
  <2>5. AllFull(new, c + 1)
    BY <2>1, <2>2, <2>3, StaysFull
  <2>6. InOrder(new) /\ ListsThese(new, S \cup {n + 1})
    BY <2>2, <2>3, <2>4, StaysInOrder
  <2> QED  BY <2>1, <2>5, <2>6 DEF FilledWith
<1> QED  BY <1>1, <1>2

LEMMA FilledIs ==
  ASSUME NEW svs, NEW talker, Len(svs) \in Nat
  PROVE  FilledWith(svs, talker, Len(svs), Filled(svs, talker))
<1> DEFINE n == Len(svs)
<1>1. PICK f : Filling(f, svs, talker, n) /\ Filled(svs, talker) = f[n]
  BY FilledFills
<1> DEFINE T == {k \in Nat : k <= n => FilledWith(svs, talker, k, f[k])}
<1>2. 0 \in T
  <2>1. f[0] = <<>>
    BY <1>1 DEF Filling
  <2> QED  BY <2>1, NoneFilled
<1>3. ASSUME NEW k \in T  PROVE k + 1 \in T
  <2>0. k \in Nat /\ k + 1 \in Nat /\ (k + 1) - 1 = k /\ k + 1 # 0
    OBVIOUS
  <2> SUFFICES ASSUME k + 1 <= n  PROVE FilledWith(svs, talker, k + 1, f[k + 1])
    BY <2>0
  <2>1. FilledWith(svs, talker, k, f[k])
    BY <2>0
  <2>2. k + 1 \in 0..n
    BY <2>0
  <2>3. f[k + 1] = IF svs[k + 1] # talker THEN f[k] ELSE Listed(f[k], k + 1)
    BY <1>1, <2>0, <2>2 DEF Filling
  <2> HIDE DEF T, n
  <2> QED  BY <2>0, <2>1, <2>3, FilledStep
<1>4. T = Nat
  <2>1. T \in SUBSET Nat
    OBVIOUS
  <2> HIDE DEF T
  <2> QED  BY <1>2, <1>3, <2>1, Induction
<1> QED  BY <1>1, <1>4

-----------------------------------------------------------------------------
\* The sentences of one talker, as GsvIsComplete has them
GsvOf(gsv, svs, talker) ==
  /\ Len(gsv) \in Nat \ {0} /\ gsv \in [1..Len(gsv) -> {gsv[k] : k \in 1..Len(gsv)}]
  /\ Lists(svs, [k \in 1..Len(gsv) |-> gsv[k].listed], talker)
  /\ \A k \in 1..Len(gsv) :
       /\ gsv[k].type = "GSV" /\ gsv[k].talker = talker
       /\ gsv[k].number = k /\ gsv[k].of = Len(gsv)
       /\ gsv[k].total = InView(svs, talker)
       /\ Len(gsv[k].listed) \in (IF gsv[k].total = 0 THEN {0} ELSE 1..PerSentence)

LEMMA InViewIs ==
  ASSUME NEW svs, NEW talker, Len(svs) \in Nat
  PROVE  /\ InView(svs, talker) = Cardinality(Theirs(svs, talker, Len(svs)))
         /\ InView(svs, talker) \in Nat
         /\ InView(svs, talker) = 0 => \A n \in 1..Len(svs) : svs[n] # talker
<1> DEFINE S == Theirs(svs, talker, Len(svs))
<1>1. InView(svs, talker) = Cardinality(S)
  BY DEF InView, Theirs
<1>2. IsFiniteSet(S) /\ Cardinality(S) \in Nat
  BY TheirsGrow
<1>3. Cardinality(S) = 0 => S = {}
  <2> HIDE DEF S
  <2> QED  BY <1>2, FS_EmptySet
<1> QED  BY <1>1, <1>2, <1>3 DEF Theirs

LEMMA BlankGsvIs ==
  ASSUME NEW svs, NEW talker, svs \in Seq({"GP", "GL", "other"}), InView(svs, talker) = 0
  PROVE  GsvOf(<<BlankGsv(talker)>>, svs, talker)
<1> DEFINE gsv == <<BlankGsv(talker)>>
           listed == [k \in 1..Len(gsv) |-> gsv[k].listed]
<1>1. Len(gsv) = 1 /\ gsv[1] = BlankGsv(talker) /\ 1..Len(gsv) = {1}
  OBVIOUS
<1>2. gsv[1].type = "GSV" /\ gsv[1].talker = talker /\ gsv[1].number = 1 /\ gsv[1].of = 1
      /\ gsv[1].total = 0 /\ gsv[1].listed = <<>>
  BY <1>1 DEF BlankGsv
<1>3. gsv \in [1..Len(gsv) -> {gsv[k] : k \in 1..Len(gsv)}]
  OBVIOUS
<1>4. DOMAIN listed = {1} /\ listed[1] = <<>> /\ DOMAIN listed[1] = {} /\ DOMAIN svs = 1..Len(svs)
  <2> HIDE DEF gsv
  <2> QED  BY <1>1, <1>2
<1>5. \A n \in DOMAIN svs : svs[n] # talker
  BY <1>4, InViewIs
<1> HIDE DEF gsv, listed
<1>6. Lists(svs, listed, talker)
  BY <1>4, <1>5 DEF Lists
<1>7. Len(<<>>) = 0
  OBVIOUS
<1> QED  BY <1>1, <1>2, <1>3, <1>6, <1>7 DEF GsvOf, gsv, listed

LEMMA FilledGsvIs ==
  ASSUME NEW svs, NEW talker, svs \in Seq({"GP", "GL", "other"}), InView(svs, talker) # 0
  PROVE  GsvOf(Gsv(svs, talker), svs, talker)
<1> DEFINE gsv == Gsv(svs, talker)
           filled == Filled(svs, talker)
           total == InView(svs, talker)
           count == TotalSentences(total)
           S == Theirs(svs, talker, Len(svs))
<1>1. total \in Nat \ {0} /\ total = Cardinality(S) /\ Len(svs) \in Nat
  BY InViewIs
<1>2. AllFull(filled, total) /\ InOrder(filled) /\ ListsThese(filled, S)
  BY <1>1, FilledIs DEF FilledWith
<1>3. count \in Nat \ {0} /\ LenOfLast(total) \in 1..PerSentence /\ PerSentence \in Nat
  <2> HIDE DEF total
  <2> QED  BY <1>1, OneMoreSentence, NmeaAssumption
<1>4. filled \in Seq(Seq(Nat)) /\ Len(filled) = count
      /\ \A k \in 1..count : Len(filled[k]) = IF k = count THEN LenOfLast(total) ELSE PerSentence
  BY <1>2 DEF AllFull
<1>5. gsv = [k \in 1..count |-> GsvSentence(svs, talker, k)]
  BY DEF Gsv
<1> HIDE DEF gsv, filled, total, count, S
<1>6. Len(gsv) = count
  BY <1>3, <1>5
<1>7. ASSUME NEW k \in 1..count
      PROVE  /\ gsv[k].type = "GSV" /\ gsv[k].talker = talker
             /\ gsv[k].number = k /\ gsv[k].of = count
             /\ gsv[k].total = total /\ gsv[k].listed = filled[k]
  <2>1. gsv[k] = GsvSentence(svs, talker, k)
    BY <1>5
  <2>2. k <= Len(filled)
    BY <1>3, <1>4
  <2> QED  BY <2>1, <2>2 DEF GsvSentence, filled, total, count
<1>8. ASSUME NEW k \in 1..count
      PROVE  /\ filled[k] \in Seq(Nat) /\ DOMAIN filled[k] = 1..Len(filled[k])
             /\ Len(filled[k]) \in 1..PerSentence /\ (k # count => Len(filled[k]) = PerSentence)
  BY <1>3, <1>4, NmeaAssumption
<1>9. Lists(svs, filled, talker)
  <2>1. DOMAIN filled = 1..count /\ DOMAIN svs = 1..Len(svs)
    BY <1>4
  <2>2. \A n \in 1..Len(svs) : n \in S <=> svs[n] = talker
    BY DEF S, Theirs
  <2>3. S \subseteq 1..Len(svs)
    BY DEF S, Theirs
  <2>4. \A k \in 1..count : \A i \in DOMAIN filled[k] : filled[k][i] \in S
    BY <1>2, <1>4, <1>8 DEF ListsThese
  <2>5. \A n \in S : \E k \in 1..count : \E i \in DOMAIN filled[k] : filled[k][i] = n
    BY <1>2, <1>4, <1>8 DEF ListsThese
  <2>6. \A k, l \in 1..count : \A i \in DOMAIN filled[k], j \in DOMAIN filled[l] :
          k < l \/ (k = l /\ i < j) => filled[k][i] < filled[l][j]
    <3>1. \A k, l \in 1..count : \A i \in 1..Len(filled[k]), j \in 1..Len(filled[l]) :
            k < l \/ (k = l /\ i < j) => filled[k][i] < filled[l][j]
      BY <1>2, <1>4 DEF InOrder
    <3> QED  BY <1>8, <3>1
  <2>7. \A k, l \in 1..count : k < l => Len(filled[k]) = PerSentence
    BY <1>3, <1>8
  <2>8. \A k \in DOMAIN filled : \A i \in DOMAIN filled[k] :
          filled[k][i] \in DOMAIN svs /\ svs[filled[k][i]] = talker
    BY <2>1, <2>2, <2>3, <2>4
  <2>9. \A n \in DOMAIN svs : svs[n] = talker =>
          \E k \in DOMAIN filled : \E i \in DOMAIN filled[k] : filled[k][i] = n
    BY <2>1, <2>2, <2>5
  <2> QED  BY <2>1, <2>6, <2>7, <2>8, <2>9 DEF Lists
<1>10. [k \in 1..count |-> gsv[k].listed] = filled
  <2>1. filled = [k \in 1..count |-> filled[k]]
    BY <1>4
  <2> QED  BY <1>7, <2>1
<1>11. gsv \in [1..count -> {gsv[k] : k \in 1..count}]
  BY <1>5
<1> QED  BY <1>1, <1>3, <1>6, <1>7, <1>8, <1>9, <1>10, <1>11 DEF GsvOf, total, gsv

LEMMA GsvIs ==
  ASSUME NEW svs, NEW talker, svs \in Seq({"GP", "GL", "other"})
  PROVE  GsvOf(Gsv(svs, talker), svs, talker)
<1>1. CASE InView(svs, talker) = 0
  BY <1>1, BlankGsvIs DEF Gsv
<1>2. CASE InView(svs, talker) # 0
  BY <1>2, FilledGsvIs
<1> QED  BY <1>1, <1>2

-----------------------------------------------------------------------------
\* Of the satellites a fix may still use, none was used; they and the geometry
\* that is kept are of reports that there were, and of the same one.
NmeaTyped ==
  /\ reports \in 0..MaxReports
  /\ uses \in [1..MaxReports -> Nat]
  /\ sv_used_mask = [report |-> sv_used_mask.report, count |-> sv_used_mask.count]
  /\ sv_used_mask.report \in 0..reports /\ dop \in 0..reports

Unused ==
  /\ \A r \in 1..MaxReports : uses[r] <= 1
  /\ \A r \in 1..MaxReports : r > reports => uses[r] = 0
  /\ sv_used_mask.report # 0 => uses[sv_used_mask.report] = 0

SameReport == sv_used_mask.report # 0 /\ dop # 0 => dop = sv_used_mask.report

NmeaIInv == NmeaTyped /\ Unused /\ SameReport /\ SentencesAgree

\* Sentences that are not about satellites, or are about all of them.
LEMMA NoGsv ==
  ASSUME \A i \in 1..Len(sent') : sent'[i].type # "GSV"
  PROVE  GsvIsComplete'
  BY DEF GsvIsComplete, Talking, Sent

LEMMA InitNmeaIInv == NmeaInit => NmeaIInv
<1> SUFFICES ASSUME NmeaInit  PROVE NmeaIInv
  OBVIOUS
<1>1. NmeaTyped /\ Unused /\ SameReport
  BY NmeaAssumption DEF NmeaInit, NmeaTyped, Unused, SameReport, NoneUsed
<1>2. 1..Len(sent) = {} /\ \A r \in 1..MaxReports : uses[r] = 0
  BY DEF NmeaInit
<1>3. SatellitesUsedOnce
  BY <1>2 DEF SatellitesUsedOnce, Sent
<1>4. GsvIsComplete
  BY <1>2 DEF GsvIsComplete, Talking, Sent
<1> QED  BY <1>1, <1>3, <1>4 DEF NmeaIInv, SentencesAgree

\* The sentences of both systems, one behind the other.
LEMMA BothComplete ==
  ASSUME NEW svs, NEW gp, NEW gl, GsvOf(gp, svs, "GP"), GsvOf(gl, svs, "GL"),
         view' = svs, sent' = gp \o gl
  PROVE  GsvIsComplete' /\ \A i \in 1..Len(sent') : sent'[i].type # "GSA"
<1> DEFINE m == Len(gp)
           n == Len(gl)
           S == {gp[k] : k \in 1..m} \cup {gl[k] : k \in 1..n}
<1>1. m \in Nat \ {0} /\ n \in Nat \ {0}
      /\ gp \in [1..m -> {gp[k] : k \in 1..m}] /\ gl \in [1..n -> {gl[k] : k \in 1..n}]
  BY DEF GsvOf
<1>2. gp \in Seq(S) /\ gl \in Seq(S)
  <2>1. gp \in [1..m -> S] /\ gl \in [1..n -> S]
    BY <1>1
  <2>2. m \in Nat /\ n \in Nat
    BY <1>1
  <2> HIDE DEF S, m, n
  <2>3. gp \in Seq(S)
    BY <2>1, <2>2
  <2>4. gl \in Seq(S)
    BY <2>1, <2>2
  <2> QED  BY <2>3, <2>4
<1>3. /\ Len(sent') = m + n
      /\ \A i \in 1..(m + n) : sent'[i] = IF i <= m THEN gp[i] ELSE gl[i - m]
  <2> HIDE DEF S
  <2> QED  BY <1>2, ConcatProperties
<1> HIDE DEF m, n, S
<1>4. /\ \A k \in 1..m : sent'[k] = gp[k] /\ k \in 1..(m + n)
      /\ \A k \in 1..n : sent'[m + k] = gl[k] /\ m + k \in 1..(m + n)
  <2>1. ASSUME NEW k \in 1..m  PROVE sent'[k] = gp[k] /\ k \in 1..(m + n)
    <3>1. k \in 1..(m + n) /\ k <= m
      BY <1>1
    <3> QED  BY <1>3, <3>1
  <2>2. ASSUME NEW k \in 1..n  PROVE sent'[m + k] = gl[k] /\ m + k \in 1..(m + n)
    <3>1. m + k \in 1..(m + n) /\ ~(m + k <= m) /\ (m + k) - m = k
      <4>1. m \in Nat /\ n \in Nat
        BY <1>1
      <4> QED  BY <4>1
    <3> QED  BY <1>3, <3>1
  <2> QED  BY <2>1, <2>2
<1>5. /\ \A k \in 1..m : gp[k].type = "GSV" /\ gp[k].talker = "GP"
      /\ \A k \in 1..n : gl[k].type = "GSV" /\ gl[k].talker = "GL"
  BY DEF GsvOf, m, n
<1>6. \A i \in 1..(m + n) : sent'[i].type = "GSV"
                            /\ sent'[i].talker = IF i <= m THEN "GP" ELSE "GL"
  <2> SUFFICES ASSUME NEW i \in 1..(m + n)
               PROVE  sent'[i].type = "GSV" /\ sent'[i].talker = IF i <= m THEN "GP" ELSE "GL"
    OBVIOUS
  <2>1. CASE i <= m
    BY <1>1, <1>3, <1>5, <2>1
  <2>2. CASE ~(i <= m)
    <3>1. i - m \in 1..n
      BY <1>1, <2>2
    <3> QED  BY <1>3, <1>5, <2>2, <3>1
  <2> QED  BY <2>1, <2>2
<1>7. Talking("GP")' = 1..m /\ Talking("GL")' = (m + 1)..(m + n)
  <2>1. Sent("GSV")' = 1..(m + n)
    BY <1>3, <1>6 DEF Sent
  <2>2. Talking("GP")' = {i \in 1..(m + n) : i <= m}
    BY <1>6, <2>1 DEF Talking
  <2>3. Talking("GL")' = {i \in 1..(m + n) : ~(i <= m)}
    BY <1>6, <2>1 DEF Talking
  <2>4. {i \in 1..(m + n) : i <= m} = 1..m
    BY <1>1
  <2>5. {i \in 1..(m + n) : ~(i <= m)} = (m + 1)..(m + n)
    BY <1>1
  <2> QED  BY <2>2, <2>3, <2>4, <2>5
<1>8. ASSUME NEW gsv, NEW talker, GsvOf(gsv, svs, talker),
             NEW before \in Nat, NEW count \in Nat, count = Len(gsv),
             Talking(talker)' = (before + 1)..(before + count),
             \A k \in 1..count : sent'[before + k] = gsv[k]
      PROVE  Block(talker, before, count)'
  <2>1. [k \in 1..count |-> sent'[before + k].listed] = [k \in 1..count |-> gsv[k].listed]
    BY <1>8
  <2>2. Lists(view', [k \in 1..count |-> sent'[before + k].listed], talker)
    BY <1>8, <2>1 DEF GsvOf
  <2>3. ASSUME NEW k \in 1..count
        PROVE  /\ sent'[before + k].number = k /\ sent'[before + k].of = count
               /\ sent'[before + k].total = InView(view', talker)
               /\ Len(sent'[before + k].listed)
                    \in (IF sent'[before + k].total = 0 THEN {0} ELSE 1..PerSentence)
    <3>1. sent'[before + k] = gsv[k]
      BY <1>8
    <3>2. /\ gsv[k].number = k /\ gsv[k].of = count /\ gsv[k].total = InView(svs, talker)
          /\ Len(gsv[k].listed) \in (IF gsv[k].total = 0 THEN {0} ELSE 1..PerSentence)
      BY <1>8 DEF GsvOf
    <3> QED  BY <3>1, <3>2
  <2> QED  BY <1>8, <2>2, <2>3 DEF Block
<1>9. 0 \in 0..Len(sent') /\ m \in 1..Len(sent') /\ m \in 0..Len(sent') /\ n \in 1..Len(sent')
      /\ 0 \in Nat /\ m \in Nat /\ n \in Nat
  BY <1>1, <1>3
<1>10. Block("GP", 0, m)'
  <2>1. \A k \in 1..m : sent'[0 + k] = gp[k]
    <3>1. \A k \in 1..m : 0 + k = k
      BY <1>9
    <3> QED  BY <1>4, <3>1
  <2>2. Talking("GP")' = (0 + 1)..(0 + m)
    BY <1>7, <1>9
  <2> QED  BY <1>8, <1>9, <2>1, <2>2 DEF m
<1>11. Block("GL", m, n)'
  <2>1. \A k \in 1..n : sent'[m + k] = gl[k]
    BY <1>4
  <2> QED  BY <1>7, <1>8, <1>9, <2>1 DEF n
<1>12. GsvIsComplete'
  BY <1>9, <1>10, <1>11 DEF GsvIsComplete
<1> QED  BY <1>3, <1>6, <1>12

\* A fix of its own data, or of those that were kept and of no other report.
LEMMA PosSentences ==
  ASSUME NmeaIInv, NEW position \in Positions, NEW final \in BOOLEAN,
         GeneratePos(position, final)
  PROVE  /\ GsvIsComplete'
         /\ \A i \in 1..Len(sent') : sent'[i].type = "GSA" =>
              \/ sent'[i].used.report = 0
              \/ sent'[i].dop = OwnDop
              \/ sent'[i].used = sv_used_mask /\ sent'[i].dop = dop
<1>1. CASE final
  <2>1. sent' = <<Gsa(position), Vtg(position), Rmc(position), Gga(position)>>
    BY <1>1 DEF GeneratePos
  <2>2. Len(sent') = 4 /\ sent'[1] = Gsa(position) /\ sent'[2] = Vtg(position)
        /\ sent'[3] = Rmc(position) /\ sent'[4] = Gga(position)
    BY <2>1
  <2>3. Gsa(position).type = "GSA" /\ Gsa(position).used = sv_used_mask
        /\ (Gsa(position).dop = dop \/ Gsa(position).dop = OwnDop)
    BY DEF Gsa, DopOf
  <2>4. Vtg(position).type = "VTG" /\ Rmc(position).type = "RMC" /\ Gga(position).type = "GGA"
    BY DEF Vtg, Rmc, Gga
  <2>5. \A i \in 1..Len(sent') : i = 1 \/ i = 2 \/ i = 3 \/ i = 4
    BY <2>2
  <2>6. \A i \in 1..Len(sent') : sent'[i].type # "GSV"
    BY <2>2, <2>3, <2>4, <2>5
  <2>7. \A i \in 1..Len(sent') : sent'[i].type = "GSA" => i = 1
    BY <2>2, <2>4, <2>5
  <2> QED  BY <2>2, <2>3, <2>6, <2>7, NoGsv
<1>2. CASE ~final
  <2>1. sent' = Blank
    BY <1>2 DEF GeneratePos
  <2>2. Len(sent') = 4 /\ sent'[1].type = "GSA" /\ sent'[1].used.report = 0
        /\ sent'[2].type = "VTG" /\ sent'[3].type = "RMC" /\ sent'[4].type = "GGA"
    BY <2>1 DEF Blank, NoneUsed
  <2>3. \A i \in 1..Len(sent') : i = 1 \/ i = 2 \/ i = 3 \/ i = 4
    BY <2>2
  <2>4. \A i \in 1..Len(sent') : sent'[i].type # "GSV"
    BY <2>2, <2>3
  <2>5. \A i \in 1..Len(sent') : sent'[i].type = "GSA" => i = 1
    BY <2>2, <2>3
  <2> QED  BY <2>2, <2>4, <2>5, NoGsv
<1> QED  BY <1>1, <1>2

LEMMA GeneratePosIInv ==
  ASSUME NmeaIInv, NEW position \in Positions, NEW final \in BOOLEAN,
         GeneratePos(position, final), reports' = reports
  PROVE  NmeaIInv'
<1> DEFINE mask == sv_used_mask.report
<1>1. /\ reports \in 0..MaxReports /\ MaxReports \in Nat
      /\ uses \in [1..MaxReports -> Nat]
      /\ sv_used_mask = [report |-> mask, count |-> sv_used_mask.count]
      /\ mask \in 0..reports /\ dop \in 0..reports
      /\ \A r \in 1..MaxReports : uses[r] <= 1
      /\ \A r \in 1..MaxReports : r > reports => uses[r] = 0
      /\ mask # 0 => uses[mask] = 0 /\ mask \in 1..MaxReports
      /\ mask # 0 /\ dop # 0 => dop = mask
  BY NmeaAssumption DEF NmeaIInv, NmeaTyped, Unused, SameReport
<1>2. /\ dop' = 0 /\ reports' = reports
      /\ \/ sv_used_mask' = NoneUsed /\ uses' = IF mask = 0 THEN uses ELSE [uses EXCEPT ![mask] = @ + 1]
         \/ UNCHANGED <<sv_used_mask, uses>>
  BY DEF GeneratePos, ForgetUsed
<1>3. /\ sv_used_mask' = [report |-> sv_used_mask'.report, count |-> sv_used_mask'.count]
      /\ sv_used_mask'.report \in {0, mask}
  BY <1>1, <1>2 DEF NoneUsed
<1> HIDE DEF mask
<1>4. \A r \in 1..MaxReports :
        \/ uses'[r] = uses[r]
        \/ r = mask /\ mask # 0 /\ uses'[r] = uses[r] + 1 /\ sv_used_mask'.report = 0
  BY <1>1, <1>2 DEF NoneUsed
<1>5. uses' \in [1..MaxReports -> Nat]
  BY <1>1, <1>2
<1>6. \A r \in 1..MaxReports : uses'[r] <= 1
  BY <1>1, <1>4
<1>7. \A r \in 1..MaxReports : r > reports => uses'[r] = 0
  BY <1>1, <1>4
<1>8. sv_used_mask'.report # 0 => uses'[sv_used_mask'.report] = 0
  BY <1>1, <1>2, <1>3 DEF NoneUsed, mask
<1>9. NmeaTyped' /\ Unused' /\ SameReport'
  BY <1>1, <1>2, <1>3, <1>5, <1>6, <1>7, <1>8 DEF NmeaTyped, Unused, SameReport
<1>10. SatellitesUsedOnce'
  <2> SUFFICES ASSUME NEW i \in 1..Len(sent'), sent'[i].type = "GSA",
                      sent'[i].used.report # 0, sent'[i].dop \in 1..MaxReports
               PROVE  sent'[i].dop = sent'[i].used.report
    BY <1>6 DEF SatellitesUsedOnce, Sent
  <2>1. sent'[i].dop # OwnDop /\ sent'[i].dop # 0
    BY <1>1 DEF OwnDop
  <2>2. sent'[i].used = sv_used_mask /\ sent'[i].dop = dop
    BY <2>1, PosSentences
  <2> QED  BY <1>1, <2>1, <2>2 DEF mask
<1>11. GsvIsComplete'
  BY PosSentences
<1> QED  BY <1>9, <1>10, <1>11 DEF NmeaIInv, SentencesAgree

\* A step that sends nothing and keeps what there is.
LEMMA NothingSent ==
  ASSUME NmeaIInv, sent' = <<>>, UNCHANGED <<sv_used_mask, dop, uses>>,
         reports' \in reports..MaxReports
  PROVE  NmeaIInv'
<1>1. NmeaTyped'
  BY DEF NmeaIInv, NmeaTyped
<1>2. Unused'
  BY DEF NmeaIInv, NmeaTyped, Unused
<1>3. SameReport'
  BY DEF NmeaIInv, SameReport
<1>4. Len(sent') = 0
  OBVIOUS
<1>5. SatellitesUsedOnce'
  BY <1>2, <1>4 DEF SatellitesUsedOnce, Unused, Sent
<1>6. GsvIsComplete'
  BY <1>4, NoGsv
<1> QED  BY <1>1, <1>2, <1>3, <1>5, <1>6 DEF NmeaIInv, SentencesAgree

LEMMA ReportPositionIInv ==
  ASSUME NmeaIInv, NEW position \in Positions, ReportPosition(position)
  PROVE  NmeaIInv'
<1> DEFINE final == Reported(position) /\ position.status # "FAILURE"
<1>1. reports' = reports /\ final \in BOOLEAN
  BY DEF ReportPosition
<1> HIDE DEF final
<1>2. \/ GeneratePos(position, final)
      \/ sent' = <<>> /\ UNCHANGED <<sv_used_mask, dop, uses>>
  BY DEF ReportPosition, final
<1>3. reports' \in reports..MaxReports
  BY <1>1, NmeaAssumption DEF NmeaIInv, NmeaTyped
<1> QED  BY <1>1, <1>2, <1>3, GeneratePosIInv, NothingSent

LEMMA ReportSvIInv ==
  ASSUME NmeaIInv, NEW svs \in Views, NEW count \in {0, 3, 4}, NEW hasDop \in BOOLEAN,
         ReportSv(svs, count, hasDop)
  PROVE  NmeaIInv'
<1>1. /\ reports \in 0..MaxReports /\ MaxReports \in Nat /\ reports < MaxReports
      /\ reports' = reports + 1 /\ uses' = uses
      /\ uses \in [1..MaxReports -> Nat]
      /\ \A r \in 1..MaxReports : uses[r] <= 1
      /\ \A r \in 1..MaxReports : r > reports => uses[r] = 0
  BY NmeaAssumption DEF NmeaIInv, NmeaTyped, Unused, ReportSv
<1>2. CASE muted
  <2>1. sent' = <<>> /\ UNCHANGED <<sv_used_mask, dop, uses>>
    BY <1>2 DEF ReportSv
  <2>2. reports' \in reports..MaxReports
    BY <1>1
  <2> QED  BY <2>1, <2>2, NothingSent
<1>3. CASE ~muted
  <2>1. /\ sent' = Gsv(svs, "GP") \o Gsv(svs, "GL")
        /\ view' = svs
        /\ sv_used_mask' = IF count = 0 THEN [report |-> 0, count |-> 0]
                           ELSE [report |-> reports', count |-> count]
        /\ dop' \in {0, reports'}
    BY <1>3 DEF ReportSv, NoneUsed, DopAfter
  <2>2. /\ sv_used_mask' = [report |-> sv_used_mask'.report, count |-> sv_used_mask'.count]
        /\ sv_used_mask'.report \in {0, reports'}
    BY <2>1
  <2>3. reports' \in 1..MaxReports /\ uses'[reports'] = 0
    BY <1>1
  <2>4. NmeaTyped' /\ Unused' /\ SameReport'
    BY <1>1, <2>1, <2>2, <2>3 DEF NmeaTyped, Unused, SameReport
  <2>5. svs \in Seq({"GP", "GL", "other"})
    BY NmeaAssumption
  <2>6. GsvOf(Gsv(svs, "GP"), svs, "GP") /\ GsvOf(Gsv(svs, "GL"), svs, "GL")
    BY <2>5, GsvIs
  <2>7. GsvIsComplete' /\ \A i \in 1..Len(sent') : sent'[i].type # "GSA"
    BY <2>1, <2>6, BothComplete
  <2>8. SatellitesUsedOnce'
    BY <2>4, <2>7 DEF SatellitesUsedOnce, Unused, Sent
  <2> QED  BY <2>4, <2>7, <2>8 DEF NmeaIInv, SentencesAgree
<1> QED  BY <1>2, <1>3

LEMMA NextNmeaIInv == NmeaIInv /\ [NmeaNext]_nmeaVars => NmeaIInv'
<1> SUFFICES ASSUME NmeaIInv, [NmeaNext]_nmeaVars  PROVE NmeaIInv'
  OBVIOUS
<1>1. CASE UNCHANGED nmeaVars
  <2>1. NmeaTyped' /\ Unused' /\ SameReport'
    BY <1>1 DEF NmeaIInv, NmeaTyped, Unused, SameReport, nmeaVars
  <2>2. SatellitesUsedOnce'
    BY <1>1 DEF NmeaIInv, SentencesAgree, SatellitesUsedOnce, Sent, nmeaVars
  <2>3. GsvIsComplete'
    <3>1. view' = view /\ sent' = sent
      BY <1>1 DEF nmeaVars
    <3>2. \A talker : Talking(talker)' = Talking(talker)
      BY <3>1 DEF Talking, Sent
    <3>3. \A talker, before, count : Block(talker, before, count) => Block(talker, before, count)'
      BY <3>1, <3>2 DEF Block
    <3>4. GsvIsComplete
      BY DEF NmeaIInv, SentencesAgree
    <3> QED  BY <3>1, <3>2, <3>3, <3>4 DEF GsvIsComplete
  <2> QED  BY <2>1, <2>2, <2>3 DEF NmeaIInv, SentencesAgree
<1>2. ASSUME NEW position \in Positions, ReportPosition(position)  PROVE NmeaIInv'
  BY <1>2, ReportPositionIInv
<1>3. ASSUME NEW svs \in Views, NEW count \in {0, 3, 4}, NEW hasDop \in BOOLEAN,
             ReportSv(svs, count, hasDop)
      PROVE  NmeaIInv'
  BY <1>3, ReportSvIInv
<1>4. CASE SessionChanges
  <2>1. sent' = <<>> /\ UNCHANGED <<sv_used_mask, dop, uses>> /\ reports' = reports
    BY <1>4 DEF SessionChanges
  <2>2. reports' \in reports..MaxReports
    BY <2>1, NmeaAssumption DEF NmeaIInv, NmeaTyped
  <2> QED  BY <2>1, <2>2, NothingSent
<1> QED  BY <1>1, <1>2, <1>3, <1>4 DEF NmeaNext

\* Whatever satellites are in the reports, in whatever order the reports come, and
\* whether the session is muted or over by then: the satellites of a report and its
\* geometry are told with one fix at most and with the same one, and the GSV
\* sentences tell each satellite once, in order, under headers that are right.
THEOREM SentencesAreRight == NmeaSpec => []SentencesAgree
<1>1. NmeaIInv => SentencesAgree
  BY DEF NmeaIInv
<1> QED  BY <1>1, InitNmeaIInv, NextNmeaIInv, PTL DEF NmeaSpec
================================================================================
