------------------------ MODULE TurnDispatchQueueProofs ------------------------
(***************************************************************************)
(* Theorems about the commands of TurnDispatch: the type invariant, that   *)
(* no command is lost, and, as long as nothing was cancelled, that one     *)
(* turn runs at a time, that the session can abort it, and that no command *)
(* is handled twice.                                                       *)
(***************************************************************************)
EXTENDS TurnDispatchProofs, FiniteSetTheorems, FunctionTheorems

-----------------------------------------------------------------------------
(***************************************************************************)
(* The elements of lists.                                                  *)
(***************************************************************************)
LEMMA ElementsType ==
    ASSUME NEW S, NEW s \in Seq(S)
    PROVE  Elements(s) \subseteq S
<1>1. DOMAIN s = 1 .. Len(s) /\ \A i \in 1 .. Len(s) : s[i] \in S
  BY LenProperties, ElementOfSeq
<1> QED
  BY <1>1 DEF Elements

LEMMA IdsOfElements ==
    ASSUME NEW s
    PROVE  Ids(s) = {c.id : c \in Elements(s)}
BY DEF Ids, Elements

LEMMA AppendElements ==
    ASSUME NEW S, NEW s \in Seq(S), NEW c \in S
    PROVE  /\ Append(s, c) \in Seq(S)
           /\ Elements(Append(s, c)) = Elements(s) \cup {c}
<1>1. /\ Append(s, c) \in Seq(S) /\ Len(Append(s, c)) = Len(s) + 1 /\ Len(s) \in Nat
      /\ \A n \in 1 .. Len(s) : Append(s, c)[n] = s[n]
      /\ Append(s, c)[Len(s) + 1] = c
  BY AppendProperties, LenProperties
<1>2. DOMAIN s = 1 .. Len(s) /\ DOMAIN Append(s, c) = 1 .. Len(s) + 1
  BY <1>1, LenProperties
<1>3. \A x \in Elements(Append(s, c)) : x \in Elements(s) \cup {c}
  <2> SUFFICES ASSUME NEW i \in 1 .. Len(s) + 1
               PROVE  Append(s, c)[i] \in Elements(s) \cup {c}
    BY <1>2 DEF Elements
  <2>1. CASE i = Len(s) + 1
    BY <1>1, <2>1
  <2>2. CASE i # Len(s) + 1
    <3>1. i \in 1 .. Len(s)
      BY <1>1, <2>2
    <3> QED
      BY <1>1, <1>2, <3>1 DEF Elements
  <2> QED
    BY <2>1, <2>2
<1>4. \A x \in Elements(s) : x \in Elements(Append(s, c))
  <2> SUFFICES ASSUME NEW i \in 1 .. Len(s)
               PROVE  s[i] \in Elements(Append(s, c))
    BY <1>2 DEF Elements
  <2>1. i \in 1 .. Len(s) + 1 /\ Append(s, c)[i] = s[i]
    BY <1>1
  <2> QED
    BY <1>2, <2>1 DEF Elements
<1>5. c \in Elements(Append(s, c))
  <2>1. Len(s) + 1 \in 1 .. Len(s) + 1
    BY <1>1
  <2> QED
    BY <1>1, <1>2, <2>1 DEF Elements
<1> QED
  BY <1>1, <1>3, <1>4, <1>5

LEMMA ConcatElements ==
    ASSUME NEW S, NEW s \in Seq(S), NEW u \in Seq(S)
    PROVE  s \o u \in Seq(S) /\ Elements(s \o u) = Elements(s) \cup Elements(u)
<1>1. /\ s \o u \in Seq(S) /\ Len(s \o u) = Len(s) + Len(u)
      /\ Len(s) \in Nat /\ Len(u) \in Nat
      /\ \A i \in 1 .. Len(s) + Len(u) :
            (s \o u)[i] = IF i <= Len(s) THEN s[i] ELSE u[i - Len(s)]
  BY ConcatProperties, LenProperties
<1>2. /\ DOMAIN s = 1 .. Len(s) /\ DOMAIN u = 1 .. Len(u)
      /\ DOMAIN (s \o u) = 1 .. Len(s) + Len(u)
  BY <1>1, LenProperties
<1>3. ASSUME NEW i \in 1 .. Len(s) + Len(u)
      PROVE  (s \o u)[i] \in Elements(s) \cup Elements(u)
  <2>1. CASE i <= Len(s)
    <3>1. i \in 1 .. Len(s) /\ (s \o u)[i] = s[i]
      BY <1>1, <2>1
    <3> QED
      BY <1>2, <3>1 DEF Elements
  <2>2. CASE ~(i <= Len(s))
    <3>1. i - Len(s) \in 1 .. Len(u) /\ (s \o u)[i] = u[i - Len(s)]
      BY <1>1, <2>2
    <3> QED
      BY <1>2, <3>1 DEF Elements
  <2> QED
    BY <2>1, <2>2
<1>4. ASSUME NEW i \in 1 .. Len(s)
      PROVE  s[i] \in Elements(s \o u)
  <2>1. i \in 1 .. Len(s) + Len(u) /\ (s \o u)[i] = s[i]
    BY <1>1
  <2> QED
    BY <1>2, <2>1 DEF Elements
<1>5. ASSUME NEW i \in 1 .. Len(u)
      PROVE  u[i] \in Elements(s \o u)
  <2>1. /\ i + Len(s) \in 1 .. Len(s) + Len(u) /\ ~(i + Len(s) <= Len(s))
        /\ (i + Len(s)) - Len(s) = i
    BY <1>1
  <2>2. (s \o u)[i + Len(s)] = u[i]
    BY <1>1, <2>1
  <2> QED
    BY <1>2, <2>1, <2>2 DEF Elements
<1>6. Elements(s \o u) \subseteq Elements(s) \cup Elements(u)
  BY <1>2, <1>3 DEF Elements
<1>7. Elements(s) \subseteq Elements(s \o u)
  <2>1. \A x \in Elements(s) : \E i \in 1 .. Len(s) : x = s[i]
    BY <1>2 DEF Elements
  <2> QED
    BY <1>4, <2>1
<1>8. Elements(u) \subseteq Elements(s \o u)
  <2>1. \A x \in Elements(u) : \E i \in 1 .. Len(u) : x = u[i]
    BY <1>2 DEF Elements
  <2> QED
    BY <1>5, <2>1
<1> QED
  BY <1>1, <1>6, <1>7, <1>8

\* A list is its head and its tail.
LEMMA TailElements ==
    ASSUME NEW S, NEW s \in Seq(S), s # <<>>
    PROVE  /\ Tail(s) \in Seq(S) /\ s[1] \in S
           /\ Elements(s) = {s[1]} \cup Elements(Tail(s))
<1>1. /\ Tail(s) \in Seq(S) /\ Len(s) \in Nat /\ Len(s) >= 1 /\ Len(Tail(s)) = Len(s) - 1
      /\ \A i \in 1 .. Len(Tail(s)) : Tail(s)[i] = s[i + 1]
  BY HeadTailProperties, LenProperties, EmptySeq
<1>2. DOMAIN s = 1 .. Len(s) /\ DOMAIN Tail(s) = 1 .. Len(s) - 1
  BY <1>1, LenProperties
<1>3. 1 \in 1 .. Len(s) /\ s[1] \in S
  BY <1>1, ElementOfSeq
<1>4. ASSUME NEW i \in 1 .. Len(s)
      PROVE  s[i] \in {s[1]} \cup Elements(Tail(s))
  <2>1. CASE i = 1
    BY <2>1
  <2>2. CASE i # 1
    <3>1. i - 1 \in 1 .. Len(s) - 1 /\ (i - 1) + 1 = i
      BY <1>1, <2>2
    <3>2. Tail(s)[i - 1] = s[i]
      BY <1>1, <3>1
    <3> QED
      BY <1>2, <3>1, <3>2 DEF Elements
  <2> QED
    BY <2>1, <2>2
<1>5. ASSUME NEW i \in 1 .. Len(s) - 1
      PROVE  Tail(s)[i] \in Elements(s)
  <2>1. i + 1 \in 1 .. Len(s) /\ Tail(s)[i] = s[i + 1]
    BY <1>1
  <2> QED
    BY <1>2, <2>1 DEF Elements
<1>6. Elements(s) \subseteq {s[1]} \cup Elements(Tail(s))
  BY <1>2, <1>4 DEF Elements
<1>7. Elements(Tail(s)) \subseteq Elements(s)
  BY <1>2, <1>5 DEF Elements
<1>8. s[1] \in Elements(s)
  BY <1>2, <1>3 DEF Elements
<1> QED
  BY <1>1, <1>3, <1>6, <1>7, <1>8

LEMMA OneElement ==
    ASSUME NEW S, NEW c \in S
    PROVE  <<c>> \in Seq(S) /\ Elements(<<c>>) = {c} /\ <<c>> # <<>> /\ <<c>>[1] = c
<1>1. DOMAIN <<c>> = {1} /\ <<c>>[1] = c
  OBVIOUS
<1> QED
  BY <1>1 DEF Elements

LEMMA NoElement == ASSUME NEW S PROVE <<>> \in Seq(S) /\ Elements(<<>>) = {}
BY EmptySeq DEF Elements

-----------------------------------------------------------------------------
(***************************************************************************)
(* Only.  The rank of a kept element is its place in the new list: ranks   *)
(* tell the kept elements apart, so every place is taken.                  *)
(***************************************************************************)
LEMMA RankBijection ==
    ASSUME NEW kept, kept \subseteq Nat, IsFiniteSet(kept),
           NEW Ranks, Ranks = [i \in kept |-> Cardinality({j \in kept : j <= i})]
    PROVE  /\ Cardinality(kept) \in Nat
           /\ \A i \in kept : Ranks[i] \in 1 .. Cardinality(kept)
           /\ \A n \in 1 .. Cardinality(kept) : \E i \in kept : Ranks[i] = n
           /\ \A i, k \in kept : Ranks[i] = Ranks[k] => i = k
<1> DEFINE UpTo(i) == {j \in kept : j <= i}
           N == Cardinality(kept)
<1>1. N \in Nat
  BY FS_CardinalityType
<1>2. \A i \in kept : /\ IsFiniteSet(UpTo(i)) /\ Cardinality(UpTo(i)) \in Nat
                      /\ Cardinality(UpTo(i)) <= N
  <2> SUFFICES ASSUME NEW i \in kept
               PROVE  /\ IsFiniteSet(UpTo(i)) /\ Cardinality(UpTo(i)) \in Nat
                      /\ Cardinality(UpTo(i)) <= N
    OBVIOUS
  <2>1. UpTo(i) \in SUBSET kept
    OBVIOUS
  <2> HIDE DEF UpTo
  <2> QED
    BY <2>1, FS_Subset, FS_CardinalityType
<1>3. \A i \in kept : Cardinality(UpTo(i)) # 0
  <2>1. \A i \in kept : i \in UpTo(i)
    OBVIOUS
  <2> HIDE DEF UpTo
  <2> QED
    BY <1>2, <2>1, FS_EmptySet
<1>4. \A i \in kept : Ranks[i] \in 1 .. N
  BY <1>1, <1>2, <1>3
<1>5. \A i, k \in kept : Ranks[i] = Ranks[k] /\ i <= k => i = k
  <2> SUFFICES ASSUME NEW i \in kept, NEW k \in kept, i <= k,
                      Cardinality(UpTo(i)) = Cardinality(UpTo(k))
               PROVE  i = k
    OBVIOUS
  <2>3. i \in Nat /\ k \in Nat /\ \A j \in kept : j \in Nat
    OBVIOUS
  <2>1. UpTo(i) \in SUBSET UpTo(k) /\ k \in UpTo(k)
    <3>1. k <= k /\ \A j \in kept : j <= i => j <= k
      BY <2>3
    <3> QED
      BY <3>1
  <2>2. k \in UpTo(i) => k <= i
    OBVIOUS
  <2>4. UpTo(k) = UpTo(i)
    <3> HIDE DEF UpTo
    <3> QED
      BY <1>2, <2>1, FS_Subset
  <2> QED
    BY <2>1, <2>2, <2>3, <2>4
<1>6. \A i, k \in kept : Ranks[i] = Ranks[k] => i = k
  BY <1>5
<1>7. Ranks \in [kept -> 1 .. N]
  BY <1>4
<1>8. IsFiniteSet(1 .. N) /\ Cardinality(1 .. N) = N
  BY <1>1, FS_Interval
<1> HIDE DEF N
<1>9. Ranks \in Injection(kept, 1 .. N)
  BY <1>6, <1>7, Fun_IsInj
<1>10. Ranks \in Surjection(kept, 1 .. N)
  BY <1>8, <1>9, FS_Injection DEF N
<1>11. \A n \in 1 .. N : \E i \in kept : Ranks[i] = n
  BY <1>10 DEF Surjection
<1> QED
  BY <1>1, <1>4, <1>6, <1>11 DEF N

\* Only keeps what it is told to keep, and nothing else.
LEMMA OnlyElements ==
    ASSUME NEW S, NEW s \in Seq(S), NEW keep
    PROVE  Only(s, keep) \in Seq(S) /\ Elements(Only(s, keep)) = Elements(s) \cap keep
<1> DEFINE kept == {i \in DOMAIN s : s[i] \in keep}
           Ranks == [i \in kept |-> Cardinality({j \in kept : j <= i})]
           N == Cardinality(kept)
           At(n) == CHOOSE i \in kept : Cardinality({j \in kept : j <= i}) = n
<1>1. DOMAIN s = 1 .. Len(s) /\ Len(s) \in Nat /\ \A i \in DOMAIN s : s[i] \in S
  BY LenProperties, ElementOfSeq
<1>2. kept \subseteq Nat /\ IsFiniteSet(kept)
  <2>1. kept \in SUBSET (1 .. Len(s))
    BY <1>1
  <2>2. IsFiniteSet(1 .. Len(s))
    BY <1>1, FS_Interval
  <2> HIDE DEF kept
  <2>3. kept \subseteq Nat
    BY <1>1, <2>1
  <2> QED
    BY <2>1, <2>2, <2>3, FS_Subset
<1>3. /\ N \in Nat
      /\ \A i \in kept : Ranks[i] \in 1 .. N
      /\ \A n \in 1 .. N : \E i \in kept : Ranks[i] = n
      /\ \A i, k \in kept : Ranks[i] = Ranks[k] => i = k
  <2> HIDE DEF kept
  <2> QED
    BY <1>2, RankBijection
<1>4. \A n \in 1 .. N : At(n) \in kept /\ Ranks[At(n)] = n
  <2> SUFFICES ASSUME NEW n \in 1 .. N PROVE At(n) \in kept /\ Ranks[At(n)] = n
    OBVIOUS
  <2>1. \E i \in kept : Cardinality({j \in kept : j <= i}) = n
    <3> HIDE DEF kept
    <3> QED
      BY <1>3
  <2>2. At(n) \in kept /\ Cardinality({j \in kept : j <= At(n)}) = n
    <3> HIDE DEF kept
    <3> QED
      BY <2>1
  <2> HIDE DEF kept, At
  <2> QED
    BY <2>2
<1>5. Only(s, keep) = [n \in 1 .. N |-> s[At(n)]]
  BY DEF Only
<1> HIDE DEF At, N
<1>6. \A n \in 1 .. N : s[At(n)] \in S /\ s[At(n)] \in keep /\ At(n) \in DOMAIN s
  BY <1>1, <1>4
<1>7. Only(s, keep) \in Seq(S)
  <2>1. Only(s, keep) \in [1 .. N -> S]
    BY <1>5, <1>6
  <2> QED
    BY <1>3, <2>1, SeqDef
<1>8. Elements(Only(s, keep)) \subseteq Elements(s) \cap keep
  BY <1>5, <1>6 DEF Elements
<1>9. ASSUME NEW i \in DOMAIN s, s[i] \in keep
      PROVE  s[i] \in Elements(Only(s, keep))
  <2>1. i \in kept
    BY <1>9
  <2>2. PICK n \in 1 .. N : n = Ranks[i]
    <3> HIDE DEF kept, Ranks
    <3> QED
      BY <1>3, <2>1
  <2>3. At(n) = i
    <3> HIDE DEF kept, Ranks
    <3> QED
      BY <1>3, <1>4, <2>1, <2>2
  <2>4. Only(s, keep)[n] = s[i] /\ n \in DOMAIN Only(s, keep)
    BY <1>5, <2>2, <2>3
  <2> QED
    BY <2>4 DEF Elements
<1> QED
  BY <1>7, <1>8, <1>9 DEF Elements

LEMMA WithoutElements ==
    ASSUME NEW S, NEW s \in Seq(S), NEW gone
    PROVE  Without(s, gone) \in Seq(S) /\ Elements(Without(s, gone)) = Elements(s) \ gone
BY OnlyElements DEF Without

-----------------------------------------------------------------------------
(***************************************************************************)
(* The command that is processed next.                                     *)
(***************************************************************************)
LEMMA LeastNat ==
    ASSUME NEW T, T \subseteq Nat, T # {}
    PROVE  \E m \in T : \A n \in T : m <= n
<1> DEFINE R == OpToRel(<, Nat)
<1>1. IsWellFoundedOn(R, Nat)
  BY NatLessThanWellFounded
<1>2. \A m, n \in Nat : <<m, n>> \in R <=> m < n
  BY DEF OpToRel
<1> HIDE DEF R
<1>3. PICK m \in T : \A n \in T : ~(<<n, m>> \in R)
  BY <1>1, WFMin
<1>4. \A n \in T : n \in Nat /\ m \in Nat /\ ~(n < m)
  BY <1>2, <1>3
<1>5. \A n \in T : m <= n
  BY <1>4
<1> QED
  BY <1>3, <1>5

LEMMA BestFacts ==
    ASSUME queue \in Seq(CommandObject), MainIndices # {}
    PROVE  Best \in MainIndices
<1> DEFINE Rank(i) == Priority(queue[i])
           Before(i, j) == Rank(i) < Rank(j) \/ (Rank(i) = Rank(j) /\ i <= j)
<1>1. MainIndices \subseteq Nat
  BY LenProperties DEF MainIndices
<1>2. \A i \in MainIndices : Rank(i) \in Nat
  BY DEF Priority
<1> HIDE DEF Rank
<1>3. PICK p \in {Rank(i) : i \in MainIndices} : \A r \in {Rank(i) : i \in MainIndices} : p <= r
  <2>1. {Rank(i) : i \in MainIndices} \subseteq Nat /\ {Rank(i) : i \in MainIndices} # {}
    BY <1>2
  <2> QED
    BY <2>1, LeastNat
<1>4. PICK i \in {j \in MainIndices : Rank(j) = p} :
          \A k \in {j \in MainIndices : Rank(j) = p} : i <= k
  <2>1. {j \in MainIndices : Rank(j) = p} \subseteq Nat /\ {j \in MainIndices : Rank(j) = p} # {}
    BY <1>1, <1>3
  <2> QED
    BY <2>1, LeastNat
<1>5. i \in MainIndices /\ \A j \in MainIndices : Before(i, j)
  <2> SUFFICES ASSUME NEW j \in MainIndices PROVE Before(i, j)
    BY <1>4
  <2>1. Rank(i) = p /\ p <= Rank(j) /\ Rank(j) \in Nat /\ p \in Nat
    BY <1>2, <1>3, <1>4
  <2>2. CASE Rank(j) = p
    BY <1>4, <2>1, <2>2
  <2>3. CASE Rank(j) # p
    BY <2>1, <2>3
  <2> QED
    BY <2>2, <2>3
<1>6. Best = CHOOSE b \in MainIndices : \A j \in MainIndices : Before(b, j)
  BY DEF Best, Rank
<1> HIDE DEF Before
<1> QED
  BY <1>5, <1>6

\* A batch holds commands of the queue for the main thread, one at least.
LEMMA BatchFacts ==
    ASSUME queue \in Seq(CommandObject), MainIndices # {}
    PROVE  /\ Batch \in Seq(CommandObject) /\ Batch # <<>>
           /\ Elements(Batch) \subseteq Elements(queue)
<1>1. Best \in MainIndices
  BY BestFacts
<1>2. /\ queue[Best] \in Elements(queue) /\ queue[Best] \in CommandObject
      /\ Main(queue[Best])
  BY <1>1, ElementsType DEF MainIndices, Elements
<1>3. CASE queue[Best].kind \in {"slash", "bash"}
  BY <1>2, <1>3, OneElement DEF Batch
<1>4. CASE queue[Best].kind \notin {"slash", "bash"}
  <2> DEFINE keep == {c \in Elements(queue) : /\ Main(c) /\ c.kind # "slash"
                                              /\ Mode(c) = Mode(queue[Best])}
  <2>1. Batch = Only(queue, keep)
    BY <1>4 DEF Batch
  <2>2. queue[Best] \in keep /\ keep \subseteq Elements(queue)
    BY <1>2, <1>4
  <2> HIDE DEF keep
  <2>5. Batch \in Seq(CommandObject) /\ Elements(Batch) = Elements(queue) \cap keep
    BY <2>1, OnlyElements
  <2>3. Batch \in Seq(CommandObject) /\ Elements(Batch) = keep
    BY <2>2, <2>5
  <2>4. Batch # <<>>
    BY <2>2, <2>3, NoElement
  <2> QED
    BY <2>2, <2>3, <2>4
<1> QED
  BY <1>3, <1>4

LEMMA AsPromptsFacts ==
    ASSUME NEW s \in Seq(CommandObject)
    PROVE  /\ AsPrompts(s) \in Seq(CommandObject)
           /\ Ids(AsPrompts(s)) = {c.id : c \in Elements(s) \ Hidden(s)}
<1> DEFINE told == Only(s, Elements(s) \ Hidden(s))
<1>1. told \in Seq(CommandObject) /\ Elements(told) = Elements(s) \ Hidden(s)
  BY OnlyElements
<1>2. AsPrompts(s) = [i \in DOMAIN told |-> Command(told[i].id, "prompt", told[i].copy + 1)]
  BY DEF AsPrompts
<1> HIDE DEF told
<1>3. /\ Len(told) \in Nat /\ DOMAIN told = 1 .. Len(told)
      /\ \A i \in 1 .. Len(told) : told[i] \in CommandObject
  BY <1>1, LenProperties, ElementOfSeq
<1>4. \A i \in 1 .. Len(told) :
          /\ Command(told[i].id, "prompt", told[i].copy + 1) \in CommandObject
          /\ Command(told[i].id, "prompt", told[i].copy + 1).id = told[i].id
  BY <1>3 DEF Command, CommandObject, Kind
<1> HIDE DEF Command
<1>5. AsPrompts(s) \in [1 .. Len(told) -> CommandObject]
  BY <1>2, <1>3, <1>4
<1>6. AsPrompts(s) \in Seq(CommandObject)
  BY <1>3, <1>5, SeqDef
<1>7. /\ DOMAIN AsPrompts(s) = DOMAIN told
      /\ \A i \in DOMAIN told : AsPrompts(s)[i].id = told[i].id
  BY <1>2, <1>3, <1>4
<1>8. Ids(AsPrompts(s)) = Ids(told)
  BY <1>7 DEF Ids
<1> QED
  BY <1>1, <1>6, <1>8, IdsOfElements

\* Handling the commands of a list.
LEMMA HandleFacts ==
    ASSUME handled \in [1 .. MaxCommands -> Nat], NEW s, Handle(s)
    PROVE  /\ handled' \in [1 .. MaxCommands -> Nat]
           /\ \A id \in 1 .. MaxCommands :
                 /\ id \in Ids(s) => handled'[id] = handled[id] + 1
                 /\ id \notin Ids(s) => handled'[id] = handled[id]
                 /\ handled[id] > 0 => handled'[id] > 0
                 /\ id \in Ids(s) => handled'[id] > 0
<1>1. /\ handled' \in [1 .. MaxCommands -> Nat]
      /\ \A id \in 1 .. MaxCommands :
            handled'[id] = IF id \in Ids(s) THEN handled[id] + 1 ELSE handled[id]
  BY DEF Handle
<1> QED
  BY <1>1

-----------------------------------------------------------------------------
(***************************************************************************)
(* What an action does to the turns and to the queue.                      *)
(***************************************************************************)
LEMMA TurnFacts ==
    ASSUME turns \in Seq(TurnRecord)
    PROVE  /\ Len(turns) \in Nat /\ Turn = 1 .. Len(turns)
           /\ \A t \in Turn : turns[t] \in TurnRecord
BY LenProperties, ElementOfSeq DEF Turn

LEMMA UpdateTurn ==
    ASSUME turns \in Seq(TurnRecord), NEW t \in Turn, NEW r \in TurnRecord,
           turns' = [turns EXCEPT ![t] = r]
    PROVE  /\ turns' \in Seq(TurnRecord) /\ Turn' = Turn
           /\ \A u \in Turn : turns'[u] = IF u = t THEN r ELSE turns[u]
<1>1. t \in 1 .. Len(turns)
  BY TurnFacts
<1>2. /\ turns' \in Seq(TurnRecord) /\ Len(turns') = Len(turns)
      /\ \A u \in 1 .. Len(turns) : turns'[u] = IF u = t THEN r ELSE turns[u]
  BY <1>1, ExceptSeq
<1>3. Turn' = 1 .. Len(turns')
  BY <1>2, LenProperties DEF Turn
<1> QED
  BY <1>2, <1>3, TurnFacts

\* Two lists of turns that differ at most in what was aborted.
Alike(ts, us) ==
    /\ DOMAIN us = DOMAIN ts /\ Len(us) = Len(ts)
    /\ \A u \in DOMAIN ts : /\ us[u].stage = ts[u].stage /\ us[u].cmds = ts[u].cmds
                            /\ us[u].snapshot = ts[u].snapshot

LEMMA AbortFacts ==
    ASSUME NEW ts \in Seq(TurnRecord), NEW t, NEW reason \in {"user", "interrupt"}
    PROVE  AbortIn(ts, t, reason) \in Seq(TurnRecord) /\ Alike(ts, AbortIn(ts, t, reason))
<1>1. CASE t \in DOMAIN ts /\ ts[t].aborted = "no"
  <2>1. /\ DOMAIN ts = 1 .. Len(ts) /\ t \in 1 .. Len(ts) /\ Len(ts) \in Nat
        /\ ts[t] \in TurnRecord
    BY <1>1, LenProperties, ElementOfSeq
  <2>2. PICK r \in TurnRecord : r = [ts[t] EXCEPT !.aborted = reason]
    BY <2>1 DEF TurnRecord
  <2>3. r.stage = ts[t].stage /\ r.cmds = ts[t].cmds /\ r.snapshot = ts[t].snapshot
    BY <2>1, <2>2 DEF TurnRecord
  <2>4. AbortIn(ts, t, reason) = [ts EXCEPT ![t] = r]
    BY <1>1, <2>2 DEF AbortIn
  <2>5. PICK us : us = [ts EXCEPT ![t] = r]
    OBVIOUS
  <2>6. /\ us \in Seq(TurnRecord) /\ Len(us) = Len(ts)
        /\ \A u \in 1 .. Len(ts) : us[u] = IF u = t THEN r ELSE ts[u]
    BY <2>1, <2>5, ExceptSeq
  <2>7. DOMAIN us = DOMAIN ts
    BY <2>1, <2>6, LenProperties
  <2> QED
    BY <2>1, <2>3, <2>4, <2>5, <2>6, <2>7 DEF Alike
<1>2. CASE ~(t \in DOMAIN ts /\ ts[t].aborted = "no")
  BY <1>2 DEF AbortIn, Alike
<1> QED
  BY <1>1, <1>2

\* A turn was added with the commands cmds, in a stage.
Joined(cmds, stage) ==
    /\ turns' \in Seq(TurnRecord)
    /\ Turn' = Turn \cup {Len(turns) + 1} /\ Len(turns) + 1 \notin Turn
    /\ turns'[Len(turns) + 1].cmds = cmds /\ turns'[Len(turns) + 1].stage = stage
    /\ turns'[Len(turns) + 1].snapshot = <<>>
    /\ \A u \in Turn : /\ turns'[u].stage = turns[u].stage /\ turns'[u].cmds = turns[u].cmds
                       /\ turns'[u].snapshot = turns[u].snapshot
    /\ controller' = Len(turns) + 1

LEMMA JoinedFacts ==
    ASSUME turns \in Seq(TurnRecord), NEW ts \in Seq(TurnRecord), Alike(turns, ts),
           NEW cmds \in Seq(CommandObject), NEW direct \in BOOLEAN,
           NEW stage \in Stages, NEW gen \in Nat,
           turns' = Append(ts, NewTurn(cmds, direct, stage, gen)),
           controller' = Len(ts) + 1
    PROVE  Joined(cmds, stage)
<1>1. PICK r \in TurnRecord : r = NewTurn(cmds, direct, stage, gen)
  BY NoElement DEF NewTurn, TurnRecord, Stages
<1>2. r.cmds = cmds /\ r.stage = stage /\ r.snapshot = <<>>
  BY <1>1 DEF NewTurn
<1>3. /\ turns' \in Seq(TurnRecord) /\ Len(turns') = Len(ts) + 1 /\ Len(ts) \in Nat
      /\ \A u \in 1 .. Len(ts) : turns'[u] = ts[u]
      /\ turns'[Len(ts) + 1] = r
  BY <1>1, AppendProperties, LenProperties
<1>4. Turn' = 1 .. Len(ts) + 1
  BY <1>3, LenProperties DEF Turn
<1>5. Turn = 1 .. Len(ts) /\ Len(ts) = Len(turns)
  BY TurnFacts DEF Alike
<1>6. Turn' = Turn \cup {Len(turns) + 1} /\ Len(turns) + 1 \notin Turn
  BY <1>3, <1>4, <1>5
<1> QED
  BY <1>2, <1>3, <1>5, <1>6 DEF Joined, Alike, Turn

LEMMA DispatchFacts ==
    ASSUME turns \in Seq(TurnRecord), NEW ts \in Seq(TurnRecord), Alike(turns, ts),
           NEW cmds \in Seq(CommandObject), ExecuteUserInput(ts, cmds)
    PROVE  Joined(cmds, "processing")
BY JoinedFacts DEF ExecuteUserInput, Stages

LEMMA SameTurnsAlike ==
    ASSUME turns \in Seq(TurnRecord)
    PROVE  Alike(turns, turns)
BY DEF Alike

\* Turn t becomes r; the others stay.
Becomes(t, stage, cmds, snapshot) ==
    /\ turns' \in Seq(TurnRecord) /\ Turn' = Turn
    /\ turns'[t].stage = stage /\ turns'[t].cmds = cmds /\ turns'[t].snapshot = snapshot
    /\ \A u \in Turn : u # t => turns'[u] = turns[u]

LEMMA ReplaceFacts ==
    ASSUME turns \in Seq(TurnRecord), NEW t \in Turn, NEW r \in TurnRecord,
           turns' = [turns EXCEPT ![t] = r]
    PROVE  Becomes(t, r.stage, r.cmds, r.snapshot)
<1>1. /\ turns' \in Seq(TurnRecord) /\ Turn' = Turn
      /\ \A u \in Turn : turns'[u] = IF u = t THEN r ELSE turns[u]
  BY UpdateTurn
<1>2. turns'[t] = r
  BY <1>1, Zenon
<1>3. \A u \in Turn : u # t => turns'[u] = turns[u]
  BY <1>1, Zenon
<1> QED
  BY <1>1, <1>2, <1>3, Zenon DEF Becomes

LEMMA OverFacts ==
    ASSUME turns \in Seq(TurnRecord), NEW t \in Turn, turns' = [turns EXCEPT ![t] = Over(t)]
    PROVE  Becomes(t, "over", <<>>, <<>>)
<1>1. turns[t] \in TurnRecord
  BY TurnFacts
<1>2. PICK r \in TurnRecord : r = Over(t)
  BY <1>1, NoElement DEF Over, TurnRecord
<1>3. r.stage = "over" /\ r.cmds = <<>> /\ r.snapshot = <<>>
  BY <1>1, <1>2 DEF Over, TurnRecord
<1> QED
  BY <1>2, <1>3, UpdateTurn DEF Becomes

\* The queue q is what is left, to which at most one new command was added.
Grows(q) ==
    \/ Elements(queue') = Elements(q) /\ issued' = issued
    \/ /\ issued < MaxCommands /\ issued' = issued + 1
       /\ \E c \in CommandObject : c.id = issued + 1 /\ Elements(queue') = Elements(q) \cup {c}

LEMMA NewCommand ==
    ASSUME issued \in 0 .. MaxCommands, issued < MaxCommands, NEW kind \in Kind
    PROVE  /\ Command(issued + 1, kind, 0) \in CommandObject
           /\ Command(issued + 1, kind, 0).id = issued + 1
BY BoundsAssumption DEF Command, CommandObject

LEMMA EnqueueFacts ==
    ASSUME NEW q \in Seq(CommandObject), issued \in 0 .. MaxCommands, issued < MaxCommands,
           NEW kind \in Kind, queue' = Append(q, Command(issued + 1, kind, 0)),
           issued' = issued + 1
    PROVE  queue' \in Seq(CommandObject) /\ Grows(q) /\ issued' \in 0 .. MaxCommands
<1>1. /\ Command(issued + 1, kind, 0) \in CommandObject
      /\ Command(issued + 1, kind, 0).id = issued + 1
  BY NewCommand
<1>2. /\ queue' \in Seq(CommandObject)
      /\ Elements(queue') = Elements(q) \cup {Command(issued + 1, kind, 0)}
  BY <1>1, AppendElements
<1>3. issued' \in 0 .. MaxCommands
  BY BoundsAssumption
<1> QED
  BY <1>1, <1>2, <1>3 DEF Grows

LEMMA ChainedFacts ==
    ASSUME NEW q \in Seq(CommandObject), issued \in 0 .. MaxCommands, NEW t, Chained(q, t)
    PROVE  queue' \in Seq(CommandObject) /\ Grows(q) /\ issued' \in 0 .. MaxCommands
<1>1. CASE queue' = q /\ issued' = issued
  BY <1>1 DEF Grows
<1>2. CASE /\ issued < MaxCommands
           /\ queue' = Append(q, Command(issued + 1, "prompt", 0))
           /\ issued' = issued + 1
  BY <1>2, EnqueueFacts DEF Kind
<1> QED
  BY <1>1, <1>2 DEF Chained

-----------------------------------------------------------------------------
(***************************************************************************)
(* The invariant of the data: the types, and a dispatch that is processing *)
(* has a command.                                                          *)
(***************************************************************************)
HasCommands == \A t \in Turn : turns[t].stage = "processing" => turns[t].cmds # <<>>
DataOK ==
    /\ queue \in Seq(CommandObject) /\ turns \in Seq(TurnRecord) /\ HasCommands
    /\ issued \in 0 .. MaxCommands
    /\ handled \in [1 .. MaxCommands -> Nat] /\ left \subseteq (1 .. MaxCommands) \X Reasons
ControlOK ==
    /\ status \in {"idle", "dispatching", "running"} /\ generation \in Nat
    /\ controller \in Turn \cup {0} /\ shown \in Turn \cup {0}
    /\ panel \in Turn \cup {0, Immediate} /\ loading \in BOOLEAN
    /\ seenActive \in BOOLEAN /\ seenPanel \in BOOLEAN /\ seenCancel \in BOOLEAN
    /\ queueDirty \in BOOLEAN /\ cancels \in 0 .. MaxCancels

LEMMA Typed == DataOK /\ ControlOK => TypeOK
BY DEF DataOK, ControlOK, TypeOK

LEMMA IdsType ==
    ASSUME NEW s \in Seq(CommandObject)
    PROVE  Ids(s) \subseteq 1 .. MaxCommands
<1>1. Elements(s) \subseteq CommandObject
  BY ElementsType
<1>2. \A c \in CommandObject : c.id \in 1 .. MaxCommands
  BY DEF CommandObject
<1> QED
  BY <1>1, <1>2, IdsOfElements

LEMMA TurnParts ==
    ASSUME DataOK, NEW t \in Turn
    PROVE  /\ turns[t] \in TurnRecord
           /\ turns[t].cmds \in Seq(CommandObject) /\ turns[t].snapshot \in Seq(CommandObject)
           /\ turns[t].direct \in BOOLEAN /\ turns[t].stage \in Stages
           /\ turns[t].stage = "processing" => turns[t].cmds # <<>>
<1>1. turns[t] \in TurnRecord
  BY TurnFacts DEF DataOK
<1>2. turns[t].stage = "processing" => turns[t].cmds # <<>>
  BY DEF DataOK, HasCommands
<1> QED
  BY <1>1, <1>2 DEF TurnRecord, Stages

\* The first command of a list, and the others.
LEMMA FirstFacts ==
    ASSUME NEW s \in Seq(CommandObject), s # <<>>
    PROVE  /\ <<s[1]>> \in Seq(CommandObject) /\ Tail(s) \in Seq(CommandObject)
           /\ Ids(s) = Ids(<<s[1]>>) \cup Ids(Tail(s))
<1>1. /\ Tail(s) \in Seq(CommandObject) /\ s[1] \in CommandObject
      /\ Elements(s) = {s[1]} \cup Elements(Tail(s))
  BY TailElements
<1>2. <<s[1]>> \in Seq(CommandObject) /\ Elements(<<s[1]>>) = {s[1]}
  BY <1>1, OneElement
<1> QED
  BY <1>1, <1>2, IdsOfElements

\* The steps that add a turn, change one, or abort one keep the turns typed.
LEMMA JoinedTyped ==
    ASSUME DataOK, NEW cmds, NEW stage, Joined(cmds, stage),
           stage = "processing" => cmds # <<>>
    PROVE  /\ turns' \in Seq(TurnRecord) /\ HasCommands' /\ Turn \subseteq Turn'
           /\ controller' \in Turn'
BY DEF Joined, DataOK, HasCommands

LEMMA BecomesTyped ==
    ASSUME DataOK, NEW t \in Turn, NEW stage, NEW cmds, NEW snapshot,
           Becomes(t, stage, cmds, snapshot), stage = "processing" => cmds # <<>>
    PROVE  turns' \in Seq(TurnRecord) /\ HasCommands' /\ Turn' = Turn
BY DEF Becomes, DataOK, HasCommands

LEMMA AlikeTyped ==
    ASSUME DataOK, turns' \in Seq(TurnRecord), Alike(turns, turns')
    PROVE  HasCommands' /\ Turn' = Turn
BY DEF Alike, DataOK, HasCommands, Turn

LEMMA SameTurns ==
    ASSUME DataOK, turns' = turns
    PROVE  turns' \in Seq(TurnRecord) /\ HasCommands' /\ Turn' = Turn
BY DEF DataOK, HasCommands, Turn

-----------------------------------------------------------------------------
(***************************************************************************)
(* What every action does to the data.                                     *)
(***************************************************************************)
\* A new command joins the queue.
Enqueued ==
    /\ queue' \in Seq(CommandObject) /\ issued' \in 0 .. MaxCommands
    /\ issued < MaxCommands /\ issued' = issued + 1
    /\ \E c \in CommandObject : c.id = issued + 1 /\ Elements(queue') = Elements(queue) \cup {c}

\* A new command, and no other, is that of a turn that starts.
NewTurnFor(cmds, stage) ==
    /\ cmds \in Seq(CommandObject) /\ cmds # <<>> /\ Ids(cmds) = {issued + 1}
    /\ issued < MaxCommands /\ issued' = issued + 1 /\ issued' \in 0 .. MaxCommands
    /\ Joined(cmds, stage)

LEMMA EnqueuedFacts ==
    ASSUME DataOK, issued < MaxCommands, NEW kind \in Kind,
           queue' = Append(queue, Command(issued + 1, kind, 0)), issued' = issued + 1
    PROVE  Enqueued
<1>1. /\ Command(issued + 1, kind, 0) \in CommandObject
      /\ Command(issued + 1, kind, 0).id = issued + 1
  BY NewCommand DEF DataOK
<1>2. /\ queue' \in Seq(CommandObject)
      /\ Elements(queue') = Elements(queue) \cup {Command(issued + 1, kind, 0)}
  BY <1>1, AppendElements DEF DataOK
<1>3. issued' \in 0 .. MaxCommands
  BY BoundsAssumption DEF DataOK
<1> QED
  BY <1>1, <1>2, <1>3 DEF Enqueued

LEMMA NewCommandList ==
    ASSUME DataOK, issued < MaxCommands, NEW kind \in Kind
    PROVE  /\ <<Command(issued + 1, kind, 0)>> \in Seq(CommandObject)
           /\ <<Command(issued + 1, kind, 0)>> # <<>>
           /\ Ids(<<Command(issued + 1, kind, 0)>>) = {issued + 1}
<1>1. /\ Command(issued + 1, kind, 0) \in CommandObject
      /\ Command(issued + 1, kind, 0).id = issued + 1
  BY NewCommand DEF DataOK
<1> QED
  BY <1>1, OneElement, IdsOfElements

LEMMA SubmitFacts ==
    ASSUME DataOK, NEW kind \in Kinds, Submit(kind)
    PROVE  /\ UNCHANGED ghosts
           /\ \/ Enqueued /\ UNCHANGED <<turns, controller, status>>
              \/ /\ status = "idle" /\ status' = "dispatching" /\ queue' = queue
                 /\ \E cmds : NewTurnFor(cmds, "processing")
<1>1. /\ kind \in Kind /\ issued < MaxCommands /\ issued' = issued + 1
      /\ issued' \in 0 .. MaxCommands
  BY KindsAssumption, BoundsAssumption DEF Submit, Issue, DataOK
<1>2. CASE Active
  <2>1. queue' = Append(queue, Command(issued + 1, kind, 0))
    BY <1>2 DEF Submit
  <2>2. Enqueued
    BY <1>1, <2>1, EnqueuedFacts
  <2> QED
    BY <1>2, <2>2 DEF Submit
<1>3. CASE ~Active
  <2>1. PICK cmds : cmds = <<Command(issued + 1, kind, 0)>>
    OBVIOUS
  <2>2. cmds \in Seq(CommandObject) /\ cmds # <<>> /\ Ids(cmds) = {issued + 1}
    BY <1>1, <2>1, NewCommandList
  <2>3. queue' = queue /\ ExecuteUserInput(turns, cmds)
    BY <1>3, <2>1 DEF Submit
  <2>4. Joined(cmds, "processing")
    BY <2>2, <2>3, DispatchFacts, SameTurnsAlike DEF DataOK
  <2>5. status = "idle" /\ status' = "dispatching"
    BY <1>3, <2>3 DEF Active, ExecuteUserInput
  <2>6. NewTurnFor(cmds, "processing")
    BY <1>1, <2>2, <2>4 DEF NewTurnFor
  <2> QED
    BY <2>3, <2>5, <2>6 DEF Submit
<1> QED
  BY <1>2, <1>3

LEMMA NotifyFacts ==
    ASSUME DataOK, NEW kind \in Kinds, Notify(kind)
    PROVE  Enqueued /\ UNCHANGED <<turns, controller, status, ghosts>>
<1>1. /\ kind \in Kind /\ issued < MaxCommands /\ issued' = issued + 1
      /\ queue' = Append(queue, Command(issued + 1, kind, 0))
  BY KindsAssumption DEF Notify, Issue
<1>2. Enqueued
  BY <1>1, EnqueuedFacts
<1> QED
  BY <1>2 DEF Notify, guard

LEMMA IncomingPromptFacts ==
    ASSUME DataOK, ControlOK, IncomingPrompt
    PROVE  /\ status = "idle" /\ status' = "running" /\ UNCHANGED <<queue, left>>
           /\ \E cmds : NewTurnFor(cmds, "querying") /\ Handle(cmds)
<1>1. /\ issued < MaxCommands /\ issued' = issued + 1 /\ issued' \in 0 .. MaxCommands
      /\ status = "idle" /\ status' = "running" /\ UNCHANGED <<queue, left>>
      /\ generation + 1 \in Nat
  BY BoundsAssumption DEF IncomingPrompt, Issue, Active, DataOK, ControlOK
<1>2. PICK cmds : cmds = <<Command(issued + 1, "prompt", 0)>>
  OBVIOUS
<1>3. cmds \in Seq(CommandObject) /\ cmds # <<>> /\ Ids(cmds) = {issued + 1}
  BY <1>1, <1>2, NewCommandList DEF Kind
<1>4. /\ turns' = Append(turns, NewTurn(cmds, TRUE, "querying", generation + 1))
      /\ Handle(cmds) /\ controller' = Len(turns) + 1
  BY <1>2 DEF IncomingPrompt
<1>5. Joined(cmds, "querying")
  <2>1. turns \in Seq(TurnRecord) /\ Alike(turns, turns) /\ TRUE \in BOOLEAN
        /\ "querying" \in Stages
    BY SameTurnsAlike DEF DataOK, Stages
  <2> QED
    BY <1>1, <1>3, <1>4, <2>1, JoinedFacts
<1> QED
  BY <1>1, <1>3, <1>4, <1>5 DEF NewTurnFor

LEMMA SubagentDrainsFacts ==
    ASSUME DataOK, SubagentDrains
    PROVE  /\ UNCHANGED <<turns, controller, status, issued, left>>
           /\ queue' \in Seq(CommandObject)
           /\ \E mine \in Seq(CommandObject) :
                 /\ Handle(mine) /\ Elements(mine) = {c \in Elements(queue) : ~Main(c)}
                 /\ Elements(queue') = Elements(queue) \ Elements(mine)
<1> DEFINE keep == {c \in Elements(queue) : ~Main(c)}
<1>1. PICK mine : mine = Only(queue, keep)
  OBVIOUS
<1>2. Handle(mine) /\ queue' = Without(queue, Elements(mine))
  BY <1>1 DEF SubagentDrains
<1>3. keep \subseteq Elements(queue)
  OBVIOUS
<1> HIDE DEF keep
<1>4. mine \in Seq(CommandObject) /\ Elements(mine) = Elements(queue) \cap keep
  BY <1>1, OnlyElements DEF DataOK
<1>5. Elements(mine) = keep
  BY <1>3, <1>4
<1>6. /\ queue' \in Seq(CommandObject)
      /\ Elements(queue') = Elements(queue) \ Elements(mine)
  BY <1>2, WithoutElements DEF DataOK
<1>7. UNCHANGED <<turns, controller, status, issued, left>>
  BY DEF SubagentDrains, guard
<1> USE DEF keep
<1> QED
  BY <1>2, <1>4, <1>5, <1>6, <1>7

\* A render dispatches a batch of the queue, or only aborts.
LEMMA RenderFacts ==
    ASSUME DataOK, Render
    PROVE  /\ UNCHANGED <<issued, ghosts>> /\ queue' \in Seq(CommandObject)
           /\ \/ /\ status = "idle" /\ status' = "dispatching"
                 /\ \E cmds \in Seq(CommandObject) :
                       /\ cmds # <<>> /\ Joined(cmds, "processing")
                       /\ Elements(cmds) \subseteq Elements(queue)
                       /\ Elements(queue') = Elements(queue) \ Elements(cmds)
              \/ /\ UNCHANGED <<queue, controller, status>>
                 /\ turns' \in Seq(TurnRecord) /\ Alike(turns, turns')
<1>1. PICK ts \in {turns, AbortIn(turns, controller, "interrupt")} :
          IF ReadyToProcess
          THEN /\ queue' = Without(queue, Elements(Batch))
               /\ ExecuteUserInput(ts, Batch)
          ELSE turns' = ts /\ UNCHANGED <<queue, controller, status>>
  BY DEF Render
<1>2. ts \in Seq(TurnRecord) /\ Alike(turns, ts)
  BY <1>1, SameTurnsAlike, AbortFacts DEF DataOK
<1>3. UNCHANGED <<issued, ghosts>> /\ queue \in Seq(CommandObject)
  BY DEF Render, DataOK
<1>4. CASE ReadyToProcess
  <2>1. PICK cmds : cmds = Batch
    OBVIOUS
  <2>2. /\ cmds \in Seq(CommandObject) /\ cmds # <<>>
        /\ Elements(cmds) \subseteq Elements(queue)
    BY <1>3, <1>4, <2>1, BatchFacts DEF ReadyToProcess
  <2>3. queue' = Without(queue, Elements(cmds)) /\ ExecuteUserInput(ts, cmds)
    BY <1>1, <1>4, <2>1
  <2>4. /\ queue' \in Seq(CommandObject)
        /\ Elements(queue') = Elements(queue) \ Elements(cmds)
    BY <1>3, <2>3, WithoutElements
  <2>5. Joined(cmds, "processing")
    BY <1>2, <2>2, <2>3, DispatchFacts DEF DataOK
  <2>6. status = "idle" /\ status' = "dispatching"
    BY <1>4, <2>3 DEF ReadyToProcess, Active, ExecuteUserInput
  <2> QED
    BY <1>3, <2>2, <2>4, <2>5, <2>6
<1>5. CASE ~ReadyToProcess
  BY <1>1, <1>2, <1>3, <1>5
<1> QED
  BY <1>4, <1>5

\* Messages that may not be sent: the text of those that are not hidden waits
\* in the queue again, the others are skipped.
Requeued(s) ==
    /\ \E q \in Seq(CommandObject) :
          /\ Elements(queue) \subseteq Elements(q) /\ Grows(q)
          /\ \A id \in Ids(s) : id \in Ids(q) \/ <<id, "skipped">> \in left'
    /\ \E W \in SUBSET Ids(s) : left' = left \cup (W \X {"skipped"})

LEMMA RequeuedFacts ==
    ASSUME DataOK, NEW s \in Seq(CommandObject), NEW t, Refused(t, s)
    PROVE  /\ Requeued(s)
           /\ queue' \in Seq(CommandObject) /\ issued' \in 0 .. MaxCommands
<1>1. /\ AsPrompts(s) \in Seq(CommandObject)
      /\ Ids(AsPrompts(s)) = {c.id : c \in Elements(s) \ Hidden(s)}
  BY AsPromptsFacts
<1>2. PICK q : q = queue \o AsPrompts(s)
  OBVIOUS
<1>3. /\ q \in Seq(CommandObject)
      /\ Elements(q) = Elements(queue) \cup Elements(AsPrompts(s))
  BY <1>1, <1>2, ConcatElements DEF DataOK
<1>4. Ids(AsPrompts(s)) \subseteq Ids(q)
  BY <1>3, IdsOfElements
<1>5. queue' \in Seq(CommandObject) /\ Grows(q) /\ issued' \in 0 .. MaxCommands
  BY <1>2, <1>3, ChainedFacts DEF DataOK, Refused
<1>6. left' = left \cup ({c.id : c \in Hidden(s)} \X {"skipped"})
  BY DEF Refused, Leave
<1>7. {c.id : c \in Hidden(s)} \subseteq Ids(s)
  BY IdsOfElements DEF Hidden
<1>8. \A id \in Ids(s) : id \in Ids(q) \/ <<id, "skipped">> \in left'
  <2> SUFFICES ASSUME NEW c \in Elements(s)
               PROVE  c.id \in Ids(q) \/ <<c.id, "skipped">> \in left'
    BY IdsOfElements
  <2> QED
    BY <1>1, <1>4, <1>6
<1> QED
  BY <1>3, <1>5, <1>6, <1>7, <1>8 DEF Requeued

LEMMA BecomesQueryFacts ==
    ASSUME DataOK, ControlOK, NEW t \in Turn, BecomesQuery(t)
    PROVE  /\ turns[t].stage = "processing" /\ controller' = controller
           /\ queue' \in Seq(CommandObject) /\ issued' \in 0 .. MaxCommands
           /\ \/ /\ status # "running" /\ status' = "running"
                 /\ Becomes(t, "querying", turns[t].cmds, turns[t].snapshot)
                 /\ Handle(turns[t].cmds) /\ UNCHANGED <<queue, issued, left>>
              \/ /\ status = "running" /\ UNCHANGED <<status, handled>>
                 /\ Becomes(t, "over", <<>>, <<>>) /\ Requeued(turns[t].cmds)
<1>1. /\ turns[t] \in TurnRecord /\ turns[t].cmds \in Seq(CommandObject)
      /\ turns \in Seq(TurnRecord)
  BY TurnParts DEF DataOK
<1>2. turns[t].stage = "processing" /\ controller' = controller
  BY DEF BecomesQuery, Processing
<1>3. CASE status # "running"
  <2>1. /\ turns' = [turns EXCEPT ![t].stage = "querying", ![t].gen = generation + 1]
        /\ Handle(turns[t].cmds) /\ UNCHANGED <<queue, issued, left>> /\ status' = "running"
    BY <1>3 DEF BecomesQuery
  <2>2. PICK p \in TurnRecord : p = [turns[t] EXCEPT !.stage = "querying"]
    BY <1>1 DEF TurnRecord
  <2>8. generation + 1 \in Nat
    BY DEF ControlOK
  <2>3. PICK r \in TurnRecord : r = [p EXCEPT !.gen = generation + 1]
    BY <2>2, <2>8 DEF TurnRecord
  <2>4. /\ p.stage = "querying" /\ p.cmds = turns[t].cmds /\ p.snapshot = turns[t].snapshot
    BY <1>1, <2>2 DEF TurnRecord
  <2>5. /\ r.stage = "querying" /\ r.cmds = turns[t].cmds /\ r.snapshot = turns[t].snapshot
    BY <2>2, <2>3, <2>4 DEF TurnRecord
  <2>6. turns' = [turns EXCEPT ![t] = r]
    BY <1>1, <2>1, <2>2, <2>3
  <2>7. Becomes(t, "querying", turns[t].cmds, turns[t].snapshot)
    <3>1. Becomes(t, r.stage, r.cmds, r.snapshot)
      BY <1>1, <2>6, ReplaceFacts
    <3> QED
      BY <2>5, <3>1
  <2> QED
    BY <1>2, <1>3, <2>1, <2>7 DEF DataOK
<1>4. CASE status = "running"
  <2>1. /\ turns' = [turns EXCEPT ![t] = Over(t)] /\ UNCHANGED <<status, handled>>
        /\ Refused(t, turns[t].cmds)
    BY <1>4 DEF BecomesQuery, guard
  <2> QED
    BY <1>1, <1>2, <1>4, <2>1, OverFacts, RequeuedFacts
<1> QED
  BY <1>3, <1>4

LEMMA BecomesLocalFacts ==
    ASSUME DataOK, NEW t \in Turn, BecomesLocal(t)
    PROVE  /\ turns[t].stage = "processing"
           /\ Becomes(t, "over", <<>>, <<>>)
           /\ queue' \in Seq(CommandObject) /\ issued' \in 0 .. MaxCommands
           /\ \/ /\ status # "running" /\ status' = "idle" /\ controller' = 0
                 /\ Handle(turns[t].cmds) /\ Grows(queue) /\ left' = left
              \/ /\ status = "running" /\ UNCHANGED <<status, controller>>
                 /\ Handle(<<turns[t].cmds[1]>>)
                 /\ Requeued(turns[t].cmds) \/ Requeued(Tail(turns[t].cmds))
<1>1. turns[t].stage = "processing"
  BY DEF BecomesLocal, Processing
<1>2. /\ turns[t].cmds \in Seq(CommandObject) /\ turns[t].cmds # <<>>
      /\ Tail(turns[t].cmds) \in Seq(CommandObject) /\ turns \in Seq(TurnRecord)
  BY <1>1, TurnParts, FirstFacts DEF DataOK
<1>3. Becomes(t, "over", <<>>, <<>>)
  BY <1>2, OverFacts DEF BecomesLocal
<1>4. CASE status # "running"
  <2>1. /\ status' = "idle" /\ controller' = 0 /\ Handle(turns[t].cmds) /\ Chained(queue, t)
        /\ left' = left
    BY <1>4 DEF BecomesLocal
  <2>2. queue' \in Seq(CommandObject) /\ Grows(queue) /\ issued' \in 0 .. MaxCommands
    BY <2>1, ChainedFacts DEF DataOK
  <2> QED
    BY <1>1, <1>3, <1>4, <2>1, <2>2
<1>5. CASE status = "running"
  <2>1. /\ UNCHANGED <<status, controller>> /\ Handle(<<turns[t].cmds[1]>>)
        /\ \E rest \in {turns[t].cmds, Tail(turns[t].cmds)} : Refused(t, rest)
    BY <1>5 DEF BecomesLocal, guard
  <2>2. PICK rest \in {turns[t].cmds, Tail(turns[t].cmds)} : Refused(t, rest)
    BY <2>1
  <2>3. rest \in Seq(CommandObject)
    BY <1>2, <2>2
  <2>4. Requeued(rest) /\ queue' \in Seq(CommandObject) /\ issued' \in 0 .. MaxCommands
    BY <2>2, <2>3, RequeuedFacts
  <2> QED
    BY <1>1, <1>3, <1>5, <2>1, <2>2, <2>4
<1> QED
  BY <1>4, <1>5

LEMMA BecomesNothingFacts ==
    ASSUME DataOK, NEW t \in Turn, BecomesNothing(t)
    PROVE  /\ turns[t].stage = "processing" /\ left' = left
           /\ Becomes(t, "over", <<>>, <<>>) /\ status' = Released /\ controller' = 0
           /\ queue' \in Seq(CommandObject) /\ issued' \in 0 .. MaxCommands
           /\ Handle(turns[t].cmds) /\ Grows(queue)
<1>1. /\ turns' = [turns EXCEPT ![t] = Over(t)] /\ Chained(queue, t)
      /\ turns[t].stage = "processing" /\ left' = left
      /\ status' = Released /\ controller' = 0 /\ Handle(turns[t].cmds)
  BY DEF BecomesNothing, Processing
<1> QED
  BY <1>1, OverFacts, ChainedFacts DEF DataOK

LEMMA ThrowsFacts ==
    ASSUME DataOK, NEW t \in Turn, Throws(t)
    PROVE  /\ turns[t].stage = "processing"
           /\ left' = left \cup (Ids(turns[t].cmds) \X {"failed"})
           /\ Becomes(t, "over", <<>>, <<>>) /\ status' = Released
           /\ UNCHANGED <<queue, controller, issued, handled>>
<1>1. /\ turns' = [turns EXCEPT ![t] = Over(t)] /\ status' = Released
      /\ turns[t].stage = "processing" /\ left' = left \cup (Ids(turns[t].cmds) \X {"failed"})
      /\ UNCHANGED <<queue, controller, issued, handled>>
  BY DEF Throws, Leave, Processing
<1> QED
  BY <1>1, OverFacts DEF DataOK

LEMMA QueryEndsFacts ==
    ASSUME DataOK, NEW t \in Turn, QueryEnds(t)
    PROVE  /\ turns[t].stage = "querying" /\ UNCHANGED ghosts
           /\ Becomes(t, "over", <<>>, <<>>)
           /\ queue' \in Seq(CommandObject) /\ issued' \in 0 .. MaxCommands /\ Grows(queue)
           /\ Ends(t) => status' = "idle" /\ controller' = 0
           /\ ~Ends(t) => status' \in {status, Released} /\ controller' = controller
<1>1. /\ turns[t].stage = "querying" /\ UNCHANGED ghosts
      /\ turns' = [turns EXCEPT ![t] = Over(t)]
      /\ Ends(t) => status' = "idle" /\ controller' = 0
      /\ ~Ends(t) => status' \in {status, Released} /\ controller' = controller
      /\ (queue' = queue /\ issued' = issued) \/ Chained(queue, t)
  BY DEF QueryEnds
<1>2. Becomes(t, "over", <<>>, <<>>)
  BY <1>1, OverFacts DEF DataOK
<1>3. Chained(queue, t)
  BY <1>1 DEF Chained
<1>4. queue' \in Seq(CommandObject) /\ Grows(queue) /\ issued' \in 0 .. MaxCommands
  BY <1>3, ChainedFacts DEF DataOK
<1> QED
  BY <1>1, <1>2, <1>4

LEMMA TakeSnapshotFacts ==
    ASSUME DataOK, NEW t \in Turn, TakeSnapshot(t)
    PROVE  /\ turns[t].stage = "querying"
           /\ UNCHANGED <<queue, controller, status, issued, ghosts>>
           /\ \E taken \in Seq(CommandObject) :
                 /\ Becomes(t, "attaching", turns[t].cmds, taken)
                 /\ \A c \in Elements(taken) : c \in Elements(queue) /\ Main(c)
<1>1. PICK threshold \in {1, 2} :
          turns' = [turns EXCEPT ![t].stage = "attaching",
                                 ![t].snapshot =
                                   Only(queue, {c \in Elements(queue) :
                                                  /\ Main(c) /\ c.kind # "slash"
                                                  /\ Priority(c) <= threshold
                                                  /\ Mode(c) # "bash"})]
  BY Zenon DEF TakeSnapshot
<1> DEFINE keep == {c \in Elements(queue) : /\ Main(c) /\ c.kind # "slash"
                                            /\ Priority(c) <= threshold
                                            /\ Mode(c) # "bash"}
<1>2. PICK taken : /\ taken = Only(queue, keep)
                   /\ turns' = [turns EXCEPT ![t].stage = "attaching", ![t].snapshot = taken]
  BY <1>1
<1>3. \A c \in keep : c \in Elements(queue) /\ Main(c)
  OBVIOUS
<1> HIDE DEF keep
<1>4. taken \in Seq(CommandObject) /\ Elements(taken) = Elements(queue) \cap keep
  BY <1>2, OnlyElements DEF DataOK
<1>5. \A c \in Elements(taken) : c \in Elements(queue) /\ Main(c)
  BY <1>3, <1>4
<1>6. turns \in Seq(TurnRecord) /\ turns[t] \in TurnRecord
  BY TurnParts DEF DataOK
<1>7. PICK p \in TurnRecord : p = [turns[t] EXCEPT !.stage = "attaching"]
  BY <1>6 DEF TurnRecord
<1>8. PICK r \in TurnRecord : r = [p EXCEPT !.snapshot = taken]
  BY <1>4, <1>7 DEF TurnRecord
<1>9. p.stage = "attaching" /\ p.cmds = turns[t].cmds
  BY <1>6, <1>7 DEF TurnRecord
<1>10. r.stage = "attaching" /\ r.cmds = turns[t].cmds /\ r.snapshot = taken
  BY <1>7, <1>8, <1>9 DEF TurnRecord
<1>11. turns' = [turns EXCEPT ![t] = r]
  BY <1>2, <1>6, <1>7, <1>8
<1>12. Becomes(t, r.stage, r.cmds, r.snapshot)
  BY <1>6, <1>11, ReplaceFacts
<1>13. turns[t].stage = "querying" /\ UNCHANGED <<queue, controller, status, issued, ghosts>>
  BY DEF TakeSnapshot, guard
<1> QED
  BY <1>4, <1>5, <1>10, <1>12, <1>13

LEMMA RemoveConsumedFacts ==
    ASSUME DataOK, NEW t \in Turn, RemoveConsumed(t)
    PROVE  /\ turns[t].stage = "attaching"
           /\ UNCHANGED <<controller, status, issued, left>>
           /\ Becomes(t, "querying", turns[t].cmds, <<>>)
           /\ Handle(turns[t].snapshot) /\ queue' \in Seq(CommandObject)
           /\ Elements(queue') = Elements(queue) \ Elements(turns[t].snapshot)
<1>1. /\ turns' = [turns EXCEPT ![t].stage = "querying", ![t].snapshot = <<>>]
      /\ turns[t].stage = "attaching" /\ Handle(turns[t].snapshot)
      /\ queue' = Without(queue, Elements(turns[t].snapshot))
      /\ UNCHANGED <<controller, status, issued, left>>
  BY DEF RemoveConsumed, guard
<1>2. turns \in Seq(TurnRecord) /\ turns[t] \in TurnRecord
  BY TurnParts DEF DataOK
<1>3. PICK p \in TurnRecord : p = [turns[t] EXCEPT !.stage = "querying"]
  BY <1>2 DEF TurnRecord
<1>4. PICK r \in TurnRecord : r = [p EXCEPT !.snapshot = <<>>]
  BY <1>3, NoElement DEF TurnRecord
<1>5. p.stage = "querying" /\ p.cmds = turns[t].cmds
  BY <1>2, <1>3 DEF TurnRecord
<1>6. r.stage = "querying" /\ r.cmds = turns[t].cmds /\ r.snapshot = <<>>
  BY <1>3, <1>4, <1>5 DEF TurnRecord
<1>7. turns' = [turns EXCEPT ![t] = r]
  BY <1>1, <1>2, <1>3, <1>4
<1>8. Becomes(t, r.stage, r.cmds, r.snapshot)
  BY <1>2, <1>7, ReplaceFacts
<1>9. /\ queue' \in Seq(CommandObject)
      /\ Elements(queue') = Elements(queue) \ Elements(turns[t].snapshot)
  BY <1>1, WithoutElements DEF DataOK
<1> QED
  BY <1>1, <1>6, <1>8, <1>9

LEMMA OpenDialogFacts ==
    ASSUME DataOK, NEW t \in Turn, OpenDialog(t)
    PROVE  /\ turns' \in Seq(TurnRecord) /\ Alike(turns, turns')
           /\ UNCHANGED <<queue, controller, status, issued, ghosts>>
<1>1. /\ turns' = [turns EXCEPT ![t].dialog = TRUE]
      /\ UNCHANGED <<queue, controller, status, issued, ghosts>>
  BY DEF OpenDialog, guard
<1>2. turns \in Seq(TurnRecord) /\ turns[t] \in TurnRecord
  BY TurnParts DEF DataOK
<1>3. PICK r \in TurnRecord : r = [turns[t] EXCEPT !.dialog = TRUE]
  BY <1>2 DEF TurnRecord
<1>4. /\ r.stage = turns[t].stage /\ r.cmds = turns[t].cmds
      /\ r.snapshot = turns[t].snapshot
  BY <1>2, <1>3 DEF TurnRecord
<1>5. turns' = [turns EXCEPT ![t] = r]
  BY <1>1, <1>2, <1>3
<1>6. Becomes(t, r.stage, r.cmds, r.snapshot)
  BY <1>2, <1>5, ReplaceFacts
<1>7. Len(turns') = Len(turns)
  BY <1>5, <1>2, TurnFacts, ExceptSeq
<1>8. \A u \in Turn : /\ turns'[u].stage = turns[u].stage /\ turns'[u].cmds = turns[u].cmds
                      /\ turns'[u].snapshot = turns[u].snapshot
  BY <1>4, <1>6 DEF Becomes
<1> QED
  BY <1>1, <1>6, <1>7, <1>8 DEF Becomes, Alike, Turn

LEMMA OnCancelFacts ==
    ASSUME DataOK, ControlOK, OnCancel
    PROVE  /\ turns' \in Seq(TurnRecord) /\ Alike(turns, turns')
           /\ UNCHANGED <<queue, issued, ghosts>> /\ cancels' > 0
<1>1. turns' = AbortIn(turns, shown, "user") /\ UNCHANGED <<queue, issued, ghosts>>
  BY DEF OnCancel
<1>2. turns' \in Seq(TurnRecord) /\ Alike(turns, turns')
  BY <1>1, AbortFacts DEF DataOK
<1>3. cancels' > 0
  BY BoundsAssumption DEF OnCancel, ControlOK
<1> QED
  BY <1>1, <1>2, <1>3

LEMMA PopQueueFacts ==
    ASSUME DataOK, PopQueue
    PROVE  /\ UNCHANGED <<turns, controller, status, issued, handled>>
           /\ queue' \in Seq(CommandObject)
           /\ \E gone \in SUBSET Elements(queue) :
                 /\ Elements(queue') = Elements(queue) \ gone
                 /\ left' = left \cup ({c.id : c \in gone} \X {"taken"})
<1> DEFINE editable == {c \in Elements(queue) : Editable(c)}
<1>1. /\ queue' = Without(queue, editable)
      /\ left' = left \cup ({c.id : c \in editable} \X {"taken"})
      /\ UNCHANGED <<turns, controller, status, issued, handled>>
  BY DEF PopQueue, Leave, guard
<1>2. editable \in SUBSET Elements(queue)
  OBVIOUS
<1> HIDE DEF editable
<1>3. queue' \in Seq(CommandObject) /\ Elements(queue') = Elements(queue) \ editable
  BY <1>1, WithoutElements DEF DataOK
<1> QED
  BY <1>1, <1>2, <1>3

LEMMA KillAgentsFacts ==
    ASSUME DataOK, KillAgents
    PROVE  /\ UNCHANGED <<turns, controller, status, handled>>
           /\ left' = left \cup (Ids(queue) \X {"cleared"})
           /\ queue' \in Seq(CommandObject)
           /\ issued < MaxCommands /\ issued' = issued + 1 /\ issued' \in 0 .. MaxCommands
           /\ \E c \in CommandObject : c.id = issued + 1 /\ Elements(queue') = {c}
<1>1. /\ issued < MaxCommands /\ issued' = issued + 1
      /\ queue' = <<Command(issued + 1, "note", 0)>>
      /\ left' = left \cup (Ids(queue) \X {"cleared"})
      /\ UNCHANGED <<turns, controller, status, handled>>
  BY DEF KillAgents, Leave, Issue, guard
<1>2. PICK c \in CommandObject : c = Command(issued + 1, "note", 0) /\ c.id = issued + 1
  BY <1>1, NewCommand DEF DataOK, Kind
<1>3. queue' \in Seq(CommandObject) /\ Elements(queue') = {c}
  BY <1>1, <1>2, OneElement
<1>4. issued' \in 0 .. MaxCommands
  BY <1>1, BoundsAssumption DEF DataOK
<1> QED
  BY <1>1, <1>2, <1>3, <1>4

-----------------------------------------------------------------------------
(***************************************************************************)
(* The data stays typed.                                                   *)
(***************************************************************************)
TurnsOK == turns' \in Seq(TurnRecord) /\ HasCommands' /\ Turn \subseteq Turn'
QueueOK == queue' \in Seq(CommandObject) /\ issued' \in 0 .. MaxCommands
GhostsOK == /\ handled' \in [1 .. MaxCommands -> Nat]
            /\ left' \subseteq (1 .. MaxCommands) \X Reasons

LEMMA DataKept == TurnsOK /\ QueueOK /\ GhostsOK => DataOK'
BY DEF TurnsOK, QueueOK, GhostsOK, DataOK

LEMMA QueueUnchanged == DataOK /\ UNCHANGED <<queue, issued>> => QueueOK
BY DEF DataOK, QueueOK

LEMMA GhostsUnchanged == DataOK /\ UNCHANGED ghosts => GhostsOK
BY DEF DataOK, GhostsOK, ghosts

LEMMA GhostsHandled ==
    ASSUME DataOK, NEW s, Handle(s), left' = left
    PROVE  GhostsOK
BY HandleFacts DEF DataOK, GhostsOK

LEMMA GhostsLeft ==
    ASSUME DataOK, handled' = handled, NEW W, W \subseteq 1 .. MaxCommands,
           NEW why \in Reasons, left' = left \cup (W \X {why})
    PROVE  GhostsOK
BY DEF DataOK, GhostsOK

LEMMA GhostsRequeued ==
    ASSUME DataOK, handled' \in [1 .. MaxCommands -> Nat],
           NEW s \in Seq(CommandObject), Requeued(s)
    PROVE  GhostsOK
<1>1. PICK W \in SUBSET Ids(s) : left' = left \cup (W \X {"skipped"})
  BY DEF Requeued
<1>2. W \subseteq 1 .. MaxCommands
  BY IdsType
<1> QED
  BY <1>1, <1>2 DEF DataOK, GhostsOK, Reasons

LEMMA TurnsJoined ==
    ASSUME DataOK, NEW cmds, NEW stage, Joined(cmds, stage),
           stage = "processing" => cmds # <<>>
    PROVE  TurnsOK /\ controller' \in Turn' \cup {0}
BY JoinedTyped DEF TurnsOK

LEMMA TurnsBecome ==
    ASSUME DataOK, ControlOK, NEW t \in Turn, NEW stage, NEW cmds, NEW snapshot,
           Becomes(t, stage, cmds, snapshot), stage # "processing",
           controller' \in {controller, 0}
    PROVE  TurnsOK /\ controller' \in Turn' \cup {0}
BY BecomesTyped DEF TurnsOK, ControlOK

LEMMA TurnsAlike ==
    ASSUME DataOK, ControlOK, turns' \in Seq(TurnRecord), Alike(turns, turns'),
           controller' \in {controller, 0}
    PROVE  TurnsOK /\ controller' \in Turn' \cup {0}
BY AlikeTyped DEF TurnsOK, ControlOK

LEMMA TurnsUnchanged ==
    ASSUME DataOK, ControlOK, turns' = turns, controller' = controller
    PROVE  TurnsOK /\ controller' \in Turn' \cup {0}
BY SameTurns DEF TurnsOK, ControlOK

\* What is typed after a step.
StepTyped == TurnsOK /\ QueueOK /\ GhostsOK /\ controller' \in Turn' \cup {0}

LEMMA EnqueuedTyped ==
    ASSUME DataOK, ControlOK, Enqueued, UNCHANGED <<turns, controller, ghosts>>
    PROVE  StepTyped
<1>1. QueueOK
  BY DEF Enqueued, QueueOK
<1> QED
  BY <1>1, TurnsUnchanged, GhostsUnchanged DEF StepTyped

LEMMA ArrivalsTyped ==
    ASSUME DataOK, ControlOK,
           (\E kind \in Kinds : Submit(kind) \/ Notify(kind)) \/ IncomingPrompt
    PROVE  StepTyped
<1>1. ASSUME NEW kind \in Kinds, Submit(kind) PROVE StepTyped
  <2>1. UNCHANGED ghosts
    BY <1>1, SubmitFacts
  <2>2. CASE Enqueued /\ UNCHANGED <<turns, controller, status>>
    BY <2>1, <2>2, EnqueuedTyped
  <2>3. CASE queue' = queue /\ \E cmds : NewTurnFor(cmds, "processing")
    <3>1. PICK cmds : NewTurnFor(cmds, "processing")
      BY <2>3
    <3>2. TurnsOK /\ controller' \in Turn' \cup {0}
      BY <3>1, TurnsJoined DEF NewTurnFor
    <3>3. QueueOK
      BY <2>3, <3>1 DEF NewTurnFor, QueueOK, DataOK
    <3> QED
      BY <2>1, <3>2, <3>3, GhostsUnchanged DEF StepTyped
  <2> QED
    BY <1>1, <2>2, <2>3, SubmitFacts
<1>2. ASSUME NEW kind \in Kinds, Notify(kind) PROVE StepTyped
  <2>1. Enqueued /\ UNCHANGED <<turns, controller, ghosts>>
    BY <1>2, NotifyFacts
  <2> QED
    BY <2>1, EnqueuedTyped
<1>3. CASE IncomingPrompt
  <2>1. PICK cmds : NewTurnFor(cmds, "querying") /\ Handle(cmds)
    BY <1>3, IncomingPromptFacts
  <2>2. UNCHANGED <<queue, left>>
    BY <1>3, IncomingPromptFacts
  <2>3. TurnsOK /\ controller' \in Turn' \cup {0}
    BY <2>1, TurnsJoined DEF NewTurnFor
  <2>4. QueueOK
    BY <2>1, <2>2 DEF NewTurnFor, QueueOK, DataOK
  <2> QED
    BY <2>1, <2>2, <2>3, <2>4, GhostsHandled DEF StepTyped
<1> QED
  BY <1>1, <1>2, <1>3

LEMMA QueueStepsTyped ==
    ASSUME DataOK, ControlOK, SubagentDrains \/ Render \/ PopQueue \/ KillAgents
    PROVE  StepTyped
<1>1. CASE SubagentDrains
  <2>1. /\ UNCHANGED <<turns, controller, issued, left>> /\ queue' \in Seq(CommandObject)
        /\ \E mine : Handle(mine)
    BY <1>1, SubagentDrainsFacts
  <2>2. QueueOK
    BY <2>1 DEF QueueOK, DataOK
  <2> QED
    BY <2>1, <2>2, TurnsUnchanged, GhostsHandled DEF StepTyped
<1>2. CASE Render
  <2>1. UNCHANGED <<issued, ghosts>> /\ queue' \in Seq(CommandObject)
    BY <1>2, RenderFacts
  <2>2. QueueOK
    BY <2>1 DEF QueueOK, DataOK
  <2>3. CASE \E cmds \in Seq(CommandObject) : cmds # <<>> /\ Joined(cmds, "processing")
    BY <2>1, <2>2, <2>3, TurnsJoined, GhostsUnchanged DEF StepTyped
  <2>4. CASE /\ controller' = controller
             /\ turns' \in Seq(TurnRecord) /\ Alike(turns, turns')
    BY <2>1, <2>2, <2>4, TurnsAlike, GhostsUnchanged DEF StepTyped
  <2> QED
    BY <1>2, <2>3, <2>4, RenderFacts
<1>3. CASE PopQueue
  <2>1. /\ UNCHANGED <<turns, controller, issued, handled>> /\ queue' \in Seq(CommandObject)
        /\ \E gone \in SUBSET Elements(queue) :
               left' = left \cup ({c.id : c \in gone} \X {"taken"})
    BY <1>3, PopQueueFacts
  <2>2. PICK gone \in SUBSET Elements(queue) :
            left' = left \cup ({c.id : c \in gone} \X {"taken"})
    BY <2>1
  <2>3. {c.id : c \in gone} \subseteq 1 .. MaxCommands
    BY IdsType, IdsOfElements DEF DataOK
  <2>4. GhostsOK
    BY <2>1, <2>2, <2>3, GhostsLeft DEF Reasons
  <2>5. QueueOK
    BY <2>1 DEF QueueOK, DataOK
  <2> QED
    BY <2>1, <2>4, <2>5, TurnsUnchanged DEF StepTyped
<1>4. CASE KillAgents
  <2>1. /\ UNCHANGED <<turns, controller, handled>> /\ QueueOK
        /\ left' = left \cup (Ids(queue) \X {"cleared"})
    BY <1>4, KillAgentsFacts DEF QueueOK
  <2>2. Ids(queue) \subseteq 1 .. MaxCommands
    BY IdsType DEF DataOK
  <2>3. GhostsOK
    BY <2>1, <2>2, GhostsLeft DEF Reasons
  <2> QED
    BY <2>1, <2>3, TurnsUnchanged DEF StepTyped
<1> QED
  BY <1>1, <1>2, <1>3, <1>4

LEMMA DispatchedTyped ==
    ASSUME DataOK, ControlOK, NEW t \in Turn, Dispatched(t)
    PROVE  StepTyped
<1>1. CASE BecomesQuery(t)
  <2>1. controller' = controller /\ QueueOK
    BY <1>1, BecomesQueryFacts DEF QueueOK
  <2>2. CASE /\ Becomes(t, "querying", turns[t].cmds, turns[t].snapshot)
             /\ Handle(turns[t].cmds) /\ left' = left
    BY <2>1, <2>2, TurnsBecome, GhostsHandled DEF StepTyped
  <2>3. CASE /\ Becomes(t, "over", <<>>, <<>>) /\ handled' = handled
             /\ Requeued(turns[t].cmds)
    <3>1. turns[t].cmds \in Seq(CommandObject)
      BY TurnParts
    <3>2. GhostsOK
      BY <2>3, <3>1, GhostsRequeued DEF DataOK
    <3> QED
      BY <2>1, <2>3, <3>2, TurnsBecome DEF StepTyped
  <2> QED
    BY <1>1, <2>2, <2>3, BecomesQueryFacts
<1>2. CASE BecomesLocal(t)
  <2>1. /\ Becomes(t, "over", <<>>, <<>>) /\ QueueOK
        /\ controller' \in {controller, 0} /\ \E s : Handle(s)
        /\ left' = left \/ Requeued(turns[t].cmds) \/ Requeued(Tail(turns[t].cmds))
    BY <1>2, BecomesLocalFacts DEF QueueOK
  <2>2. /\ turns[t].cmds \in Seq(CommandObject)
        /\ Tail(turns[t].cmds) \in Seq(CommandObject)
    BY <1>2, TurnParts, FirstFacts, BecomesLocalFacts
  <2>3. handled' \in [1 .. MaxCommands -> Nat]
    BY <2>1, HandleFacts DEF DataOK
  <2>4. GhostsOK
    BY <2>1, <2>2, <2>3, GhostsRequeued DEF DataOK, GhostsOK
  <2> QED
    BY <2>1, <2>4, TurnsBecome DEF StepTyped
<1>3. CASE BecomesNothing(t)
  <2>1. /\ Becomes(t, "over", <<>>, <<>>) /\ QueueOK /\ left' = left
        /\ controller' = 0 /\ Handle(turns[t].cmds)
    BY <1>3, BecomesNothingFacts DEF QueueOK
  <2> QED
    BY <2>1, TurnsBecome, GhostsHandled DEF StepTyped
<1>4. CASE Throws(t)
  <2>1. /\ Becomes(t, "over", <<>>, <<>>) /\ UNCHANGED <<queue, controller, issued, handled>>
        /\ left' = left \cup (Ids(turns[t].cmds) \X {"failed"})
    BY <1>4, ThrowsFacts
  <2>2. Ids(turns[t].cmds) \subseteq 1 .. MaxCommands
    BY IdsType, TurnParts
  <2>3. GhostsOK
    BY <2>1, <2>2, GhostsLeft DEF Reasons
  <2> QED
    BY <2>1, <2>3, TurnsBecome, QueueUnchanged DEF StepTyped
<1> QED
  BY <1>1, <1>2, <1>3, <1>4 DEF Dispatched

LEMMA QueryStepsTyped ==
    ASSUME DataOK, ControlOK, NEW t \in Turn,
           OpenDialog(t) \/ QueryEnds(t) \/ TakeSnapshot(t) \/ RemoveConsumed(t)
    PROVE  StepTyped
<1>1. CASE OpenDialog(t)
  <2>1. /\ turns' \in Seq(TurnRecord) /\ Alike(turns, turns')
        /\ UNCHANGED <<queue, controller, issued, ghosts>>
    BY <1>1, OpenDialogFacts
  <2> QED
    BY <2>1, TurnsAlike, QueueUnchanged, GhostsUnchanged DEF StepTyped
<1>2. CASE QueryEnds(t)
  <2>1. /\ Becomes(t, "over", <<>>, <<>>) /\ QueueOK /\ UNCHANGED ghosts
        /\ controller' \in {controller, 0}
    BY <1>2, QueryEndsFacts DEF QueueOK
  <2> QED
    BY <2>1, TurnsBecome, GhostsUnchanged DEF StepTyped
<1>3. CASE TakeSnapshot(t)
  <2>1. PICK taken : Becomes(t, "attaching", turns[t].cmds, taken)
    BY <1>3, TakeSnapshotFacts
  <2>2. UNCHANGED <<queue, controller, issued, ghosts>>
    BY <1>3, TakeSnapshotFacts
  <2> QED
    BY <2>1, <2>2, TurnsBecome, QueueUnchanged, GhostsUnchanged DEF StepTyped
<1>4. CASE RemoveConsumed(t)
  <2>1. /\ Becomes(t, "querying", turns[t].cmds, <<>>) /\ Handle(turns[t].snapshot)
        /\ UNCHANGED <<controller, issued, left>> /\ queue' \in Seq(CommandObject)
    BY <1>4, RemoveConsumedFacts
  <2>2. QueueOK
    BY <2>1 DEF QueueOK, DataOK
  <2> QED
    BY <2>1, <2>2, TurnsBecome, GhostsHandled DEF StepTyped
<1> QED
  BY <1>1, <1>2, <1>3, <1>4

LEMMA OtherStepsTyped ==
    ASSUME DataOK, ControlOK,
           \/ OnCancel \/ RunImmediate \/ ImmediateLoaded \/ CloseImmediate
           \/ UNCHANGED vars
    PROVE  StepTyped
<1>1. CASE OnCancel
  <2>1. /\ turns' \in Seq(TurnRecord) /\ Alike(turns, turns') /\ controller' = 0
        /\ UNCHANGED <<queue, issued, ghosts>>
    BY <1>1, OnCancelFacts DEF OnCancel
  <2> QED
    BY <2>1, TurnsAlike, QueueUnchanged, GhostsUnchanged DEF StepTyped
<1>2. CASE UNCHANGED <<turns, controller, queue, issued, ghosts>>
  BY <1>2, TurnsUnchanged, QueueUnchanged, GhostsUnchanged DEF StepTyped
<1> QED
  BY <1>1, <1>2 DEF RunImmediate, ImmediateLoaded, CloseImmediate, vars

LEMMA NextTyped ==
    ASSUME DataOK, ControlOK, [Next]_vars
    PROVE  StepTyped
BY ArrivalsTyped, QueueStepsTyped, DispatchedTyped, QueryStepsTyped, OtherStepsTyped
   DEF Next, Escape, Rewind

LEMMA TouchedType == Touched => queueDirty' \in BOOLEAN
<1>1. ASSUME NEW d, d = (queueDirty \/ queue' # queue) PROVE d \in BOOLEAN
  BY <1>1
<1> QED
  BY <1>1 DEF Touched

\* The rest of the state.
Scalars ==
    /\ status' \in {"idle", "dispatching", "running"} /\ generation' \in Nat
    /\ shown' \in Turn' \cup {0} /\ panel' \in Turn' \cup {0, Immediate}
    /\ loading' \in BOOLEAN /\ cancels' \in 0 .. MaxCancels
    /\ seenActive' \in BOOLEAN /\ seenPanel' \in BOOLEAN /\ seenCancel' \in BOOLEAN
    /\ queueDirty' \in BOOLEAN

LEMMA ArrivalScalars ==
    ASSUME ControlOK, Turn \subseteq Turn', NEW kind,
           \/ Submit(kind) \/ Notify(kind) \/ IncomingPrompt \/ SubagentDrains
           \/ PopQueue \/ KillAgents
    PROVE  Scalars
<1>1. CASE Submit(kind)
  <2>1. /\ status' \in {status, "dispatching"} /\ Touched
        /\ UNCHANGED <<generation, dialogs, rendered, cancels>>
    BY <1>1 DEF Submit, ExecuteUserInput
  <2> QED
    BY <2>1, TouchedType DEF ControlOK, Scalars, dialogs, rendered
<1>2. CASE Notify(kind) \/ SubagentDrains \/ PopQueue \/ KillAgents
  <2>1. Touched /\ UNCHANGED <<guard, dialogs, rendered, cancels>>
    BY <1>2 DEF Notify, SubagentDrains, PopQueue, KillAgents
  <2> QED
    BY <2>1, TouchedType DEF ControlOK, Scalars, guard, dialogs, rendered
<1>3. CASE IncomingPrompt
  <2>1. /\ status' = "running" /\ generation' = generation + 1
        /\ UNCHANGED <<dialogs, rendered, queueDirty, cancels>>
    BY <1>3 DEF IncomingPrompt
  <2> QED
    BY <2>1 DEF ControlOK, Scalars, dialogs, rendered
<1> QED
  BY <1>1, <1>2, <1>3

LEMMA RenderScalars ==
    ASSUME ControlOK, Turn \subseteq Turn', Render
    PROVE  Scalars
<1>1. /\ status' \in {status, "dispatching"} /\ shown' = controller
      /\ UNCHANGED <<generation, dialogs, cancels>>
  BY DEF Render, ExecuteUserInput
<1>2. /\ seenActive' \in BOOLEAN /\ seenPanel' \in BOOLEAN /\ queueDirty' \in BOOLEAN
  BY DEF Render, Active
<1>3. seenCancel' \in BOOLEAN
  <2>1. seenCancel' = EscapeActive
    BY DEF Render
  <2>2. EscapeActive \in BOOLEAN
    BY DEF EscapeActive
  <2> QED
    BY <2>1, <2>2
<1> QED
  BY <1>1, <1>2, <1>3 DEF ControlOK, Scalars, dialogs

LEMMA DispatchedScalars ==
    ASSUME ControlOK, Turn \subseteq Turn', NEW t \in Turn, Dispatched(t)
    PROVE  Scalars
<1>1. /\ status' \in {status, "running", "idle"} /\ generation' \in {generation, generation + 1}
      /\ panel' \in {panel, 0} /\ loading' = loading /\ UNCHANGED <<rendered, cancels>>
  BY DEF Dispatched, BecomesQuery, BecomesLocal, BecomesNothing, Throws, Released, guard,
         dialogs
<1>2. Touched \/ queueDirty' = queueDirty
  BY DEF Dispatched, BecomesQuery, BecomesLocal, BecomesNothing, Throws
<1>3. queueDirty' \in BOOLEAN
  BY <1>2, TouchedType DEF ControlOK
<1> QED
  BY <1>1, <1>3 DEF ControlOK, Scalars, rendered

LEMMA QueryScalars ==
    ASSUME ControlOK, Turn \subseteq Turn', NEW t \in Turn,
           OpenDialog(t) \/ QueryEnds(t) \/ TakeSnapshot(t) \/ RemoveConsumed(t)
    PROVE  Scalars
<1>1. /\ status' \in {status, "idle"} /\ generation' = generation
      /\ panel' \in {panel, t} /\ loading' = loading /\ UNCHANGED <<rendered, cancels>>
  BY DEF OpenDialog, QueryEnds, TakeSnapshot, RemoveConsumed, Released, guard, dialogs
<1>2. Touched \/ queueDirty' = queueDirty
  BY DEF OpenDialog, QueryEnds, TakeSnapshot, RemoveConsumed
<1>3. queueDirty' \in BOOLEAN
  BY <1>2, TouchedType DEF ControlOK
<1> QED
  BY <1>1, <1>3 DEF ControlOK, Scalars, rendered

LEMMA OtherScalars ==
    ASSUME ControlOK, Turn \subseteq Turn',
           \/ OnCancel \/ RunImmediate \/ ImmediateLoaded \/ CloseImmediate
           \/ UNCHANGED vars
    PROVE  Scalars
<1>1. CASE OnCancel
  <2>1. /\ status' \in {status, "idle"} /\ generation' \in {generation, generation + 1}
        /\ cancels < MaxCancels /\ cancels' = cancels + 1
        /\ UNCHANGED <<dialogs, rendered, queueDirty>>
    BY <1>1 DEF OnCancel, guard
  <2>2. cancels' \in 0 .. MaxCancels
    BY <2>1, BoundsAssumption DEF ControlOK
  <2> QED
    BY <2>1, <2>2 DEF ControlOK, Scalars, dialogs, rendered
<1>2. CASE RunImmediate \/ ImmediateLoaded \/ CloseImmediate
  <2>1. /\ UNCHANGED <<guard, rendered, queueDirty, cancels>> /\ loading' \in BOOLEAN
        /\ panel' \in {Immediate, 0, panel}
    BY <1>2 DEF RunImmediate, ImmediateLoaded, CloseImmediate, ControlOK
  <2> QED
    BY <2>1 DEF ControlOK, Scalars, guard, rendered
<1>3. CASE UNCHANGED vars
  BY <1>3 DEF vars, ControlOK, Scalars, guard, dialogs, rendered
<1> QED
  BY <1>1, <1>2, <1>3

LEMMA ControlKept ==
    ASSUME ControlOK, StepTyped, [Next]_vars
    PROVE  ControlOK'
<1>1. Turn \subseteq Turn' /\ controller' \in Turn' \cup {0}
  BY DEF StepTyped, TurnsOK
<1>2. Scalars
  BY <1>1, ArrivalScalars, RenderScalars, DispatchedScalars, QueryScalars, OtherScalars
     DEF Next, Escape, Rewind
<1> QED
  BY <1>1, <1>2 DEF ControlOK, Scalars

CInv == DataOK /\ ControlOK

LEMMA InitTyped == ASSUME Init PROVE CInv
<1>1. turns = <<>> /\ Turn = {}
  BY DEF Init, Turn
<1>2. DataOK
  BY <1>1, BoundsAssumption, EmptySeq DEF Init, DataOK, HasCommands
<1>3. 0 \in 0 .. MaxCancels /\ 0 \in Nat
  BY BoundsAssumption
<1>4. ControlOK
  BY <1>3 DEF Init, ControlOK
<1> QED
  BY <1>2, <1>4 DEF CInv

LEMMA NextKeepsTypes == ASSUME CInv, [Next]_vars PROVE CInv' /\ StepTyped
<1>1. StepTyped
  BY NextTyped DEF CInv
<1>2. DataOK'
  BY <1>1, DataKept DEF StepTyped
<1> QED
  BY <1>1, <1>2, ControlKept DEF CInv

(***************************************************************************)
(* Every variable stays in its set, and a dispatch that is processing has  *)
(* a command to process (executeUserInput reads the first one).            *)
(***************************************************************************)
THEOREM DispatchTypeCorrect == Spec => []TypeOK
<1>1. Init => CInv
  BY InitTyped
<1>2. CInv /\ [Next]_vars => CInv'
  BY NextKeepsTypes
<1>3. CInv => TypeOK
  BY Typed DEF CInv
<1> QED
  BY <1>1, <1>2, <1>3, PTL DEF Spec

-----------------------------------------------------------------------------
(***************************************************************************)
(* No command is lost.  A command is accounted for when it was handled or  *)
(* left for a reason, waits in the queue or is being processed; it is safe *)
(* when the step leaves it so.                                             *)
(***************************************************************************)
Left(id) == \E why \in Reasons : <<id, why>> \in left

Accounted ==
    \A id \in 1 .. issued :
        \/ handled[id] > 0
        \/ Left(id) \/ id \in Ids(queue)
        \/ \E t \in Processing : id \in Ids(turns[t].cmds)

SafeNext(id) ==
    \/ handled'[id] > 0
    \/ (\E why \in Reasons : <<id, why>> \in left') \/ id \in Ids(queue')
    \/ \E t \in Turn' : turns'[t].stage = "processing" /\ id \in Ids(turns'[t].cmds)

GhostsGrow ==
    /\ \A id \in 1 .. MaxCommands : handled[id] > 0 => handled'[id] > 0
    /\ left \subseteq left'
QueueSafe == \A id \in Ids(queue) : SafeNext(id)
DispatchesSafe == \A t \in Processing : \A id \in Ids(turns[t].cmds) : SafeNext(id)
ArrivalsSafe == \A id \in 1 .. issued' : id \in 1 .. issued \/ SafeNext(id)
Keeps == GhostsGrow /\ QueueSafe /\ DispatchesSafe /\ ArrivalsSafe

LEMMA KeepsLosesNone ==
    ASSUME DataOK, QueueOK, Accounted, Keeps
    PROVE  Accounted'
<1>1. issued \in 0 .. MaxCommands /\ MaxCommands \in Nat
  BY BoundsAssumption DEF DataOK
<1>2. ASSUME NEW id \in 1 .. issued' PROVE SafeNext(id)
  <2>1. CASE id \notin 1 .. issued
    BY <2>1 DEF Keeps, ArrivalsSafe
  <2>2. CASE id \in 1 .. issued
    <3>1. id \in 1 .. MaxCommands
      BY <1>1, <2>2
    <3>2. \/ handled[id] > 0 \/ Left(id) \/ id \in Ids(queue)
          \/ \E t \in Processing : id \in Ids(turns[t].cmds)
      BY <2>2 DEF Accounted
    <3>3. CASE handled[id] > 0 \/ Left(id)
      BY <3>1, <3>3 DEF Keeps, GhostsGrow, SafeNext, Left
    <3>4. CASE id \in Ids(queue) \/ \E t \in Processing : id \in Ids(turns[t].cmds)
      BY <3>4 DEF Keeps, QueueSafe, DispatchesSafe
    <3> QED
      BY <3>2, <3>3, <3>4
  <2> QED
    BY <2>1, <2>2
<1> QED
  BY <1>2 DEF Accounted, SafeNext, Left, Processing

\* What was handled, and what has left, stays so.
LEMMA HandleGrows ==
    ASSUME DataOK, NEW s \in Seq(CommandObject), Handle(s), left \subseteq left'
    PROVE  GhostsGrow /\ \A id \in Ids(s) : SafeNext(id)
<1>1. Ids(s) \subseteq 1 .. MaxCommands
  BY IdsType
<1> QED
  BY <1>1, HandleFacts DEF DataOK, GhostsGrow, SafeNext

LEMMA LeaveGrows ==
    ASSUME DataOK, handled' = handled, NEW W, NEW why \in Reasons,
           left' = left \cup (W \X {why})
    PROVE  GhostsGrow /\ \A id \in W : SafeNext(id)
BY DEF GhostsGrow, SafeNext

LEMMA GhostsStay == DataOK /\ UNCHANGED ghosts => GhostsGrow
BY DEF GhostsGrow, ghosts

\* What the queue keeps is safe.
LEMMA QueueStays == UNCHANGED <<queue, issued>> => QueueSafe /\ ArrivalsSafe
BY DEF QueueSafe, ArrivalsSafe, SafeNext

LEMMA GrowsSafe ==
    ASSUME DataOK, NEW q \in Seq(CommandObject), Ids(queue) \subseteq Ids(q), Grows(q)
    PROVE  QueueSafe /\ ArrivalsSafe /\ \A id \in Ids(q) : SafeNext(id)
<1>1. Ids(queue') = {c.id : c \in Elements(queue')} /\ Ids(q) = {c.id : c \in Elements(q)}
  BY IdsOfElements
<1>2. Ids(q) \subseteq Ids(queue')
  BY <1>1 DEF Grows
<1>3. \A id \in 1 .. issued' : id \in 1 .. issued \/ id \in Ids(queue')
  <2>1. CASE issued' = issued
    BY <2>1
  <2>2. CASE issued' = issued + 1 /\ issued + 1 \in Ids(queue')
    BY <2>2 DEF DataOK
  <2> QED
    BY <1>1, <2>1, <2>2 DEF Grows
<1> QED
  BY <1>2, <1>3 DEF QueueSafe, ArrivalsSafe, SafeNext

LEMMA EnqueuedSafe == ASSUME DataOK, Enqueued PROVE QueueSafe /\ ArrivalsSafe
<1>1. Grows(queue) /\ queue \in Seq(CommandObject)
  BY DEF Enqueued, Grows, DataOK
<1> QED
  BY <1>1, GrowsSafe

LEMMA RequeuedSafe ==
    ASSUME DataOK, NEW s, Requeued(s)
    PROVE  /\ QueueSafe /\ ArrivalsSafe /\ left \subseteq left'
           /\ \A id \in Ids(s) : SafeNext(id)
<1>1. PICK q \in Seq(CommandObject) :
          /\ Elements(queue) \subseteq Elements(q) /\ Grows(q)
          /\ \A id \in Ids(s) : id \in Ids(q) \/ <<id, "skipped">> \in left'
  BY DEF Requeued
<1>2. Ids(queue) \subseteq Ids(q)
  BY <1>1, IdsOfElements
<1>3. QueueSafe /\ ArrivalsSafe /\ \A id \in Ids(q) : SafeNext(id)
  BY <1>1, <1>2, GrowsSafe
<1>4. \A id \in Ids(s) : SafeNext(id)
  BY <1>1, <1>3 DEF SafeNext, Reasons
<1>5. left \subseteq left'
  BY DEF Requeued
<1> QED
  BY <1>3, <1>4, <1>5

\* What is taken from the queue is safe elsewhere.
LEMMA TakenSafe ==
    ASSUME NEW gone, Elements(queue') = Elements(queue) \ gone,
           \A c \in gone : SafeNext(c.id)
    PROVE  QueueSafe
<1>1. Ids(queue') = {c.id : c \in Elements(queue')}
      /\ Ids(queue) = {c.id : c \in Elements(queue)}
  BY IdsOfElements
<1> SUFFICES ASSUME NEW c \in Elements(queue) PROVE SafeNext(c.id)
  BY <1>1 DEF QueueSafe
<1>2. CASE c \notin gone
  BY <1>1, <1>2 DEF SafeNext
<1> QED
  BY <1>2

\* What goes on being processed is safe.
LEMMA AlikeSafe ==
    ASSUME turns' \in Seq(TurnRecord), Alike(turns, turns')
    PROVE  DispatchesSafe
BY DEF Alike, DispatchesSafe, SafeNext, Processing, Turn

LEMMA SameTurnsSafe == turns' = turns => DispatchesSafe
BY DEF DispatchesSafe, SafeNext, Processing, Turn

LEMMA JoinedSafe ==
    ASSUME NEW cmds, NEW stage, Joined(cmds, stage)
    PROVE  /\ DispatchesSafe
           /\ stage = "processing" => \A id \in Ids(cmds) : SafeNext(id)
BY DEF Joined, DispatchesSafe, SafeNext, Processing

LEMMA BecomesSafe ==
    ASSUME NEW t \in Turn, NEW stage, NEW cmds, NEW snapshot,
           Becomes(t, stage, cmds, snapshot),
           turns[t].stage = "processing" => \A id \in Ids(turns[t].cmds) : SafeNext(id)
    PROVE  DispatchesSafe
<1> SUFFICES ASSUME NEW u \in Processing, NEW id \in Ids(turns[u].cmds) PROVE SafeNext(id)
  BY DEF DispatchesSafe
<1>1. CASE u = t
  BY <1>1 DEF Processing
<1>2. CASE u # t
  <2>1. u \in Turn' /\ turns'[u] = turns[u] /\ turns[u].stage = "processing"
    BY <1>2 DEF Becomes, Processing
  <2> QED
    BY <2>1 DEF SafeNext
<1> QED
  BY <1>1, <1>2

LEMMA NewTurnSafe ==
    ASSUME DataOK, NEW cmds, NEW stage, NewTurnFor(cmds, stage), queue' = queue,
           stage = "processing" \/ \A id \in Ids(cmds) : SafeNext(id)
    PROVE  QueueSafe /\ DispatchesSafe /\ ArrivalsSafe
<1>1. DispatchesSafe /\ \A id \in Ids(cmds) : SafeNext(id)
  BY JoinedSafe DEF NewTurnFor
<1>2. \A id \in 1 .. issued' : id \in 1 .. issued \/ id = issued + 1
  BY DEF NewTurnFor, DataOK
<1>3. issued + 1 \in Ids(cmds)
  BY DEF NewTurnFor
<1>4. QueueSafe
  BY DEF QueueSafe, SafeNext
<1> QED
  BY <1>1, <1>2, <1>3, <1>4 DEF ArrivalsSafe

LEMMA ArrivalsKeep ==
    ASSUME DataOK, ControlOK,
           (\E kind \in Kinds : Submit(kind) \/ Notify(kind)) \/ IncomingPrompt
    PROVE  Keeps
<1>1. ASSUME NEW kind \in Kinds, Submit(kind) PROVE Keeps
  <2>1. GhostsGrow
    BY <1>1, SubmitFacts, GhostsStay
  <2>2. CASE Enqueued /\ UNCHANGED <<turns, controller, status>>
    BY <2>1, <2>2, EnqueuedSafe, SameTurnsSafe DEF Keeps
  <2>3. CASE queue' = queue /\ \E cmds : NewTurnFor(cmds, "processing")
    BY <2>1, <2>3, NewTurnSafe DEF Keeps
  <2> QED
    BY <1>1, <2>2, <2>3, SubmitFacts
<1>2. ASSUME NEW kind \in Kinds, Notify(kind) PROVE Keeps
  BY <1>2, NotifyFacts, EnqueuedSafe, SameTurnsSafe, GhostsStay DEF Keeps
<1>3. CASE IncomingPrompt
  <2>1. PICK cmds : NewTurnFor(cmds, "querying") /\ Handle(cmds)
    BY <1>3, IncomingPromptFacts
  <2>2. UNCHANGED <<queue, left>> /\ cmds \in Seq(CommandObject)
    BY <1>3, <2>1, IncomingPromptFacts DEF NewTurnFor
  <2>3. GhostsGrow /\ \A id \in Ids(cmds) : SafeNext(id)
    BY <2>1, <2>2, HandleGrows
  <2> QED
    BY <2>1, <2>2, <2>3, NewTurnSafe DEF Keeps
<1> QED
  BY <1>1, <1>2, <1>3

LEMMA QueueStepsKeep ==
    ASSUME DataOK, SubagentDrains \/ Render \/ PopQueue \/ KillAgents
    PROVE  Keeps
<1>1. CASE SubagentDrains
  <2>1. PICK mine \in Seq(CommandObject) :
            Handle(mine) /\ Elements(queue') = Elements(queue) \ Elements(mine)
    BY <1>1, SubagentDrainsFacts
  <2>2. UNCHANGED <<turns, issued, left>>
    BY <1>1, SubagentDrainsFacts
  <2>3. GhostsGrow /\ \A id \in Ids(mine) : SafeNext(id)
    BY <2>1, <2>2, HandleGrows
  <2>4. \A c \in Elements(mine) : SafeNext(c.id)
    BY <2>3, IdsOfElements
  <2> QED
    BY <2>1, <2>2, <2>3, <2>4, TakenSafe, SameTurnsSafe DEF Keeps, ArrivalsSafe
<1>2. CASE Render
  <2>1. UNCHANGED <<issued, ghosts>>
    BY <1>2, RenderFacts
  <2>2. CASE \E cmds \in Seq(CommandObject) :
                 /\ Joined(cmds, "processing")
                 /\ Elements(queue') = Elements(queue) \ Elements(cmds)
    <3>1. PICK cmds \in Seq(CommandObject) :
              /\ Joined(cmds, "processing")
              /\ Elements(queue') = Elements(queue) \ Elements(cmds)
      BY <2>2
    <3>2. DispatchesSafe /\ \A id \in Ids(cmds) : SafeNext(id)
      BY <3>1, JoinedSafe
    <3>3. \A c \in Elements(cmds) : SafeNext(c.id)
      BY <3>2, IdsOfElements
    <3> QED
      BY <2>1, <3>1, <3>2, <3>3, TakenSafe, GhostsStay DEF Keeps, ArrivalsSafe
  <2>3. CASE queue' = queue /\ turns' \in Seq(TurnRecord) /\ Alike(turns, turns')
    BY <2>1, <2>3, QueueStays, AlikeSafe, GhostsStay DEF Keeps
  <2> QED
    BY <1>2, <2>2, <2>3, RenderFacts
<1>3. CASE PopQueue
  <2>1. PICK gone \in SUBSET Elements(queue) :
            /\ Elements(queue') = Elements(queue) \ gone
            /\ left' = left \cup ({c.id : c \in gone} \X {"taken"})
    BY <1>3, PopQueueFacts
  <2>2. UNCHANGED <<turns, issued, handled>>
    BY <1>3, PopQueueFacts
  <2>3. GhostsGrow /\ \A c \in gone : SafeNext(c.id)
    BY <2>1, <2>2, LeaveGrows DEF Reasons
  <2> QED
    BY <2>1, <2>2, <2>3, TakenSafe, SameTurnsSafe DEF Keeps, ArrivalsSafe
<1>4. CASE KillAgents
  <2>1. /\ UNCHANGED <<turns, handled>> /\ left' = left \cup (Ids(queue) \X {"cleared"})
        /\ issued' = issued + 1
        /\ \E c \in CommandObject : c.id = issued + 1 /\ Elements(queue') = {c}
    BY <1>4, KillAgentsFacts
  <2>2. GhostsGrow /\ \A id \in Ids(queue) : SafeNext(id)
    BY <2>1, LeaveGrows DEF Reasons
  <2>3. issued + 1 \in Ids(queue')
    BY <2>1, IdsOfElements
  <2>4. \A id \in 1 .. issued' : id \in 1 .. issued \/ id = issued + 1
    BY <2>1 DEF DataOK
  <2>5. ArrivalsSafe
    BY <2>3, <2>4 DEF ArrivalsSafe, SafeNext
  <2> QED
    BY <2>1, <2>2, <2>5, SameTurnsSafe DEF Keeps, QueueSafe
<1> QED
  BY <1>1, <1>2, <1>3, <1>4

LEMMA DispatchedKeep ==
    ASSUME DataOK, ControlOK, NEW t \in Turn, Dispatched(t)
    PROVE  Keeps
<1>1. turns[t].cmds \in Seq(CommandObject) /\ queue \in Seq(CommandObject)
  BY TurnParts DEF DataOK
<1>2. CASE BecomesQuery(t)
  <2>2. CASE /\ Becomes(t, "querying", turns[t].cmds, turns[t].snapshot)
             /\ Handle(turns[t].cmds) /\ UNCHANGED <<queue, issued, left>>
    <3>1. GhostsGrow /\ \A id \in Ids(turns[t].cmds) : SafeNext(id)
      BY <1>1, <2>2, HandleGrows
    <3> QED
      BY <2>2, <3>1, BecomesSafe, QueueStays DEF Keeps
  <2>3. CASE /\ handled' = handled
             /\ Becomes(t, "over", <<>>, <<>>) /\ Requeued(turns[t].cmds)
    <3>1. /\ QueueSafe /\ ArrivalsSafe /\ left \subseteq left'
          /\ \A id \in Ids(turns[t].cmds) : SafeNext(id)
      BY <2>3, RequeuedSafe
    <3>2. GhostsGrow
      BY <2>3, <3>1 DEF GhostsGrow
    <3> QED
      BY <2>3, <3>1, <3>2, BecomesSafe DEF Keeps
  <2> QED
    BY <1>2, <2>2, <2>3, BecomesQueryFacts
<1>3. CASE BecomesLocal(t)
  <2>1. Becomes(t, "over", <<>>, <<>>) /\ turns[t].stage = "processing"
    BY <1>3, BecomesLocalFacts
  <2>2. CASE Handle(turns[t].cmds) /\ Grows(queue) /\ left' = left
    <3>1. GhostsGrow /\ \A id \in Ids(turns[t].cmds) : SafeNext(id)
      BY <1>1, <2>1, <2>2, HandleGrows
    <3>2. QueueSafe /\ ArrivalsSafe
      BY <1>1, <2>2, GrowsSafe
    <3> QED
      BY <2>1, <3>1, <3>2, BecomesSafe DEF Keeps
  <2>3. CASE /\ Handle(<<turns[t].cmds[1]>>)
             /\ Requeued(turns[t].cmds) \/ Requeued(Tail(turns[t].cmds))
    <3>1. /\ <<turns[t].cmds[1]>> \in Seq(CommandObject)
          /\ Ids(turns[t].cmds) = Ids(<<turns[t].cmds[1]>>) \cup Ids(Tail(turns[t].cmds))
      BY <1>1, <2>1, TurnParts, FirstFacts
    <3>2. /\ QueueSafe /\ ArrivalsSafe /\ left \subseteq left'
          /\ \A id \in Ids(Tail(turns[t].cmds)) : SafeNext(id)
      BY <2>3, <3>1, RequeuedSafe
    <3>3. GhostsGrow /\ \A id \in Ids(<<turns[t].cmds[1]>>) : SafeNext(id)
      BY <2>3, <3>1, <3>2, HandleGrows
    <3>4. \A id \in Ids(turns[t].cmds) : SafeNext(id)
      BY <3>1, <3>2, <3>3
    <3> QED
      BY <2>1, <3>2, <3>3, <3>4, BecomesSafe DEF Keeps
  <2> QED
    BY <1>3, <2>2, <2>3, BecomesLocalFacts
<1>4. CASE BecomesNothing(t)
  <2>1. /\ left' = left /\ Becomes(t, "over", <<>>, <<>>)
        /\ Handle(turns[t].cmds) /\ Grows(queue)
    BY <1>4, BecomesNothingFacts
  <2>2. GhostsGrow /\ \A id \in Ids(turns[t].cmds) : SafeNext(id)
    BY <1>1, <2>1, HandleGrows
  <2>3. QueueSafe /\ ArrivalsSafe
    BY <1>1, <2>1, GrowsSafe
  <2> QED
    BY <2>1, <2>2, <2>3, BecomesSafe DEF Keeps
<1>5. CASE Throws(t)
  <2>1. /\ Becomes(t, "over", <<>>, <<>>) /\ UNCHANGED <<queue, issued, handled>>
        /\ left' = left \cup (Ids(turns[t].cmds) \X {"failed"})
    BY <1>5, ThrowsFacts
  <2>2. GhostsGrow /\ \A id \in Ids(turns[t].cmds) : SafeNext(id)
    BY <2>1, LeaveGrows DEF Reasons
  <2> QED
    BY <2>1, <2>2, BecomesSafe, QueueStays DEF Keeps
<1> QED
  BY <1>2, <1>3, <1>4, <1>5 DEF Dispatched

LEMMA QueryStepsKeep ==
    ASSUME DataOK, NEW t \in Turn,
           OpenDialog(t) \/ QueryEnds(t) \/ TakeSnapshot(t) \/ RemoveConsumed(t)
    PROVE  Keeps
<1>1. CASE OpenDialog(t)
  BY <1>1, OpenDialogFacts, AlikeSafe, QueueStays, GhostsStay DEF Keeps
<1>2. CASE QueryEnds(t)
  <2>1. /\ turns[t].stage = "querying" /\ UNCHANGED ghosts
        /\ Becomes(t, "over", <<>>, <<>>) /\ Grows(queue) /\ queue \in Seq(CommandObject)
    BY <1>2, QueryEndsFacts DEF DataOK
  <2> QED
    BY <2>1, BecomesSafe, GrowsSafe, GhostsStay DEF Keeps
<1>3. CASE TakeSnapshot(t)
  <2>1. PICK taken : Becomes(t, "attaching", turns[t].cmds, taken)
    BY <1>3, TakeSnapshotFacts
  <2>2. turns[t].stage = "querying" /\ UNCHANGED <<queue, issued, ghosts>>
    BY <1>3, TakeSnapshotFacts
  <2> QED
    BY <2>1, <2>2, BecomesSafe, QueueStays, GhostsStay DEF Keeps
<1>4. CASE RemoveConsumed(t)
  <2>1. /\ turns[t].stage = "attaching" /\ UNCHANGED <<issued, left>>
        /\ Becomes(t, "querying", turns[t].cmds, <<>>) /\ Handle(turns[t].snapshot)
        /\ Elements(queue') = Elements(queue) \ Elements(turns[t].snapshot)
    BY <1>4, RemoveConsumedFacts
  <2>2. turns[t].snapshot \in Seq(CommandObject)
    BY TurnParts
  <2>3. GhostsGrow /\ \A id \in Ids(turns[t].snapshot) : SafeNext(id)
    BY <2>1, <2>2, HandleGrows
  <2>4. \A c \in Elements(turns[t].snapshot) : SafeNext(c.id)
    BY <2>3, IdsOfElements
  <2> QED
    BY <2>1, <2>3, <2>4, BecomesSafe, TakenSafe DEF Keeps, ArrivalsSafe
<1> QED
  BY <1>1, <1>2, <1>3, <1>4

LEMMA OtherStepsKeep ==
    ASSUME DataOK, ControlOK,
           \/ OnCancel \/ RunImmediate \/ ImmediateLoaded \/ CloseImmediate
           \/ UNCHANGED vars
    PROVE  Keeps
<1>1. CASE OnCancel
  BY <1>1, OnCancelFacts, AlikeSafe, QueueStays, GhostsStay DEF Keeps
<1>2. CASE UNCHANGED <<turns, queue, issued, ghosts>>
  BY <1>2, SameTurnsSafe, QueueStays, GhostsStay DEF Keeps
<1> QED
  BY <1>1, <1>2 DEF RunImmediate, ImmediateLoaded, CloseImmediate, vars

LEMMA NextKeepsCommands ==
    ASSUME CInv, [Next]_vars
    PROVE  Keeps
BY ArrivalsKeep, QueueStepsKeep, DispatchedKeep, QueryStepsKeep, OtherStepsKeep
   DEF Next, Escape, Rewind, CInv

\* Every command is accounted for, whatever is cancelled, throws or is refused.
LEMMA CommandsAccounted == Spec => []Accounted
<1>1. Init => CInv /\ Accounted
  <2>1. Init => Accounted
    BY DEF Init, Accounted
  <2> QED
    BY <2>1, InitTyped
<1>2. CInv /\ Accounted /\ [Next]_vars => CInv' /\ Accounted'
  <2> SUFFICES ASSUME CInv, Accounted, [Next]_vars PROVE CInv' /\ Accounted'
    OBVIOUS
  <2>1. CInv' /\ StepTyped
    BY NextKeepsTypes
  <2>2. Keeps
    BY NextKeepsCommands
  <2> QED
    BY <2>1, <2>2, KeepsLosesNone DEF CInv, StepTyped
<1> QED
  BY <1>1, <1>2, PTL DEF Spec

-----------------------------------------------------------------------------
(***************************************************************************)
(* One turn at a time.  As long as nothing was cancelled, a turn that is   *)
(* not over has the session's controller, and the guard tells how far it   *)
(* has come: it is idle when there is none, reserved while one is being    *)
(* processed, and runs while one queries the model.                        *)
(***************************************************************************)
Single ==
    /\ \A t \in Turn : turns[t].stage # "over" => t = controller
    /\ status = "idle" => \A t \in Turn : turns[t].stage = "over"
    /\ status = "dispatching" => \A t \in Turn : turns[t].stage \in {"over", "processing"}
    /\ status = "running" => \A t \in Turn : turns[t].stage # "processing"

\* The step that ends the only turn there is leaves none.
LEMMA NoneLeft ==
    ASSUME Single, NEW t \in Turn, turns[t].stage # "over", Becomes(t, "over", <<>>, <<>>)
    PROVE  Single'
<1>1. \A u \in Turn' : turns'[u].stage = "over"
  BY DEF Single, Becomes
<1> QED
  BY <1>1 DEF Single

LEMMA AlikeSingle ==
    ASSUME Single, turns' \in Seq(TurnRecord), Alike(turns, turns'),
           UNCHANGED <<controller, status>>
    PROVE  Single'
BY DEF Single, Alike, Turn

LEMMA SameSingle ==
    ASSUME Single, UNCHANGED <<turns, controller, status>>
    PROVE  Single'
BY DEF Single, Turn

\* A turn starts when there is none.
LEMMA FirstSingle ==
    ASSUME Single, status = "idle", NEW cmds, NEW stage, Joined(cmds, stage),
           \/ stage = "processing" /\ status' = "dispatching"
           \/ stage = "querying" /\ status' = "running"
    PROVE  Single'
<1>1. \A u \in Turn' : u = Len(turns) + 1 \/ turns'[u].stage = "over"
  BY DEF Single, Joined
<1>2. turns'[Len(turns) + 1].stage = stage /\ controller' = Len(turns) + 1
  BY DEF Joined
<1> QED
  BY <1>1, <1>2 DEF Single

\* The query of the only turn goes on.
LEMMA QueryingSingle ==
    ASSUME Single, NEW t \in Turn, turns[t].stage # "over", NEW stage, NEW cmds, NEW snapshot,
           Becomes(t, stage, cmds, snapshot), stage \in {"querying", "attaching"},
           controller' = controller, status' = "running"
    PROVE  Single'
<1>1. \A u \in Turn' : u = t \/ turns'[u].stage = "over"
  BY DEF Single, Becomes
<1>2. turns'[t].stage = stage /\ t = controller
  BY DEF Becomes, Single
<1> QED
  BY <1>1, <1>2 DEF Single

\* When it is the only one, a query is the one the guard runs for.
LEMMA OnlyQueryEnds ==
    ASSUME CInv, GuardInv, Single, NEW t \in Turn, turns[t].stage \in {"querying", "attaching"}
    PROVE  status = "running" /\ Ends(t)
<1>1. status = "running"
  BY DEF Single, CInv, ControlOK
<1>2. PICK u \in Turn : Queries(turns, u) /\ turns[u].gen = generation
  BY <1>1 DEF GuardInv, Owned, Turn
<1>3. u = t
  BY <1>2 DEF Single, Queries
<1> QED
  BY <1>1, <1>2, <1>3 DEF Ends

LEMMA DispatchedSingle ==
    ASSUME CInv, Single, NEW t \in Turn, Dispatched(t)
    PROVE  Single'
<1>1. DataOK /\ ControlOK
  BY DEF CInv
<1>2. CASE BecomesQuery(t)
  <2>1. status # "running" /\ turns[t].stage # "over" /\ controller' = controller
    BY <1>1, <1>2, BecomesQueryFacts DEF Single
  <2>2. /\ status' = "running"
        /\ Becomes(t, "querying", turns[t].cmds, turns[t].snapshot)
    BY <1>1, <1>2, <2>1, BecomesQueryFacts
  <2> QED
    BY <2>1, <2>2, QueryingSingle
<1>3. CASE BecomesLocal(t) \/ BecomesNothing(t) \/ Throws(t)
  <2>1. turns[t].stage # "over" /\ Becomes(t, "over", <<>>, <<>>)
    BY <1>1, <1>3, BecomesLocalFacts, BecomesNothingFacts, ThrowsFacts
  <2> QED
    BY <2>1, NoneLeft
<1> QED
  BY <1>2, <1>3 DEF Dispatched

LEMMA QueryStepsSingle ==
    ASSUME CInv, GuardInv, Single, NEW t \in Turn,
           OpenDialog(t) \/ QueryEnds(t) \/ TakeSnapshot(t) \/ RemoveConsumed(t)
    PROVE  Single'
<1>1. DataOK /\ ControlOK
  BY DEF CInv
<1>2. CASE OpenDialog(t)
  BY <1>1, <1>2, OpenDialogFacts, AlikeSingle
<1>3. CASE QueryEnds(t)
  <2>1. turns[t].stage # "over" /\ Becomes(t, "over", <<>>, <<>>)
    BY <1>1, <1>3, QueryEndsFacts
  <2> QED
    BY <2>1, NoneLeft
<1>4. CASE TakeSnapshot(t)
  <2>1. PICK taken : Becomes(t, "attaching", turns[t].cmds, taken)
    BY <1>1, <1>4, TakeSnapshotFacts
  <2>2. turns[t].stage = "querying" /\ UNCHANGED <<controller, status>>
    BY <1>1, <1>4, TakeSnapshotFacts
  <2>3. status = "running"
    BY <2>2, OnlyQueryEnds
  <2> QED
    BY <2>1, <2>2, <2>3, QueryingSingle
<1>5. CASE RemoveConsumed(t)
  <2>1. /\ turns[t].stage = "attaching" /\ UNCHANGED <<controller, status>>
        /\ Becomes(t, "querying", turns[t].cmds, <<>>)
    BY <1>1, <1>5, RemoveConsumedFacts
  <2>2. status = "running"
    BY <2>1, OnlyQueryEnds
  <2> QED
    BY <2>1, <2>2, QueryingSingle
<1> QED
  BY <1>2, <1>3, <1>4, <1>5

LEMMA CancelsGrow ==
    ASSUME ControlOK, [Next]_vars
    PROVE  cancels' = 0 => cancels = 0 /\ ~OnCancel
<1>1. ASSUME NEW kind, Submit(kind) \/ Notify(kind) PROVE cancels' = cancels
  BY <1>1 DEF Submit, Notify
<1>2. ASSUME \/ IncomingPrompt \/ SubagentDrains \/ Render \/ PopQueue \/ KillAgents
             \/ RunImmediate \/ ImmediateLoaded \/ CloseImmediate \/ UNCHANGED vars
      PROVE  cancels' = cancels
  BY <1>2 DEF IncomingPrompt, SubagentDrains, Render, PopQueue, KillAgents, RunImmediate,
         ImmediateLoaded, CloseImmediate, vars
<1>3. ASSUME NEW t, Dispatched(t) PROVE cancels' = cancels
  BY <1>3 DEF Dispatched, BecomesQuery, BecomesLocal, BecomesNothing, Throws
<1>4. ASSUME NEW t, OpenDialog(t) \/ QueryEnds(t) \/ TakeSnapshot(t) \/ RemoveConsumed(t)
      PROVE  cancels' = cancels
  BY <1>4 DEF OpenDialog, QueryEnds, TakeSnapshot, RemoveConsumed
<1>5. OnCancel => cancels' # 0 /\ cancels' = cancels + 1
  BY BoundsAssumption DEF OnCancel, ControlOK
<1>6. cancels' = cancels \/ OnCancel
  BY <1>1, <1>2, <1>3, <1>4 DEF Next, Escape, Rewind
<1> QED
  BY <1>5, <1>6

LEMMA NextKeepsSingle ==
    ASSUME CInv, GuardInv, Single, [Next]_vars, ~OnCancel
    PROVE  Single'
<1>1. DataOK /\ ControlOK
  BY DEF CInv
<1>2. ASSUME NEW kind \in Kinds, Submit(kind) PROVE Single'
  <2>1. CASE UNCHANGED <<turns, controller, status>>
    BY <2>1, SameSingle
  <2>2. CASE /\ status = "idle" /\ status' = "dispatching"
             /\ \E cmds : NewTurnFor(cmds, "processing")
    BY <2>2, FirstSingle DEF NewTurnFor
  <2> QED
    BY <1>1, <1>2, <2>1, <2>2, SubmitFacts
<1>3. ASSUME NEW kind \in Kinds, Notify(kind) PROVE Single'
  BY <1>1, <1>3, NotifyFacts, SameSingle
<1>4. CASE IncomingPrompt
  <2>1. status = "idle" /\ status' = "running" /\ \E cmds : NewTurnFor(cmds, "querying")
    BY <1>1, <1>4, IncomingPromptFacts
  <2> QED
    BY <2>1, FirstSingle DEF NewTurnFor
<1>5. CASE SubagentDrains \/ PopQueue \/ KillAgents
  BY <1>1, <1>5, SubagentDrainsFacts, PopQueueFacts, KillAgentsFacts, SameSingle
<1>6. CASE Render
  <2>1. CASE /\ status = "idle" /\ status' = "dispatching"
             /\ \E cmds : Joined(cmds, "processing")
    BY <2>1, FirstSingle
  <2>2. CASE /\ UNCHANGED <<controller, status>>
             /\ turns' \in Seq(TurnRecord) /\ Alike(turns, turns')
    BY <2>2, AlikeSingle
  <2> QED
    BY <1>1, <1>6, <2>1, <2>2, RenderFacts
<1>7. CASE \E t \in Turn : Dispatched(t)
  BY <1>7, DispatchedSingle
<1>8. CASE \E t \in Turn : \/ OpenDialog(t) \/ QueryEnds(t)
                           \/ TakeSnapshot(t) \/ RemoveConsumed(t)
  BY <1>8, QueryStepsSingle
<1>9. CASE RunImmediate \/ ImmediateLoaded \/ CloseImmediate \/ UNCHANGED vars
  BY <1>9, SameSingle DEF RunImmediate, ImmediateLoaded, CloseImmediate, vars, guard
<1> QED
  BY <1>2, <1>3, <1>4, <1>5, <1>6, <1>7, <1>8, <1>9 DEF Next, Escape, Rewind

SInv == CInv /\ GuardInv /\ (cancels = 0 => Single)

LEMMA InitSingle == ASSUME Init PROVE SInv
<1>1. CInv /\ GuardInv
  BY InitTyped, InitOwned
<1>2. status = "idle" /\ Turn = {}
  BY DEF Init, Turn
<1> QED
  BY <1>1, <1>2 DEF SInv, Single

LEMMA NextKeepsSInv == ASSUME SInv, [Next]_vars PROVE SInv'
<1>1. CInv' /\ GuardInv'
  BY NextKeepsTypes, NextKeepsGuard DEF SInv
<1>2. cancels' = 0 => Single'
  BY CancelsGrow, NextKeepsSingle DEF SInv, CInv
<1> QED
  BY <1>1, <1>2 DEF SInv

LEMMA SingleMeansOne == SInv => OneTurnUncancelled /\ InterruptibleUncancelled
BY DEF SInv, Single, OneTurnUncancelled, InterruptibleUncancelled, OneTurn, Interruptible,
       Alive, Processing, Querying

(***************************************************************************)
(* As long as nothing was cancelled, two turns are never under way at the  *)
(* same time, in spite of exceptions, dialogs, late renders and notices.   *)
(***************************************************************************)
THEOREM OneTurnAtATime == Spec => []OneTurnUncancelled
<1>1. Init => SInv
  BY InitSingle
<1>2. SInv /\ [Next]_vars => SInv'
  BY NextKeepsSInv
<1>3. SInv => OneTurnUncancelled
  BY SingleMeansOne
<1> QED
  BY <1>1, <1>2, <1>3, PTL DEF Spec

(***************************************************************************)
(* As long as nothing was cancelled, the session holds the controller of   *)
(* the turn that is under way, so the user can always interrupt it.        *)
(***************************************************************************)
THEOREM TurnInterruptible == Spec => []InterruptibleUncancelled
<1>1. Init => SInv
  BY InitSingle
<1>2. SInv /\ [Next]_vars => SInv'
  BY NextKeepsSInv
<1>3. SInv => InterruptibleUncancelled
  BY SingleMeansOne
<1> QED
  BY <1>1, <1>2, <1>3, PTL DEF Spec

-----------------------------------------------------------------------------
(***************************************************************************)
(* Nothing is skipped before a cancellation: a dispatch is refused only    *)
(* while the guard runs for another turn.                                  *)
(***************************************************************************)
SkippedLate == cancels = 0 => \A id \in 1 .. MaxCommands : <<id, "skipped">> \notin left

LEMMA NextSkipsNone ==
    ASSUME CInv, Single, [Next]_vars, ~OnCancel
    PROVE  \A id : <<id, "skipped">> \in left' => <<id, "skipped">> \in left
<1>1. DataOK /\ ControlOK
  BY DEF CInv
<1>2. ASSUME NEW kind \in Kinds, Submit(kind) \/ Notify(kind) PROVE left' = left
  BY <1>2 DEF Submit, Notify, ghosts
<1>3. ASSUME \/ IncomingPrompt \/ SubagentDrains \/ Render \/ RunImmediate
             \/ ImmediateLoaded \/ CloseImmediate \/ UNCHANGED vars
      PROVE  left' = left
  BY <1>3 DEF IncomingPrompt, SubagentDrains, Render, RunImmediate, ImmediateLoaded,
         CloseImmediate, vars, ghosts
<1>4. ASSUME NEW t, \/ OpenDialog(t) \/ QueryEnds(t) \/ TakeSnapshot(t) \/ RemoveConsumed(t)
                    \/ BecomesNothing(t)
      PROVE  left' = left
  BY <1>4 DEF OpenDialog, QueryEnds, TakeSnapshot, RemoveConsumed, BecomesNothing, ghosts
<1>5. ASSUME NEW t \in Turn, BecomesQuery(t) \/ BecomesLocal(t) PROVE left' = left
  <2>1. turns[t].stage = "processing"
    BY <1>1, <1>5, BecomesQueryFacts, BecomesLocalFacts
  <2>2. status # "running"
    BY <2>1 DEF Single
  <2> QED
    BY <1>1, <1>5, <2>2, BecomesQueryFacts, BecomesLocalFacts
<1>6. ASSUME NEW W, NEW why, left' = left \cup (W \X {why}), why # "skipped", NEW id,
             <<id, "skipped">> \in left'
      PROVE  <<id, "skipped">> \in left
  BY <1>6
<1>7. ASSUME PopQueue, NEW id, <<id, "skipped">> \in left' PROVE <<id, "skipped">> \in left
  <2>1. PICK gone \in SUBSET Elements(queue) : left' = left \cup ({c.id : c \in gone} \X {"taken"})
    BY <1>1, <1>7, PopQueueFacts
  <2> QED
    BY <1>6, <1>7, <2>1
<1>8. ASSUME KillAgents, NEW id, <<id, "skipped">> \in left' PROVE <<id, "skipped">> \in left
  <2>1. left' = left \cup (Ids(queue) \X {"cleared"})
    BY <1>1, <1>8, KillAgentsFacts
  <2> QED
    BY <1>6, <1>8, <2>1
<1>9. ASSUME NEW t \in Turn, Throws(t), NEW id, <<id, "skipped">> \in left'
      PROVE  <<id, "skipped">> \in left
  <2>1. left' = left \cup (Ids(turns[t].cmds) \X {"failed"})
    BY <1>1, <1>9, ThrowsFacts
  <2> QED
    BY <1>6, <1>9, <2>1
<1> QED
  BY <1>2, <1>3, <1>4, <1>5, <1>7, <1>8, <1>9 DEF Next, Escape, Rewind, Dispatched

(***************************************************************************)
(* A command that was issued is never lost silently, whatever is           *)
(* cancelled, refused or taken back while it waits: the text of messages   *)
(* onQuery may not send is in the queue again before the dispatch is over, *)
(* the hidden ones it skips are skipped only once a cancellation has let   *)
(* two dispatches overlap, and nothing else goes but with a dispatch that  *)
(* throws.                                                                 *)
(***************************************************************************)
THEOREM CommandsKept == Spec => []NoCommandLost
<1>1. Init => SInv /\ SkippedLate
  <2>1. Init => SkippedLate
    BY DEF Init, SkippedLate
  <2> QED
    BY <2>1, InitSingle
<1>2. SInv /\ SkippedLate /\ [Next]_vars => SInv' /\ SkippedLate'
  <2> SUFFICES ASSUME SInv, SkippedLate, [Next]_vars PROVE SInv' /\ SkippedLate'
    OBVIOUS
  <2>1. SkippedLate'
    BY CancelsGrow, NextSkipsNone DEF SInv, CInv, SkippedLate
  <2> QED
    BY <2>1, NextKeepsSInv
<1>3. ASSUME SInv, SkippedLate, Accounted PROVE NoCommandLost
  <2>1. cancels \in Nat /\ issued \in 0 .. MaxCommands
    BY <1>3 DEF SInv, CInv, ControlOK, DataOK
  <2>2. \A id \in 1 .. issued : id \in 1 .. MaxCommands
    BY <2>1, BoundsAssumption
  <2>3. \A id \in 1 .. issued : <<id, "skipped">> \in left => cancels > 0
    BY <1>3, <2>1, <2>2 DEF SkippedLate
  <2> QED
    BY <1>3, <2>3 DEF Accounted, Left, Reasons, NoCommandLost
<1> QED
  BY <1>1, <1>2, <1>3, CommandsAccounted, PTL DEF Spec

-----------------------------------------------------------------------------
(***************************************************************************)
(* No command twice.  As long as nothing was cancelled: a command in the   *)
(* queue has not been handled and is there once; one that is processed has *)
(* not been handled and is not in the queue; and one in the snapshot of a  *)
(* query has not been handled, is one no subagent takes, and, unless the   *)
(* user has taken it back, is the one in the queue of its id.              *)
(***************************************************************************)
QueueFine ==
    /\ \A c \in Elements(queue) : c.id <= issued /\ handled[c.id] = 0
    /\ \A c, d \in Elements(queue) : c.id = d.id => c = d
    /\ \A id \in 1 .. MaxCommands : handled[id] <= 1 /\ (id > issued => handled[id] = 0)

ProcessedFine(c) ==
    /\ c.id <= issued /\ handled[c.id] = 0
    /\ \A d \in Elements(queue) : d.id # c.id
AttachedFine(c) ==
    /\ c.id <= issued /\ handled[c.id] = 0 /\ Main(c)
    /\ \A d \in Elements(queue) : d.id = c.id => d = c
TurnsFine ==
    \A t \in Turn :
        /\ turns[t].stage = "processing" => \A c \in Elements(turns[t].cmds) : ProcessedFine(c)
        /\ turns[t].stage = "attaching" => \A c \in Elements(turns[t].snapshot) : AttachedFine(c)
Books == QueueFine /\ TurnsFine

\* A step that handles the commands of the ids D.
Handles(D) ==
    \A id \in 1 .. MaxCommands : handled'[id] = IF id \in D THEN handled[id] + 1 ELSE handled[id]

LEMMA HandleHandles == ASSUME DataOK, NEW s, Handle(s) PROVE Handles(Ids(s))
BY DEF DataOK, Handle, Handles

LEMMA HandlesNone == DataOK /\ handled' = handled => Handles({})
BY DEF Handles

LEMMA IdIn ==
    ASSUME NEW s \in Seq(CommandObject), NEW c \in Elements(s)
    PROVE  c.id \in 1 .. MaxCommands /\ c.id \in Nat
<1>1. c \in CommandObject
  BY ElementsType
<1> QED
  BY <1>1, BoundsAssumption DEF CommandObject

\* What a step may leave in the queue, when it handles D.
Leaves(D) ==
    /\ \A c \in Elements(queue') :
          /\ c.id \notin D
          /\ c \in Elements(queue) \/ (c.id = issued + 1 /\ issued' = issued + 1)
    /\ \A c, d \in Elements(queue') : c \in Elements(queue) \/ d \in Elements(queue) \/ c = d
    /\ issued' \in {issued, issued + 1}

LEMMA QueueStaysFine ==
    ASSUME DataOK, DataOK', QueueFine, NEW D, Handles(D), Leaves(D),
           \A id \in D : id \in 1 .. MaxCommands /\ handled[id] = 0 /\ id <= issued'
    PROVE  QueueFine'
<1>1. /\ issued \in Nat /\ issued' \in Nat /\ issued <= issued' /\ MaxCommands \in Nat
      /\ issued' <= MaxCommands
  BY BoundsAssumption DEF DataOK, Leaves
<1>2. \A id \in 1 .. MaxCommands : handled[id] \in Nat /\ id \in Nat
  BY BoundsAssumption DEF DataOK
<1>3. \A c \in Elements(queue) \cup Elements(queue') : c.id \in 1 .. MaxCommands /\ c.id \in Nat
  BY IdIn DEF DataOK
<1>4. \A id \in 1 .. MaxCommands : /\ handled'[id] <= 1
                                   /\ id > issued' => handled'[id] = 0
  <2> SUFFICES ASSUME NEW id \in 1 .. MaxCommands
               PROVE  handled'[id] <= 1 /\ (id > issued' => handled'[id] = 0)
    OBVIOUS
  <2>1. CASE id \in D
    BY <1>1, <1>2, <2>1 DEF Handles
  <2>2. CASE id \notin D
    BY <1>1, <1>2, <2>2 DEF Handles, QueueFine
  <2> QED
    BY <2>1, <2>2
<1>5. \A c \in Elements(queue') : c.id <= issued' /\ handled'[c.id] = 0
  <2> SUFFICES ASSUME NEW c \in Elements(queue') PROVE c.id <= issued' /\ handled'[c.id] = 0
    OBVIOUS
  <2>1. handled'[c.id] = handled[c.id]
    BY <1>3 DEF Handles, Leaves
  <2>2. CASE c \in Elements(queue)
    BY <1>1, <1>3, <2>1, <2>2 DEF QueueFine
  <2>3. CASE c.id = issued + 1 /\ issued' = issued + 1
    BY <1>1, <1>3, <2>1, <2>3 DEF QueueFine
  <2> QED
    BY <2>2, <2>3 DEF Leaves
<1>6. \A c, d \in Elements(queue') : c.id = d.id => c = d
  <2> SUFFICES ASSUME NEW c \in Elements(queue'), NEW d \in Elements(queue'), c.id = d.id
               PROVE  c = d
    OBVIOUS
  <2>1. ASSUME NEW x \in Elements(queue), NEW y \in Elements(queue'), x.id = y.id
        PROVE  y \in Elements(queue)
    <3>1. x.id <= issued /\ x.id \in Nat
      BY <1>3 DEF QueueFine
    <3> QED
      BY <1>1, <2>1, <3>1 DEF Leaves
  <2>2. CASE c \in Elements(queue) \/ d \in Elements(queue)
    BY <2>1, <2>2 DEF QueueFine
  <2> QED
    BY <2>2 DEF Leaves
<1> QED
  BY <1>4, <1>5, <1>6 DEF QueueFine

\* What a step may do to turn u, when it handles D: end it or let its query go
\* on, or leave it, and then D holds none of its commands.
Spares(u, D) ==
    \/ turns'[u].stage \in {"over", "querying"}
    \/ /\ u \in Turn /\ turns'[u].stage = turns[u].stage
       /\ turns'[u].cmds = turns[u].cmds /\ turns'[u].snapshot = turns[u].snapshot
       /\ turns[u].stage = "processing" => \A c \in Elements(turns[u].cmds) : c.id \notin D
       /\ turns[u].stage = "attaching" => \A c \in Elements(turns[u].snapshot) : c.id \notin D

LEMMA SparedFine ==
    ASSUME DataOK, TurnsFine, NEW D, Handles(D), Leaves(D), NEW u, Spares(u, D)
    PROVE  /\ turns'[u].stage = "processing" =>
                  \A c \in Elements(turns'[u].cmds) : ProcessedFine(c)'
           /\ turns'[u].stage = "attaching" =>
                  \A c \in Elements(turns'[u].snapshot) : AttachedFine(c)'
<1>1. issued \in Nat /\ issued' \in Nat /\ issued <= issued'
  BY DEF DataOK, Leaves
<1>2. ASSUME turns'[u].stage = "processing", NEW c \in Elements(turns'[u].cmds)
      PROVE  ProcessedFine(c)'
  <2>1. /\ u \in Turn /\ turns[u].stage = "processing" /\ c \in Elements(turns[u].cmds)
        /\ c.id \notin D
    BY <1>2 DEF Spares
  <2>2. ProcessedFine(c) /\ c.id \in 1 .. MaxCommands /\ c.id \in Nat
    BY <2>1, TurnParts, IdIn DEF TurnsFine
  <2>3. c.id <= issued' /\ handled'[c.id] = 0
    BY <1>1, <2>1, <2>2 DEF ProcessedFine, Handles
  <2>4. \A d \in Elements(queue') : d.id # c.id
    BY <1>1, <2>2 DEF ProcessedFine, Leaves
  <2> QED
    BY <2>3, <2>4 DEF ProcessedFine
<1>3. ASSUME turns'[u].stage = "attaching", NEW c \in Elements(turns'[u].snapshot)
      PROVE  AttachedFine(c)'
  <2>1. /\ u \in Turn /\ turns[u].stage = "attaching" /\ c \in Elements(turns[u].snapshot)
        /\ c.id \notin D
    BY <1>3 DEF Spares
  <2>2. AttachedFine(c) /\ c.id \in 1 .. MaxCommands /\ c.id \in Nat
    BY <2>1, TurnParts, IdIn DEF TurnsFine
  <2>3. c.id <= issued' /\ handled'[c.id] = 0
    BY <1>1, <2>1, <2>2 DEF AttachedFine, Handles
  <2>4. \A d \in Elements(queue') : d.id = c.id => d = c
    BY <1>1, <2>2 DEF AttachedFine, Leaves
  <2> QED
    BY <2>2, <2>3, <2>4 DEF AttachedFine
<1> QED
  BY <1>2, <1>3

\* A step keeps the books when what it handles was not handled before.
LEMMA BooksStep ==
    ASSUME DataOK, DataOK', Books, NEW D, Handles(D), Leaves(D),
           \A id \in D : id \in 1 .. MaxCommands /\ handled[id] = 0 /\ id <= issued',
           \A u \in Turn' : Spares(u, D)
    PROVE  Books'
<1>1. QueueFine'
  BY QueueStaysFine DEF Books
<1>2. TurnsFine'
  BY SparedFine DEF Books, TurnsFine
<1> QED
  BY <1>1, <1>2 DEF Books

\* What is left of the queue.
LEMMA LeavesPart ==
    ASSUME DataOK, NEW D, Elements(queue') \subseteq Elements(queue), issued' = issued,
           \A c \in Elements(queue') : c.id \notin D
    PROVE  Leaves(D)
BY DEF Leaves

\* A command was added to a queue without commands of D.
LEMMA LeavesGrown ==
    ASSUME DataOK, NEW D, Grows(queue), issued + 1 \notin D,
           \A c \in Elements(queue) : c.id \notin D
    PROVE  Leaves(D)
<1>1. CASE Elements(queue') = Elements(queue) /\ issued' = issued
  BY <1>1 DEF Leaves
<1>2. CASE Elements(queue') # Elements(queue) \/ issued' # issued
  <2>1. issued' = issued + 1
    BY <1>2 DEF Grows
  <2>2. PICK c : c.id = issued + 1 /\ Elements(queue') = Elements(queue) \cup {c}
    BY <1>2 DEF Grows
  <2> QED
    BY <2>1, <2>2 DEF Leaves
<1> QED
  BY <1>1, <1>2

LEMMA SparesAlike ==
    ASSUME Alike(turns, turns')
    PROVE  \A u \in Turn' : Spares(u, {})
BY DEF Alike, Spares, Turn

LEMMA SparesSame ==
    ASSUME turns' = turns
    PROVE  \A u \in Turn' : Spares(u, {})
BY DEF Spares, Turn

\* The only turn is over, or its query goes on.
LEMMA SparesLone ==
    ASSUME Single, NEW t \in Turn, turns[t].stage # "over",
           NEW stage, NEW cmds, NEW snapshot, Becomes(t, stage, cmds, snapshot),
           stage \in {"over", "querying"}, NEW D
    PROVE  \A u \in Turn' : Spares(u, D)
BY DEF Single, Becomes, Spares

\* A step that handles nothing and adds at most one command to the queue.
LEMMA GrowsBooks ==
    ASSUME DataOK, DataOK', Books, Grows(queue), handled' = handled,
           \A u \in Turn' : Spares(u, {})
    PROVE  Books'
<1>1. Leaves({})
  BY LeavesGrown
<1> QED
  BY <1>1, HandlesNone, BooksStep

\* A step that handles nothing and adds nothing.
LEMMA PartBooks ==
    ASSUME DataOK, DataOK', Books, Elements(queue') \subseteq Elements(queue),
           UNCHANGED <<issued, handled>>, \A u \in Turn' : Spares(u, {})
    PROVE  Books'
<1>1. Leaves({})
  BY LeavesPart
<1> QED
  BY <1>1, HandlesNone, BooksStep

\* The commands of the only turn are handled.
LEMMA ProcessedBooks ==
    ASSUME DataOK, DataOK', Books, Single, NEW t \in Turn, turns[t].stage = "processing",
           NEW stage, NEW cmds, NEW snapshot, Becomes(t, stage, cmds, snapshot),
           stage \in {"over", "querying"}, Handle(turns[t].cmds), Grows(queue)
    PROVE  Books'
<1> DEFINE D == Ids(turns[t].cmds)
<1>1. turns[t].cmds \in Seq(CommandObject) /\ D = {c.id : c \in Elements(turns[t].cmds)}
  BY TurnParts, IdsOfElements
<1>2. \A c \in Elements(turns[t].cmds) : /\ ProcessedFine(c)
                                         /\ c.id \in 1 .. MaxCommands /\ c.id \in Nat
  BY <1>1, IdIn DEF Books, TurnsFine
<1>3. issued \in Nat /\ issued' \in {issued, issued + 1}
  BY DEF DataOK, Grows
<1>4. \A id \in D : id \in 1 .. MaxCommands /\ handled[id] = 0 /\ id <= issued'
  BY <1>1, <1>2, <1>3 DEF ProcessedFine
<1>5. issued + 1 \notin D
  BY <1>1, <1>2, <1>3 DEF ProcessedFine
<1>6. \A c \in Elements(queue) : c.id \notin D
  BY <1>1, <1>2 DEF ProcessedFine
<1>7. Handles(D)
  BY HandleHandles
<1>8. \A u \in Turn' : Spares(u, D)
  BY SparesLone
<1> HIDE DEF D
<1>9. Leaves(D)
  BY <1>5, <1>6, LeavesGrown
<1> QED
  BY <1>4, <1>7, <1>8, <1>9, BooksStep

\* The commands that are gone from the queue are handled.
LEMMA TakenBooks ==
    ASSUME DataOK, DataOK', Books, NEW s \in Seq(CommandObject), Handle(s),
           Elements(queue') = Elements(queue) \ Elements(s), issued' = issued,
           \A c \in Elements(s) : /\ c.id <= issued /\ handled[c.id] = 0
                                  /\ \A d \in Elements(queue) : d.id = c.id => d = c,
           \A u \in Turn' : Spares(u, Ids(s))
    PROVE  Books'
<1> DEFINE D == Ids(s)
<1>1. D = {c.id : c \in Elements(s)}
  BY IdsOfElements
<1>2. \A c \in Elements(s) : c.id \in 1 .. MaxCommands
  BY IdIn
<1>3. \A id \in D : id \in 1 .. MaxCommands /\ handled[id] = 0 /\ id <= issued'
  BY <1>1, <1>2
<1>4. \A c \in Elements(queue') : c.id \notin D
  BY <1>1
<1>5. Handles(D)
  BY HandleHandles
<1> HIDE DEF D
<1>6. Leaves(D)
  BY <1>4, LeavesPart
<1> QED
  BY <1>3, <1>5, <1>6, BooksStep DEF D

\* The first turn starts with commands that were not handled.
LEMMA StartBooks ==
    ASSUME Single, status = "idle", NEW cmds, Joined(cmds, "processing"),
           QueueFine', \A c \in Elements(cmds) : ProcessedFine(c)'
    PROVE  Books'
<1>1. \A u \in Turn' : u = Len(turns) + 1 \/ turns'[u].stage = "over"
  BY DEF Single, Joined
<1>2. /\ turns'[Len(turns) + 1].stage = "processing"
      /\ turns'[Len(turns) + 1].cmds = cmds
  BY DEF Joined
<1>3. TurnsFine'
  <2> SUFFICES ASSUME NEW u \in Turn'
               PROVE  /\ turns'[u].stage = "processing" =>
                             \A c \in Elements(turns'[u].cmds) : ProcessedFine(c)'
                      /\ turns'[u].stage = "attaching" =>
                             \A c \in Elements(turns'[u].snapshot) : AttachedFine(c)'
    BY DEF TurnsFine
  <2>1. CASE u = Len(turns) + 1
    BY <1>2, <2>1
  <2>2. CASE turns'[u].stage = "over"
    BY <2>2
  <2> QED
    BY <1>1, <2>1, <2>2
<1> QED
  BY <1>3 DEF Books

LEMMA ArrivalsBooks ==
    ASSUME CInv, CInv', Single, Books,
           (\E kind \in Kinds : Submit(kind) \/ Notify(kind)) \/ IncomingPrompt
    PROVE  Books'
<1>1. DataOK /\ DataOK' /\ ControlOK /\ QueueFine
  BY DEF CInv, Books
<1>2. issued \in Nat /\ MaxCommands \in Nat
  BY <1>1, BoundsAssumption DEF DataOK
<1>3. \A c \in Elements(queue) : c.id <= issued /\ c.id \in Nat
  BY <1>1, IdIn DEF QueueFine, DataOK
<1>4. Enqueued => Grows(queue)
  BY DEF Enqueued, Grows
<1>5. ASSUME NEW kind \in Kinds, Submit(kind) PROVE Books'
  <2>1. handled' = handled
    BY <1>1, <1>5, SubmitFacts DEF ghosts
  <2>2. CASE Enqueued /\ UNCHANGED <<turns, controller, status>>
    BY <1>1, <1>4, <2>1, <2>2, SparesSame, GrowsBooks
  <2>3. CASE /\ status = "idle" /\ queue' = queue
             /\ \E cmds : NewTurnFor(cmds, "processing")
    <3>1. PICK cmds : NewTurnFor(cmds, "processing")
      BY <2>3
    <3>2. Leaves({})
      BY <2>3, <3>1 DEF Leaves, NewTurnFor
    <3>3. QueueFine'
      BY <1>1, <2>1, <3>2, HandlesNone, QueueStaysFine
    <3>4. \A c \in Elements(cmds) : c.id = issued + 1
      BY <3>1, IdsOfElements DEF NewTurnFor
    <3>5. issued + 1 \in 1 .. MaxCommands /\ issued' = issued + 1 /\ handled'[issued + 1] = 0
      BY <1>1, <1>2, <2>1, <3>1 DEF NewTurnFor, QueueFine
    <3>6. \A c \in Elements(cmds) : ProcessedFine(c)'
      <4> SUFFICES ASSUME NEW c \in Elements(cmds) PROVE ProcessedFine(c)'
        OBVIOUS
      <4>1. c.id <= issued' /\ handled'[c.id] = 0
        BY <1>2, <3>4, <3>5
      <4>2. \A d \in Elements(queue') : d.id # c.id
        BY <1>2, <1>3, <2>3, <3>4
      <4> QED
        BY <4>1, <4>2 DEF ProcessedFine
    <3> QED
      BY <2>3, <3>1, <3>3, <3>6, StartBooks DEF NewTurnFor
  <2> QED
    BY <1>1, <1>5, <2>2, <2>3, SubmitFacts
<1>6. ASSUME NEW kind \in Kinds, Notify(kind) PROVE Books'
  <2>1. Enqueued /\ UNCHANGED <<turns, handled>>
    BY <1>1, <1>6, NotifyFacts DEF ghosts
  <2> QED
    BY <1>1, <1>4, <2>1, SparesSame, GrowsBooks
<1>7. CASE IncomingPrompt
  <2>1. PICK cmds : NewTurnFor(cmds, "querying") /\ Handle(cmds)
    BY <1>1, <1>7, IncomingPromptFacts
  <2>2. status = "idle" /\ queue' = queue
    BY <1>1, <1>7, IncomingPromptFacts
  <2>3. Handles({issued + 1})
    BY <1>1, <2>1, HandleHandles DEF NewTurnFor
  <2>4. issued + 1 \in 1 .. MaxCommands /\ issued' = issued + 1 /\ handled[issued + 1] = 0
    BY <1>1, <1>2, <2>1 DEF NewTurnFor, QueueFine
  <2>5. Leaves({issued + 1})
    BY <1>2, <1>3, <2>2, <2>4 DEF Leaves
  <2>6. \A u \in Turn' : Spares(u, {issued + 1})
    <3>1. \A u \in Turn' : u = Len(turns) + 1 \/ turns'[u].stage = "over"
      BY <2>1, <2>2 DEF Single, Joined, NewTurnFor
    <3>2. turns'[Len(turns) + 1].stage = "querying"
      BY <2>1 DEF NewTurnFor, Joined
    <3> QED
      BY <3>1, <3>2 DEF Spares
  <2>7. \A id \in {issued + 1} : id \in 1 .. MaxCommands /\ handled[id] = 0 /\ id <= issued'
    BY <1>2, <2>4
  <2> QED
    BY <1>1, <2>3, <2>5, <2>6, <2>7, BooksStep
<1> QED
  BY <1>5, <1>6, <1>7

LEMMA QueueStepsBooks ==
    ASSUME CInv, CInv', Single, Books, SubagentDrains \/ Render \/ PopQueue \/ KillAgents
    PROVE  Books'
<1>1. DataOK /\ DataOK' /\ ControlOK /\ QueueFine /\ TurnsFine
  BY DEF CInv, Books
<1>2. CASE SubagentDrains
  <2>1. PICK mine \in Seq(CommandObject) :
            /\ Handle(mine) /\ Elements(mine) = {c \in Elements(queue) : ~Main(c)}
            /\ Elements(queue') = Elements(queue) \ Elements(mine)
    BY <1>1, <1>2, SubagentDrainsFacts
  <2>2. turns' = turns /\ issued' = issued
    BY <1>1, <1>2, SubagentDrainsFacts
  <2>3. \A c \in Elements(mine) : /\ c.id <= issued /\ handled[c.id] = 0
                                  /\ \A d \in Elements(queue) : d.id = c.id => d = c
    BY <1>1, <2>1 DEF QueueFine
  <2>4. \A id \in Ids(mine) : \E m \in Elements(queue) : m.id = id /\ ~Main(m)
    BY <2>1, IdsOfElements
  <2>5. \A u \in Turn' : Spares(u, Ids(mine))
    <3> SUFFICES ASSUME NEW u \in Turn PROVE Spares(u, Ids(mine))
      BY <2>2 DEF Turn
    <3>1. turns[u].stage = "processing" =>
              \A c \in Elements(turns[u].cmds) : c.id \notin Ids(mine)
      BY <1>1, <2>4 DEF TurnsFine, ProcessedFine
    <3>2. turns[u].stage = "attaching" =>
              \A c \in Elements(turns[u].snapshot) : c.id \notin Ids(mine)
      BY <1>1, <2>4 DEF TurnsFine, AttachedFine
    <3> QED
      BY <2>2, <3>1, <3>2 DEF Spares
  <2> QED
    BY <1>1, <2>1, <2>2, <2>3, <2>5, TakenBooks
<1>3. CASE Render
  <2>1. handled' = handled /\ issued' = issued
    BY <1>1, <1>3, RenderFacts DEF ghosts
  <2>2. CASE /\ status = "idle"
             /\ \E cmds \in Seq(CommandObject) :
                   /\ Joined(cmds, "processing") /\ Elements(cmds) \subseteq Elements(queue)
                   /\ Elements(queue') = Elements(queue) \ Elements(cmds)
    <3>1. PICK cmds \in Seq(CommandObject) :
              /\ Joined(cmds, "processing") /\ Elements(cmds) \subseteq Elements(queue)
              /\ Elements(queue') = Elements(queue) \ Elements(cmds)
      BY <2>2
    <3>2. Leaves({})
      BY <1>1, <2>1, <3>1, LeavesPart
    <3>3. QueueFine'
      BY <1>1, <2>1, <3>2, HandlesNone, QueueStaysFine
    <3>4. \A c \in Elements(cmds) : ProcessedFine(c)'
      BY <1>1, <2>1, <3>1 DEF QueueFine, ProcessedFine
    <3> QED
      BY <2>2, <3>1, <3>3, <3>4, StartBooks
  <2>3. CASE queue' = queue /\ Alike(turns, turns')
    BY <1>1, <2>1, <2>3, SparesAlike, PartBooks
  <2> QED
    BY <1>1, <1>3, <2>2, <2>3, RenderFacts
<1>4. CASE PopQueue
  <2>1. /\ UNCHANGED <<turns, issued, handled>>
        /\ Elements(queue') \subseteq Elements(queue)
    BY <1>1, <1>4, PopQueueFacts
  <2> QED
    BY <1>1, <2>1, SparesSame, PartBooks
<1>5. CASE KillAgents
  <2>1. /\ UNCHANGED <<turns, handled>> /\ issued' = issued + 1
        /\ \E c \in CommandObject : c.id = issued + 1 /\ Elements(queue') = {c}
    BY <1>1, <1>5, KillAgentsFacts
  <2>2. Leaves({})
    BY <2>1 DEF Leaves
  <2> QED
    BY <1>1, <2>1, <2>2, SparesSame, HandlesNone, BooksStep
<1> QED
  BY <1>2, <1>3, <1>4, <1>5

LEMMA DispatchedBooks ==
    ASSUME CInv, CInv', Single, Books, NEW t \in Turn, Dispatched(t)
    PROVE  Books'
<1>1. DataOK /\ DataOK' /\ ControlOK
  BY DEF CInv
<1>2. turns[t].stage = "processing" => status # "running"
  BY DEF Single
<1>3. CASE BecomesQuery(t)
  <2>1. turns[t].stage = "processing"
    BY <1>1, <1>3, BecomesQueryFacts
  <2>2. /\ Becomes(t, "querying", turns[t].cmds, turns[t].snapshot)
        /\ Handle(turns[t].cmds) /\ UNCHANGED <<queue, issued>>
    BY <1>1, <1>2, <1>3, BecomesQueryFacts
  <2>3. Grows(queue)
    BY <2>2 DEF Grows
  <2> QED
    BY <1>1, <2>1, <2>2, <2>3, ProcessedBooks
<1>4. CASE BecomesLocal(t) \/ BecomesNothing(t)
  <2>1. /\ turns[t].stage = "processing" /\ Becomes(t, "over", <<>>, <<>>)
        /\ Handle(turns[t].cmds) /\ Grows(queue)
    BY <1>1, <1>2, <1>4, BecomesLocalFacts, BecomesNothingFacts
  <2> QED
    BY <1>1, <2>1, ProcessedBooks
<1>5. CASE Throws(t)
  <2>1. /\ turns[t].stage = "processing" /\ Becomes(t, "over", <<>>, <<>>)
        /\ UNCHANGED <<queue, issued, handled>>
    BY <1>1, <1>5, ThrowsFacts
  <2>2. \A u \in Turn' : Spares(u, {})
    BY <2>1, SparesLone
  <2> QED
    BY <1>1, <2>1, <2>2, PartBooks
<1> QED
  BY <1>3, <1>4, <1>5 DEF Dispatched

LEMMA QueryStepsBooks ==
    ASSUME CInv, CInv', Single, Books, NEW t \in Turn,
           OpenDialog(t) \/ QueryEnds(t) \/ TakeSnapshot(t) \/ RemoveConsumed(t)
    PROVE  Books'
<1>1. DataOK /\ DataOK' /\ ControlOK /\ QueueFine /\ TurnsFine
  BY DEF CInv, Books
<1>2. CASE OpenDialog(t)
  <2>1. Alike(turns, turns') /\ UNCHANGED <<queue, issued, handled>>
    BY <1>1, <1>2, OpenDialogFacts DEF ghosts
  <2> QED
    BY <1>1, <2>1, SparesAlike, PartBooks
<1>3. CASE QueryEnds(t)
  <2>1. /\ turns[t].stage = "querying" /\ handled' = handled
        /\ Becomes(t, "over", <<>>, <<>>) /\ Grows(queue)
    BY <1>1, <1>3, QueryEndsFacts DEF ghosts
  <2>2. \A u \in Turn' : Spares(u, {})
    BY <2>1, SparesLone
  <2> QED
    BY <1>1, <2>1, <2>2, GrowsBooks
<1>4. CASE TakeSnapshot(t)
  <2>1. PICK taken \in Seq(CommandObject) :
            /\ Becomes(t, "attaching", turns[t].cmds, taken)
            /\ \A c \in Elements(taken) : c \in Elements(queue) /\ Main(c)
    BY <1>1, <1>4, TakeSnapshotFacts
  <2>2. turns[t].stage = "querying" /\ UNCHANGED <<queue, issued, handled>>
    BY <1>1, <1>4, TakeSnapshotFacts DEF ghosts
  <2>3. QueueFine'
    BY <1>1, <2>2 DEF QueueFine
  <2>4. \A c \in Elements(taken) : AttachedFine(c)'
    BY <1>1, <2>1, <2>2 DEF QueueFine, AttachedFine
  <2>5. \A u \in Turn' : u = t \/ turns'[u].stage = "over"
    BY <2>1, <2>2 DEF Single, Becomes
  <2>6. turns'[t].stage = "attaching" /\ turns'[t].snapshot = taken
    BY <2>1 DEF Becomes
  <2>7. TurnsFine'
    <3> SUFFICES ASSUME NEW u \in Turn'
                 PROVE  /\ turns'[u].stage = "processing" =>
                               \A c \in Elements(turns'[u].cmds) : ProcessedFine(c)'
                        /\ turns'[u].stage = "attaching" =>
                               \A c \in Elements(turns'[u].snapshot) : AttachedFine(c)'
      BY DEF TurnsFine
    <3>1. CASE u = t
      BY <2>4, <2>6, <3>1
    <3>2. CASE turns'[u].stage = "over"
      BY <3>2
    <3> QED
      BY <2>5, <3>1, <3>2
  <2> QED
    BY <2>3, <2>7 DEF Books
<1>5. CASE RemoveConsumed(t)
  <2>1. /\ turns[t].stage = "attaching" /\ issued' = issued
        /\ Becomes(t, "querying", turns[t].cmds, <<>>) /\ Handle(turns[t].snapshot)
        /\ Elements(queue') = Elements(queue) \ Elements(turns[t].snapshot)
    BY <1>1, <1>5, RemoveConsumedFacts
  <2>2. turns[t].snapshot \in Seq(CommandObject)
    BY <1>1, TurnParts
  <2>3. \A c \in Elements(turns[t].snapshot) :
            /\ c.id <= issued /\ handled[c.id] = 0
            /\ \A d \in Elements(queue) : d.id = c.id => d = c
    BY <1>1, <2>1 DEF TurnsFine, AttachedFine
  <2>4. \A u \in Turn' : Spares(u, Ids(turns[t].snapshot))
    BY <2>1, SparesLone
  <2> QED
    BY <1>1, <2>1, <2>2, <2>3, <2>4, TakenBooks
<1> QED
  BY <1>2, <1>3, <1>4, <1>5

LEMMA NextKeepsBooks ==
    ASSUME CInv, CInv', Single, Books, [Next]_vars, ~OnCancel
    PROVE  Books'
<1>1. DataOK /\ DataOK'
  BY DEF CInv
<1>2. CASE (\E kind \in Kinds : Submit(kind) \/ Notify(kind)) \/ IncomingPrompt
  BY <1>2, ArrivalsBooks
<1>3. CASE SubagentDrains \/ Render \/ PopQueue \/ KillAgents
  BY <1>3, QueueStepsBooks
<1>4. CASE \E t \in Turn : Dispatched(t)
  BY <1>4, DispatchedBooks
<1>5. CASE \E t \in Turn : \/ OpenDialog(t) \/ QueryEnds(t)
                           \/ TakeSnapshot(t) \/ RemoveConsumed(t)
  BY <1>5, QueryStepsBooks
<1>6. CASE RunImmediate \/ ImmediateLoaded \/ CloseImmediate \/ UNCHANGED vars
  <2>1. UNCHANGED <<turns, queue, issued, handled>>
    BY <1>6 DEF RunImmediate, ImmediateLoaded, CloseImmediate, vars, ghosts
  <2> QED
    BY <1>1, <2>1, SparesSame, PartBooks
<1> QED
  BY <1>2, <1>3, <1>4, <1>5, <1>6 DEF Next, Escape, Rewind

BInv == SInv /\ (cancels = 0 => Books)

LEMMA InitBooks == ASSUME Init PROVE BInv
<1>1. SInv
  BY InitSingle
<1>2. Turn = {} /\ queue = <<>>
  BY DEF Init, Turn
<1>3. Elements(queue) = {}
  BY <1>2, NoElement
<1>4. \A id \in 1 .. MaxCommands : handled[id] = 0
  BY DEF Init
<1> QED
  BY <1>1, <1>2, <1>3, <1>4 DEF BInv, Books, QueueFine, TurnsFine

LEMMA NextKeepsBInv == ASSUME BInv, [Next]_vars PROVE BInv'
<1>1. SInv /\ SInv' /\ CInv /\ CInv'
  BY NextKeepsSInv DEF BInv, SInv
<1>2. ASSUME cancels' = 0 PROVE Books'
  <2>1. cancels = 0 /\ ~OnCancel
    BY <1>1, <1>2, CancelsGrow DEF CInv
  <2> QED
    BY <1>1, <2>1, NextKeepsBooks DEF BInv, SInv
<1> QED
  BY <1>1, <1>2 DEF BInv

(***************************************************************************)
(* As long as nothing was cancelled no command is executed, or put in a    *)
(* conversation, twice: neither the queue processor nor the drain between  *)
(* two requests nor a subagent takes what another one has taken.           *)
(***************************************************************************)
THEOREM CommandsHandledOnce == Spec => []HandledOnce
<1>1. Init => BInv
  BY InitBooks
<1>2. BInv /\ [Next]_vars => BInv'
  BY NextKeepsBInv
<1>3. BInv => HandledOnce
  <2> SUFFICES ASSUME BInv, cancels = 0, NEW id \in 1 .. issued PROVE handled[id] <= 1
    BY DEF HandledOnce
  <2>1. id \in 1 .. MaxCommands
    BY BoundsAssumption DEF BInv, SInv, CInv, DataOK
  <2> QED
    BY <2>1 DEF BInv, Books, QueueFine
<1> QED
  BY <1>1, <1>2, <1>3, PTL DEF Spec
=============================================================================
