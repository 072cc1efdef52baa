-------------------------- MODULE CheckpointProofs --------------------------
(***************************************************************************)
(* Proofs about Checkpoint, for any number of writers, moments, names,     *)
(* checkpoints and faults: what list_checkpoints and verify_chain make of  *)
(* a directory, and what becomes of one under jobs that overlap, crashes   *)
(* and a storage that loses, alters and copies files.                      *)
(***************************************************************************)
EXTENDS Checkpoint, FiniteSetTheorems, TLAPS

-----------------------------------------------------------------------------
(* Numbers *)

\* A set of naturals has a least element.
LEMMA LeastNat ==
  ASSUME NEW T, T \subseteq Nat, T # {}
  PROVE  \E n \in T : \A m \in T : n <= m
<1>1. IsWellFoundedOn(OpToRel(<, Nat), Nat)
  BY NatLessThanWellFounded
<1>2. PICK n \in T : \A m \in T : ~(<<m, n>> \in OpToRel(<, Nat))
  BY <1>1, WFMin
<1>3. \A m \in T : <<m, n>> \in OpToRel(<, Nat) <=> m < n
  BY DEF OpToRel
<1>4. \A m \in T : ~(m < n)
  BY <1>2, <1>3, Zenon
<1> QED
  BY <1>4

\* What holds of 0, and of n + 1 when of n, holds of every number to N.
LEMMA UpTo ==
  ASSUME NEW N \in Nat, NEW G, 0 \in G,
         \A n \in 0 .. N : n < N /\ n \in G => n + 1 \in G
  PROVE  0 .. N \subseteq G
<1> DEFINE T == (0 .. N) \ G
<1> SUFFICES ASSUME T # {} PROVE FALSE
  OBVIOUS
<1>0. T \subseteq Nat
  OBVIOUS
<1>1. PICK n \in T : \A m \in T : n <= m
  BY <1>0, LeastNat
<1>2. n # 0 /\ n - 1 \in 0 .. N /\ n - 1 < N /\ n - 1 \notin T
  BY <1>1
<1> QED
  BY <1>1, <1>2

-----------------------------------------------------------------------------
(* The files of a directory, by name *)

\* Names are ordered by their seconds, then by their random digits.
LEMMA NamesOrdered ==
  /\ \A a \in Names : a[1] \in Nat /\ a[2] \in Nat /\ ~Before(a, a)
  /\ \A a, b, c \in Names : Before(a, b) /\ Before(b, c) => Before(a, c)
  /\ \A a, b \in Names : a = b \/ Before(a, b) \/ Before(b, a)
  /\ \A a, b \in Names : ~(Before(a, b) /\ Before(b, a))
<1>1. \A a \in Names : a = <<a[1], a[2]>> /\ a[1] \in Nat /\ a[2] \in Nat
  <2> TAKE a \in Names
  <2>1. PICK s \in {SecondOf[t] : t \in Times}, t \in Tags : a = <<s, t>>
    BY DEF Names
  <2>2. a[1] = s /\ a[2] = t
    BY <2>1
  <2>3. s \in Nat /\ t \in Nat
    BY CheckpointAssumption
  <2> QED
    BY <2>1, <2>2, <2>3, Zenon
<1>2. \A a \in Names : ~Before(a, a)
  BY <1>1 DEF Before
<1>3. \A a, b, c \in Names : Before(a, b) /\ Before(b, c) => Before(a, c)
  BY <1>1 DEF Before
<1>4. \A a, b \in Names : a = b \/ Before(a, b) \/ Before(b, a)
  <2> SUFFICES ASSUME NEW a \in Names, NEW b \in Names, ~Before(a, b), ~Before(b, a)
               PROVE  a = b
    OBVIOUS
  <2>1. a[1] = b[1] /\ a[2] = b[2]
    BY <1>1 DEF Before
  <2> QED
    BY <1>1, <2>1, Zenon
<1>5. \A a, b \in Names : ~(Before(a, b) /\ Before(b, a))
  BY <1>2, <1>3
<1> QED
  BY <1>1, <1>2, <1>3, <1>4, <1>5

\* The names of F before a name, and a name's place among them.
Ahead(F, n) == {m \in F : Before(m, n)}
Place(F) == [n \in F |-> Cardinality(Ahead(F, n)) + 1]

LEMMA PlaceGrows ==
  ASSUME NEW F, IsFiniteSet(F), F \subseteq Names, NEW a \in F, NEW b \in F, Before(a, b)
  PROVE  Place(F)[a] < Place(F)[b]
<1>1. Ahead(F, a) \subseteq Ahead(F, b)
  BY NamesOrdered DEF Ahead
<1>2. a \in Ahead(F, b) /\ a \notin Ahead(F, a)
  BY NamesOrdered DEF Ahead
<1>3. IsFiniteSet(Ahead(F, a)) /\ IsFiniteSet(Ahead(F, b))
  BY FS_Subset DEF Ahead
<1>4. Cardinality(Ahead(F, a)) # Cardinality(Ahead(F, b))
  BY <1>1, <1>2, <1>3, FS_Subset
<1>5. Cardinality(Ahead(F, a)) <= Cardinality(Ahead(F, b))
  BY <1>1, <1>3, FS_Subset
<1>6. Cardinality(Ahead(F, a)) \in Nat /\ Cardinality(Ahead(F, b)) \in Nat
  BY <1>3, FS_CardinalityType
<1> QED
  BY <1>4, <1>5, <1>6 DEF Place

\* Every place from the first to the last is taken, by one name.
LEMMA PlaceOnto ==
  ASSUME NEW F, IsFiniteSet(F), F \subseteq Names
  PROVE  /\ Place(F) \in [F -> 1 .. Cardinality(F)]
         /\ \A a, b \in F : Place(F)[a] = Place(F)[b] => a = b
         /\ \A i \in 1 .. Cardinality(F) : \E a \in F : Place(F)[a] = i
<1> DEFINE n == Cardinality(F)
<1>1. n \in Nat
  BY FS_CardinalityType
<1>2. \A a \in F : Place(F)[a] \in 1 .. n
  <2> TAKE a \in F
  <2>1. Ahead(F, a) \subseteq F \ {a}
    BY NamesOrdered DEF Ahead
  <2>2. IsFiniteSet(F \ {a}) /\ Cardinality(F \ {a}) = n - 1
    BY FS_RemoveElement
  <2>3. /\ IsFiniteSet(Ahead(F, a)) /\ Cardinality(Ahead(F, a)) <= n - 1
        /\ Cardinality(Ahead(F, a)) \in Nat
    BY <2>1, <2>2, FS_Subset, FS_CardinalityType
  <2> QED
    BY <1>1, <2>3 DEF Place
<1>3. Place(F) \in [F -> 1 .. n]
  BY <1>2 DEF Place
<1>4. \A a, b \in F : Place(F)[a] = Place(F)[b] => a = b
  <2> SUFFICES ASSUME NEW a \in F, NEW b \in F, Place(F)[a] = Place(F)[b], a # b
               PROVE  FALSE
    OBVIOUS
  <2>1. Before(a, b) \/ Before(b, a)
    BY NamesOrdered
  <2>2. Place(F)[a] \in Nat /\ Place(F)[b] \in Nat
    BY <1>2
  <2> QED
    BY <2>1, <2>2, PlaceGrows
<1>5. Place(F) \in Injection(F, 1 .. n)
  BY <1>3, <1>4 DEF Injection, IsInjective
<1>6. IsFiniteSet(1 .. n) /\ Cardinality(1 .. n) = n
  BY <1>1, FS_Interval
<1>7. Place(F) \in Surjection(F, 1 .. n)
  BY <1>5, <1>6, FS_Injection
<1> QED
  BY <1>3, <1>4, <1>7 DEF Surjection

\* list_checkpoints: all the files, each once and at its place, the earlier names
\* before the later.
LEMMA Listing ==
  ASSUME NEW d, IsFiniteSet(Files(d))
  PROVE  LET listed == list_checkpoints(d)
             n      == Cardinality(Files(d))
         IN  /\ n \in Nat /\ listed \in [1 .. n -> Files(d)]
             /\ DOMAIN listed = 1 .. n /\ Len(listed) = n
             /\ \A i, j \in 1 .. n : i < j => Before(listed[i], listed[j])
             /\ \A a \in Files(d) : \E i \in 1 .. n : listed[i] = a
             /\ \A a \in Files(d), i \in 1 .. n :
                  listed[i] = a <=> Cardinality(Ahead(Files(d), a)) = i - 1
<1> DEFINE F == Files(d)
           n == Cardinality(F)
           listed == list_checkpoints(d)
<1>1. F \subseteq Names /\ n \in Nat
  BY FS_CardinalityType DEF Files
<1>2. listed = [i \in 1 .. n |-> CHOOSE a \in F : Cardinality(Ahead(F, a)) = i - 1]
  BY DEF list_checkpoints, Files, Ahead
<1> HIDE DEF F, listed
<1>3. IsFiniteSet(F)
  BY DEF F
<1>4. \A a \in F : Cardinality(Ahead(F, a)) \in Nat /\ Place(F)[a] = Cardinality(Ahead(F, a)) + 1
  BY <1>3, FS_Subset, FS_CardinalityType DEF Ahead, Place
<1>5. \A i \in 1 .. n : \E a \in F : Cardinality(Ahead(F, a)) = i - 1
  BY <1>1, <1>3, <1>4, PlaceOnto
<1>6. \A i \in 1 .. n : listed[i] \in F /\ Cardinality(Ahead(F, listed[i])) = i - 1
  BY <1>2, <1>5
<1>7. listed \in [1 .. n -> F] /\ DOMAIN listed = 1 .. n
  BY <1>2, <1>6
<1>8. Len(listed) = n
  BY <1>1, <1>7
<1>9. \A a \in F, i \in 1 .. n : listed[i] = a <=> Cardinality(Ahead(F, a)) = i - 1
  <2> TAKE a \in F, i \in 1 .. n
  <2>1. Cardinality(Ahead(F, a)) = i - 1 => Place(F)[a] = Place(F)[listed[i]]
    BY <1>4, <1>6
  <2> QED
    BY <1>1, <1>3, <1>6, <2>1, PlaceOnto
<1>10. \A i, j \in 1 .. n : i < j => Before(listed[i], listed[j])
  <2> SUFFICES ASSUME NEW i \in 1 .. n, NEW j \in 1 .. n, i < j,
                      ~Before(listed[i], listed[j])
               PROVE  FALSE
    OBVIOUS
  <2>1. listed[i] \in F /\ listed[j] \in F /\ Place(F)[listed[i]] = i /\ Place(F)[listed[j]] = j
    BY <1>1, <1>4, <1>6
  <2>2. listed[i] # listed[j]
    BY <2>1
  <2>3. Before(listed[j], listed[i])
    BY <1>1, <2>1, <2>2, NamesOrdered
  <2> QED
    BY <1>1, <1>3, <2>1, <2>3, PlaceGrows
<1>11. \A a \in F : \E i \in 1 .. n : listed[i] = a
  <2> TAKE a \in F
  <2>1. Place(F)[a] \in 1 .. n
    BY <1>1, <1>3, PlaceOnto
  <2>2. Cardinality(Ahead(F, a)) = Place(F)[a] - 1
    BY <1>4
  <2> QED
    BY <1>9, <2>1, <2>2
<1> QED
  BY <1>1, <1>7, <1>8, <1>9, <1>10, <1>11 DEF F, listed

\* The records are what is under the names, in that order.
LEMMA RecordsOf ==
  ASSUME NEW d, IsFiniteSet(Files(d))
  PROVE  LET n == Cardinality(Files(d))
         IN  /\ n \in Nat /\ DOMAIN Records(d) = 1 .. n /\ Len(Records(d)) = n
             /\ Records(d) = [i \in 1 .. n |-> d[list_checkpoints(d)[i]]]
             /\ Records(d) = <<>> <=> n = 0
             /\ n = 0 <=> Files(d) = {}
<1> DEFINE n == Cardinality(Files(d))
<1>1. n \in Nat /\ DOMAIN list_checkpoints(d) = 1 .. n
  BY Listing
<1>2. Records(d) = [i \in 1 .. n |-> d[list_checkpoints(d)[i]]]
  BY <1>1 DEF Records
<1> HIDE DEF n
<1>3. DOMAIN Records(d) = 1 .. n
  BY <1>2
<1>4. Len(Records(d)) = n
  BY <1>1, <1>3
<1>5. Records(d) = <<>> <=> n = 0
  <2>1. n = 0 => 1 .. n = {}
    OBVIOUS
  <2>2. n # 0 => 1 \in 1 .. n
    BY <1>1
  <2> QED
    BY <1>2, <1>3, <2>1, <2>2
<1>6. n = 0 <=> Files(d) = {}
  BY FS_EmptySet DEF n
<1> QED
  BY <1>1, <1>2, <1>3, <1>4, <1>5, <1>6 DEF n

\* The latest file is the one no other comes after.
LEMMA Latest ==
  ASSUME NEW d, IsFiniteSet(Files(d))
  PROVE  \/ Files(d) = {} /\ LatestFile(d) = Absent
         \/ \E a \in Files(d) : /\ LatestFile(d) = d[a]
                                /\ \A b \in Files(d) : b = a \/ Before(b, a)
<1> DEFINE n == Cardinality(Files(d))
           listed == list_checkpoints(d)
<1>1. CASE n = 0
  BY <1>1, RecordsOf DEF LatestFile
<1>2. CASE n # 0
  <2>1. n \in 1 .. n /\ n \in Nat
    BY <1>2, RecordsOf
  <2>2. LatestFile(d) = Records(d)[n]
    BY <1>2, RecordsOf DEF LatestFile, Last
  <2>3. LatestFile(d) = d[listed[n]]
    BY <2>1, <2>2, RecordsOf
  <2>4. listed[n] \in Files(d)
    BY <2>1, Listing
  <2>5. \A b \in Files(d) : b = listed[n] \/ Before(b, listed[n])
    <3> TAKE b \in Files(d)
    <3>1. PICK i \in 1 .. n : listed[i] = b
      BY Listing
    <3>2. i = n \/ i < n
      BY <2>1
    <3> QED
      BY <2>1, <3>1, <3>2, Listing
  <2> QED
    BY <2>3, <2>4, <2>5
<1> QED
  BY <1>1, <1>2

-----------------------------------------------------------------------------
(* The steps *)

\* What the typing says of the parts of the state the steps use.
LEMMA Typed ==
  ASSUME TypeOK
  PROVE  /\ Len(made) \in Nat /\ Signed \subseteq Nat /\ Signed = 1 .. Len(made)
         /\ \A n \in Signed : made[n].name \in Names /\ made[n].prev \in Contents
         /\ \A n \in Names : dir[n] \in Int
         /\ Contents \subseteq Int /\ Genesis \in Contents /\ Torn \in Contents
         /\ Altered \in Contents /\ Absent \notin Contents
         /\ now \in Times /\ now \in Nat /\ faults \in Nat
         /\ SecondOf[now] \in Nat
         /\ \A n \in 1 .. MaxCheckpoints : /\ taken[n] \in Times /\ taken[n] \in Nat
                                           /\ SecondOf[taken[n]] \in Nat
         /\ Signed \subseteq 1 .. MaxCheckpoints
<1> DEFINE Payload == [name : Names, prev : Contents]
<1>1. made \in Seq(Payload)
  BY DEF TypeOK
<1>2. \A n \in Signed : made[n] \in Payload
  <2> HIDE DEF Payload
  <2> QED
    BY <1>1 DEF Signed
<1>3. \A n \in Signed : made[n].name \in Names /\ made[n].prev \in Contents
  BY <1>2
<1>4. /\ Contents \subseteq Int /\ Genesis \in Contents /\ Torn \in Contents
      /\ Altered \in Contents /\ Absent \notin Contents /\ Absent \in Int
  BY CheckpointAssumption DEF Contents, Genesis, Torn, Altered, Absent
<1>5. \A n \in Names : dir[n] \in Int
  BY <1>4 DEF TypeOK
<1>6. now \in Times /\ now \in Nat /\ faults \in Nat /\ SecondOf[now] \in Nat
  BY CheckpointAssumption DEF TypeOK
<1>7. Len(made) \in Nat
  BY <1>1
<1>8. \A n \in 1 .. MaxCheckpoints : /\ taken[n] \in Times /\ taken[n] \in Nat
                                     /\ SecondOf[taken[n]] \in Nat
  BY CheckpointAssumption DEF TypeOK
<1>9. Signed \subseteq 1 .. MaxCheckpoints
  BY <1>7, CheckpointAssumption DEF Signed, TypeOK
<1> QED
  BY <1>3, <1>4, <1>5, <1>6, <1>7, <1>8, <1>9 DEF Signed

LEMMA InitIInv == Init => IInv
<1> SUFFICES ASSUME Init PROVE IInv
  OBVIOUS
<1>1. /\ made = <<>> /\ Len(made) = 0 /\ Signed = {} /\ faults = 0
      /\ dir = [n \in Names |-> Absent] /\ \A w \in Writers : pc[w] = "idle"
  BY DEF Init, Signed
<1>2. TypeOK
  BY CheckpointAssumption, <1>1 DEF Init, TypeOK, Contents, Genesis, Altered
<1>3. Files(dir) = {}
  BY <1>1 DEF Files
<1>4. \A w \in Writers : ~Storing(w)
  BY <1>1 DEF Storing
<1>5. Payloads
  BY <1>1, <1>3, <1>4, FS_EmptySet DEF Payloads
<1>6. SignedBefore /\ NotYetStored /\ SignedInTime
  BY <1>1, <1>4 DEF Init, SignedBefore, NotYetStored, SignedInTime, Genesis, Absent
<1>7. FaultFree
  <2>1. \A w \in Writers : prev[w] >= Genesis
    BY DEF Init, Genesis
  <2> QED
    BY <1>1, <1>3, <2>1 DEF FaultFree
<1>8. StampedInTime
  BY <1>1 DEF Init, StampedInTime
<1> QED
  BY <1>2, <1>5, <1>6, <1>7, <1>8 DEF IInv

\* A step that reads no clock leaves the timestamps in order.
LEMMA StampsKept ==
  ASSUME IInv, made' = made, taken' = taken, now' \in Nat, now <= now',
         faults' = 0 => faults = 0,
         \A w \in Writers : pc[w] = "stamp" => pc'[w] = "stamp" /\ number'[w] = number[w]
  PROVE  StampedInTime'
<1>1. \A n \in 1 .. MaxCheckpoints : taken'[n] <= now'
  BY Typed DEF IInv, StampedInTime
<1> QED
  BY <1>1 DEF IInv, StampedInTime, Signed

\* The latest file of a directory holds what one of its files holds.
LEMMA LatestType ==
  ASSUME IInv
  PROVE  \/ LatestFile(dir) = Absent /\ Files(dir) = {}
         \/ \E a \in Files(dir) : LatestFile(dir) = dir[a] /\ dir[a] \in Contents
<1>1. IsFiniteSet(Files(dir))
  BY DEF IInv, Payloads
<1>2. \A a \in Files(dir) : dir[a] \in Contents
  BY DEF IInv, TypeOK, Files
<1> QED
  BY <1>1, <1>2, Latest

LEMMA ReadLatestStep ==
  ASSUME IInv, NEW w \in Writers, ReadLatest(w)
  PROVE  IInv'
<1> USE DEF IInv
<1> DEFINE read == IF LatestFile(dir) = Absent THEN Genesis ELSE LatestFile(dir)
<1>1. /\ pc[w] = "idle" /\ prev' = [prev EXCEPT ![w] = read] /\ LatestFile(dir) # Torn
      /\ pc' = [pc EXCEPT ![w] = "build"] /\ made' = made /\ dir' = dir /\ now' = now
      /\ number' = number /\ faults' = faults /\ taken' = taken
  BY DEF ReadLatest, Goto
<1>2. \/ read = Genesis
      \/ \E a \in Files(dir) : read = dir[a] /\ dir[a] \in Contents /\ dir[a] # Torn
  BY <1>1, LatestType
<1>3. read \in Contents /\ Genesis \in Contents
  BY <1>2, Typed
<1> HIDE DEF read
<1>4. TypeOK'
  BY <1>1, <1>3 DEF TypeOK
<1>5. /\ Signed' = Signed /\ Files(dir)' = Files(dir)
      /\ \A u \in Writers : Storing(u)' <=> Storing(u)
  BY <1>1 DEF Signed, Files, Storing, TypeOK
<1>6. /\ \A u \in Writers : prev'[u] = prev[u] \/ prev'[u] = read
  BY <1>1 DEF TypeOK
<1>7. Payloads'
  BY <1>1, <1>5 DEF Payloads
<1>8. SignedBefore'
  BY <1>1, <1>2, <1>5, <1>6, Typed DEF SignedBefore, Files, Genesis
<1>9. NotYetStored'
  <2>1. \A u \in Writers : Storing(u) => read # number[u]
    BY <1>2, Typed DEF NotYetStored, Payloads, Files, Genesis
  <2>2. \A u \in Writers : Storing(u) => pc'[u] = pc[u]
    BY <1>1 DEF Storing, TypeOK
  <2> QED
    BY <1>1, <1>5, <1>6, <2>1, <2>2 DEF NotYetStored
<1>10. SignedInTime'
  BY <1>1, <1>5 DEF SignedInTime
<1>11. FaultFree'
  <2> SUFFICES ASSUME faults = 0 PROVE FaultFree'
    BY <1>1 DEF FaultFree
  <2>1. read >= Genesis
    BY <1>2, Typed DEF FaultFree, Genesis
  <2>2. \A u \in Writers : pc[u] = "write" => pc'[u] = "write"
    BY <1>1 DEF TypeOK
  <2> QED
    BY <1>1, <1>5, <1>6, <2>1, <2>2 DEF FaultFree
<1>12. StampedInTime'
  <2>1. \A u \in Writers : pc[u] = "stamp" => pc'[u] = "stamp" /\ number'[u] = number[u]
    BY <1>1 DEF TypeOK
  <2> QED
    BY <1>1, <2>1, Typed, StampsKept
<1> QED
  BY <1>4, <1>7, <1>8, <1>9, <1>10, <1>11, <1>12

LEMMA BuildStep ==
  ASSUME IInv, NEW w \in Writers, Build(w)
  PROVE  IInv'
<1> USE DEF IInv
<1> DEFINE next == Len(made) + 1
<1>1. /\ pc[w] = "build" /\ Len(made) < MaxCheckpoints
      /\ number' = [number EXCEPT ![w] = next] /\ pc' = [pc EXCEPT ![w] = "stamp"]
      /\ dir' = dir /\ now' = now /\ prev' = prev /\ faults' = faults /\ taken' = taken
  BY DEF Build, Goto
<1>2. PICK tag \in Tags :
        /\ dir[<<SecondOf[now], tag>>] = Absent
        /\ \A n \in Signed : made[n].name # <<SecondOf[now], tag>>
        /\ made' = Append(made, [name |-> <<SecondOf[now], tag>>, prev |-> prev[w]])
  BY DEF Build
<1> DEFINE name == <<SecondOf[now], tag>>
<1>3. name \in Names /\ name[1] = SecondOf[now] /\ prev[w] \in Contents
  BY DEF TypeOK, Names
<1>2a. dir[name] = Absent /\ \A n \in Signed : made[n].name # name
  BY <1>2
<1> HIDE DEF name
<1>3a. made \in Seq([name : Names, prev : Contents]) /\ Len(made) \in Nat
  BY DEF TypeOK
<1>3b. [name |-> name, prev |-> prev[w]] \in [name : Names, prev : Contents]
  BY <1>3
<1>3c. made' = Append(made, [name |-> name, prev |-> prev[w]])
  BY <1>2 DEF name
<1>4. /\ Len(made') = next /\ made'[next].name = name /\ made'[next].prev = prev[w]
      /\ made' \in Seq([name : Names, prev : Contents])
  BY <1>3a, <1>3b, <1>3c
<1>5. /\ Signed' = Signed \cup {next} /\ next \notin Signed
      /\ \A n \in Signed : made'[n] = made[n] /\ n < next
  BY <1>3a, <1>3c, <1>4 DEF Signed
<1>6. TypeOK'
  BY <1>1, <1>4, <1>3a, CheckpointAssumption DEF TypeOK
<1>7. /\ Files(dir)' = Files(dir) /\ Storing(w)' /\ ~Storing(w) /\ number'[w] = next
      /\ \A u \in Writers : u # w => (Storing(u)' <=> Storing(u)) /\ number'[u] = number[u]
                                     /\ pc'[u] = pc[u]
      /\ pc'[w] = "stamp"
  BY <1>1 DEF Files, Storing, TypeOK
<1>8. Payloads'
  <2>1. \A m, n \in Signed' : made'[m].name = made'[n].name => m = n
    BY <1>2a, <1>4, <1>5 DEF Payloads
  <2>2. \A u \in Writers : Storing(u)' =>
          /\ number'[u] \in Signed'
          /\ \A v \in Writers : Storing(v)' /\ number'[v] = number'[u] => v = u
    BY <1>5, <1>7 DEF Payloads
  <2> QED
    BY <1>7, <2>1, <2>2 DEF Payloads
<1>9. SignedBefore'
  <2>1. \A u \in Writers : prev[u] \in Int /\ prev[u] <= Len(made)
    BY Typed DEF SignedBefore, TypeOK
  <2>2. \A n \in Signed' : made'[n].prev < n
    <3>1. made'[next].prev < next
      BY <1>3a, <1>4, <2>1
    <3>2. \A n \in Signed : made'[n].prev < n
      BY <1>5 DEF SignedBefore
    <3> QED
      BY <1>5, <3>1, <3>2
  <2>3. \A u \in Writers : prev'[u] <= Len(made')
    BY <1>1, <1>3a, <1>4, <2>1
  <2>4. \A n \in Names : dir'[n] <= Len(made')
    BY <1>1, <1>3a, <1>4, Typed DEF SignedBefore
  <2> QED
    BY <2>2, <2>3, <2>4 DEF SignedBefore
<1>10. NotYetStored'
  <2> SUFFICES ASSUME NEW u \in Writers, Storing(u)'
               PROVE  /\ \A n \in Names : dir'[n] # number'[u]
                      /\ \A v \in Writers : prev'[v] # number'[u]
                      /\ \A n \in Signed' : made'[n].prev # number'[u]
                      /\ dir'[made'[number'[u]].name] = IF pc'[u] = "write" THEN Torn ELSE Absent
    BY DEF NotYetStored
  <2>1. CASE u = w
    <3>1. \A n \in Names : dir[n] # next
      BY <1>3a, Typed DEF SignedBefore
    <3>2. \A v \in Writers : prev[v] # next
      BY <1>3a, Typed DEF SignedBefore, TypeOK
    <3>3. \A n \in Signed' : made'[n].prev # next
      <4>1. \A n \in Signed : made[n].prev \in Int /\ made[n].prev < n /\ n < next /\ n \in Nat
        BY <1>5, Typed DEF SignedBefore
      <4>2. \A n \in Signed : made'[n].prev # next
        BY <1>3a, <1>5, <4>1
      <4> QED
        BY <1>4, <1>5, <3>2, <4>2
    <3>4. made'[next].name = name /\ dir'[name] = Absent /\ pc'[w] = "stamp"
      BY <1>1, <1>2a, <1>4, <1>7
    <3> HIDE DEF next
    <3> QED
      BY <1>1, <1>7, <2>1, <3>1, <3>2, <3>3, <3>4
  <2>2. CASE u # w
    <3>1. Storing(u) /\ number'[u] = number[u] /\ number[u] \in Signed /\ pc'[u] = pc[u]
      BY <1>7, <2>2 DEF Payloads
    <3>2. made'[next].prev # number[u]
      BY <1>4, <3>1 DEF NotYetStored
    <3> QED
      BY <1>1, <1>5, <3>1, <3>2 DEF NotYetStored
  <2> QED
    BY <2>1, <2>2
<1>11. SignedInTime'
  <2>1. \A n \in Signed : made[n].name[1] <= SecondOf[now]
    BY DEF SignedInTime
  <2>2. \A n \in Signed' : made'[n].name[1] <= SecondOf[now']
    <3>1. SecondOf[now'] = SecondOf[now] /\ SecondOf[now] \in Nat
      BY <1>1, Typed
    <3>2. made'[next].name[1] <= SecondOf[now]
      BY <1>3, <1>4, <3>1
    <3>3. \A n \in Signed : made'[n].name[1] <= SecondOf[now]
      BY <1>5, <2>1
    <3> HIDE DEF next
    <3> QED
      BY <1>5, <3>1, <3>2, <3>3
  <2>3. \A n, m \in Signed' : m < n => made'[m].name[1] <= made'[n].name[1]
    <3> SUFFICES ASSUME NEW n \in Signed', NEW m \in Signed', m < n
                 PROVE  made'[m].name[1] <= made'[n].name[1]
      OBVIOUS
    <3>1. m \in Signed
      BY <1>3a, <1>5, Typed
    <3>2. CASE n = next
      BY <1>3, <1>4, <1>5, <2>1, <3>1, <3>2
    <3>3. CASE n \in Signed
      BY <1>5, <3>1, <3>3 DEF SignedInTime
    <3> QED
      BY <1>5, <3>2, <3>3
  <2> QED
    BY <2>2, <2>3 DEF SignedInTime
<1>12. FaultFree'
  <2> SUFFICES ASSUME faults = 0 PROVE FaultFree'
    BY <1>1 DEF FaultFree
  <2>1. \A n \in Files(dir)' :
          \/ dir'[n] \in Signed' /\ made'[dir'[n]].name = n
          \/ dir'[n] = Torn
             /\ \E u \in Writers : pc'[u] = "write" /\ made'[number'[u]].name = n
    <3> TAKE n \in Files(dir)'
    <3>1. CASE dir[n] \in Signed /\ made[dir[n]].name = n
      BY <1>1, <1>5, <3>1
    <3>2. CASE dir[n] = Torn /\ \E u \in Writers : pc[u] = "write" /\ made[number[u]].name = n
      <4>1. PICK u \in Writers : pc[u] = "write" /\ made[number[u]].name = n
        BY <3>2
      <4>2. Storing(u) /\ number[u] \in Signed /\ u # w
        BY <1>1, <4>1 DEF Storing, Payloads
      <4> QED
        BY <1>1, <1>5, <1>7, <3>2, <4>1, <4>2
    <3> QED
      BY <1>7, <3>1, <3>2 DEF FaultFree
  <2>2. \A n \in Signed' : \/ dir'[made'[n].name] = n
                           \/ \E u \in Writers : Storing(u)' /\ number'[u] = n
    BY <1>1, <1>5, <1>7 DEF FaultFree
  <2>3. \A n \in Signed' : made'[n].prev >= Genesis
    BY <1>4, <1>5 DEF FaultFree
  <2> QED
    BY <1>1, <2>1, <2>2, <2>3 DEF FaultFree
<1>13. StampedInTime'
  <2>1. \A n \in 1 .. MaxCheckpoints : taken'[n] <= now'
    BY <1>1 DEF StampedInTime
  <2> SUFFICES ASSUME faults = 0, NEW n \in Signed'
               PROVE  \/ \E u \in Writers : pc'[u] = "stamp" /\ number'[u] = n
                      \/ /\ made'[n].name[1] <= SecondOf[taken'[n]]
                         /\ made'[n].prev \in Signed' => taken'[made'[n].prev] <= taken'[n]
    BY <1>1, <2>1 DEF StampedInTime
  <2>2. CASE n = next
    BY <1>7, <2>2
  <2>3. CASE n \in Signed /\ \E u \in Writers : pc[u] = "stamp" /\ number[u] = n
    <3>1. PICK u \in Writers : pc[u] = "stamp" /\ number[u] = n
      BY <2>3
    <3>2. u # w
      BY <1>1, <3>1
    <3> QED
      BY <1>7, <3>1, <3>2
  <2>4. CASE n \in Signed /\ ~\E u \in Writers : pc[u] = "stamp" /\ number[u] = n
    <3>1. made'[n] = made[n] /\ n < next
      BY <1>5, <2>4
    <3>2. made[n].prev # next
      BY <1>3a, <2>4, <3>1, Typed DEF SignedBefore
    <3> QED
      BY <1>1, <1>5, <2>4, <3>1, <3>2 DEF StampedInTime
  <2> QED
    BY <1>5, <2>2, <2>3, <2>4
<1> QED
  BY <1>6, <1>8, <1>9, <1>10, <1>11, <1>12, <1>13

\* The timestamp of a payload is that of a moment of its second or later, and no
\* checkpoint stands on it yet.
LEMMA StampStep ==
  ASSUME IInv, NEW w \in Writers, Stamp(w)
  PROVE  IInv'
<1> USE DEF IInv
<1>1. /\ pc[w] = "stamp" /\ taken' = [taken EXCEPT ![number[w]] = now]
      /\ pc' = [pc EXCEPT ![w] = "open"] /\ made' = made /\ dir' = dir /\ now' = now
      /\ prev' = prev /\ number' = number /\ faults' = faults
  BY DEF Stamp, Goto
<1>2. Storing(w) /\ number[w] \in Signed /\ number[w] \in 1 .. MaxCheckpoints
  BY <1>1, Typed DEF Storing, Payloads
<1>3. /\ Signed' = Signed /\ Files(dir)' = Files(dir)
      /\ \A u \in Writers : Storing(u)' <=> Storing(u)
      /\ \A u \in Writers : u # w => pc'[u] = pc[u]
      /\ \A u \in Writers : pc'[u] = "write" <=> pc[u] = "write"
  BY <1>1 DEF Signed, Files, Storing, TypeOK
<1>4. TypeOK'
  BY <1>1 DEF TypeOK
<1>5. Payloads' /\ SignedBefore' /\ SignedInTime'
  BY <1>1, <1>3 DEF Payloads, SignedBefore, SignedInTime
<1>6. NotYetStored'
  BY <1>1, <1>3 DEF NotYetStored
<1>7. FaultFree'
  BY <1>1, <1>3 DEF FaultFree
<1>8. taken'[number[w]] = now /\ \A n \in 1 .. MaxCheckpoints : n # number[w] => taken'[n] = taken[n]
  BY <1>1, <1>2 DEF TypeOK
<1>9. StampedInTime'
  <2>1. \A n \in 1 .. MaxCheckpoints : taken'[n] <= now'
    BY <1>1, <1>8, Typed DEF StampedInTime
  <2> SUFFICES ASSUME faults = 0, NEW n \in Signed
               PROVE  \/ \E u \in Writers : pc'[u] = "stamp" /\ number'[u] = n
                      \/ /\ made[n].name[1] <= SecondOf[taken'[n]]
                         /\ made[n].prev \in Signed => taken'[made[n].prev] <= taken'[n]
    BY <1>1, <1>3, <2>1 DEF StampedInTime
  <2>2. /\ made[n].prev # number[w] /\ n \in 1 .. MaxCheckpoints
        /\ made[n].prev \in Signed => /\ made[n].prev \in 1 .. MaxCheckpoints
                                      /\ taken'[made[n].prev] = taken[made[n].prev]
    BY <1>2, <1>8, Typed DEF NotYetStored
  <2>3. CASE n = number[w]
    <3>1. made[n].name[1] <= SecondOf[taken'[n]]
      BY <1>8, <2>3 DEF SignedInTime
    <3>2. made[n].prev \in Signed => taken'[made[n].prev] <= taken'[n]
      BY <1>8, <2>2, <2>3 DEF StampedInTime
    <3> QED
      BY <3>1, <3>2
  <2>4. CASE n # number[w] /\ \E u \in Writers : pc[u] = "stamp" /\ number[u] = n
    BY <1>1, <1>3, <2>4
  <2>5. CASE n # number[w] /\ ~\E u \in Writers : pc[u] = "stamp" /\ number[u] = n
    BY <1>8, <2>2, <2>5 DEF StampedInTime
  <2> QED
    BY <2>3, <2>4, <2>5
<1> QED
  BY <1>4, <1>5, <1>6, <1>7, <1>9

LEMMA OpenStep ==
  ASSUME IInv, NEW w \in Writers, Open(w)
  PROVE  IInv'
<1> USE DEF IInv
<1> DEFINE name == made[number[w]].name
<1>1. /\ pc[w] = "open" /\ dir' = [dir EXCEPT ![name] = Torn]
      /\ pc' = [pc EXCEPT ![w] = "write"]
      /\ made' = made /\ now' = now /\ prev' = prev /\ number' = number /\ faults' = faults
      /\ taken' = taken
  BY DEF Open, Goto
<1>2. /\ Storing(w) /\ number[w] \in Signed /\ name \in Names
      /\ Torn \in Contents /\ Torn # Absent
  BY <1>1, Typed DEF Storing, Payloads, Torn, Absent
<1>2a. \A u \in Writers : Storing(u) /\ made[number[u]].name = name => u = w
  BY <1>2 DEF Payloads
<1> HIDE DEF name
<1>3. TypeOK'
  BY <1>1, <1>2 DEF TypeOK
<1>4. /\ Signed' = Signed /\ Files(dir)' = Files(dir) \cup {name}
      /\ \A u \in Writers : Storing(u)' <=> Storing(u)
      /\ \A u \in Writers : u # w => pc'[u] = pc[u]
      /\ pc'[w] = "write"
  BY <1>1, <1>2 DEF Signed, Files, Storing, TypeOK
<1>4a. dir'[name] = Torn /\ \A n \in Names : n # name => dir'[n] = dir[n]
  BY <1>1, <1>2 DEF TypeOK
<1>5. Payloads'
  <2>1. IsFiniteSet(Files(dir) \cup {name})
    BY FS_AddElement DEF Payloads
  <2> QED
    BY <1>1, <1>4, <2>1 DEF Payloads
<1>6. SignedBefore'
  <2>1. \A n \in Names : dir'[n] <= Len(made)
    BY <1>4a, Typed DEF SignedBefore, Torn
  <2> QED
    BY <1>1, <1>4, <2>1 DEF SignedBefore
<1>7. NotYetStored'
  <2> SUFFICES ASSUME NEW u \in Writers, Storing(u)
               PROVE  /\ \A n \in Names : dir'[n] # number[u]
                      /\ dir'[made[number[u]].name] = IF pc'[u] = "write" THEN Torn ELSE Absent
    BY <1>1, <1>4 DEF NotYetStored
  <2>1. number[u] # Torn /\ made[number[u]].name \in Names
    BY Typed DEF Payloads, Torn
  <2>2. \A n \in Names : dir'[n] # number[u]
    BY <1>4a, <2>1 DEF NotYetStored
  <2>3. dir'[made[number[u]].name] = IF pc'[u] = "write" THEN Torn ELSE Absent
    BY <1>2a, <1>4, <1>4a, <2>1 DEF NotYetStored, name
  <2> QED
    BY <2>2, <2>3
<1>8. SignedInTime'
  BY <1>1, <1>4 DEF SignedInTime
<1>9. FaultFree'
  <2> SUFFICES ASSUME faults = 0 PROVE FaultFree'
    BY <1>1 DEF FaultFree
  <2>1. \A u \in Writers : pc[u] = "write" => pc'[u] = "write"
    BY <1>4
  <2>2. \A n \in Files(dir)' :
          \/ dir'[n] \in Signed' /\ made'[dir'[n]].name = n
          \/ dir'[n] = Torn
             /\ \E u \in Writers : pc'[u] = "write" /\ made'[number'[u]].name = n
    <3> TAKE n \in Files(dir)'
    <3>1. CASE n = name
      BY <1>1, <1>4, <1>4a, <3>1 DEF name
    <3>2. CASE n # name
      <4>1. n \in Files(dir) /\ dir'[n] = dir[n]
        BY <1>4, <1>4a, <3>2 DEF Files
      <4> QED
        BY <1>1, <1>4, <2>1, <4>1 DEF FaultFree
    <3> QED
      BY <3>1, <3>2
  <2>3. \A n \in Signed' : \/ dir'[made'[n].name] = n
                           \/ \E u \in Writers : Storing(u)' /\ number'[u] = n
    <3> TAKE n \in Signed'
    <3>1. CASE n = number[w]
      BY <1>1, <1>2, <1>4, <3>1
    <3>2. CASE n # number[w]
      <4>1. made[n].name # name /\ made[n].name \in Names
        BY <1>2, <1>4, <3>2, Typed DEF Payloads, name
      <4> QED
        BY <1>1, <1>4, <1>4a, <4>1 DEF FaultFree
    <3> QED
      BY <3>1, <3>2
  <2> QED
    BY <1>1, <1>4, <2>2, <2>3 DEF FaultFree
<1>10. StampedInTime'
  BY <1>1, <1>4, Typed, StampsKept
<1> QED
  BY <1>3, <1>5, <1>6, <1>7, <1>8, <1>9, <1>10

\* A job that ends leaves the others as they are.
LEMMA EndFrame ==
  ASSUME TypeOK, NEW w \in Writers, End(w)
  PROVE  /\ made' = made /\ now' = now /\ Signed' = Signed /\ taken' = taken
         /\ pc' \in [Writers -> {"idle", "build", "stamp", "open", "write"}]
         /\ prev' \in [Writers -> Contents]
         /\ number' \in [Writers -> 0 .. MaxCheckpoints]
         /\ ~Storing(w)'
         /\ \A u \in Writers : u # w =>
              (Storing(u)' <=> Storing(u)) /\ pc'[u] = pc[u] /\ number'[u] = number[u]
         /\ \A u \in Writers : prev'[u] = Genesis \/ prev'[u] = prev[u]
<1>1. Genesis \in Contents /\ 0 \in 0 .. MaxCheckpoints
  BY CheckpointAssumption, Typed
<1> QED
  BY <1>1 DEF End, Goto, TypeOK, Storing, Signed

LEMMA WriteStep ==
  ASSUME IInv, NEW w \in Writers, Write(w)
  PROVE  IInv'
<1> USE DEF IInv
<1> DEFINE name == made[number[w]].name
<1>1. /\ pc[w] = "write" /\ dir' = [dir EXCEPT ![name] = number[w]]
      /\ End(w) /\ faults' = faults
  BY DEF Write
<1>2. /\ Storing(w) /\ number[w] \in Signed /\ name \in Names
      /\ number[w] # Absent /\ number[w] \in Contents
  <2>1. Storing(w) /\ number[w] \in Signed /\ name \in Names
    BY <1>1, Typed DEF Storing, Payloads
  <2>2. number[w] \in 0 .. MaxCheckpoints
    BY DEF TypeOK
  <2>3. number[w] # Absent /\ number[w] \in Contents
    BY <2>2, CheckpointAssumption DEF Contents, Absent, Altered
  <2> QED
    BY <2>1, <2>3
<1>2a. \A u \in Writers : Storing(u) /\ u # w => made[number[u]].name # name
                                                 /\ number[u] # number[w]
  BY <1>2 DEF Payloads
<1>2b. dir[name] = Torn
  BY <1>1, <1>2 DEF NotYetStored
<1> HIDE DEF name
<1>3. TypeOK'
  BY <1>1, <1>2, EndFrame DEF TypeOK
<1>4. /\ Files(dir)' = Files(dir) \cup {name}
      /\ dir'[name] = number[w] /\ \A n \in Names : n # name => dir'[n] = dir[n]
  BY <1>1, <1>2 DEF Files, TypeOK
<1>5. Payloads'
  <2>1. IsFiniteSet(Files(dir) \cup {name})
    BY FS_AddElement DEF Payloads
  <2>2. \A u \in Writers : Storing(u)' =>
          /\ number'[u] \in Signed'
          /\ \A v \in Writers : Storing(v)' /\ number'[v] = number'[u] => v = u
    BY <1>1, EndFrame DEF Payloads
  <2>3. \A m, n \in Signed' : made'[m].name = made'[n].name => m = n
    BY <1>1, EndFrame DEF Payloads
  <2> QED
    BY <1>4, <2>1, <2>2, <2>3 DEF Payloads
<1>6. SignedBefore'
  <2>0. number[w] <= Len(made) /\ Genesis <= Len(made)
    BY <1>2, Typed DEF Genesis
  <2>1. \A n \in Names : dir'[n] <= Len(made)
    BY <1>4, <2>0 DEF SignedBefore
  <2>2. \A u \in Writers : prev'[u] <= Len(made)
    BY <1>1, <2>0, EndFrame DEF SignedBefore
  <2> QED
    BY <1>1, <2>1, <2>2, EndFrame DEF SignedBefore
<1>7. NotYetStored'
  <2> SUFFICES ASSUME NEW u \in Writers, Storing(u)'
               PROVE  /\ \A n \in Names : dir'[n] # number'[u]
                      /\ \A v \in Writers : prev'[v] # number'[u]
                      /\ \A n \in Signed' : made'[n].prev # number'[u]
                      /\ dir'[made'[number'[u]].name] = IF pc'[u] = "write" THEN Torn ELSE Absent
    BY DEF NotYetStored
  <2>1. /\ u # w /\ Storing(u) /\ number'[u] = number[u] /\ pc'[u] = pc[u]
        /\ number[u] \in Signed /\ number[u] # Genesis /\ made[number[u]].name \in Names
    BY <1>1, EndFrame, Typed DEF Payloads, Genesis
  <2>2. \A n \in Names : dir'[n] # number[u]
    BY <1>2a, <1>4, <2>1 DEF NotYetStored
  <2>3. \A v \in Writers : prev'[v] # number[u]
    BY <1>1, <2>1, EndFrame DEF NotYetStored
  <2>4. dir'[made[number[u]].name] = IF pc'[u] = "write" THEN Torn ELSE Absent
    BY <1>2a, <1>4, <2>1 DEF NotYetStored
  <2> QED
    BY <1>1, <2>1, <2>2, <2>3, <2>4, EndFrame DEF NotYetStored
<1>8. SignedInTime'
  BY <1>1, EndFrame DEF SignedInTime
<1>9. FaultFree'
  <2> SUFFICES ASSUME faults = 0 PROVE FaultFree'
    BY <1>1 DEF FaultFree
  <2>1. \A n \in Files(dir)' :
          \/ dir'[n] \in Signed' /\ made'[dir'[n]].name = n
          \/ dir'[n] = Torn
             /\ \E u \in Writers : pc'[u] = "write" /\ made'[number'[u]].name = n
    <3> TAKE n \in Files(dir)'
    <3>1. CASE n = name
      BY <1>1, <1>2, <1>4, <3>1, EndFrame DEF name
    <3>2. CASE n # name
      <4>1. n \in Files(dir) /\ dir'[n] = dir[n]
        BY <1>4, <3>2 DEF Files
      <4>2. CASE dir[n] \in Signed /\ made[dir[n]].name = n
        BY <1>1, <4>1, <4>2, EndFrame
      <4>3. CASE dir[n] = Torn /\ \E u \in Writers : pc[u] = "write" /\ made[number[u]].name = n
        <5>1. PICK u \in Writers : pc[u] = "write" /\ made[number[u]].name = n
          BY <4>3
        <5>2. u # w
          BY <3>2, <5>1 DEF name
        <5> QED
          BY <1>1, <4>1, <4>3, <5>1, <5>2, EndFrame
      <4> QED
        BY <4>1, <4>2, <4>3 DEF FaultFree
    <3> QED
      BY <3>1, <3>2
  <2>2. \A n \in Signed' : \/ dir'[made'[n].name] = n
                           \/ \E u \in Writers : Storing(u)' /\ number'[u] = n
    <3> TAKE n \in Signed'
    <3>0. n \in Signed /\ made' = made
      BY <1>1, EndFrame
    <3>1. CASE n = number[w]
      BY <1>4, <3>0, <3>1 DEF name
    <3>2. CASE n # number[w]
      <4>1. made[n].name # name /\ made[n].name \in Names
        BY <1>2, <3>0, <3>2, Typed DEF Payloads, name
      <4>2. dir[made[n].name] = n \/ \E u \in Writers : Storing(u) /\ number[u] = n
        BY <3>0 DEF FaultFree
      <4>3. ASSUME NEW u \in Writers, Storing(u), number[u] = n
            PROVE  Storing(u)' /\ number'[u] = n
        BY <1>1, <3>2, <4>3, EndFrame
      <4> QED
        BY <1>4, <3>0, <4>1, <4>2, <4>3
    <3> QED
      BY <3>1, <3>2
  <2>3. \A u \in Writers : prev'[u] >= Genesis
    BY <1>1, EndFrame DEF FaultFree, Genesis
  <2> QED
    BY <1>1, <2>1, <2>2, <2>3, EndFrame DEF FaultFree
<1>10. StampedInTime'
  <2>1. \A u \in Writers : pc[u] = "stamp" => pc'[u] = "stamp" /\ number'[u] = number[u]
    BY <1>1, EndFrame
  <2> QED
    BY <1>1, <2>1, Typed, EndFrame, StampsKept
<1> QED
  BY <1>3, <1>5, <1>6, <1>7, <1>8, <1>9, <1>10

LEMMA CrashStep ==
  ASSUME IInv, NEW w \in Writers, Crash(w)
  PROVE  IInv'
<1> USE DEF IInv
<1>1. End(w) /\ faults < MaxFaults /\ faults' = faults + 1 /\ dir' = dir
  BY DEF Crash
<1>2. TypeOK'
  <2>1. faults' \in 0 .. MaxFaults
    BY <1>1, CheckpointAssumption DEF TypeOK
  <2> QED
    BY <1>1, <2>1, EndFrame DEF TypeOK
<1>3. Files(dir)' = Files(dir)
  BY <1>1 DEF Files
<1>4. Payloads'
  <2>1. \A u \in Writers : Storing(u)' =>
          /\ number'[u] \in Signed'
          /\ \A v \in Writers : Storing(v)' /\ number'[v] = number'[u] => v = u
    BY <1>1, EndFrame DEF Payloads
  <2> QED
    BY <1>1, <1>3, <2>1, EndFrame DEF Payloads
<1>5. SignedBefore'
  <2>1. \A u \in Writers : prev'[u] <= Len(made)
    BY <1>1, EndFrame, Typed DEF SignedBefore, Genesis
  <2> QED
    BY <1>1, <2>1, EndFrame DEF SignedBefore
<1>6. NotYetStored'
  <2> SUFFICES ASSUME NEW u \in Writers, Storing(u)'
               PROVE  /\ \A n \in Names : dir'[n] # number'[u]
                      /\ \A v \in Writers : prev'[v] # number'[u]
                      /\ \A n \in Signed' : made'[n].prev # number'[u]
                      /\ dir'[made'[number'[u]].name] = IF pc'[u] = "write" THEN Torn ELSE Absent
    BY DEF NotYetStored
  <2>1. /\ u # w /\ Storing(u) /\ number'[u] = number[u] /\ pc'[u] = pc[u]
        /\ number[u] \in Signed /\ number[u] # Genesis
    BY <1>1, EndFrame, Typed DEF Payloads, Genesis
  <2>2. \A v \in Writers : prev'[v] # number[u]
    BY <1>1, <2>1, EndFrame DEF NotYetStored
  <2> QED
    BY <1>1, <2>1, <2>2, EndFrame DEF NotYetStored
<1>7. SignedInTime'
  BY <1>1, EndFrame DEF SignedInTime
<1>8. FaultFree'
  BY <1>1, Typed DEF FaultFree
<1>9. StampedInTime'
  BY <1>1, EndFrame, Typed DEF StampedInTime
<1> QED
  BY <1>2, <1>4, <1>5, <1>6, <1>7, <1>8, <1>9

\* No file of a payload that is being stored is lost, altered or copied over.
LEMMA StorageFaultStep ==
  ASSUME IInv, StorageFault
  PROVE  IInv'
<1> USE DEF IInv
<1>1. /\ faults < MaxFaults /\ faults' = faults + 1
      /\ made' = made /\ now' = now /\ pc' = pc /\ prev' = prev /\ number' = number
      /\ taken' = taken
  BY DEF StorageFault
<1>2. PICK name \in Names :
        /\ dir[name] > Torn
        /\ \/ dir' = [dir EXCEPT ![name] = Absent]
           \/ dir' = [dir EXCEPT ![name] = Altered]
           \/ \E other \in Names :
                 /\ dir[other] \notin {Torn, dir[name]} /\ ~Unstored(other)
                 /\ dir' = [dir EXCEPT ![other] = dir[name]]
  BY DEF StorageFault
<1>3. PICK hit \in Names, c \in Contents \cup {Absent} :
        /\ dir' = [dir EXCEPT ![hit] = c]
        /\ c \in {Absent, Altered, dir[name]}
        /\ dir[hit] # Torn /\ ~Unstored(hit)
  <2>1. dir[name] # Torn /\ dir[name] # Absent /\ dir[name] \in Contents \cup {Absent}
    BY <1>2, Typed DEF Torn, Absent, TypeOK
  <2>2. ~Unstored(name)
    <3> SUFFICES ASSUME NEW w \in Writers, pc[w] \in {"stamp", "open"}, made[number[w]].name = name
                 PROVE  FALSE
      BY DEF Unstored
    <3> QED
      BY <2>1 DEF Storing, NotYetStored
  <2>3. Altered \in Contents
    BY Typed
  <2> QED
    BY <1>2, <2>1, <2>2, <2>3
<1>4. dir'[hit] = c /\ \A n \in Names : n # hit => dir'[n] = dir[n]
  BY <1>3 DEF TypeOK
<1>5. Signed' = Signed /\ \A w \in Writers : Storing(w)' <=> Storing(w)
  BY <1>1 DEF Signed, Storing
<1>6. TypeOK'
  <2>1. faults' \in 0 .. MaxFaults
    BY <1>1, CheckpointAssumption DEF TypeOK
  <2>2. dir' \in [Names -> Contents \cup {Absent}]
    BY <1>3 DEF TypeOK
  <2> QED
    BY <1>1, <2>1, <2>2 DEF TypeOK
<1>7. Payloads'
  <2>1. IsFiniteSet(Files(dir) \cup {hit})
    BY FS_AddElement DEF Payloads
  <2>2. Files(dir)' \subseteq Files(dir) \cup {hit}
    BY <1>4 DEF Files
  <2>3. IsFiniteSet(Files(dir)')
    BY <2>1, <2>2, FS_Subset
  <2> QED
    BY <1>1, <1>5, <2>3 DEF Payloads
<1>8. SignedBefore'
  <2>1. \A n \in Names : dir'[n] <= Len(made)
    BY <1>3, <1>4, Typed DEF SignedBefore, Absent, Altered
  <2> QED
    BY <1>1, <1>5, <2>1 DEF SignedBefore
<1>9. NotYetStored'
  <2> SUFFICES ASSUME NEW u \in Writers, Storing(u)
               PROVE  /\ \A n \in Names : dir'[n] # number[u]
                      /\ dir'[made[number[u]].name] = IF pc[u] = "write" THEN Torn ELSE Absent
    BY <1>1, <1>5 DEF NotYetStored
  <2>1. number[u] \notin {Absent, Altered} /\ made[number[u]].name \in Names
    BY Typed DEF Payloads, Absent, Altered
  <2>2. \A n \in Names : dir'[n] # number[u]
    BY <1>3, <1>4, <2>1 DEF NotYetStored
  <2>3. made[number[u]].name # hit
    BY <1>3 DEF NotYetStored, Storing, Unstored
  <2> QED
    BY <1>4, <2>1, <2>2, <2>3 DEF NotYetStored
<1>10. SignedInTime'
  BY <1>1, <1>5 DEF SignedInTime
<1>11. FaultFree'
  BY <1>1, Typed DEF FaultFree
<1>12. StampedInTime'
  BY <1>1, Typed DEF StampedInTime
<1> QED
  BY <1>6, <1>7, <1>8, <1>9, <1>10, <1>11, <1>12

LEMMA IInvStep ==
  ASSUME IInv, [Next]_vars
  PROVE  IInv'
<1>1. CASE \E w \in Writers : \/ ReadLatest(w) \/ Build(w) \/ Stamp(w)
                             \/ Open(w) \/ Write(w) \/ Crash(w)
  BY <1>1, ReadLatestStep, BuildStep, StampStep, OpenStep, WriteStep, CrashStep
<1>2. CASE StorageFault
  BY <1>2, StorageFaultStep
<1>3. CASE Tick
  <2>1. /\ now' > now /\ now' \in Times /\ made' = made /\ dir' = dir /\ pc' = pc
        /\ prev' = prev /\ number' = number /\ faults' = faults /\ taken' = taken
    BY <1>3 DEF Tick
  <2>2. TypeOK' /\ Payloads' /\ SignedBefore' /\ NotYetStored' /\ FaultFree'
    BY <2>1 DEF IInv, TypeOK, Payloads, SignedBefore, NotYetStored, FaultFree, Files,
                Storing, Signed
  <2>3. \A n \in Signed : made[n].name[1] \in Nat
    BY Typed, NamesOrdered DEF IInv
  <2>4. now \in Times /\ now' \in Nat /\ SecondOf[now] <= SecondOf[now'] /\ now <= now'
        /\ SecondOf[now] \in Nat /\ SecondOf[now'] \in Nat
    BY <2>1, CheckpointAssumption, Typed DEF IInv
  <2>5. SignedInTime'
    BY <2>1, <2>3, <2>4 DEF IInv, SignedInTime, Signed
  <2>6. StampedInTime'
    BY <2>1, <2>4, StampsKept
  <2> QED
    BY <2>2, <2>5, <2>6 DEF IInv
<1>4. CASE UNCHANGED vars
  BY <1>4 DEF vars, IInv, TypeOK, Payloads, SignedBefore, NotYetStored, SignedInTime,
              StampedInTime, FaultFree, Files, Storing, Signed
<1> QED
  BY <1>1, <1>2, <1>3, <1>4 DEF Next

LEMMA Invariance == Spec => []IInv
<1>1. IInv /\ [Next]_vars => IInv'
  BY IInvStep
<1> QED
  BY InitIInv, <1>1, PTL DEF Spec

\* The model keeps to its types: what a file holds, what a job has read and what it
\* has signed are checkpoints, damage, or nothing.
THEOREM TypeCorrect == Spec => []TypeOK
<1>1. IInv => TypeOK
  BY DEF IInv
<1> QED
  BY Invariance, <1>1, PTL

-----------------------------------------------------------------------------
(* The loop of verify_chain *)

\* What the function that Verified chooses has to satisfy, up to record n.
Loop(records, f, n) ==
  f = [i \in 0 .. n |-> IF i = 0 THEN [valid |-> TRUE, prev_hash |-> Genesis]
                                 ELSE verify_checkpoint(f[i - 1], records[i])]

LEMMA VerifiedIs ==
  ASSUME NEW records, NEW g, Loop(records, g, Len(records))
  PROVE  Loop(records, Verified(records), Len(records))
<1>1. Verified(records) = CHOOSE f : Loop(records, f, Len(records))
  BY DEF Verified, Loop
<1> QED
  BY <1>1

\* The loop can be run to the end.
LEMMA LoopRuns ==
  ASSUME NEW records, Len(records) \in Nat
  PROVE  Loop(records, Verified(records), Len(records))
<1> DEFINE N == Len(records)
           G == {n \in 0 .. N : \E f : Loop(records, f, n)}
           start == [i \in 0 .. 0 |-> [valid |-> TRUE, prev_hash |-> Genesis]]
<1> HIDE DEF N
<1>0. N \in Nat
  BY DEF N
<1>1. 0 \in G
  <2>1. Loop(records, start, 0)
    BY DEF Loop
  <2> QED
    BY <1>0, <2>1
<1>2. ASSUME NEW n \in 0 .. N, n < N, n \in G
      PROVE  n + 1 \in G
  <2>1. PICK f : Loop(records, f, n)
    BY <1>2
  <2> DEFINE g == [i \in 0 .. n + 1 |->
                     IF i = n + 1 THEN verify_checkpoint(f[n], records[n + 1]) ELSE f[i]]
  <2>2. \A i \in 0 .. n : g[i] = f[i]
    BY <1>0
  <2>3. \A i \in 0 .. n : f[i] = IF i = 0 THEN [valid |-> TRUE, prev_hash |-> Genesis]
                                          ELSE verify_checkpoint(f[i - 1], records[i])
    BY <2>1 DEF Loop
  <2>4. \A i \in 0 .. n + 1 : i # 0 => i - 1 \in 0 .. n
    BY <1>0
  <2>5. g[n + 1] = verify_checkpoint(g[n], records[n + 1])
    BY <1>0, <2>2
  <2> HIDE DEF g
  <2>6. \A i \in 0 .. n + 1 : g[i] = IF i = 0 THEN [valid |-> TRUE, prev_hash |-> Genesis]
                                              ELSE verify_checkpoint(g[i - 1], records[i])
    <3> TAKE i \in 0 .. n + 1
    <3>1. CASE i = n + 1
      BY <1>0, <2>5, <3>1
    <3>2. CASE i # n + 1
      <4>1. i \in 0 .. n
        BY <1>0, <3>2
      <4> QED
        BY <2>2, <2>3, <2>4, <4>1
    <3> QED
      BY <3>1, <3>2
  <2>7. Loop(records, g, n + 1)
    BY <2>6 DEF Loop, g
  <2>8. n + 1 \in 0 .. N
    BY <1>0, <1>2
  <2> QED
    BY <2>7, <2>8
<1>3. 0 .. N \subseteq G
  BY <1>0, <1>1, <1>2, UpTo
<1>4. N \in G
  BY <1>0, <1>3
<1> QED
  BY <1>4, VerifiedIs DEF N

\* The first n records are signed, each on the one before it.
Chained(records, n) ==
  \A i \in 1 .. n : /\ records[i] \in Signed
                    /\ made[records[i]].prev = IF i = 1 THEN Genesis ELSE records[i - 1]

\* The loop ends without an exception exactly if they all are.
LEMMA LoopFinds ==
  ASSUME NEW records, Len(records) \in Nat
  PROVE  Verified(records)[Len(records)].valid <=> Chained(records, Len(records))
<1> DEFINE N == Len(records)
           f == Verified(records)
           G == {n \in 0 .. N :
                   /\ f[n] = [valid |-> f[n].valid, prev_hash |-> f[n].prev_hash]
                   /\ f[n].valid = Chained(records, n)
                   /\ f[n].valid =>
                        f[n].prev_hash = IF n = 0 THEN Genesis ELSE records[n]}
<1>1. Loop(records, f, N)
  BY LoopRuns
<1> HIDE DEF N, f
<1>2. N \in Nat
  BY DEF N
<1>3. \A i \in 0 .. N : f[i] = IF i = 0 THEN [valid |-> TRUE, prev_hash |-> Genesis]
                                        ELSE verify_checkpoint(f[i - 1], records[i])
  BY <1>1 DEF Loop
<1>4. 0 \in G
  <2>0. 0 \in 0 .. N
    BY <1>2
  <2>1. f[0] = [valid |-> TRUE, prev_hash |-> Genesis]
    BY <1>3, <2>0, Zenon
  <2>2. Chained(records, 0)
    BY DEF Chained
  <2>3. f[0].prev_hash = Genesis /\ f[0].valid = TRUE
    BY <2>1
  <2>4. f[0].valid = Chained(records, 0)
    BY <2>2, <2>3 DEF Chained
  <2> QED
    BY <2>0, <2>1, <2>3, <2>4
<1>5. ASSUME NEW n \in 0 .. N, n < N, n \in G
      PROVE  n + 1 \in G
  <2> DEFINE c == records[n + 1]
             last == IF n = 0 THEN Genesis ELSE records[n]
  <2>1. n + 1 \in 0 .. N /\ n + 1 # 0 /\ (n + 1) - 1 = n
    BY <1>2, <1>5
  <2>2. f[n + 1] = verify_checkpoint(f[n], c)
    BY <1>3, <2>1
  <2>3. Chained(records, n + 1) <=> Chained(records, n) /\ c \in Signed /\ made[c].prev = last
    <3>1. \A i : i \in 1 .. n + 1 <=> i \in 1 .. n \/ i = n + 1
      BY <1>2
    <3>2. (n + 1 = 1 <=> n = 0) /\ (n + 1) - 1 = n
      BY <1>2
    <3> QED
      BY <3>1, <3>2 DEF Chained
  <2>4. Chained(records, n) \in BOOLEAN /\ Chained(records, n + 1) \in BOOLEAN
    BY DEF Chained
  <2>5. CASE Chained(records, n + 1)
    <3>1. f[n + 1] = [f[n] EXCEPT !.prev_hash = c]
      BY <1>5, <2>2, <2>3, <2>5 DEF verify_checkpoint
    <3>2. f[n + 1] = [valid |-> f[n].valid, prev_hash |-> c]
      BY <1>5, <3>1
    <3>3. f[n + 1].valid = TRUE /\ f[n + 1].prev_hash = c
      BY <1>5, <2>3, <2>4, <2>5, <3>2
    <3> QED
      BY <2>1, <2>4, <2>5, <3>2, <3>3
  <2>6. CASE ~Chained(records, n + 1)
    <3>1. ~(f[n].valid /\ c \in Signed /\ made[c].prev = f[n].prev_hash)
      BY <1>5, <2>3, <2>6
    <3>2. f[n + 1] = [f[n] EXCEPT !.valid = FALSE]
      BY <2>2, <3>1 DEF verify_checkpoint
    <3>3. f[n + 1] = [valid |-> FALSE, prev_hash |-> f[n].prev_hash]
      BY <1>5, <3>2
    <3>4. f[n + 1].valid = FALSE
      BY <3>3
    <3> QED
      BY <2>1, <2>4, <2>6, <3>3, <3>4
  <2> QED
    BY <2>5, <2>6
<1>6. 0 .. N \subseteq G
  BY <1>2, <1>4, <1>5, UpTo
<1>7. N \in G
  BY <1>2, <1>6
<1> QED
  BY <1>7 DEF N, f

\* A directory verifies exactly if its records are a chain.
LEMMA ChainVerifies ==
  \A d : IsFiniteSet(Files(d)) =>
           (verify_chain(d) <=> Chained(Records(d), Cardinality(Files(d))))
<1> SUFFICES ASSUME NEW d, IsFiniteSet(Files(d))
             PROVE  verify_chain(d) <=> Chained(Records(d), Cardinality(Files(d)))
  OBVIOUS
<1>1. Len(Records(d)) = Cardinality(Files(d)) /\ Len(Records(d)) \in Nat
  BY RecordsOf
<1> QED
  BY <1>1, LoopFinds DEF verify_chain

LEMMA ChainVerifiesNext ==
  (\A d : IsFiniteSet(Files(d)) =>
            (verify_chain(d) <=> Chained(Records(d), Cardinality(Files(d)))))'
  BY ChainVerifies, PTL

-----------------------------------------------------------------------------
(* Ancestries *)

\* What the function Ancestry has to satisfy, up to payload k.
Descent(f, k) ==
  f = [n \in Altered .. k |-> IF n = Genesis THEN <<>>
                              ELSE IF n \in Signed THEN Append(f[made[n].prev], n)
                              ELSE <<n>>]

\* It is defined: what a payload was built on was signed before it.
LEMMA AncestryIs ==
  ASSUME TypeOK, SignedBefore
  PROVE  \A n \in Contents : Ancestry[n] = IF n = Genesis THEN <<>>
                                           ELSE IF n \in Signed
                                                THEN Append(Ancestry[made[n].prev], n)
                                           ELSE <<n>>
<1> DEFINE N == MaxCheckpoints
           G == {k \in 0 .. N : \E f : Descent(f, k)}
           start == [n \in Altered .. 0 |-> IF n = Genesis THEN <<>> ELSE <<n>>]
<1> HIDE DEF N
<1>0. N \in Nat
  BY CheckpointAssumption DEF N
<1>1. 0 \in G
  <2>1. \A n \in Altered .. 0 : n \notin Signed
    BY Typed DEF Altered
  <2>2. Descent(start, 0)
    BY <2>1 DEF Descent
  <2> QED
    BY <1>0, <2>2
<1>2. ASSUME NEW k \in 0 .. N, k < N, k \in G
      PROVE  k + 1 \in G
  <2>1. PICK f : Descent(f, k)
    BY <1>2
  <2> DEFINE value(h, n) == IF n = Genesis THEN <<>>
                            ELSE IF n \in Signed THEN Append(h[made[n].prev], n)
                            ELSE <<n>>
             g == [n \in Altered .. k + 1 |-> IF n = k + 1 THEN value(f, n) ELSE f[n]]
  <2>2. \A n \in Altered .. k : g[n] = f[n] /\ n # k + 1
    BY <1>0 DEF Altered
  <2>3. \A n \in Altered .. k : f[n] = value(f, n)
    BY <2>1 DEF Descent
  <2>4. g[k + 1] = value(f, k + 1)
    BY <1>0 DEF Altered
  <2>5. g = [n \in Altered .. k + 1 |-> g[n]]
    OBVIOUS
  <2> HIDE DEF g
  <2>6. \A n \in Altered .. k + 1 : n \in Signed => made[n].prev \in Altered .. k
    BY <1>0, Typed DEF SignedBefore, Contents, Altered
  <2>7. \A n \in Altered .. k + 1 : value(f, n) = value(g, n)
    BY <2>2, <2>6
  <2>8. \A n \in Altered .. k + 1 : g[n] = value(g, n)
    <3> TAKE n \in Altered .. k + 1
    <3>1. n = k + 1 \/ n \in Altered .. k
      BY <1>0 DEF Altered
    <3> QED
      BY <2>2, <2>3, <2>4, <2>7, <3>1
  <2>9. Descent(g, k + 1)
    BY <2>5, <2>8 DEF Descent
  <2> QED
    BY <1>0, <1>2, <2>9
<1>3. 0 .. N \subseteq G
  BY <1>0, <1>1, <1>2, UpTo
<1>4. \E f : Descent(f, MaxCheckpoints)
  BY <1>0, <1>3 DEF N
<1>5. Ancestry = CHOOSE f : Descent(f, MaxCheckpoints)
  BY DEF Ancestry, Descent, Contents
<1>6. Descent(Ancestry, MaxCheckpoints)
  BY <1>4, <1>5
<1> QED
  BY <1>6 DEF Descent, Contents

LEMMA SignedContents ==
  ASSUME TypeOK
  PROVE  \A n \in Signed : n \in Contents /\ n # Genesis /\ n >= Genesis
<1>1. Len(made) \in Nat /\ Len(made) <= MaxCheckpoints /\ Signed = 1 .. Len(made)
  BY Typed DEF TypeOK
<1> QED
  BY <1>1, CheckpointAssumption DEF Contents, Altered, Genesis

\* An ancestry ends with the checkpoint whose it is, and is a chain if all of it was
\* signed.
LEMMA AncestryChained ==
  ASSUME TypeOK, SignedBefore, NEW n \in Contents, n >= Genesis
  PROVE  /\ Ancestry[n] \in Seq(Contents)
         /\ Ancestry[n] = <<>> <=> n = Genesis
         /\ Ancestry[n] # <<>> => Last(Ancestry[n]) = n
         /\ (\A i \in 1 .. Len(Ancestry[n]) : Ancestry[n][i] \in Signed)
              => Chained(Ancestry[n], Len(Ancestry[n]))
<1> DEFINE AllSigned(s) == \A i \in 1 .. Len(s) : s[i] \in Signed
           Good(k) == /\ Ancestry[k] \in Seq(Contents)
                      /\ Ancestry[k] = <<>> <=> k = Genesis
                      /\ Ancestry[k] # <<>> => Last(Ancestry[k]) = k
                      /\ AllSigned(Ancestry[k]) => Chained(Ancestry[k], Len(Ancestry[k]))
           Bad == {k \in Contents : k >= Genesis /\ ~Good(k)}
<1> SUFFICES ASSUME Bad # {} PROVE FALSE
  OBVIOUS
<1>1. Bad \subseteq Nat
  BY Typed DEF Genesis
<1>2. PICK k \in Bad : \A m \in Bad : k <= m
  BY <1>1, LeastNat
<1>3. k \in Contents /\ k \in Nat
  BY <1>1
<1>4. CASE k = Genesis
  <2>1. Ancestry[k] = <<>>
    BY <1>3, <1>4, AncestryIs
  <2>2. Good(k)
    BY <1>4, <2>1 DEF Chained
  <2> QED
    BY <2>2
<1>5. CASE k # Genesis /\ k \notin Signed
  <2>1. Ancestry[k] = <<k>>
    BY <1>3, <1>5, AncestryIs
  <2>2. ~AllSigned(<<k>>)
    BY <1>5
  <2>3. Good(k)
    BY <1>3, <1>5, <2>1, <2>2 DEF Last
  <2> QED
    BY <2>3
<1>6. CASE k # Genesis /\ k \in Signed
  <2> DEFINE p == made[k].prev
             s == Ancestry[p]
             t == Ancestry[k]
  <2>1. p \in Contents /\ p < k
    BY <1>6, Typed DEF SignedBefore
  <2>2. t = Append(s, k)
    BY <1>3, <1>6, AncestryIs
  <2>3. p \in Int
    BY <2>1, Typed
  <2>4. s \in Seq(Contents) /\ (p < Genesis => s = <<p>>) /\ (p >= Genesis => Good(p))
    <3>1. CASE p >= Genesis
      <4>1. p \notin Bad
        <5> HIDE DEF Good
        <5> QED
          BY <1>2, <1>3, <2>1, <2>3
      <4>2. Good(p)
        BY <2>1, <3>1, <4>1
      <4> QED
        BY <2>3, <3>1, <4>2 DEF Genesis
    <3>2. CASE p < Genesis
      <4>0. p # Genesis /\ p \notin Signed
        BY <2>3, <3>2, Typed DEF Genesis
      <4>1. s = <<p>>
        BY <2>1, <4>0, AncestryIs
      <4> QED
        BY <2>1, <2>3, <3>2, <4>1 DEF Genesis
    <3> QED
      BY <2>3, <3>1, <3>2 DEF Genesis
  <2> HIDE DEF p, s, t
  <2>5. /\ t \in Seq(Contents) /\ Len(s) \in Nat /\ Len(t) = Len(s) + 1 /\ t[Len(t)] = k
        /\ \A i \in 1 .. Len(s) : t[i] = s[i]
    BY <1>3, <2>2, <2>4
  <2>6. t # <<>> /\ Last(t) = k
    BY <2>5 DEF Last
  <2>7. ASSUME AllSigned(t)
        PROVE  Chained(t, Len(t))
    <3>1. AllSigned(s)
      BY <2>5, <2>7
    <3>2. p >= Genesis
      <4> SUFFICES ASSUME p < Genesis PROVE FALSE
        BY <2>3 DEF Genesis
      <4>1. s = <<p>>
        BY <2>4
      <4>2. p \in Signed
        BY <3>1, <4>1
      <4> QED
        BY <4>2, Typed DEF Genesis
    <3>3. Good(p)
      BY <2>4, <3>2
    <3>4. Chained(s, Len(s))
      BY <3>1, <3>3 DEF s
    <3>5. p = IF Len(s) = 0 THEN Genesis ELSE s[Len(s)]
      <4>1. Len(s) = 0 <=> s = <<>>
        BY <2>4
      <4> QED
        BY <3>3, <4>1 DEF s, Last
    <3>6. \A i \in 1 .. Len(t) :
            /\ t[i] \in Signed
            /\ made[t[i]].prev = IF i = 1 THEN Genesis ELSE t[i - 1]
      <4> TAKE i \in 1 .. Len(t)
      <4>1. CASE i = Len(t)
        <5>1. made[t[i]].prev = p /\ (i = 1 <=> Len(s) = 0) /\ i - 1 = Len(s)
          BY <2>5, <4>1 DEF p
        <5>2. Len(s) # 0 => t[i - 1] = s[Len(s)]
          BY <2>5, <5>1
        <5> QED
          BY <2>7, <3>5, <5>1, <5>2
      <4>2. CASE i # Len(t)
        <5>1. i \in 1 .. Len(s) /\ (i # 1 => i - 1 \in 1 .. Len(s))
          BY <2>5, <4>2
        <5>2. t[i] = s[i] /\ (i # 1 => t[i - 1] = s[i - 1])
          BY <2>5, <5>1
        <5> QED
          BY <3>4, <5>1, <5>2 DEF Chained
      <4> QED
        BY <4>1, <4>2
    <3> QED
      BY <3>6 DEF Chained
  <2>8. Good(k)
    BY <1>6, <2>5, <2>6, <2>7 DEF t
  <2> QED
    BY <2>8
<1> QED
  BY <1>4, <1>5, <1>6

\* A chain is the ancestry of its last record.
LEMMA ChainIsAncestry ==
  ASSUME TypeOK, SignedBefore, NEW N \in Nat \ {0}, NEW S, NEW records \in [1 .. N -> S],
         Chained(records, N)
  PROVE  records = Ancestry[records[N]]
<1> DEFINE G == {k \in 0 .. N : Ancestry[IF k = 0 THEN Genesis ELSE records[k]]
                                  = [i \in 1 .. k |-> records[i]]}
<1>1. 0 \in G
  <2>1. Ancestry[Genesis] = <<>>
    BY AncestryIs, Typed
  <2>2. [i \in 1 .. 0 |-> records[i]] = <<>>
    OBVIOUS
  <2> QED
    BY <2>1, <2>2
<1>2. ASSUME NEW k \in 0 .. N, k < N, k \in G
      PROVE  k + 1 \in G
  <2> DEFINE c == records[k + 1]
             s == [i \in 1 .. k |-> records[i]]
  <2>1. k + 1 \in 1 .. N /\ k + 1 # 0 /\ (k + 1 = 1 <=> k = 0) /\ (k + 1) - 1 = k
    BY <1>2
  <2>2. c \in Signed /\ made[c].prev = IF k = 0 THEN Genesis ELSE records[k]
    BY <2>1 DEF Chained
  <2>3. c \in Contents /\ c # Genesis
    BY <2>2, SignedContents
  <2>4a. Ancestry[made[c].prev] = s
    BY <1>2, <2>2
  <2>4. Ancestry[c] = Append(s, c)
    BY <2>2, <2>3, <2>4a, AncestryIs
  <2>5. \A i \in 1 .. k : records[i] \in Signed
    BY <1>2 DEF Chained
  <2>6. s \in Seq(Signed) /\ Len(s) = k
    BY <2>5
  <2>7. Append(s, c) = [i \in 1 .. k + 1 |-> IF i <= k THEN s[i] ELSE c]
    BY <2>2, <2>6
  <2>8. Append(s, c) = [i \in 1 .. k + 1 |-> records[i]]
    BY <2>7
  <2>9. k + 1 \in 0 .. N /\ (IF k + 1 = 0 THEN Genesis ELSE records[k + 1]) = c
    BY <2>1
  <2> QED
    BY <2>4, <2>8, <2>9, Zenon
<1>3. 0 .. N \subseteq G
  BY <1>1, <1>2, UpTo
<1>4. N \in G /\ N # 0
  BY <1>3
<1> QED
  BY <1>4

\* verify_chain finds whatever was lost, damaged, copied, torn, forked or misordered
\* before the last file, and raises no other alarm: the directories it accepts are
\* those that hold exactly the ancestry of their last checkpoint.
THEOREM VerdictCorrect == Spec => []VerdictExact
<1>1. IInv => VerdictExact
  <2> SUFFICES ASSUME IInv PROVE VerdictExact
    OBVIOUS
  <2> DEFINE records == Records(dir)
             N == Cardinality(Files(dir))
  <2>1. IsFiniteSet(Files(dir)) /\ TypeOK /\ SignedBefore
    BY DEF IInv, Payloads
  <2>2. /\ N \in Nat /\ DOMAIN records = 1 .. N /\ Len(records) = N
        /\ records = [i \in 1 .. N |-> dir[list_checkpoints(dir)[i]]]
        /\ records = <<>> <=> N = 0
    BY <2>1, RecordsOf
  <2>3. verify_chain(dir) <=> Chained(records, N)
    BY <2>1, ChainVerifies
  <2> HIDE DEF records, N
  <2>4. Last(records) = records[N] /\ \E S : records \in [1 .. N -> S]
    <3>1. records \in [1 .. N -> {records[i] : i \in 1 .. N}]
      BY <2>2
    <3> QED
      BY <2>2, <3>1 DEF Last
  <2>5. CASE N = 0
    <3>1. Chained(records, N)
      BY <2>5 DEF Chained
    <3> QED
      BY <2>2, <2>3, <2>5, <3>1 DEF VerdictExact, records
  <2>6. CASE N # 0
    <3>1. ASSUME Chained(records, N)
          PROVE  /\ \A i \in DOMAIN records : records[i] \in Signed
                 /\ records = Ancestry[Last(records)]
      <4>1. records = Ancestry[records[N]]
        BY <2>1, <2>2, <2>4, <2>6, <3>1, ChainIsAncestry
      <4> QED
        BY <2>2, <2>4, <3>1, <4>1 DEF Chained
    <3>2. ASSUME \A i \in DOMAIN records : records[i] \in Signed,
                 records = Ancestry[Last(records)]
          PROVE  Chained(records, N)
      <4>1. Last(records) \in Signed
        BY <2>2, <2>4, <2>6, <3>2
      <4>2. Last(records) \in Contents /\ Last(records) >= Genesis
        BY <2>1, <4>1, SignedContents
      <4> QED
        BY <2>1, <2>2, <3>2, <4>2, AncestryChained
    <3> QED
      BY <2>2, <2>3, <2>6, <3>1, <3>2 DEF VerdictExact, records
  <2> QED
    BY <2>5, <2>6
<1> QED
  BY Invariance, <1>1, PTL

-----------------------------------------------------------------------------
(* Directories nothing went wrong with *)

\* Without a fork each checkpoint was built on the one signed just before it.
LEMMA UnforkedPrev ==
  ASSUME IInv, faults = 0, ~Forked
  PROVE  \A n \in Signed : made[n].prev = n - 1
<1> DEFINE T == {n \in Signed : made[n].prev # n - 1}
<1> SUFFICES ASSUME T # {} PROVE FALSE
  OBVIOUS
<1>0. TypeOK
  BY DEF IInv
<1>1. /\ Signed \subseteq Nat /\ Len(made) \in Nat /\ Signed = 1 .. Len(made)
      /\ \A n \in Signed : made[n].prev \in Int
  BY <1>0, Typed
<1>2. PICK n \in T : \A m \in T : n <= m
  BY <1>1, LeastNat
<1> DEFINE k == made[n].prev
<1>3. n \in Signed /\ k # n - 1 /\ k \in Int /\ k >= 0 /\ k < n
  BY <1>1 DEF IInv, SignedBefore, FaultFree, Genesis
<1> HIDE DEF k
<1>4. k + 1 \in Signed /\ k + 1 < n
  BY <1>1, <1>3
<1>5. k + 1 \notin T
  BY <1>1, <1>2, <1>3, <1>4
<1>6. made[k + 1].prev = k
  BY <1>3, <1>4, <1>5
<1>7. k + 1 = n
  BY <1>3, <1>4, <1>6 DEF Forked, k
<1> QED
  BY <1>3, <1>7

\* An increasing list of numbers that names each from 1 to M is the list of them.
Increasing(r, N) == \A i, j \in 1 .. N : i < j => r[i] < r[j]

LEMMA CountsUp ==
  ASSUME NEW N \in Nat, NEW M \in Nat, NEW r \in [1 .. N -> 1 .. M], Increasing(r, N),
         \A m \in 1 .. M : \E i \in 1 .. N : r[i] = m
  PROVE  N = M /\ \A i \in 1 .. N : r[i] = i
<1> USE DEF Increasing
<1>1. \A i \in 1 .. N : r[i] = i
  <2> DEFINE T == {i \in 1 .. N : r[i] # i}
  <2> SUFFICES ASSUME T # {} PROVE FALSE
    OBVIOUS
  <2>0. T \subseteq Nat
    OBVIOUS
  <2>1. PICK i \in T : \A j \in T : i <= j
    BY <2>0, LeastNat
  <2>2. i \in 1 .. N /\ r[i] \in 1 .. M /\ r[i] # i
    OBVIOUS
  <2>3. r[i] >= i
    <3>1. CASE i = 1
      BY <2>2, <3>1
    <3>2. CASE i # 1
      <4>1. i - 1 \in 1 .. N /\ i - 1 \notin T
        BY <2>1, <2>2, <3>2
      <4>2. r[i - 1] = i - 1 /\ r[i - 1] < r[i]
        BY <2>2, <4>1
      <4> QED
        BY <2>2, <4>2
    <3> QED
      BY <3>1, <3>2
  <2>4. PICK j \in 1 .. N : r[j] = i
    <3>1. i \in 1 .. M
      BY <2>2, <2>3
    <3> QED
      BY <3>1
  <2>5. CASE j < i
    <3>1. j \notin T
      BY <2>1, <2>2, <2>5
    <3> QED
      BY <2>4, <2>5, <3>1
  <2>6. CASE j > i
    BY <2>2, <2>3, <2>4, <2>6
  <2> QED
    BY <2>2, <2>4, <2>5, <2>6
<1>2. M <= N
  <2>1. CASE M = 0
    BY <2>1
  <2>2. CASE M # 0
    <3>1. PICK i \in 1 .. N : r[i] = M
      BY <2>2
    <3> QED
      BY <1>1, <3>1
  <2> QED
    BY <2>1, <2>2
<1>3. N <= M
  <2>1. CASE N = 0
    BY <2>1
  <2>2. CASE N # 0
    BY <1>1, <2>2
  <2> QED
    BY <2>1, <2>2
<1> QED
  BY <1>1, <1>2, <1>3

\* When nothing failed, no two jobs built on one checkpoint and none ran in one
\* second, the directory of idle jobs verifies and holds every checkpoint signed.
THEOREM CleanVerifies == Spec => []CleanDirectoryVerifies
<1>1. IInv => CleanDirectoryVerifies
  <2> SUFFICES ASSUME IInv, faults = 0, ~SameSecond, ~Forked, \A w \in Writers : pc[w] = "idle"
               PROVE  verify_chain(dir) /\ Records(dir) = [n \in Signed |-> n]
    BY DEF CleanDirectoryVerifies
  <2> DEFINE N == Cardinality(Files(dir))
             M == Len(made)
             listed == list_checkpoints(dir)
             r == Records(dir)
  <2>0. TypeOK /\ IsFiniteSet(Files(dir))
    BY DEF IInv, Payloads
  <2>1. /\ N \in Nat /\ listed \in [1 .. N -> Files(dir)]
        /\ \A i, j \in 1 .. N : i < j => Before(listed[i], listed[j])
        /\ \A a \in Files(dir) : \E i \in 1 .. N : listed[i] = a
    BY <2>0, Listing
  <2>2. r = [i \in 1 .. N |-> dir[listed[i]]] /\ DOMAIN r = 1 .. N
    BY <2>0, RecordsOf
  <2>3. verify_chain(dir) <=> Chained(r, N)
    BY <2>0, ChainVerifies
  <2>4. M \in Nat /\ Signed = 1 .. M /\ \A n \in Signed : made[n].name \in Names
    BY <2>0, Typed
  <2>5. \A a \in Files(dir) : dir[a] \in Signed /\ made[dir[a]].name = a
    BY DEF IInv, FaultFree
  <2>6. \A n \in Signed : dir[made[n].name] = n /\ made[n].name \in Files(dir)
    <3> TAKE n \in Signed
    <3>1. \A w \in Writers : ~Storing(w)
      BY DEF Storing
    <3>2. dir[made[n].name] = n
      BY <3>1 DEF IInv, FaultFree
    <3>3. n # Absent
      BY <2>4 DEF Absent
    <3> QED
      BY <2>4, <3>2, <3>3 DEF Files
  <2> HIDE DEF N, M, listed, r
  <2>7. r \in [1 .. N -> 1 .. M]
    BY <2>1, <2>2, <2>4, <2>5
  <2>8. \A i, j \in 1 .. N : i < j => r[i] < r[j]
    <3> SUFFICES ASSUME NEW i \in 1 .. N, NEW j \in 1 .. N, i < j, ~(r[i] < r[j])
                 PROVE  FALSE
      OBVIOUS
    <3>1. /\ Before(listed[i], listed[j]) /\ listed[i] \in Files(dir) /\ listed[j] \in Files(dir)
          /\ listed[i] \in Names /\ listed[j] \in Names
      BY <2>1 DEF Files
    <3>2. /\ r[i] \in Signed /\ made[r[i]].name = listed[i]
          /\ r[j] \in Signed /\ made[r[j]].name = listed[j]
      BY <2>2, <2>5, <3>1
    <3>3. r[i] # r[j]
      BY <3>1, <3>2, NamesOrdered
    <3>4. r[j] < r[i]
      BY <2>4, <3>2, <3>3
    <3>5. made[r[j]].name[1] <= made[r[i]].name[1] /\ made[r[j]].name[1] # made[r[i]].name[1]
      BY <3>2, <3>3, <3>4 DEF IInv, SignedInTime, SameSecond
    <3>6. listed[i][1] \in Nat /\ listed[j][1] \in Nat
      BY <3>1, NamesOrdered
    <3> QED
      BY <3>1, <3>2, <3>5, <3>6 DEF Before
  <2>9. \A m \in 1 .. M : \E i \in 1 .. N : r[i] = m
    BY <2>1, <2>2, <2>4, <2>6
  <2>10. N = M /\ \A i \in 1 .. N : r[i] = i
    <3>1. N \in Nat /\ M \in Nat
      BY <2>1, <2>4
    <3>2. Increasing(r, N)
      BY <2>8 DEF Increasing
    <3> QED
      BY <2>7, <2>9, <3>1, <3>2, CountsUp
  <2>11. r = [n \in Signed |-> n]
    BY <2>2, <2>4, <2>10
  <2>12. Chained(r, N)
    <3> SUFFICES ASSUME NEW i \in 1 .. N
                 PROVE  /\ r[i] \in Signed
                        /\ made[r[i]].prev = IF i = 1 THEN Genesis ELSE r[i - 1]
      BY DEF Chained
    <3>1. r[i] = i /\ i \in Signed /\ made[i].prev = i - 1
      BY <2>4, <2>10, UnforkedPrev
    <3>2. i # 1 => r[i - 1] = i - 1
      BY <2>1, <2>10
    <3> QED
      BY <3>1, <3>2 DEF Genesis
  <2> QED
    BY <2>3, <2>11, <2>12 DEF r
<1> QED
  BY Invariance, <1>1, PTL

-----------------------------------------------------------------------------
(* What the age in the latest file says *)

\* What is stored has its timestamp, and so has what it was built on.
LEMMA StampOfStored ==
  ASSUME IInv, faults = 0
  PROVE  /\ \A a \in Files(dir) : dir[a] \in Signed =>
              made[dir[a]].name = a /\ a[1] <= SecondOf[taken[dir[a]]]
         /\ \A n \in Signed : \/ (\E a \in Names : dir[a] = n)
                              \/ (\E m \in Signed : made[m].prev = n)
              => (made[n].prev \in Signed => taken[made[n].prev] <= taken[n])
<1>1. \A n \in Signed : (\E a \in Names : dir[a] = n) \/ (\E m \in Signed : made[m].prev = n)
        => ~\E w \in Writers : pc[w] = "stamp" /\ number[w] = n
  BY DEF IInv, NotYetStored, Storing
<1>2. \A a \in Files(dir) : dir[a] \in Signed => made[dir[a]].name = a /\ a \in Names
  BY Typed DEF IInv, FaultFree, Torn, Files
<1> QED
  BY <1>1, <1>2 DEF IInv, StampedInTime

\* Without a fork the timestamps are in the order of signing.
LEMMA StampsInOrder ==
  ASSUME IInv, faults = 0, ~Forked, NEW a \in Names, dir[a] \in Signed,
         NEW m \in Signed, m <= dir[a]
  PROVE  taken[m] <= taken[dir[a]]
<1> DEFINE n == dir[a]
           G == {j \in Nat : m + j <= n => taken[m] <= taken[m + j]}
<1>1. /\ m \in Nat /\ n \in Nat /\ n - m \in Nat /\ Signed = 1 .. Len(made) /\ Len(made) \in Nat
      /\ \A k \in Signed : taken[k] \in Nat
  BY Typed DEF IInv
<1>2. 0 \in G
  BY <1>1
<1>3. ASSUME NEW j \in 0 .. n - m, j < n - m, j \in G
      PROVE  j + 1 \in G
  <2> DEFINE k == m + j + 1
  <2>1. k \in Signed /\ k - 1 \in Signed /\ k <= n /\ made[k].prev = k - 1
    BY <1>1, <1>3, UnforkedPrev
  <2>2. k = n \/ (k + 1 \in Signed /\ made[k + 1].prev = k)
    <3>1. k # n => k + 1 \in Signed
      BY <1>1, <2>1
    <3>2. k + 1 \in Signed => made[k + 1].prev = k
      BY <1>1, UnforkedPrev
    <3> QED
      BY <3>1, <3>2
  <2>3. taken[k - 1] <= taken[k]
    BY <2>1, <2>2, StampOfStored
  <2>4. taken[m] <= taken[k - 1] /\ m + (j + 1) = k
    BY <1>1, <1>3
  <2>5. taken[m] <= taken[k]
    BY <1>1, <2>1, <2>3, <2>4
  <2> QED
    BY <1>1, <2>4, <2>5
<1> HIDE DEF G
<1>4. 0 .. n - m \subseteq G
  BY <1>1, <1>2, <1>3, UpTo
<1>5. n - m \in G
  BY <1>1, <1>4
<1> QED
  BY <1>1, <1>5 DEF G

\* check_missed_checkpoint opens one file, the last by its name.  While nothing failed
\* no file is named after a later second than the one it opens, whose timestamp was
\* taken in that second or later.  Where two were in one second, or a job was held up
\* while another built on the same file, the youngest timestamp may be another's;
\* where none were, it is that of the file it opens.
THEOREM MissedIsExact == Spec => []MissedMeansNoneRecent
<1>1. IInv => MissedMeansNoneRecent
  <2> SUFFICES ASSUME IInv, faults = 0, LatestFile(dir) # Torn
               PROVE  /\ check_missed_checkpoint(dir) =>
                           \A name \in Names : dir[name] # Absent =>
                             \E t \in Times : name[1] <= SecondOf[t] /\ now - t > MaxAge
                      /\ ~SameSecond /\ ~Forked =>
                           (check_missed_checkpoint(dir) <=>
                              \A name \in Names : dir[name] \in Signed
                                => now - taken[dir[name]] > MaxAge)
    BY DEF MissedMeansNoneRecent
  <2>0. IsFiniteSet(Files(dir))
    BY DEF IInv, Payloads
  <2>1. CASE Files(dir) = {} /\ LatestFile(dir) = Absent
    <3>1. \A name \in Names : dir[name] = Absent
      BY <2>1 DEF Files
    <3>2. Absent \notin Signed
      BY Typed DEF IInv, Absent
    <3> QED
      BY <2>1, <3>1, <3>2 DEF check_missed_checkpoint
  <2>2. CASE \E a \in Files(dir) : /\ LatestFile(dir) = dir[a]
                                   /\ \A b \in Files(dir) : b = a \/ Before(b, a)
    <3>1. PICK a \in Files(dir) : /\ LatestFile(dir) = dir[a]
                                  /\ \A b \in Files(dir) : b = a \/ Before(b, a)
      BY <2>2
    <3>2. dir[a] \in Signed /\ made[dir[a]].name = a /\ a \in Names /\ dir[a] # Absent
      BY <3>1 DEF IInv, FaultFree, Files
    <3> DEFINE n == dir[a]
    <3>3. check_missed_checkpoint(dir) <=> now - taken[n] > MaxAge
      BY <3>1, <3>2 DEF check_missed_checkpoint
    <3>4. \A b \in Names : dir[b] # Absent => b[1] \in Nat /\ a[1] \in Nat /\ b[1] <= a[1]
      BY <3>1, <3>2, NamesOrdered DEF Before, Files
    <3>5. /\ a[1] <= SecondOf[taken[n]] /\ SecondOf[taken[n]] \in Nat
          /\ taken[n] \in Times /\ taken[n] \in Nat /\ now \in Nat /\ MaxAge \in Nat
      BY <3>1, <3>2, StampOfStored, Typed, CheckpointAssumption DEF IInv
    <3>6. \A b \in Names : dir[b] # Absent => b[1] <= SecondOf[taken[n]]
      BY <3>4, <3>5
    <3>7. ASSUME ~SameSecond, ~Forked, NEW b \in Names, dir[b] \in Signed
          PROVE  taken[dir[b]] <= taken[n] /\ taken[dir[b]] \in Nat
      <4>1. dir[b] \in Nat /\ n \in Nat /\ dir[b] # Absent /\ taken[dir[b]] \in Nat
        BY <3>2, <3>7, Typed DEF IInv, Absent
      <4>2. made[dir[b]].name = b
        BY <3>7, <4>1, StampOfStored DEF Files
      <4>3. dir[b] <= n
        <5> SUFFICES ASSUME n < dir[b] PROVE FALSE
          BY <4>1
        <5>1. a[1] <= b[1]
          BY <3>2, <3>7, <4>2 DEF IInv, SignedInTime
        <5>2. a[1] = b[1] /\ n # dir[b]
          BY <3>4, <3>7, <4>1, <5>1
        <5> QED
          BY <3>2, <3>7, <4>2, <5>2 DEF SameSecond
      <4> QED
        BY <3>2, <3>7, <4>1, <4>3, StampsInOrder
    <3> HIDE DEF n
    <3>8. check_missed_checkpoint(dir) =>
            \A name \in Names : dir[name] # Absent =>
              \E t \in Times : name[1] <= SecondOf[t] /\ now - t > MaxAge
      BY <3>3, <3>5, <3>6
    <3>9. ~SameSecond /\ ~Forked =>
            (check_missed_checkpoint(dir) <=>
               \A name \in Names : dir[name] \in Signed => now - taken[dir[name]] > MaxAge)
      BY <3>2, <3>3, <3>5, <3>7 DEF n
    <3> QED
      BY <3>8, <3>9
  <2> QED
    BY <2>0, <2>1, <2>2, Latest
<1> QED
  BY Invariance, <1>1, PTL

-----------------------------------------------------------------------------
(* What a job can do to a broken chain *)

\* Putting a checkpoint no other stands on among the files leaves a chain only if
\* it comes last, and then there was one before.
LEMMA StoringKeepsBroken ==
  ASSUME NEW d, IsFiniteSet(Files(d)), NEW name \in Names, d[name] = Absent,
         NEW c, c # Absent, \A n \in Signed : made[n].prev # c,
         NEW e, \A n \in Names : e[n] = IF n = name THEN c ELSE d[n],
         Chained(Records(e), Cardinality(Files(e)))
  PROVE  Chained(Records(d), Cardinality(Files(d)))
<1> DEFINE N == Cardinality(Files(e))
           L == list_checkpoints(e)
           R == Records(e)
<1>1. Files(e) = Files(d) \cup {name} /\ name \notin Files(d) /\ Files(e) \subseteq Names
  BY DEF Files
<1>2. IsFiniteSet(Files(e))
  BY <1>1, FS_AddElement
<1>3. Cardinality(Files(d)) \in Nat /\ N = Cardinality(Files(d)) + 1
  BY <1>1, FS_AddElement, FS_CardinalityType
<1>4. /\ L \in [1 .. N -> Files(e)]
      /\ \A i, j \in 1 .. N : i < j => Before(L[i], L[j])
      /\ \A a \in Files(e) : \E i \in 1 .. N : L[i] = a
      /\ \A a \in Files(e), i \in 1 .. N :
           L[i] = a <=> Cardinality(Ahead(Files(e), a)) = i - 1
  BY <1>2, Listing
<1>5. R = [i \in 1 .. N |-> e[L[i]]]
  BY <1>2, RecordsOf
<1>6. Chained(R, N)
  OBVIOUS
<1>6a. \A a \in Files(d), i \in 1 .. N - 1 :
         list_checkpoints(d)[i] = a <=> Cardinality(Ahead(Files(d), a)) = i - 1
  BY <1>3, Listing
<1>6b. Records(d) = [i \in 1 .. N - 1 |-> d[list_checkpoints(d)[i]]]
  BY <1>3, RecordsOf
<1> HIDE DEF N, L, R
<1>7. PICK k \in 1 .. N : L[k] = name
  BY <1>1, <1>4
<1>8. k = N
  <2> SUFFICES ASSUME k # N PROVE FALSE
    OBVIOUS
  <2>1. k + 1 \in 1 .. N /\ k + 1 # 1 /\ (k + 1) - 1 = k
    BY <1>3, <1>7
  <2>2. R[k] = c
    BY <1>5, <1>7
  <2>3. R[k + 1] \in Signed /\ made[R[k + 1]].prev = R[k]
    BY <1>6, <2>1 DEF Chained
  <2> QED
    BY <2>2, <2>3
<1>9. \A i \in 1 .. N - 1 : Records(d)[i] = R[i]
  <2> TAKE i \in 1 .. N - 1
  <2>1. i \in 1 .. N /\ N \in 1 .. N /\ i < N
    BY <1>3
  <2>2. Before(L[i], name) /\ L[i] \in Files(e)
    BY <1>4, <1>7, <1>8, <2>1
  <2>3. L[i] # name /\ ~Before(name, L[i]) /\ L[i] \in Names
    BY <1>1, <2>2, NamesOrdered
  <2>4. L[i] \in Files(d)
    BY <1>1, <2>2, <2>3
  <2>5. Ahead(Files(d), L[i]) = Ahead(Files(e), L[i])
    BY <1>1, <2>3 DEF Ahead
  <2>6. list_checkpoints(d)[i] = L[i]
    BY <1>4, <1>6a, <2>1, <2>2, <2>4, <2>5
  <2>7. e[L[i]] = d[L[i]]
    BY <2>3
  <2> QED
    BY <1>5, <1>6b, <2>1, <2>6, <2>7
<1>10. Chained(Records(d), N - 1)
  <2> SUFFICES ASSUME NEW i \in 1 .. N - 1
               PROVE  /\ Records(d)[i] \in Signed
                      /\ made[Records(d)[i]].prev
                           = IF i = 1 THEN Genesis ELSE Records(d)[i - 1]
    BY DEF Chained
  <2>1. i \in 1 .. N /\ (i # 1 => i - 1 \in 1 .. N - 1)
    BY <1>3
  <2>2. /\ R[i] \in Signed
        /\ made[R[i]].prev = IF i = 1 THEN Genesis ELSE R[i - 1]
    BY <1>6, <2>1 DEF Chained
  <2> QED
    BY <1>9, <2>1, <2>2
<1> QED
  BY <1>3, <1>10

\* The settled files are among those that are there.
LEMMA SettledIs ==
  ASSUME IInv
  PROVE  /\ \A n \in Names : Settled[n] = dir[n] \/ Settled[n] = Absent
         /\ Settled \in [Names -> Contents \cup {Absent}]
         /\ IsFiniteSet(Files(Settled))
<1>1. \A n \in Names : Settled[n] = dir[n] \/ Settled[n] = Absent
  BY DEF Settled
<1>2. Settled \in [Names -> Contents \cup {Absent}]
  BY DEF Settled, IInv, TypeOK
<1>3. Files(Settled) \subseteq Files(dir)
  BY <1>1 DEF Files
<1>4. IsFiniteSet(Files(Settled))
  BY <1>3, FS_Subset DEF IInv, Payloads
<1> QED
  BY <1>1, <1>2, <1>4

\* A step that leaves the settled files alone, and of the payloads at most signs
\* another, leaves the verdict of a chain as it was, or makes it worse.
LEMMA SettledFrame ==
  ASSUME IInv, Settled' = Settled, \A n \in Signed : made'[n] = made[n],
         \A n \in Signed' : n \in Signed \/ n > Len(made),
         verify_chain(Settled)'
  PROVE  verify_chain(Settled)
<1> DEFINE N == Cardinality(Files(Settled))
           R == Records(Settled)
<1>1. IsFiniteSet(Files(Settled))
  BY SettledIs
<1>2. Chained(R, N)'
  <2>1. IsFiniteSet(Files(Settled))'
    BY <1>1 DEF Files
  <2>2. (\A d : IsFiniteSet(Files(d)) =>
            (verify_chain(d) <=> Chained(Records(d), Cardinality(Files(d)))))'
    BY ChainVerifiesNext
  <2> QED
    BY <2>1, <2>2
<1>3. N' = N /\ R' = R
  BY DEF Records, list_checkpoints, Files
<1>4. N \in Nat /\ R = [i \in 1 .. N |-> Settled[list_checkpoints(Settled)[i]]]
  BY <1>1, RecordsOf
<1>5. list_checkpoints(Settled) \in [1 .. N -> Files(Settled)]
  BY <1>1, Listing
<1>6. \A i \in 1 .. N : R[i] \in Int /\ R[i] <= Len(made)
  <2> TAKE i \in 1 .. N
  <2>1. list_checkpoints(Settled)[i] \in Files(Settled)
    BY <1>5
  <2>2. \A n \in Files(Settled) : Settled[n] = dir[n] /\ n \in Names
    BY SettledIs DEF Files
  <2>3. \A n \in Names : dir[n] \in Int /\ dir[n] <= Len(made)
    BY Typed DEF IInv, SignedBefore
  <2> HIDE DEF R, N
  <2> QED
    BY <1>4, <2>1, <2>2, <2>3
<1>7. Len(made) \in Nat
  BY Typed DEF IInv
<1> HIDE DEF R, N
<1>8. Chained(R, N)
  <2> SUFFICES ASSUME NEW i \in 1 .. N
               PROVE  /\ R[i] \in Signed
                      /\ made[R[i]].prev = IF i = 1 THEN Genesis ELSE R[i - 1]
    BY DEF Chained
  <2>1. /\ R[i] \in Signed'
        /\ made'[R[i]].prev = IF i = 1 THEN Genesis ELSE R[i - 1]
    BY <1>2, <1>3 DEF Chained
  <2>2. R[i] \in Signed
    BY <1>6, <1>7, <2>1
  <2> QED
    BY <2>1, <2>2
<1> QED
  BY <1>1, <1>8, ChainVerifies DEF R, N

\* Signing a payload and opening its file leave the settled files as they are.
LEMMA SettledBuild ==
  ASSUME IInv, NEW w \in Writers, Build(w)
  PROVE  /\ Settled' = Settled /\ \A n \in Signed : made'[n] = made[n]
         /\ \A n \in Signed' : n \in Signed \/ n > Len(made)
<1>1. /\ pc[w] = "build" /\ number' = [number EXCEPT ![w] = Len(made) + 1]
      /\ pc' = [pc EXCEPT ![w] = "stamp"] /\ dir' = dir
  BY DEF Build, Goto
<1>2. PICK tag \in Tags : made' = Append(made, [name |-> <<SecondOf[now], tag>>, prev |-> prev[w]])
  BY DEF Build
<1> DEFINE payload == [name |-> <<SecondOf[now], tag>>, prev |-> prev[w]]
           Payload == [name : Names, prev : Contents]
<1>3. payload \in Payload /\ made \in Seq(Payload) /\ made' = Append(made, payload)
  BY <1>2 DEF Names, IInv, TypeOK
<1> HIDE DEF payload, Payload
<1>4. /\ Len(made) \in Nat /\ Len(made') = Len(made) + 1
      /\ \A n \in Signed : made'[n] = made[n]
  BY <1>3 DEF Signed
<1>5. \A n \in Signed' : n \in Signed \/ n > Len(made)
  BY <1>4 DEF Signed
<1>6. \A u \in Writers : (pc'[u] = "write" <=> pc[u] = "write")
                         /\ (pc[u] = "write" => number'[u] = number[u])
  BY <1>1 DEF IInv, TypeOK
<1>7. \A u \in Writers : pc[u] = "write" => number[u] \in Signed
  BY DEF IInv, Payloads, Storing
<1>8. \A n \in Names : (\E u \in Writers : pc'[u] = "write" /\ made'[number'[u]].name = n)
                         <=> (\E u \in Writers : pc[u] = "write" /\ made[number[u]].name = n)
  BY <1>4, <1>6, <1>7
<1>9. Settled' = Settled
  BY <1>1, <1>8 DEF Settled
<1> QED
  BY <1>4, <1>5, <1>9

LEMMA SettledOpen ==
  ASSUME IInv, NEW w \in Writers, Open(w)
  PROVE  Settled' = Settled /\ made' = made
<1> DEFINE name == made[number[w]].name
<1>1. /\ pc[w] = "open" /\ dir' = [dir EXCEPT ![name] = Torn]
      /\ pc' = [pc EXCEPT ![w] = "write"] /\ made' = made /\ number' = number
  BY DEF Open, Goto
<1>2. Storing(w) /\ number[w] \in Signed /\ dir[name] = Absent
  BY <1>1 DEF Storing, IInv, Payloads, NotYetStored
<1> HIDE DEF name
<1>3. pc'[w] = "write" /\ \A u \in Writers : u # w => pc'[u] = pc[u]
  BY <1>1 DEF IInv, TypeOK
<1>4. \A n \in Names : n # name => dir'[n] = dir[n]
  BY <1>1 DEF IInv, TypeOK
<1> DEFINE Old(n) == \E u \in Writers : pc[u] = "write" /\ made[number[u]].name = n
           New(n) == \E u \in Writers : pc'[u] = "write" /\ made'[number'[u]].name = n
<1>5. New(name)
  BY <1>1, <1>3 DEF name
<1>6. \A n \in Names : n # name => (New(n) <=> Old(n))
  BY <1>1, <1>3 DEF name
<1>7. \A n \in Names : (IF New(n) THEN Absent ELSE dir'[n]) = IF Old(n) THEN Absent ELSE dir[n]
  <2> TAKE n \in Names
  <2> HIDE DEF New, Old
  <2>1. CASE n = name
    BY <1>2, <1>5, <2>1
  <2>2. CASE n # name
    BY <1>4, <1>6, <2>2
  <2> QED
    BY <2>1, <2>2
<1>8. Settled' = Settled
  BY <1>7 DEF Settled
<1> QED
  BY <1>1, <1>8

\* Closing a file adds it to the settled ones.
LEMMA SettledWrite ==
  ASSUME IInv, NEW w \in Writers, Write(w)
  PROVE  /\ made' = made /\ Signed' = Signed
         /\ number[w] \in Signed /\ made[number[w]].name \in Names
         /\ Settled[made[number[w]].name] = Absent
         /\ \A n \in Names : Settled'[n] = IF n = made[number[w]].name THEN number[w]
                                           ELSE Settled[n]
<1> DEFINE name == made[number[w]].name
<1>0. TypeOK
  BY DEF IInv
<1>1. pc[w] = "write" /\ dir' = [dir EXCEPT ![name] = number[w]] /\ End(w)
  BY DEF Write
<1>2. Storing(w) /\ number[w] \in Signed /\ name \in Names
  BY <1>0, <1>1, Typed DEF Storing, IInv, Payloads
<1>3. \A u \in Writers : pc[u] = "write" /\ made[number[u]].name = name => u = w
  BY <1>2 DEF IInv, Payloads, Storing
<1>4. /\ pc'[w] # "write" /\ made' = made /\ Signed' = Signed
      /\ \A u \in Writers : u # w => pc'[u] = pc[u] /\ number'[u] = number[u]
  <2>1. pc'[w] = "idle"
    BY <1>1 DEF End, Goto, IInv, TypeOK
  <2> QED
    BY <1>0, <1>1, <2>1, EndFrame
<1>5. dir'[name] = number[w] /\ \A n \in Names : n # name => dir'[n] = dir[n]
  BY <1>0, <1>1, <1>2 DEF TypeOK
<1> DEFINE Old(n) == \E u \in Writers : pc[u] = "write" /\ made[number[u]].name = n
           New(n) == \E u \in Writers : pc'[u] = "write" /\ made'[number'[u]].name = n
<1>6. Old(name)
  BY <1>1
<1> HIDE DEF name
<1>7. ~New(name)
  <2> SUFFICES ASSUME NEW u \in Writers, pc'[u] = "write", made'[number'[u]].name = name
               PROVE  FALSE
    OBVIOUS
  <2> QED
    BY <1>3, <1>4
<1>8. \A n \in Names : n # name => (New(n) <=> Old(n))
  BY <1>1, <1>4 DEF name
<1>9. \A n \in Names : Settled[n] = IF Old(n) THEN Absent ELSE dir[n]
  BY DEF Settled
<1>10. \A n \in Names : Settled'[n] = IF New(n) THEN Absent ELSE dir'[n]
  BY DEF Settled
<1> HIDE DEF Old, New
<1>11. \A n \in Names : Settled'[n] = IF n = name THEN number[w] ELSE Settled[n]
  <2> TAKE n \in Names
  <2>1. CASE n = name
    BY <1>5, <1>7, <1>10, <2>1
  <2>2. CASE n # name
    BY <1>5, <1>8, <1>9, <1>10, <2>2
  <2> QED
    BY <2>1, <2>2
<1>12. Settled[name] = Absent
  BY <1>2, <1>6, <1>9
<1> QED
  BY <1>2, <1>4, <1>11, <1>12 DEF name

\* An alarm lasts: no job makes a chain verify that did not, neither by storing a
\* later checkpoint nor by closing late a file with an earlier name.
THEOREM AlarmsLast == Spec => AlarmLasts
<1>1. IInv /\ [Next]_vars =>
        [~verify_chain(Settled) /\ faults' = faults => ~verify_chain(Settled)']_vars
  <2> SUFFICES ASSUME IInv, Next, faults' = faults, verify_chain(Settled)'
               PROVE  verify_chain(Settled)
    OBVIOUS
  <2>0. faults' # faults + 1
    BY Typed DEF IInv
  <2>1. ASSUME Settled' = Settled, made' = made
        PROVE  verify_chain(Settled)
    BY <2>1, SettledFrame DEF Signed
  <2>2. ASSUME NEW w \in Writers, ReadLatest(w)
        PROVE  verify_chain(Settled)
    <3>1. /\ pc[w] = "idle" /\ pc' = [pc EXCEPT ![w] = "build"]
          /\ made' = made /\ dir' = dir /\ number' = number
      BY <2>2 DEF ReadLatest, Goto
    <3>2. \A u \in Writers : pc'[u] = "write" <=> pc[u] = "write"
      BY <3>1 DEF IInv, TypeOK
    <3>3. Settled' = Settled
      BY <3>1, <3>2 DEF Settled
    <3> QED
      BY <2>1, <3>1, <3>3
  <2>3. ASSUME NEW w \in Writers, Build(w)
        PROVE  verify_chain(Settled)
    BY <2>3, SettledBuild, SettledFrame
  <2>3a. ASSUME NEW w \in Writers, Stamp(w)
         PROVE  verify_chain(Settled)
    <3>1. /\ pc[w] = "stamp" /\ pc' = [pc EXCEPT ![w] = "open"]
          /\ made' = made /\ dir' = dir /\ number' = number
      BY <2>3a DEF Stamp, Goto
    <3>2. \A u \in Writers : pc'[u] = "write" <=> pc[u] = "write"
      BY <3>1 DEF IInv, TypeOK
    <3>3. Settled' = Settled
      BY <3>1, <3>2 DEF Settled
    <3> QED
      BY <2>1, <3>1, <3>3
  <2>4. ASSUME NEW w \in Writers, Open(w)
        PROVE  verify_chain(Settled)
    BY <2>1, <2>4, SettledOpen
  <2>5. ASSUME NEW w \in Writers, Write(w)
        PROVE  verify_chain(Settled)
    <3> DEFINE name == made[number[w]].name
               c == number[w]
               after == Settled'
    <3>1. /\ made' = made /\ Signed' = Signed /\ c \in Signed
          /\ name \in Names /\ Settled[name] = Absent
          /\ \A n \in Names : after[n] = IF n = name THEN c ELSE Settled[n]
      BY <2>5, SettledWrite
    <3>2. IsFiniteSet(Files(Settled))
      BY SettledIs
    <3>3. c # Absent /\ \A n \in Signed : made[n].prev # c
      <4>1. Storing(w)
        BY <2>5 DEF Write, Storing
      <4> QED
        BY <3>1, <4>1, Typed DEF IInv, NotYetStored, Absent
    <3>4. IsFiniteSet(Files(after))
      <4>1. Files(after) \subseteq Files(Settled) \cup {name}
        BY <3>1 DEF Files
      <4>2. IsFiniteSet(Files(Settled) \cup {name})
        BY <3>2, FS_AddElement
      <4> QED
        BY <4>1, <4>2, FS_Subset
    <3>5. Chained(Records(after), Cardinality(Files(after)))
      <4>1. (\A d : IsFiniteSet(Files(d)) =>
               (verify_chain(d) <=> Chained(Records(d), Cardinality(Files(d)))))'
        BY ChainVerifiesNext
      <4>2. Chained(Records(Settled), Cardinality(Files(Settled)))'
        BY <3>4, <4>1 DEF Files
      <4> QED
        BY <3>1, <4>2 DEF Chained, Records, list_checkpoints, Files
    <3> HIDE DEF name, c, after
    <3>6. Chained(Records(Settled), Cardinality(Files(Settled)))
      BY <3>1, <3>2, <3>3, <3>5, StoringKeepsBroken
    <3> QED
      BY <3>2, <3>6, ChainVerifies
  <2>6. ASSUME NEW w \in Writers, Crash(w)
        PROVE  verify_chain(Settled)
    BY <2>0, <2>6 DEF Crash
  <2>7. CASE StorageFault
    BY <2>0, <2>7 DEF StorageFault
  <2>8. CASE Tick
    BY <2>1, <2>8 DEF Tick, Settled
  <2> QED
    BY <2>2, <2>3, <2>3a, <2>4, <2>5, <2>6, <2>7, <2>8 DEF Next
<1> QED
  BY Invariance, <1>1, PTL DEF Spec, AlarmLasts
=============================================================================
