-------------------------- MODULE ReconcileProofs --------------------------
(***************************************************************************)
(* What ReconcileEmissionLog computes, for any log and any set of          *)
(* received credentials: the three views are their references.             *)
(***************************************************************************)
EXTENDS MCReconcile, FiniteSetTheorems, TLAPS

-----------------------------------------------------------------------------
(***************************************************************************)
(* Ascending.  A finite set of numbers has one ascending enumeration: an   *)
(* element's place is the number of those that do not exceed it.           *)
(***************************************************************************)
\* A set of numbers that is not empty has a least one.
LEMMA LeastOf ==
  ASSUME NEW T, T \subseteq Nat, T # {}
  PROVE  \E m \in T : \A n \in T : m <= n
<1>1. IsWellFoundedOn(OpToRel(<, Nat), Nat)
  BY NatLessThanWellFounded
<1>2. PICK m \in T : \A n \in T : ~(<<n, m>> \in OpToRel(<, Nat))
  BY <1>1, WFMin
<1>3. ASSUME NEW n \in T PROVE m <= n
  <2>1. n \in Nat /\ m \in Nat
    OBVIOUS
  <2>2. ~(n < m)
    BY <1>2, <2>1 DEF OpToRel
  <2> QED  BY <2>1, <2>2
<1> QED  BY <1>3

Ascends(s, n) == \A i, j \in 1..n : i < j => s[i] < s[j]

Ranks(s, S) == s \in [1..Cardinality(S) -> S] /\ Ascends(s, Cardinality(S))

Enumerates(s, S) ==
    Ranks(s, S) /\ \A x \in S : \E i \in 1..Cardinality(S) : s[i] = x

LEMMA RankingExists ==
  ASSUME NEW S, S \subseteq Nat, IsFiniteSet(S)
  PROVE  \E s : Ranks(s, S)
<1> DEFINE n == Cardinality(S)
           upTo(x) == {y \in S : y <= x}
           place == [x \in S |-> Cardinality(upTo(x))]
<1>1. n \in Nat
  BY FS_CardinalityType
<1>2. ASSUME NEW x \in S
      PROVE  IsFiniteSet(upTo(x)) /\ place[x] \in 1..n
  <2>1. /\ IsFiniteSet(upTo(x)) /\ Cardinality(upTo(x)) <= n
    BY FS_Subset
  <2>2. x \in upTo(x)
    OBVIOUS
  <2>3. Cardinality(upTo(x)) \in Nat /\ Cardinality(upTo(x)) # 0
    BY <2>1, <2>2, FS_CardinalityType, FS_EmptySet
  <2> QED  BY <1>1, <2>1, <2>3
<1>3. ASSUME NEW x \in S, NEW y \in S, x < y
      PROVE  place[x] < place[y]
  <2>1. upTo(x) \subseteq upTo(y) /\ y \in upTo(y) /\ y \notin upTo(x)
    <3>1. x \in Nat /\ y \in Nat /\ x < y
      BY <1>3
    <3>2. ASSUME NEW z \in upTo(x) PROVE z \in upTo(y)
      <4>1. z \in S /\ z \in Nat /\ z <= x
        OBVIOUS
      <4>2. z <= y
        BY <3>1, <4>1
      <4> QED  BY <4>1, <4>2
    <3>3. y \in upTo(y) /\ y \notin upTo(x)
      BY <3>1
    <3> HIDE DEF upTo
    <3> QED  BY <3>2, <3>3
  <2>2. /\ Cardinality(upTo(x)) <= Cardinality(upTo(y))
        /\ Cardinality(upTo(x)) # Cardinality(upTo(y))
    BY <1>2, <2>1, FS_Subset
  <2> QED  BY <1>1, <1>2, <2>2
<1>4. place \in Surjection(S, 1..n)
  <2>1. place \in Injection(S, 1..n)
    <3>1. place \in [S -> 1..n]
      BY <1>2
    <3>2. \A x, y \in S : place[x] = place[y] => x = y
      <4>1. \A x \in S : place[x] \in Int
        BY <1>1, <1>2
      <4> QED  BY <1>3, <4>1
    <3> QED  BY <3>1, <3>2 DEF Injection, IsInjective
  <2>2. IsFiniteSet(1..n) /\ Cardinality(1..n) = n
    BY <1>1, FS_Interval
  <2> QED  BY <2>1, <2>2, FS_Injection
<1> DEFINE s == [i \in 1..n |-> CHOOSE x \in S : place[x] = i]
<1>5. ASSUME NEW i \in 1..n PROVE s[i] \in S /\ place[s[i]] = i
  <2>1. \E x \in S : place[x] = i
    BY <1>4 DEF Surjection
  <2> HIDE DEF place
  <2> QED  BY <2>1
<1>6. Ascends(s, n)
  <2> SUFFICES ASSUME NEW i \in 1..n, NEW j \in 1..n, i < j PROVE s[i] < s[j]
    BY DEF Ascends
  <2>1. s[i] \in S /\ s[j] \in S /\ place[s[i]] = i /\ place[s[j]] = j
    BY <1>5
  <2>3. \A x, y \in S : x < y => place[x] < place[y]
    BY <1>3
  <2> HIDE DEF place, s
  <2>2. i \in Int /\ j \in Int /\ s[i] \in Nat /\ s[j] \in Nat
    <3>1. i \in Int /\ j \in Int
      BY <1>1
    <3>2. s[i] \in Nat /\ s[j] \in Nat
      BY <2>1
    <3> QED  BY <3>1, <3>2
  <2>4. s[i] # s[j]
    BY <2>1, <2>2
  <2>5. ASSUME s[j] < s[i] PROVE FALSE
    <3>1. j < i
      BY <2>1, <2>3, <2>5
    <3> QED  BY <2>2, <3>1
  <2> QED  BY <2>2, <2>4, <2>5
<1> QED  BY <1>5, <1>6 DEF Ranks

\* It misses no element.
LEMMA RankingIsComplete ==
  ASSUME NEW S, S \subseteq Nat, IsFiniteSet(S), NEW s, Ranks(s, S)
  PROVE  Enumerates(s, S)
<1> DEFINE n == Cardinality(S)
<1>1. n \in Nat
  BY FS_CardinalityType
<1>2. s \in [1..n -> S] /\ \A i, j \in 1..n : i < j => s[i] < s[j]
  BY DEF Ranks, Ascends
<1>3. s \in Injection(1..n, S)
  <2>1. \A i \in 1..n : s[i] \in Nat
    BY <1>2
  <2>2. \A i, j \in 1..n : s[i] = s[j] => i = j
    BY <1>1, <1>2, <2>1
  <2> QED  BY <1>2, <2>2 DEF Injection, IsInjective
<1>4. IsFiniteSet(1..n) /\ Cardinality(1..n) = n
  BY <1>1, FS_Interval
<1>5. s \in Surjection(1..n, S)
  BY <1>3, <1>4, FS_Injection
<1> QED  BY <1>5 DEF Enumerates, Surjection

\* Ascending is one.
LEMMA AscendingEnumerates ==
  ASSUME NEW S, S \subseteq Nat, IsFiniteSet(S)
  PROVE  Cardinality(S) \in Nat /\ Enumerates(Ascending(S), S)
<1>1. PICK t : Ranks(t, S)
  BY RankingExists
<1>2. t \in [1..Cardinality(S) -> S] /\ \A i, j \in DOMAIN t : i < j => t[i] < t[j]
  BY <1>1 DEF Ranks, Ascends
<1>3. /\ Ascending(S) \in [1..Cardinality(S) -> S]
      /\ \A i, j \in DOMAIN Ascending(S) : i < j => Ascending(S)[i] < Ascending(S)[j]
  BY <1>2 DEF Ascending
<1>4. Ranks(Ascending(S), S)
  BY <1>3 DEF Ranks, Ascends
<1> QED  BY <1>4, RankingIsComplete, FS_CardinalityType

\* There is no other.
LEMMA EnumerationIsUnique ==
  ASSUME NEW S, S \subseteq Nat, IsFiniteSet(S), NEW s, NEW t,
         Enumerates(s, S), Enumerates(t, S)
  PROVE  s = t
<1> DEFINE n == Cardinality(S)
           T == {i \in 1..n : s[i] # t[i]}
<1>1. n \in Nat
  BY FS_CardinalityType
<1>2. /\ s \in [1..n -> S] /\ t \in [1..n -> S]
      /\ \A i, j \in 1..n : i < j => s[i] < s[j] /\ t[i] < t[j]
      /\ \A x \in S : (\E i \in 1..n : s[i] = x) /\ (\E i \in 1..n : t[i] = x)
  BY DEF Enumerates, Ranks, Ascends
<1> HIDE DEF n
<1>3. ASSUME T # {} PROVE FALSE
  <2>1. T \subseteq Nat
    BY <1>1
  <2>2. PICK k \in T : \A i \in T : k <= i
    BY <1>3, <2>1, LeastOf
  <2>3. k \in 1..n /\ s[k] # t[k] /\ s[k] \in Nat /\ t[k] \in Nat
    BY <1>2, <2>2
  <2>4. \A i \in 1..n : i < k => s[i] = t[i]
    BY <1>1, <2>2
  <2>5. PICK i \in 1..n : s[i] = t[k]
    BY <1>2, <2>3
  <2>6. PICK j \in 1..n : t[j] = s[k]
    BY <1>2, <2>3
  <2>7. \A a \in 1..n : s[a] \in Nat /\ t[a] \in Nat
    BY <1>2
  <2>8. CASE s[k] < t[k]
    <3>1. j < k
      <4>1. j # k /\ ~(k < j)
        BY <1>2, <2>3, <2>6, <2>8
      <4> QED  BY <1>1, <4>1
    <3> QED  BY <1>1, <1>2, <2>3, <2>4, <2>6, <2>7, <3>1
  <2>9. CASE t[k] < s[k]
    <3>1. i < k
      <4>1. i # k /\ ~(k < i)
        BY <1>2, <2>3, <2>5, <2>9
      <4> QED  BY <1>1, <4>1
    <3> QED  BY <1>1, <1>2, <2>3, <2>4, <2>5, <2>7, <3>1
  <2> QED  BY <2>3, <2>8, <2>9
<1>4. \A i \in 1..n : s[i] = t[i]
  BY <1>3
<1>5. s = [i \in 1..n |-> s[i]] /\ t = [i \in 1..n |-> t[i]]
  BY <1>2
<1> QED  BY <1>4, <1>5, Zenon

\* A number above all others comes last.
LEMMA AscendingAbove ==
  ASSUME NEW S, S \subseteq Nat, IsFiniteSet(S), NEW m \in Nat, \A x \in S : x < m
  PROVE  /\ Cardinality(S \cup {m}) = Cardinality(S) + 1
         /\ Ascending(S \cup {m})
              = [i \in 1..(Cardinality(S) + 1) |-> IF i = Cardinality(S) + 1 THEN m ELSE Ascending(S)[i]]
<1> DEFINE n == Cardinality(S)
           U == S \cup {m}
           t == [i \in 1..(n + 1) |-> IF i = n + 1 THEN m ELSE Ascending(S)[i]]
<1>1. m \notin S
  OBVIOUS
<1>2. IsFiniteSet(U) /\ Cardinality(U) = n + 1 /\ U \subseteq Nat
  BY <1>1, FS_AddElement
<1>3. /\ n \in Nat /\ Ascending(S) \in [1..n -> S]
      /\ \A i, j \in 1..n : i < j => Ascending(S)[i] < Ascending(S)[j]
      /\ \A x \in S : \E i \in 1..n : Ascending(S)[i] = x
  BY AscendingEnumerates DEF Enumerates, Ranks, Ascends
<1> HIDE DEF n
<1>4. t \in [1..(n + 1) -> U]
  BY <1>3
<1>5. ASSUME NEW i \in 1..(n + 1), NEW j \in 1..(n + 1), i < j
      PROVE  t[i] < t[j]
  <2>1. i \in 1..n /\ t[i] = Ascending(S)[i] /\ Ascending(S)[i] \in S
    BY <1>3, <1>5
  <2>2. CASE j = n + 1
    BY <2>1, <2>2
  <2>3. CASE j # n + 1
    BY <1>3, <1>5, <2>1, <2>3
  <2> QED  BY <2>2, <2>3
<1>6. \A x \in U : \E i \in 1..(n + 1) : t[i] = x
  BY <1>3
<1>7. Enumerates(t, U)
  BY <1>2, <1>4, <1>5, <1>6 DEF Enumerates, Ranks, Ascends
<1>8. Ascending(U) = t
  <2> HIDE DEF t, U
  <2>1. Enumerates(Ascending(U), U)
    BY <1>2, AscendingEnumerates
  <2> QED  BY <1>2, <1>7, <2>1, EnumerationIsUnique
<1> QED  BY <1>2, <1>8 DEF n

-----------------------------------------------------------------------------
(***************************************************************************)
(* The loop over payloads.  What it has read after n records, without the  *)
(* loop; the recursive function has this value and no other.               *)
(***************************************************************************)
PayloadType == [ok : BOOLEAN, hash : Nat, seq : Nat]

LostAmong(logged, got, n) == {i \in 1..n : logged[i].hash \notin got}

\* The numbers of the lost records among the first n.
LostBy(logged, got, n) ==
    [k \in 1..Cardinality(LostAmong(logged, got, n)) |->
        logged[Ascending(LostAmong(logged, got, n))[k]].seq]

ReadBy(logged, got, n) ==
    IF \A i \in 1..n : logged[i].ok
    THEN [err |-> FALSE, Sequences |-> [i \in 1..n |-> logged[i].seq],
          Lost |-> LostBy(logged, got, n), Unlogged |-> <<>>]
    ELSE Failed

LEMMA LostAmongIsFinite ==
  ASSUME NEW logged, NEW got, NEW n \in Nat
  PROVE  LostAmong(logged, got, n) \subseteq Nat /\ IsFiniteSet(LostAmong(logged, got, n))
<1>1. IsFiniteSet(1..n) /\ LostAmong(logged, got, n) \in SUBSET (1..n)
  BY FS_Interval DEF LostAmong
<1> QED  BY <1>1, FS_Subset

LEMMA LostByType ==
  ASSUME NEW logged \in Seq(PayloadType), NEW got, NEW n \in 0..Len(logged)
  PROVE  LostBy(logged, got, n) \in Seq(Nat)
<1> DEFINE S == LostAmong(logged, got, n)
           c == Cardinality(S)
<1>1. n \in Nat /\ S \subseteq Nat /\ IsFiniteSet(S) /\ S \subseteq 1..n
  <2>1. n \in Nat
    OBVIOUS
  <2> QED  BY <2>1, LostAmongIsFinite DEF LostAmong
<1>2. c \in Nat /\ Ascending(S) \in [1..c -> S]
  BY <1>1, AscendingEnumerates DEF Enumerates, Ranks
<1>3. \A i \in 1..n : logged[i] \in PayloadType
  OBVIOUS
<1>4. LostBy(logged, got, n) = [k \in 1..c |-> logged[Ascending(S)[k]].seq]
  BY DEF LostBy
<1> HIDE DEF S, c
<1>5. \A k \in 1..c : logged[Ascending(S)[k]].seq \in Nat
  BY <1>1, <1>2, <1>3 DEF PayloadType
<1>6. LostBy(logged, got, n) \in [1..c -> Nat]
  BY <1>4, <1>5
<1> QED  BY <1>2, <1>6

\* One more record is lost or it is not.
LEMMA LostGrows ==
  ASSUME NEW logged \in Seq(PayloadType), NEW got, NEW n \in Nat, n + 1 <= Len(logged)
  PROVE  /\ LostBy(logged, got, n) \in Seq(Nat)
         /\ LostBy(logged, got, n + 1)
              = IF logged[n + 1].hash \in got THEN LostBy(logged, got, n)
                ELSE Append(LostBy(logged, got, n), logged[n + 1].seq)
<1> DEFINE S == LostAmong(logged, got, n)
           c == Cardinality(S)
           before == LostBy(logged, got, n)
<1>1. S \subseteq Nat /\ IsFiniteSet(S) /\ S \subseteq 1..n
  BY LostAmongIsFinite DEF LostAmong
<1>2. c \in Nat /\ Ascending(S) \in [1..c -> S]
  BY <1>1, AscendingEnumerates DEF Enumerates, Ranks
<1>3. before = [k \in 1..c |-> logged[Ascending(S)[k]].seq]
  BY DEF LostBy
<1>4. \A i \in 1..(n + 1) : logged[i] \in PayloadType /\ logged[i].seq \in Nat
  <2>1. \A i \in 1..(n + 1) : logged[i] \in PayloadType
    OBVIOUS
  <2> QED  BY <2>1 DEF PayloadType
<1>5. \A k \in 1..c : Ascending(S)[k] \in 1..(n + 1)
  BY <1>1, <1>2
<1> HIDE DEF S, c, before
<1>6. before \in Seq(Nat) /\ Len(before) = c /\ DOMAIN before = 1..c
  <2>1. \A k \in 1..c : logged[Ascending(S)[k]].seq \in Nat
    BY <1>4, <1>5
  <2>2. before \in [1..c -> Nat]
    BY <1>3, <2>1
  <2> QED  BY <1>2, <2>2
<1>7. CASE logged[n + 1].hash \in got
  <2>1. LostAmong(logged, got, n + 1) = S
    BY <1>7 DEF LostAmong, S
  <2> QED  BY <1>6, <1>7, <2>1 DEF LostBy, S, before
<1>8. CASE logged[n + 1].hash \notin got
  <2>1. LostAmong(logged, got, n + 1) = S \cup {n + 1}
    BY <1>8 DEF LostAmong, S
  <2>2. \A x \in S : x < n + 1
    BY <1>1
  <2>3. /\ Cardinality(S \cup {n + 1}) = c + 1
        /\ Ascending(S \cup {n + 1}) = [i \in 1..(c + 1) |-> IF i = c + 1 THEN n + 1 ELSE Ascending(S)[i]]
    <3>1. n + 1 \in Nat
      OBVIOUS
    <3> QED  BY <1>1, <2>2, <3>1, AscendingAbove DEF c
  <2>4. LostBy(logged, got, n + 1)
          = [k \in 1..(c + 1) |-> IF k = c + 1 THEN logged[n + 1].seq ELSE before[k]]
    <3>1. LostBy(logged, got, n + 1)
            = [k \in 1..(c + 1) |-> logged[Ascending(S \cup {n + 1})[k]].seq]
      BY <2>1, <2>3 DEF LostBy
    <3>2. ASSUME NEW k \in 1..(c + 1)
          PROVE  logged[Ascending(S \cup {n + 1})[k]].seq
                   = IF k = c + 1 THEN logged[n + 1].seq ELSE before[k]
      BY <1>2, <1>3, <2>3
    <3> QED  BY <3>1, <3>2
  <2>5. Append(before, logged[n + 1].seq)
          = [k \in 1..(c + 1) |-> IF k = c + 1 THEN logged[n + 1].seq ELSE before[k]]
    BY <1>2, <1>4, <1>6
  <2> QED  BY <1>6, <1>8, <2>4, <2>5 DEF before
<1> QED  BY <1>7, <1>8

LEMMA WithUnlogged ==
  ASSUME NEW err, NEW numbers, NEW lost, NEW before, NEW unlogged, NEW read,
         read = [err |-> err, Sequences |-> numbers, Lost |-> lost, Unlogged |-> before]
  PROVE  [read EXCEPT !.Unlogged = unlogged]
           = [err |-> err, Sequences |-> numbers, Lost |-> lost, Unlogged |-> unlogged]
OBVIOUS

LEMMA LostStep ==
  ASSUME NEW logged \in Seq(PayloadType), NEW got, NEW n \in 1..Len(logged)
  PROVE  /\ LostBy(logged, got, n - 1) \in Seq(Nat)
         /\ LostBy(logged, got, n) = IF logged[n].hash \in got THEN LostBy(logged, got, n - 1)
                                     ELSE Append(LostBy(logged, got, n - 1), logged[n].seq)
<1> DEFINE m == n - 1
<1>1. m \in Nat /\ n = m + 1 /\ m + 1 <= Len(logged)
  OBVIOUS
<1> HIDE DEF m
<1>2. /\ LostBy(logged, got, m) \in Seq(Nat)
      /\ LostBy(logged, got, m + 1) = IF logged[m + 1].hash \in got THEN LostBy(logged, got, m)
                                      ELSE Append(LostBy(logged, got, m), logged[m + 1].seq)
  BY <1>1, LostGrows
<1> QED  BY <1>1, <1>2 DEF m

LEMMA AccountAdds ==
  ASSUME NEW numbers, NEW lost, NEW payload, NEW got
  PROVE  Account([err |-> FALSE, Sequences |-> numbers, Lost |-> lost, Unlogged |-> <<>>], payload, got)
           = [err |-> FALSE, Sequences |-> Append(numbers, payload.seq),
              Lost |-> IF payload.hash \in got THEN lost ELSE Append(lost, payload.seq),
              Unlogged |-> <<>>]
BY DEF Account

LEMMA ReadByStep ==
  ASSUME NEW logged \in Seq(PayloadType), NEW got, NEW n \in 1..Len(logged)
  PROVE  ReadBy(logged, got, n) = ReadRecord(ReadBy(logged, got, n - 1), logged[n], got)
<1> DEFINE m == n - 1
<1>1. m \in Nat /\ n = m + 1 /\ m + 1 <= Len(logged)
  OBVIOUS
<1>2. /\ LostBy(logged, got, m) \in Seq(Nat)
      /\ LostBy(logged, got, n) = IF logged[n].hash \in got THEN LostBy(logged, got, m)
                                  ELSE Append(LostBy(logged, got, m), logged[n].seq)
  BY LostStep
<1>3. (\A i \in 1..n : logged[i].ok) <=> (\A i \in 1..m : logged[i].ok) /\ logged[n].ok
  BY <1>1
<1>4. [i \in 1..n |-> logged[i].seq] = Append([i \in 1..m |-> logged[i].seq], logged[n].seq)
  <2>1. \A i \in 1..Len(logged) : logged[i] \in PayloadType /\ logged[i].seq \in Nat
    <3>1. \A i \in 1..Len(logged) : logged[i] \in PayloadType
      OBVIOUS
    <3> QED  BY <3>1 DEF PayloadType
  <2>2. [i \in 1..m |-> logged[i].seq] \in Seq(Nat) /\ Len([i \in 1..m |-> logged[i].seq]) = m
    BY <1>1, <2>1
  <2> QED  BY <1>1, <2>1, <2>2
<1>5. ReadBy(logged, got, m) = IF \A i \in 1..m : logged[i].ok
        THEN [err |-> FALSE, Sequences |-> [i \in 1..m |-> logged[i].seq],
              Lost |-> LostBy(logged, got, m), Unlogged |-> <<>>]
        ELSE Failed
  BY DEF ReadBy
<1> HIDE DEF m
<1>6. CASE ~(\A i \in 1..m : logged[i].ok)
  <2>1. ReadBy(logged, got, m) = Failed /\ ReadBy(logged, got, n) = Failed
    BY <1>3, <1>6 DEF ReadBy
  <2>2. Failed.err
    BY DEF Failed, Empty
  <2> QED  BY <2>1, <2>2 DEF ReadRecord, m
<1>7. CASE (\A i \in 1..m : logged[i].ok) /\ ~logged[n].ok
  <2>1. ReadBy(logged, got, n) = Failed
    BY <1>3, <1>7 DEF ReadBy
  <2> QED  BY <1>7, <2>1 DEF ReadRecord
<1>8. CASE (\A i \in 1..m : logged[i].ok) /\ logged[n].ok
  <2>1. ReadBy(logged, got, m) = [err |-> FALSE, Sequences |-> [i \in 1..m |-> logged[i].seq],
                                  Lost |-> LostBy(logged, got, m), Unlogged |-> <<>>]
    BY <1>5, <1>8
  <2>2. ReadBy(logged, got, n) = [err |-> FALSE, Sequences |-> [i \in 1..n |-> logged[i].seq],
                                  Lost |-> LostBy(logged, got, n), Unlogged |-> <<>>]
    BY <1>3, <1>8 DEF ReadBy
  <2>3. ReadRecord(ReadBy(logged, got, m), logged[n], got)
          = Account(ReadBy(logged, got, m), logged[n], got)
    BY <1>8, <2>1 DEF ReadRecord
  <2>4. Account(ReadBy(logged, got, m), logged[n], got)
          = [err |-> FALSE, Sequences |-> Append([i \in 1..m |-> logged[i].seq], logged[n].seq),
             Lost |-> IF logged[n].hash \in got THEN LostBy(logged, got, m)
                      ELSE Append(LostBy(logged, got, m), logged[n].seq),
             Unlogged |-> <<>>]
    <3> DEFINE numbers == [i \in 1..m |-> logged[i].seq]
               lost    == LostBy(logged, got, m)
               payload == logged[n]
    <3>1. ReadBy(logged, got, m)
            = [err |-> FALSE, Sequences |-> numbers, Lost |-> lost, Unlogged |-> <<>>]
      BY <2>1
    <3> HIDE DEF numbers, lost, payload
    <3>2. Account(ReadBy(logged, got, m), payload, got)
            = [err |-> FALSE, Sequences |-> Append(numbers, payload.seq),
               Lost |-> IF payload.hash \in got THEN lost ELSE Append(lost, payload.seq),
               Unlogged |-> <<>>]
      BY <3>1, AccountAdds
    <3> QED  BY <3>2 DEF numbers, lost, payload
  <2> QED  BY ONLY <1>2, <1>4, <2>2, <2>3, <2>4 DEF m
<1> QED  BY <1>6, <1>7, <1>8

LEMMA ReadByNothing ==
  ASSUME NEW logged \in Seq(PayloadType), NEW got
  PROVE  ReadBy(logged, got, 0) = Empty
<1>1. LostAmong(logged, got, 0) = {} /\ Cardinality({}) = 0
  BY FS_EmptySet DEF LostAmong
<1>2. LostBy(logged, got, 0) = <<>>
  <2>1. LostBy(logged, got, 0) = [k \in 1..0 |-> logged[Ascending({})[k]].seq]
    BY <1>1 DEF LostBy
  <2> QED  BY <2>1
<1>3. [i \in 1..0 |-> logged[i].seq] = <<>>
  OBVIOUS
<1>4. \A i \in 1..0 : logged[i].ok
  OBVIOUS
<1> QED  BY <1>2, <1>3, <1>4 DEF ReadBy, Empty

LEMMA ReadRecordsIs ==
  ASSUME NEW logged \in Seq(PayloadType), NEW got
  PROVE  ReadRecords(logged, got) = ReadBy(logged, got, Len(logged))
<1> DEFINE N == Len(logged)
           Turn(f, n) == IF n = 0 THEN Empty ELSE ReadRecord(f[n - 1], logged[n], got)
           IsLoop(f) == f = [n \in 0..N |-> Turn(f, n)]
           known == [n \in 0..N |-> ReadBy(logged, got, n)]
           loop == CHOOSE f : IsLoop(f)
<1>1. N \in Nat
  OBVIOUS
<1>2. IsLoop(known)
  <2>1. ASSUME NEW n \in 0..N PROVE known[n] = Turn(known, n)
    <3>1. CASE n = 0
      BY <3>1, ReadByNothing
    <3>2. CASE n # 0
      <4>1. n \in 1..N /\ n - 1 \in 0..N
        BY <1>1, <3>2
      <4>2. known[n] = ReadBy(logged, got, n) /\ known[n - 1] = ReadBy(logged, got, n - 1)
        BY <4>1
      <4>3. known[n] = ReadRecord(known[n - 1], logged[n], got)
        BY <4>1, <4>2, ReadByStep
      <4> QED  BY <3>2, <4>3
    <3> QED  BY <3>1, <3>2
  <2>2. known = [n \in 0..N |-> known[n]]
    OBVIOUS
  <2> HIDE DEF known, Turn
  <2> QED  BY <2>1, <2>2
<1>3. IsLoop(loop)
  <2> HIDE DEF IsLoop, known
  <2> QED  BY <1>2
<1>4. \A n \in 0..N : loop[n] = Turn(loop, n) /\ known[n] = Turn(known, n)
  <2> HIDE DEF known, loop, Turn
  <2> QED  BY <1>2, <1>3
<1>5. loop[N] = known[N]
  <2> DEFINE T == {n \in 0..N : loop[n] # known[n]}
  <2>1. ASSUME T # {} PROVE FALSE
    <3> HIDE DEF loop, known, Turn
    <3>1. PICK n \in T : \A i \in T : n <= i
      <4>1. T \subseteq Nat
        BY <1>1
      <4> HIDE DEF T
      <4> QED  BY <2>1, <4>1, LeastOf
    <3>2. n # 0
      BY <1>4, <3>1 DEF Turn
    <3>3. n - 1 \in 0..N /\ n - 1 \notin T
      BY <1>1, <3>1, <3>2
    <3>4. loop[n - 1] = known[n - 1]
      BY <3>3
    <3>5. Turn(loop, n) = Turn(known, n)
      BY <3>4 DEF Turn
    <3> QED  BY <1>4, <3>1, <3>5
  <2>2. N \in 0..N
    BY <1>1
  <2> HIDE DEF loop, known
  <2> QED  BY <2>1, <2>2
<1>6. ReadRecords(logged, got) = loop[N]
  BY DEF ReadRecords
<1>7. known[N] = ReadBy(logged, got, N)
  BY <1>1
<1> QED  BY <1>5, <1>6, <1>7

-----------------------------------------------------------------------------
(***************************************************************************)
(* The function and its three views.                                       *)
(***************************************************************************)
LEMMA RecordTypes ==
  ASSUME NEW logged \in Seq(PayloadType)
  PROVE  /\ DOMAIN logged = 1..Len(logged) /\ Len(logged) \in Nat
         /\ \A i \in 1..Len(logged) :
              logged[i].ok \in BOOLEAN /\ logged[i].hash \in Nat /\ logged[i].seq \in Nat
<1>1. \A i \in 1..Len(logged) : logged[i] \in PayloadType
  OBVIOUS
<1> QED  BY <1>1 DEF PayloadType

\* What no record names, in order; a finite set of numbers.
LEMMA UnnamedIsFinite ==
  ASSUME NEW logged, NEW got \in SUBSET Nat, IsFiniteSet(got)
  PROVE  got \ HashesOf(logged) \subseteq Nat /\ IsFiniteSet(got \ HashesOf(logged))
BY FS_Subset

\* For any log and any finite set of received credentials, what the loop computes.
\* One malformed record anywhere leaves nothing of it.
THEOREM ReconciliationComputes ==
  ASSUME NEW logged \in Seq(PayloadType), NEW got
  PROVE  ReconcileEmissionLog(logged, got)
           = IF \A i \in DOMAIN logged : logged[i].ok
             THEN [err |-> FALSE, Sequences |-> [i \in DOMAIN logged |-> logged[i].seq],
                   Lost |-> LostBy(logged, got, Len(logged)),
                   Unlogged |-> Ascending(got \ HashesOf(logged))]
             ELSE Failed
<1>1. DOMAIN logged = 1..Len(logged)
  OBVIOUS
<1>2. ReadRecords(logged, got) = ReadBy(logged, got, Len(logged))
  BY ReadRecordsIs
<1>3. CASE \A i \in DOMAIN logged : logged[i].ok
  <2> DEFINE numbers == [i \in DOMAIN logged |-> logged[i].seq]
             lost == LostBy(logged, got, Len(logged))
  <2>1. ReadRecords(logged, got)
          = [err |-> FALSE, Sequences |-> numbers, Lost |-> lost, Unlogged |-> <<>>]
    BY <1>1, <1>2, <1>3 DEF ReadBy
  <2> HIDE DEF numbers, lost
  <2>2. ReconcileEmissionLog(logged, got)
          = [err |-> FALSE, Sequences |-> numbers, Lost |-> lost, Unlogged |-> Unlogged(logged, got)]
    <3>1. ~ReadRecords(logged, got).err
      BY <2>1
    <3>2. ReconcileEmissionLog(logged, got)
            = [ReadRecords(logged, got) EXCEPT !.Unlogged = Unlogged(logged, got)]
      BY <3>1 DEF ReconcileEmissionLog
    <3> DEFINE read == ReadRecords(logged, got)
               X    == Unlogged(logged, got)
               flag == FALSE
    <3>3. read = [err |-> flag, Sequences |-> numbers, Lost |-> lost, Unlogged |-> <<>>]
      BY <2>1
    <3> HIDE DEF numbers, lost, read, X, flag
    <3>4. [read EXCEPT !.Unlogged = X]
            = [err |-> flag, Sequences |-> numbers, Lost |-> lost, Unlogged |-> X]
      BY <3>3, WithUnlogged
    <3> QED  BY <3>2, <3>4 DEF read, X, flag
  <2> QED  BY <1>3, <2>2 DEF Unlogged, numbers, lost
<1>4. CASE ~(\A i \in DOMAIN logged : logged[i].ok)
  <2>1. ReadRecords(logged, got) = Failed
    BY <1>1, <1>2, <1>4 DEF ReadBy
  <2>2. Failed.err
    BY DEF Failed, Empty
  <2> QED  BY <1>4, <2>1, <2>2 DEF ReconcileEmissionLog
<1> QED  BY <1>3, <1>4

-----------------------------------------------------------------------------
InputsTyped ==
    /\ payloads \in Seq(PayloadType)
    /\ received \in SUBSET Nat /\ IsFiniteSet(received)

LEMMA InputsStayTyped == Spec => []InputsTyped
<1>1. Init => InputsTyped
  BY FS_EmptySet DEF Init, InputsTyped
<1>2. InputsTyped /\ [Next]_vars => InputsTyped'
  <2> SUFFICES ASSUME InputsTyped, [Next]_vars PROVE InputsTyped'
    OBVIOUS
  <2>1. CASE LogRecord
    <3>1. PICK p \in {Payload(h, q) : h \in 0..MaxHash, q \in 1..MaxSeq} \cup {Unparsable} :
             payloads' = Append(payloads, p) /\ received' = received
      BY <2>1 DEF LogRecord
    <3>2. p \in PayloadType
      <4>1. CASE p = Unparsable
        BY <4>1 DEF PayloadType, Unparsable, NoHash
      <4>2. ASSUME NEW h \in 0..MaxHash, NEW q \in 1..MaxSeq, p = Payload(h, q)
            PROVE  p \in PayloadType
        <5>1. h \in Nat /\ q \in Nat
          BY BoundsAssumption
        <5> QED  BY <4>2, <5>1 DEF PayloadType, Payload
      <4> QED  BY <3>1, <4>1, <4>2
    <3> QED  BY <3>1, <3>2 DEF InputsTyped
  <2>2. CASE Receive
    <3>1. PICK h \in 1..MaxHash : received' = received \cup {h} /\ payloads' = payloads
      BY <2>2 DEF Receive
    <3>2. h \in Nat
      BY BoundsAssumption
    <3> QED  BY <3>1, <3>2, FS_AddElement DEF InputsTyped
  <2>3. CASE UNCHANGED vars
    BY <2>3 DEF vars, InputsTyped
  <2> QED  BY <2>1, <2>2, <2>3 DEF Next
<1> QED  BY <1>1, <1>2, PTL DEF Spec

LEMMA SoundResult ==
  ASSUME InputsTyped, Sound
  PROVE  Result = [err |-> FALSE, Sequences |-> [i \in DOMAIN payloads |-> payloads[i].seq],
                   Lost |-> LostBy(payloads, received, Len(payloads)),
                   Unlogged |-> Ascending(received \ HashesOf(payloads))]
BY ReconciliationComputes DEF InputsTyped, Sound, Result

\* The three views of a reconciliation are the three answers they stand for, for
\* every log and every set of received credentials.
THEOREM ViewsAreRight == Spec => []ViewsAreTheReference
<1>1. InputsTyped => ViewsAreTheReference
  <2> SUFFICES ASSUME InputsTyped PROVE ViewsAreTheReference
    OBVIOUS
  <2>1. ASSUME ~Sound PROVE Result = Failed
    BY <2>1, ReconciliationComputes DEF InputsTyped, Sound, Result
  <2>2. ASSUME Sound
        PROVE  LET lost == Ascending({i \in DOMAIN payloads : payloads[i].hash \notin received})
               IN  Result.Lost = [k \in DOMAIN lost |-> payloads[lost[k]].seq]
    <3> DEFINE S == {i \in DOMAIN payloads : payloads[i].hash \notin received}
    <3>1. S = LostAmong(payloads, received, Len(payloads)) /\ Len(payloads) \in Nat
      BY RecordTypes DEF LostAmong, InputsTyped
    <3>2. DOMAIN Ascending(S) = 1..Cardinality(S)
      BY <3>1, LostAmongIsFinite, AscendingEnumerates DEF Enumerates, Ranks
    <3>3. Result.Lost = LostBy(payloads, received, Len(payloads))
      BY <2>2, SoundResult
    <3> HIDE DEF S
    <3> QED  BY <3>1, <3>2, <3>3 DEF LostBy, S
  <2>3. ASSUME Sound
        PROVE  /\ ~Result.err
               /\ Result.Sequences = [i \in DOMAIN payloads |-> payloads[i].seq]
    BY <2>3, SoundResult
  <2>4. ASSUME Sound
        PROVE  /\ ToSet(Result.Unlogged)
                    = {h \in received : \A i \in DOMAIN payloads : payloads[i].hash # h}
               /\ \A i, j \in DOMAIN Result.Unlogged :
                    i < j => Result.Unlogged[i] < Result.Unlogged[j]
    <3> DEFINE U == received \ HashesOf(payloads)
               s == Ascending(U)
    <3>1. Result.Unlogged = s
      BY <2>4, SoundResult
    <3>2. U = {h \in received : \A i \in DOMAIN payloads : payloads[i].hash # h}
      BY DEF HashesOf
    <3>3. Enumerates(s, U)
      BY UnnamedIsFinite, AscendingEnumerates DEF InputsTyped
    <3> HIDE DEF U, s
    <3>4. /\ s \in [1..Cardinality(U) -> U] /\ \A i, j \in DOMAIN s : i < j => s[i] < s[j]
          /\ \A x \in U : \E i \in 1..Cardinality(U) : s[i] = x
      BY <3>3 DEF Enumerates, Ranks, Ascends
    <3>5. ToSet(s) = U
      BY <3>4 DEF ToSet
    <3> QED  BY <3>1, <3>2, <3>4, <3>5
  <2> QED  BY <2>1, <2>2, <2>3, <2>4 DEF ViewsAreTheReference
<1> QED  BY <1>1, InputsStayTyped, PTL

-----------------------------------------------------------------------------
\* Renumbering a record that was received.
LEMMA ForkedLog ==
  ASSUME NEW logged \in Seq(PayloadType), NEW got, NEW i \in DOMAIN logged, NEW q \in Nat,
         logged[i].hash \in got, \A j \in DOMAIN logged : logged[j].ok,
         NEW forked, forked = [logged EXCEPT ![i].seq = q]
  PROVE  /\ forked \in Seq(PayloadType) /\ \A j \in DOMAIN forked : forked[j].ok
         /\ LostBy(forked, got, Len(forked)) = LostBy(logged, got, Len(logged))
         /\ HashesOf(forked) = HashesOf(logged)
         /\ ([j \in DOMAIN forked |-> forked[j].seq] = [j \in DOMAIN logged |-> logged[j].seq])
              <=> (q = logged[i].seq)
<1> DEFINE N == Len(logged)
<1>1. /\ DOMAIN logged = 1..N /\ N \in Nat
      /\ \A j \in 1..N : logged[j] \in PayloadType
  OBVIOUS
<1>2. DOMAIN forked = 1..N /\ \A j \in 1..N : j # i => forked[j] = logged[j]
  BY <1>1
<1>3. /\ forked[i] = [logged[i] EXCEPT !.seq = q]
      /\ forked[i] \in PayloadType /\ forked[i].seq = q
      /\ forked[i].hash = logged[i].hash /\ forked[i].ok = logged[i].ok
  BY <1>1 DEF PayloadType
<1>4. forked \in [1..N -> PayloadType]
  <2>1. \A j \in 1..N : forked[j] \in PayloadType
    BY <1>1, <1>2, <1>3
  <2>2. forked = [j \in 1..N |-> forked[j]]
    BY <1>2
  <2> QED  BY <2>1, <2>2
<1>5. forked \in Seq(PayloadType) /\ Len(forked) = N
  BY <1>1, <1>4
<1>6. \A j \in 1..N : forked[j].hash = logged[j].hash /\ forked[j].ok
  BY <1>1, <1>2, <1>3
<1>7. LostBy(forked, got, N) = LostBy(logged, got, N)
  <2> DEFINE S == LostAmong(logged, got, N)
  <2>1. LostAmong(forked, got, N) = S
    BY <1>6 DEF LostAmong
  <2>2. S \subseteq 1..N /\ i \notin S /\ S \subseteq Nat /\ IsFiniteSet(S)
    BY <1>1, LostAmongIsFinite DEF LostAmong
  <2>3. Ascending(S) \in [1..Cardinality(S) -> S]
    BY <2>2, AscendingEnumerates DEF Enumerates, Ranks
  <2> HIDE DEF S
  <2>4. \A k \in 1..Cardinality(S) : forked[Ascending(S)[k]].seq = logged[Ascending(S)[k]].seq
    BY <1>2, <2>2, <2>3
  <2>5. LostBy(forked, got, N) = [k \in 1..Cardinality(S) |-> forked[Ascending(S)[k]].seq]
    <3> DEFINE A == LostAmong(forked, got, N)
    <3>1. LostBy(forked, got, N) = [k \in 1..Cardinality(A) |-> forked[Ascending(A)[k]].seq]
      BY DEF LostBy
    <3> HIDE DEF A
    <3>2. A = S
      BY <2>1 DEF A
    <3> QED  BY ONLY <3>1, <3>2
  <2>6. LostBy(logged, got, N) = [k \in 1..Cardinality(S) |-> logged[Ascending(S)[k]].seq]
    BY DEF LostBy, S
  <2> QED  BY ONLY <2>4, <2>5, <2>6
<1>8. HashesOf(forked) = HashesOf(logged)
  BY <1>1, <1>2, <1>6 DEF HashesOf
<1>9. ([j \in 1..N |-> forked[j].seq] = [j \in 1..N |-> logged[j].seq]) <=> (q = logged[i].seq)
  <2>1. i \in 1..N
    BY <1>1
  <2>2. ASSUME q = logged[i].seq PROVE \A j \in 1..N : forked[j].seq = logged[j].seq
    BY <1>2, <1>3, <2>2
  <2>3. ASSUME [j \in 1..N |-> forked[j].seq] = [j \in 1..N |-> logged[j].seq]
        PROVE  q = logged[i].seq
    <3>1. [j \in 1..N |-> forked[j].seq][i] = [j \in 1..N |-> logged[j].seq][i]
      BY <2>3
    <3> QED  BY <1>3, <2>1, <3>1
  <2> QED  BY <2>2, <2>3
<1> QED  BY <1>1, <1>2, <1>5, <1>6, <1>7, <1>8, <1>9

\* A forked number shows in Sequences and nowhere else, for every log and every
\* set of received credentials.
THEOREM ForkShowsInSequencesAlone == Spec => []ForkShowsOnlyInSequences
<1>1. InputsTyped => ForkShowsOnlyInSequences
  <2> SUFFICES ASSUME InputsTyped, Sound, NEW i \in DOMAIN payloads, NEW q \in 1..MaxSeq,
                      payloads[i].hash \in received
               PROVE  LET forked == ReconcileEmissionLog([payloads EXCEPT ![i].seq = q], received)
                      IN  /\ forked.Lost = Result.Lost
                          /\ forked.Unlogged = Result.Unlogged
                          /\ (forked.Sequences = Result.Sequences) <=> (q = payloads[i].seq)
    BY DEF ForkShowsOnlyInSequences
  <2> DEFINE forked == [payloads EXCEPT ![i].seq = q]
  <2>1. q \in Nat
    BY BoundsAssumption
  <2>2. /\ forked \in Seq(PayloadType) /\ \A j \in DOMAIN forked : forked[j].ok
        /\ LostBy(forked, received, Len(forked)) = LostBy(payloads, received, Len(payloads))
        /\ HashesOf(forked) = HashesOf(payloads)
        /\ ([j \in DOMAIN forked |-> forked[j].seq] = [j \in DOMAIN payloads |-> payloads[j].seq])
             <=> (q = payloads[i].seq)
    BY <2>1, ForkedLog DEF InputsTyped, Sound
  <2> HIDE DEF forked
  <2>3. ReconcileEmissionLog(forked, received)
          = [err |-> FALSE, Sequences |-> [j \in DOMAIN forked |-> forked[j].seq],
             Lost |-> LostBy(forked, received, Len(forked)),
             Unlogged |-> Ascending(received \ HashesOf(forked))]
    BY <2>2, ReconciliationComputes
  <2>4. /\ ReconcileEmissionLog(forked, received).Lost = Result.Lost
        /\ ReconcileEmissionLog(forked, received).Unlogged = Result.Unlogged
        /\ (ReconcileEmissionLog(forked, received).Sequences = Result.Sequences)
             <=> (q = payloads[i].seq)
    BY <2>2, <2>3, SoundResult
  <2> QED  BY <2>4 DEF forked
<1> QED  BY <1>1, InputsStayTyped, PTL

-----------------------------------------------------------------------------
Leads(s, t) == Len(s) <= Len(t) /\ \A k \in 1..Len(s) : s[k] = t[k]

\* What is lost among the first records leads what is lost among all.
LEMMA LostBySome ==
  ASSUME NEW logged \in Seq(PayloadType), NEW got, NEW k \in 0..Len(logged)
  PROVE  Leads(LostBy(logged, got, k), LostBy(logged, got, Len(logged)))
<1> DEFINE N == Len(logged)
           L(n) == LostBy(logged, got, n)
           T == {n \in k..N : ~Leads(L(k), L(n))}
<1>1. N \in Nat /\ k \in Nat /\ k <= N
  OBVIOUS
<1>2. ASSUME T # {} PROVE FALSE
  <2>1. T \subseteq Nat
    BY <1>1
  <2>2. PICK n \in T : \A m \in T : n <= m
    <3> HIDE DEF T
    <3> QED  BY <1>2, <2>1, LeastOf
  <2>3. n \in k..N /\ ~Leads(L(k), L(n))
    BY <2>2
  <2>4. n # k
    <3>1. L(k) \in Seq(Nat)
      BY LostByType
    <3> HIDE DEF L
    <3>2. Leads(L(k), L(k))
      BY <3>1 DEF Leads
    <3> QED  BY <2>3, <3>2
  <2>5. n \in 1..N /\ n - 1 \in k..N /\ n - 1 \notin T
    BY <1>1, <2>2, <2>3, <2>4
  <2>6. Leads(L(k), L(n - 1))
    BY <2>5
  <2>7. /\ L(n - 1) \in Seq(Nat)
        /\ L(n) = IF logged[n].hash \in got THEN L(n - 1) ELSE Append(L(n - 1), logged[n].seq)
    BY <2>5, LostStep
  <2>8. logged[n].seq \in Nat
    BY <2>5, RecordTypes
  <2> HIDE DEF L
  <2>9. Leads(L(k), L(n))
    BY <2>6, <2>7, <2>8 DEF Leads
  <2> QED  BY <2>3, <2>9
<1> QED  BY <1>1, <1>2

LEMMA LeadsIsPrefix ==
  ASSUME NEW s \in Seq(Nat), NEW t \in Seq(Nat), Leads(s, t)
  PROVE  IsPrefix(s, t)
<1>1. Len(s) <= Len(t) /\ \A k \in 1..Len(s) : s[k] = t[k]
  BY DEF Leads
<1>2. /\ SubSeq(s, 1, Len(s)) = [k \in 1..Len(s) |-> s[k]]
      /\ SubSeq(t, 1, Len(s)) = [k \in 1..Len(s) |-> t[k]]
  BY <1>1
<1> QED  BY <1>1, <1>2 DEF IsPrefix

AllParsed(logged) == \A i \in DOMAIN logged : logged[i].ok

\* The first records of a log, as one page of it.
LEMMA PageOfLog ==
  ASSUME NEW logged \in Seq(PayloadType), NEW got, NEW k \in 0..Len(logged), AllParsed(logged)
  PROVE  /\ SubSeq(logged, 1, k) \in Seq(PayloadType)
         /\ Len(SubSeq(logged, 1, k)) = k /\ AllParsed(SubSeq(logged, 1, k))
         /\ LostBy(SubSeq(logged, 1, k), got, k) = LostBy(logged, got, k)
<1> DEFINE page == SubSeq(logged, 1, k)
<1>1. /\ page \in Seq(PayloadType) /\ Len(page) = k
      /\ DOMAIN page = 1..k /\ DOMAIN logged = 1..Len(logged)
      /\ \A i \in 1..k : page[i] = logged[i]
  OBVIOUS
<1>2. k \in Nat /\ \A i \in 1..k : i \in DOMAIN logged
  BY <1>1
<1> HIDE DEF page
<1> DEFINE S == LostAmong(logged, got, k)
           P == LostAmong(page, got, k)
<1>3. P = S
  BY <1>1 DEF LostAmong
<1>4. S \subseteq 1..k /\ Ascending(S) \in [1..Cardinality(S) -> S]
  <2>1. S \subseteq 1..k
    BY DEF LostAmong
  <2>2. S \subseteq Nat /\ IsFiniteSet(S)
    BY <1>2, LostAmongIsFinite
  <2> HIDE DEF S
  <2> QED  BY <2>1, <2>2, AscendingEnumerates DEF Enumerates, Ranks
<1>5. /\ LostBy(logged, got, k) = [n \in 1..Cardinality(S) |-> logged[Ascending(S)[n]].seq]
      /\ LostBy(page, got, k) = [n \in 1..Cardinality(P) |-> page[Ascending(P)[n]].seq]
  BY DEF LostBy
<1> HIDE DEF S, P
<1>6. \A n \in 1..Cardinality(S) : page[Ascending(S)[n]] = logged[Ascending(S)[n]]
  BY <1>1, <1>4
<1>7. LostBy(page, got, k) = LostBy(logged, got, k)
  BY ONLY <1>3, <1>5, <1>6
<1> QED  BY <1>1, <1>2, <1>7 DEF AllParsed, page

\* A short page never hides a credential the consumer holds, and what it says of
\* losses is where the full answer begins, for every log, page and set.
THEOREM ShortPagesSpeak == Spec => []ShortPageIsNotSilent
<1>1. InputsTyped => ShortPageIsNotSilent
  <2> SUFFICES ASSUME InputsTyped, Sound, NEW k \in 0..Len(payloads)
               PROVE  /\ IsPrefix(Page(k).Lost, Result.Lost)
                      /\ received \cap (HashesOf(payloads) \ HashesOf(SubSeq(payloads, 1, k)))
                           \subseteq ToSet(Page(k).Unlogged)
    BY DEF ShortPageIsNotSilent
  <2> DEFINE page == SubSeq(payloads, 1, k)
             N == Len(payloads)
  <2>1. payloads \in Seq(PayloadType) /\ N \in 0..N /\ AllParsed(payloads)
    BY DEF InputsTyped, Sound, AllParsed
  <2>2. /\ page \in Seq(PayloadType) /\ Len(page) = k /\ AllParsed(page)
        /\ LostBy(page, received, k) = LostBy(payloads, received, k)
    BY <2>1, PageOfLog
  <2>3. Page(k) = ReconcileEmissionLog(page, received)
    BY DEF Page
  <2> HIDE DEF page
  <2>4. Page(k) = [err |-> FALSE, Sequences |-> [i \in DOMAIN page |-> page[i].seq],
                   Lost |-> LostBy(page, received, Len(page)),
                   Unlogged |-> Ascending(received \ HashesOf(page))]
    BY <2>2, <2>3, ReconciliationComputes DEF AllParsed
  <2>5. IsPrefix(Page(k).Lost, Result.Lost)
    <3>1. Leads(LostBy(payloads, received, k), LostBy(payloads, received, N))
      BY <2>1, LostBySome
    <3>2. LostBy(payloads, received, k) \in Seq(Nat) /\ LostBy(payloads, received, N) \in Seq(Nat)
      BY <2>1, LostByType
    <3>3. Page(k).Lost = LostBy(payloads, received, k)
      BY <2>2, <2>4
    <3>4. Result.Lost = LostBy(payloads, received, N)
      BY SoundResult
    <3> QED  BY <3>1, <3>2, <3>3, <3>4, LeadsIsPrefix
  <2>6. received \cap (HashesOf(payloads) \ HashesOf(page)) \subseteq ToSet(Page(k).Unlogged)
    <3> DEFINE U == received \ HashesOf(page)
               s == Ascending(U)
    <3>1. Enumerates(s, U)
      BY UnnamedIsFinite, AscendingEnumerates DEF InputsTyped
    <3>2. Page(k).Unlogged = s
      BY <2>4
    <3> HIDE DEF U, s
    <3>3. ToSet(s) = U
      BY <3>1 DEF Enumerates, Ranks, ToSet
    <3> QED  BY <3>2, <3>3 DEF U
  <2> QED  BY <2>5, <2>6 DEF page
<1> QED  BY <1>1, InputsStayTyped, PTL
=============================================================================
