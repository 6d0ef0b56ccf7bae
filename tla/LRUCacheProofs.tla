---------------------------- MODULE LRUCacheProofs ----------------------------
(***************************************************************************)
(* Theorems about LRUCache, for any keys, values and sizes: it evicts the  *)
(* least recently used key, and it implements BoundedCache.                *)
(***************************************************************************)
EXTENDS LRUCache, FiniteSetTheorems, TLAPS

\* The order is an enumeration of the stored keys, no more than MaxSize.
Shape ==
    /\ order \in Seq(Key)
    /\ \A i, j \in DOMAIN order : order[i] = order[j] => i = j
    /\ \A i \in DOMAIN order : order[i] \in DOMAIN data
    /\ \A k \in DOMAIN data : \E i \in DOMAIN order : order[i] = k
    /\ Len(order) <= MaxSize
    /\ IsFiniteSet(DOMAIN data) /\ Cardinality(DOMAIN data) = Len(order)

UsedKeys == {k \in Key : lastUse[k] > 0}

\* When the keys were used, those that are stored and those that are not.
Recency ==
    /\ uses \in Nat
    /\ lastUse \in [Key -> Nat]
    /\ \A k \in Key : lastUse[k] <= uses
    /\ \A k \in DOMAIN data : lastUse[k] > 0
    /\ IsFiniteSet(UsedKeys)
    /\ \A i, j \in DOMAIN order : i < j => lastUse[order[i]] < lastUse[order[j]]
    /\ \A k \in DOMAIN data, gone \in Key \ DOMAIN data : lastUse[gone] < lastUse[k]
    /\ \A gone \in UsedKeys \ DOMAIN data : Len(order) = MaxSize

IInv == Shape /\ Recency

-----------------------------------------------------------------------------
(* The order of the keys.                                                   *)

(* A list without repetitions keeps its elements and their order when one   *)
(* of them goes to the end.                                                 *)
LEMMA MovedToEnd ==
    ASSUME NEW s \in Seq(Key), NEW p \in DOMAIN s,
           \A i, j \in DOMAIN s : s[i] = s[j] => i = j
    PROVE  LET t == MoveToEnd(s, s[p]) IN
             /\ t \in Seq(Key) /\ Len(t) = Len(s) /\ DOMAIN t = DOMAIN s
             /\ \A i \in DOMAIN s : t[i] = IF i < p THEN s[i]
                                           ELSE IF i < Len(s) THEN s[i + 1] ELSE s[p]
<1> DEFINE n == Len(s)
           t == [i \in 1 .. n |-> IF i < p THEN s[i] ELSE IF i < n THEN s[i + 1] ELSE s[p]]
<1>1. n \in Nat /\ DOMAIN s = 1 .. n /\ p \in 1 .. n /\ \A i \in 1 .. n : s[i] \in Key
  OBVIOUS
<1>2. (CHOOSE i \in DOMAIN s : s[i] = s[p]) = p
  OBVIOUS
<1>3. MoveToEnd(s, s[p]) = t
  BY <1>1, <1>2 DEF MoveToEnd
<1>4. \A i \in 1 .. n : i < n => i + 1 \in 1 .. n
  BY <1>1
<1>5. t \in [1 .. n -> Key]
  BY <1>1, <1>4
<1>6. t \in Seq(Key) /\ Len(t) = n
  BY <1>1, <1>5
<1> QED BY <1>1, <1>3, <1>6

-----------------------------------------------------------------------------
(* The use of a key.                                                        *)

(* The use of a key is the latest of all.                                   *)
LEMMA UsedIsLatest ==
    ASSUME IInv, NEW k \in Key, Used(k)
    PROVE  /\ uses' = uses + 1 /\ uses' \in Nat
           /\ lastUse' \in [Key -> Nat] /\ lastUse'[k] = uses + 1
           /\ \A x \in Key : x # k => lastUse'[x] = lastUse[x] /\ lastUse'[x] < lastUse'[k]
           /\ \A x \in Key : lastUse'[x] <= uses'
           /\ UsedKeys' = UsedKeys \cup {k} /\ IsFiniteSet(UsedKeys')
<1> USE DEF IInv, Recency
<1>1. /\ uses' = uses + 1 /\ uses' \in Nat
      /\ lastUse' = [lastUse EXCEPT ![k] = uses + 1]
  BY DEF Used
<1>2. /\ lastUse' \in [Key -> Nat] /\ lastUse'[k] = uses + 1
      /\ \A x \in Key : x # k => lastUse'[x] = lastUse[x]
  BY <1>1
<1>3. UsedKeys' = UsedKeys \cup {k}
  BY <1>2 DEF UsedKeys
<1>4. IsFiniteSet(UsedKeys \cup {k})
  BY FS_AddElement
<1> QED BY <1>1, <1>2, <1>3, <1>4

(* A known key goes to the end.                                             *)
LEMMA KnownKeyKeeps ==
    ASSUME IInv, NEW k \in Key, k \in DOMAIN data, Used(k),
           order' = MoveToEnd(order, k), DOMAIN data' = DOMAIN data
    PROVE  IInv'
<1>1. PICK p \in DOMAIN order : order[p] = k
  BY DEF IInv, Shape
<1> DEFINE n == Len(order)
<1>2. /\ n \in Nat /\ DOMAIN order = 1 .. n /\ order \in Seq(Key) /\ p \in 1 .. n
      /\ \A i, j \in 1 .. n : order[i] = order[j] => i = j
      /\ DOMAIN data \subseteq Key
  BY <1>1 DEF IInv, Shape
<1>3. /\ order' \in Seq(Key) /\ Len(order') = n /\ DOMAIN order' = 1 .. n
      /\ \A i \in 1 .. n : order'[i] = IF i < p THEN order[i]
                                       ELSE IF i < n THEN order[i + 1] ELSE k
  BY <1>1, <1>2, MovedToEnd
<1>4. \A i \in 1 .. n : i < n => i + 1 \in 1 .. n
  BY <1>2
<1>5. Shape'
  <2>1. \A i, j \in 1 .. n : order'[i] = order'[j] => i = j
    BY <1>1, <1>2, <1>3, <1>4
  <2>2. \A i \in 1 .. n : order'[i] \in DOMAIN data
    BY <1>2, <1>3, <1>4 DEF IInv, Shape
  <2>3. ASSUME NEW x \in DOMAIN data PROVE \E i \in 1 .. n : order'[i] = x
    <3>1. PICK j \in 1 .. n : order[j] = x
      BY <1>2 DEF IInv, Shape
    <3>2. CASE j < p
      BY <1>3, <3>1, <3>2
    <3>3. CASE j = p
      BY <1>1, <1>2, <1>3, <3>1, <3>3
    <3>4. CASE j > p
      <4>1. j - 1 \in 1 .. n /\ ~(j - 1 < p) /\ j - 1 < n /\ (j - 1) + 1 = j
        BY <1>2, <3>4
      <4>2. order'[j - 1] = x
        BY <1>3, <3>1, <4>1
      <4> QED BY <4>1, <4>2
    <3> QED BY <1>2, <3>2, <3>3, <3>4
  <2> QED BY <1>3, <2>1, <2>2, <2>3 DEF IInv, Shape
<1>6. Recency'
  <2> USE UsedIsLatest
  <2>1. \A i \in 1 .. n : order[i] \in Key /\ lastUse[order[i]] \in Nat
    BY <1>2 DEF IInv, Recency
  <2>2. ASSUME NEW i \in 1 .. n, NEW j \in 1 .. n, i < j
        PROVE  lastUse'[order'[i]] < lastUse'[order'[j]]
    <3>1. order'[i] # k
      BY <1>1, <1>2, <1>3, <1>4, <2>2
    <3>2. CASE order'[j] = k
      BY <1>3, <1>4, <2>1, <3>1, <3>2
    <3>3. CASE order'[j] # k
      <4>1. PICK a \in 1 .. n, b \in 1 .. n : a < b /\ order'[i] = order[a] /\ order'[j] = order[b]
        BY <1>2, <1>3, <1>4, <2>2, <3>1, <3>3
      <4>2. lastUse[order[a]] < lastUse[order[b]]
        BY <1>2, <4>1 DEF IInv, Recency
      <4> QED BY <2>1, <3>1, <3>3, <4>1, <4>2
    <3> QED BY <3>2, <3>3
  <2>3. \A x \in DOMAIN data : lastUse'[x] > 0
    BY <1>2 DEF IInv, Recency
  <2>4. \A x \in DOMAIN data, gone \in Key \ DOMAIN data : lastUse'[gone] < lastUse'[x]
    <3> SUFFICES ASSUME NEW x \in DOMAIN data, NEW gone \in Key \ DOMAIN data
                 PROVE  lastUse'[gone] < lastUse'[x]
      OBVIOUS
    <3>1. gone # k /\ x \in Key
      BY <1>2
    <3>2. CASE x = k
      BY <3>1, <3>2
    <3>3. CASE x # k
      <4>1. lastUse[gone] < lastUse[x]
        BY DEF IInv, Recency
      <4> QED BY <3>1, <3>3, <4>1
    <3> QED BY <3>2, <3>3
  <2>5. \A gone \in UsedKeys' \ DOMAIN data' : Len(order') = MaxSize
    <3>1. UsedKeys' \ DOMAIN data' = UsedKeys \ DOMAIN data
      OBVIOUS
    <3> QED BY <1>3, <3>1 DEF IInv, Recency
  <2>6. \A i, j \in DOMAIN order' : i < j => lastUse'[order'[i]] < lastUse'[order'[j]]
    BY <1>3, <2>2
  <2> QED BY <2>3, <2>4, <2>5, <2>6 DEF Recency
<1> QED BY <1>5, <1>6 DEF IInv

(* A new key goes to the end, and the first one leaves if the cache is full. *)
LEMMA NewKeyKeeps ==
    ASSUME IInv, NEW k \in Key, k \notin DOMAIN data, Used(k),
           IF Len(order) >= MaxSize
           THEN /\ order' = Append(Tail(order), k)
                /\ DOMAIN data' = (DOMAIN data \ {Head(order)}) \cup {k}
           ELSE order' = Append(order, k) /\ DOMAIN data' = DOMAIN data \cup {k}
    PROVE  IInv'
<1> DEFINE n == Len(order)
           full == n >= MaxSize
           m == IF full THEN n - 1 ELSE n
           d == IF full THEN 1 ELSE 0
           kept == IF full THEN DOMAIN data \ {Head(order)} ELSE DOMAIN data
<1>1. /\ n \in Nat /\ DOMAIN order = 1 .. n /\ order \in Seq(Key) /\ n <= MaxSize
      /\ \A i, j \in 1 .. n : order[i] = order[j] => i = j
      /\ \A i \in 1 .. n : order[i] \in DOMAIN data /\ order[i] \in Key /\ order[i] # k
      /\ \A x \in DOMAIN data : \E i \in 1 .. n : order[i] = x
      /\ DOMAIN data \subseteq Key /\ MaxSize \in Nat /\ MaxSize >= 1
  <2>1. /\ order \in Seq(Key) /\ DOMAIN order = 1 .. n /\ n \in Nat
        /\ MaxSize \in Nat /\ MaxSize >= 1
    BY CacheAssumption DEF IInv, Shape
  <2>2. n <= MaxSize /\ \A i, j \in 1 .. n : order[i] = order[j] => i = j
    BY <2>1 DEF IInv, Shape
  <2>3. \A i \in 1 .. n : order[i] \in DOMAIN data /\ order[i] \in Key /\ order[i] # k
    BY <2>1 DEF IInv, Shape
  <2>4. \A x \in DOMAIN data : \E i \in 1 .. n : order[i] = x
    BY <2>1 DEF IInv, Shape
  <2>5. DOMAIN data \subseteq Key
    BY <2>1, <2>3, <2>4
  <2> QED BY <2>1, <2>2, <2>3, <2>4, <2>5
<1>2. /\ m \in Nat /\ m + 1 \in Nat /\ d \in Nat /\ m + d = n /\ m + 1 <= MaxSize
      /\ \/ full /\ n = MaxSize /\ d = 1
         \/ ~ full /\ d = 0
  <2>1. CASE full
    <3>1. n = MaxSize /\ m = n - 1 /\ d = 1
      BY <1>1, <2>1
    <3> HIDE DEF m, d, full, n
    <3> QED BY <1>1, <2>1, <3>1
  <2>2. CASE ~ full
    <3>1. n < MaxSize /\ m = n /\ d = 0
      BY <1>1, <2>2
    <3> HIDE DEF m, d, full, n
    <3> QED BY <1>1, <2>2, <3>1
  <2> QED BY <2>1, <2>2
<1>3. /\ order' \in Seq(Key) /\ Len(order') = m + 1 /\ DOMAIN order' = 1 .. (m + 1)
      /\ order'[m + 1] = k
      /\ \A i \in 1 .. m : i + d \in 1 .. n /\ order'[i] = order[i + d]
  <2>1. CASE full
    <3>0. m = n - 1 /\ d = 1 /\ n >= 1 /\ order' = Append(Tail(order), k)
      BY <1>1, <2>1
    <3> HIDE DEF m, d, full
    <3>1. /\ Tail(order) \in Seq(Key) /\ Len(Tail(order)) = m
          /\ \A i \in 1 .. m : Tail(order)[i] = order[i + 1]
      BY <1>1, <1>2, <3>0
    <3>2. \A i \in 1 .. m : i + 1 \in 1 .. n
      BY <1>1, <3>0
    <3>3. /\ order' \in Seq(Key) /\ Len(order') = m + 1 /\ DOMAIN order' = 1 .. (m + 1)
          /\ order'[m + 1] = k
          /\ \A i \in 1 .. m : order'[i] = Tail(order)[i]
      <4> DEFINE q == Tail(order)
      <4>1. q \in Seq(Key) /\ Len(q) = m /\ order' = Append(q, k)
        BY <3>0, <3>1
      <4> HIDE DEF q
      <4>2. /\ order' \in Seq(Key) /\ Len(order') = m + 1 /\ DOMAIN order' = 1 .. (m + 1)
            /\ order'[m + 1] = k
            /\ \A i \in 1 .. m : order'[i] = q[i]
        BY <1>2, <4>1
      <4> QED BY <4>2 DEF q
    <3> QED BY <3>0, <3>1, <3>2, <3>3
  <2>2. CASE ~ full
    <3>0. m = n /\ d = 0 /\ order' = Append(order, k)
      BY <2>2
    <3> HIDE DEF m, d, full
    <3> QED BY <1>1, <1>2, <3>0
  <2> QED BY <2>1, <2>2
<1>4. DOMAIN data' = kept \cup {k} /\ k \notin kept /\ kept \subseteq DOMAIN data
  OBVIOUS
<1>5. full => Head(order) = order[1] /\ 1 \in 1 .. n
  BY <1>1
<1>6. kept = IF full THEN DOMAIN data \ {order[1]} ELSE DOMAIN data
  BY <1>5
<1> HIDE DEF m, d, kept, full, n
<1>7. \A i \in 1 .. (m + 1) : i \in 1 .. m \/ i = m + 1
  BY <1>2
<1>10. \A i \in 1 .. m : order'[i] \in kept /\ order'[i] # k
  BY <1>1, <1>2, <1>3, <1>5, <1>6
<1>11. ASSUME NEW x \in kept PROVE \E i \in 1 .. m : order'[i] = x
  <2>1. PICK j \in 1 .. n : order[j] = x
    BY <1>1, <1>4
  <2>2. full => j # 1
    BY <1>6, <2>1
  <2>3. j - d \in 1 .. m /\ (j - d) + d = j
    BY <1>1, <1>2, <2>1, <2>2
  <2>4. order'[j - d] = x
    BY <1>3, <2>1, <2>3
  <2> QED BY <2>3, <2>4
<1>8. Shape'
  <2>1. \A i, j \in 1 .. (m + 1) : order'[i] = order'[j] => i = j
    <3>1. \A i, j \in 1 .. m : order'[i] = order'[j] => i = j
      BY <1>1, <1>2, <1>3
    <3> QED BY <1>2, <1>3, <1>10, <1>7, <3>1
  <2>2. \A i \in 1 .. (m + 1) : order'[i] \in DOMAIN data'
    BY <1>3, <1>4, <1>10, <1>7
  <2>3. \A x \in DOMAIN data' : \E i \in 1 .. (m + 1) : order'[i] = x
    BY <1>2, <1>3, <1>4, <1>11
  <2>4. IsFiniteSet(kept) /\ Cardinality(kept) = m
    <3>1. IsFiniteSet(DOMAIN data) /\ Cardinality(DOMAIN data) = n
      BY DEF IInv, Shape, n
    <3>2. full => Head(order) \in DOMAIN data
      BY <1>1, <1>5
    <3>3. CASE full
      <4>1. kept = DOMAIN data \ {order[1]} /\ order[1] \in DOMAIN data
        BY <1>5, <1>6, <3>2, <3>3
      <4>2. IsFiniteSet(kept) /\ Cardinality(kept) = n - 1
        BY <3>1, <4>1, FS_RemoveElement
      <4> QED BY <1>1, <1>2, <3>3, <4>2
    <3>4. CASE ~ full
      BY <1>1, <1>2, <1>6, <3>1, <3>4
    <3> QED BY <3>3, <3>4
  <2>5. IsFiniteSet(DOMAIN data') /\ Cardinality(DOMAIN data') = m + 1
    BY <1>4, <2>4, FS_AddElement
  <2> QED BY <1>2, <1>3, <2>1, <2>2, <2>3, <2>5 DEF Shape
<1>9. Recency'
  <2> USE UsedIsLatest
  <2>1. \A i \in 1 .. m : order'[i] \in Key /\ lastUse'[order'[i]] = lastUse[order'[i]]
    BY <1>1, <1>4, <1>10
  <2>2. ASSUME NEW i \in 1 .. (m + 1), NEW j \in 1 .. (m + 1), i < j
        PROVE  lastUse'[order'[i]] < lastUse'[order'[j]]
    <3>1. i \in 1 .. m
      BY <1>2, <2>2
    <3>2. CASE j = m + 1
      BY <1>3, <1>10, <2>1, <3>1, <3>2
    <3>3. CASE j \in 1 .. m
      <4>0. i \in Nat /\ j \in Nat
        BY <3>1, <3>3
      <4>1. i + d \in 1 .. n /\ j + d \in 1 .. n /\ i + d < j + d
        BY <1>2, <1>3, <2>2, <3>1, <3>3, <4>0
      <4>2. lastUse[order[i + d]] < lastUse[order[j + d]]
        BY <1>1, <4>1 DEF IInv, Recency
      <4> QED BY <1>3, <2>1, <3>1, <3>3, <4>2
    <3> QED BY <1>7, <3>2, <3>3
  <2>3. \A x \in DOMAIN data' : lastUse'[x] > 0
    BY <1>1, <1>4 DEF IInv, Recency
  <2>4. ASSUME NEW x \in DOMAIN data', NEW gone \in Key \ DOMAIN data'
        PROVE  lastUse'[gone] < lastUse'[x]
    <3>1. gone # k /\ x \in Key /\ lastUse'[gone] = lastUse[gone]
      BY <1>1, <1>4, <2>4
    <3>2. CASE x = k
      BY <3>1, <3>2
    <3>3. CASE x # k /\ gone \notin DOMAIN data
      BY <1>4, <3>1, <3>3 DEF IInv, Recency
    <3>4. CASE x # k /\ gone \in DOMAIN data
      <4>1. full /\ gone = order[1] /\ 1 \in 1 .. n
        BY <1>4, <1>5, <1>6, <2>4, <3>1, <3>4
      <4>2. PICK i \in 1 .. m : order'[i] = x
        BY <1>4, <1>11, <3>4
      <4>3. x = order[i + d] /\ i + d \in 1 .. n /\ 1 < i + d
        BY <1>2, <1>3, <4>1, <4>2
      <4>4. lastUse[order[1]] < lastUse[order[i + d]]
        BY <1>1, <4>1, <4>3 DEF IInv, Recency
      <4> QED BY <3>1, <3>4, <4>1, <4>3, <4>4
    <3> QED BY <3>2, <3>3, <3>4
  <2>5. ASSUME NEW gone \in UsedKeys' \ DOMAIN data' PROVE Len(order') = MaxSize
    <3>1. gone \in UsedKeys
      BY <1>4, <2>5
    <3>2. CASE gone \in DOMAIN data
      BY <1>1, <1>2, <1>3, <1>4, <1>6, <2>5, <3>2
    <3>3. CASE gone \notin DOMAIN data
      <4>1. n = MaxSize
        BY <1>1, <3>1, <3>3 DEF IInv, Recency, n
      <4> QED BY <1>2, <1>3, <4>1
    <3> QED BY <3>2, <3>3
  <2> QED BY <1>3, <2>2, <2>3, <2>4, <2>5 DEF Recency
<1> QED BY <1>8, <1>9 DEF IInv

-----------------------------------------------------------------------------

(* The bounded map counts its entries as this module does.                  *)
LEMMA SameCount == ASSUME NEW S PROVE Promise!Cardinality(S) = Cardinality(S)
BY DEF Promise!Cardinality, Cardinality

(* set stores the value under its key, and drops the first key for a new    *)
(* one if the cache is full.                                                *)
LEMMA SetKeeps ==
    ASSUME IInv, NEW k \in Key, NEW v \in Value, Set(k, v)
    PROVE  IInv' /\ data' \in Promise!Stored(data, k, v)
<1>0. Used(k)
  BY DEF Set
<1>1. /\ Len(order) \in Nat /\ MaxSize \in Nat /\ Cardinality(DOMAIN data) = Len(order)
      /\ Len(order) >= MaxSize => Head(order) \in DOMAIN data
  <2>1. order \in Seq(Key) /\ MaxSize \in Nat \ {0}
    BY CacheAssumption DEF IInv, Shape
  <2>2. Len(order) >= MaxSize => Head(order) = order[1] /\ 1 \in DOMAIN order
    BY <2>1
  <2> QED BY <2>1, <2>2 DEF IInv, Shape
<1>2. CASE k \in DOMAIN data
  <2>1. /\ order' = MoveToEnd(order, k)
        /\ data' = [x \in DOMAIN data \cup {k} |-> IF x = k THEN v ELSE data[x]]
    BY <1>2 DEF Set
  <2>2. IInv'
    BY <1>0, <1>2, <2>1, KnownKeyKeeps
  <2>3. data' \in Promise!Stored(data, k, v)
    BY <1>2, <2>1 DEF Promise!Stored
  <2> QED BY <2>2, <2>3
<1>3. CASE k \notin DOMAIN data /\ ~ Len(order) >= MaxSize
  <2>1. /\ order' = Append(order, k)
        /\ data' = [x \in DOMAIN data \cup {k} |-> IF x = k THEN v ELSE data[x]]
    BY <1>3 DEF Set
  <2>2. IInv'
    BY <1>0, <1>3, <2>1, NewKeyKeeps
  <2>3. Promise!Cardinality(DOMAIN data) < MaxSize
    BY <1>1, <1>3, SameCount
  <2>4. Promise!Stored(data, k, v) =
          {[x \in DOMAIN data \cup {k} |-> IF x = k THEN v ELSE data[x]]}
    BY <2>3 DEF Promise!Stored
  <2>5. data' \in Promise!Stored(data, k, v)
    BY <2>1, <2>4
  <2> QED BY <2>2, <2>5
<1>4. CASE k \notin DOMAIN data /\ Len(order) >= MaxSize
  <2>1. /\ order' = Append(Tail(order), k)
        /\ data' = [x \in (DOMAIN data \ {Head(order)}) \cup {k} |-> IF x = k THEN v ELSE data[x]]
    BY <1>4 DEF Set
  <2>2. IInv'
    BY <1>0, <1>4, <2>1, NewKeyKeeps
  <2>3. ~ Promise!Cardinality(DOMAIN data) < MaxSize
    BY <1>1, <1>4, SameCount
  <2>4. Promise!Stored(data, k, v) =
          {[x \in (DOMAIN data \ {victim}) \cup {k} |-> IF x = k THEN v ELSE data[x]] :
             victim \in DOMAIN data}
    BY <1>4, <2>3 DEF Promise!Stored
  <2>5. data' \in Promise!Stored(data, k, v)
    BY <1>1, <1>4, <2>1, <2>4
  <2> QED BY <2>2, <2>5
<1> QED BY <1>2, <1>3, <1>4

(* The cache is empty at first, and each method keeps the invariant and the *)
(* promise.                                                                 *)
LEMMA InitEstablishes == Init => IInv /\ Promise!Init
<1> SUFFICES ASSUME Init PROVE IInv /\ Promise!Init
  OBVIOUS
<1>1. order = <<>> /\ DOMAIN data = {} /\ UsedKeys = {}
  BY DEF Init, UsedKeys
<1>2. Shape
  BY <1>1, CacheAssumption, FS_EmptySet DEF Shape
<1>3. Recency
  BY <1>1, FS_EmptySet DEF Init, Recency
<1>4. Promise!Init
  BY DEF Init, Promise!Init, Promise!Emptied
<1> QED BY <1>2, <1>3, <1>4 DEF IInv

(* A step keeps the invariant, and is one of the bounded map or none of it. *)
LEMMA NextKeeps == IInv /\ [Next]_vars => IInv' /\ [Promise!Next]_data
<1> SUFFICES ASSUME IInv, [Next]_vars PROVE IInv' /\ [Promise!Next]_data
  OBVIOUS
<1>1. ASSUME NEW k \in Key, GetHit(k) PROVE IInv' /\ UNCHANGED data
  BY <1>1, KnownKeyKeeps DEF GetHit
<1>2. CASE UNCHANGED <<order, data, uses, lastUse>>
  BY <1>2 DEF IInv, Shape, Recency, UsedKeys
<1>3. ASSUME NEW k \in Key, NEW v \in Value, Set(k, v) PROVE IInv' /\ Promise!Next
  BY <1>3, SetKeeps DEF Promise!Next, Promise!Set
<1>4. ASSUME Clear PROVE IInv' /\ Promise!Next
  <2>1. order' = <<>> /\ DOMAIN data' = {} /\ UsedKeys' = {} /\ lastUse' = [k \in Key |-> 0]
        /\ uses' = uses
    BY <1>4 DEF Clear, UsedKeys
  <2>2. Shape'
    BY <2>1, CacheAssumption, FS_EmptySet DEF Shape
  <2>3. Recency'
    BY <2>1, FS_EmptySet DEF IInv, Recency
  <2>4. data' = Promise!Emptied
    BY <1>4 DEF Clear, Promise!Emptied
  <2> QED BY <2>2, <2>3, <2>4 DEF IInv, Promise!Next, Promise!Clear
<1> QED BY <1>1, <1>2, <1>3, <1>4 DEF Next, GetMiss, vars

(* The inductive invariant holds in every behaviour.                        *)
THEOREM Inductive == Spec => []IInv
BY InitEstablishes, NextKeeps, PTL DEF Spec

(* The stored keys are the most recently used ones, and the next victim is  *)
(* the least recently used of them (block.py, LRUCache).                    *)
THEOREM EvictsLeastRecentlyUsed == Spec => []KeepsMostRecentlyUsed
<1>1. IInv => KeepsMostRecentlyUsed
  <2> SUFFICES ASSUME IInv PROVE KeepsMostRecentlyUsed
    OBVIOUS
  <2> USE DEF IInv
  <2>1. {order[i] : i \in DOMAIN order} = DOMAIN data
    <3>1. \A i \in DOMAIN order : order[i] \in DOMAIN data
      BY DEF Shape
    <3>2. \A k \in DOMAIN data : \E i \in DOMAIN order : order[i] = k
      BY DEF Shape
    <3> QED BY <3>1, <3>2
  <2>2. ASSUME NEW k \in Key, lastUse[k] > 0, k \notin DOMAIN data
        PROVE  ~ Cardinality({other \in Key : lastUse[other] > lastUse[k]}) < MaxSize
    <3> DEFINE later == {other \in Key : lastUse[other] > lastUse[k]}
    <3>1. DOMAIN data \subseteq later
      BY <2>2 DEF Shape, Recency
    <3>2. later \subseteq UsedKeys
      BY <2>2 DEF Recency, UsedKeys
    <3>3. IsFiniteSet(later)
      BY <3>2, FS_Subset DEF Recency
    <3>4. Cardinality(DOMAIN data) <= Cardinality(later) /\ Cardinality(later) \in Nat
      BY <3>1, <3>3, FS_Subset, FS_CardinalityType
    <3>5. Cardinality(DOMAIN data) = MaxSize
      BY <2>2 DEF Shape, Recency, UsedKeys
    <3> HIDE DEF later
    <3>6. ~ Cardinality(later) < MaxSize
      BY <3>4, <3>5, CacheAssumption
    <3> QED BY <3>6 DEF later
  <2> QED BY <2>1, <2>2 DEF Recency, KeepsMostRecentlyUsed
<1> QED BY <1>1, Inductive, PTL

(* LRUCache implements the bounded map BlockService is modelled over.       *)
THEOREM ImplementsBoundedCache == Spec => KeepsPromise
<1>1. Spec => Promise!Init /\ [][Promise!Next]_data
  BY InitEstablishes, NextKeeps, Inductive, PTL DEF Spec
<1> QED BY <1>1 DEF KeepsPromise, Promise!Spec
===============================================================================
