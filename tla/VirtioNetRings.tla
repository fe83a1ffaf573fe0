------------------------- MODULE VirtioNetRings --------------------------
(***************************************************************************)
(* The rings of VirtioNet: the arithmetic of the wrapping indices, what    *)
(* the windows between them hold, the inductive invariant built on them,   *)
(* and what receive() does with a batch.                                   *)
(***************************************************************************)
EXTENDS VirtioNet, Integers, TLAPS

-----------------------------------------------------------------------------
(* Arithmetic of the wrapping indices.                                     *)

Idx == 0..(W - 1)
Succ(x) == (x + 1) % W
Slot(x, i) == (x + i) % N

\* A quotient and a remainder are unique.
LEMMA Remainders ==
  ASSUME NEW n \in Nat, n > 0, NEW p \in Nat, NEW q \in Nat,
         NEW r \in 0..(n - 1), NEW t \in 0..(n - 1), n * p + r = n * q + t
  PROVE  p = q /\ r = t
<1>1. CASE p = q
  BY <1>1
<1>2. CASE p < q
  <2>1. PICK k \in Nat : q = p + k /\ k >= 1
    BY <1>2
  <2>2. n * q = n * p + n * k
    BY <2>1
  <2>3. n * k >= n
    BY <2>1
  <2>4. n * p \in Nat /\ n * k \in Nat
    BY <2>1
  <2> QED
    BY <2>2, <2>3, <2>4
<1>3. CASE q < p
  <2>1. PICK k \in Nat : p = q + k /\ k >= 1
    BY <1>3
  <2>2. n * p = n * q + n * k
    BY <2>1
  <2>3. n * k >= n
    BY <2>1
  <2>4. n * q \in Nat /\ n * k \in Nat
    BY <2>1
  <2> QED
    BY <2>2, <2>3, <2>4
<1> QED
  BY <1>1, <1>2, <1>3

\* The sizes of the ring and of the indices.
LEMMA Sizes == N \in Nat /\ N > 0 /\ W \in Nat /\ W > 0 /\ W > N /\ W % N = 0
BY VirtioNetAssumption

\* Division with remainder.
LEMMA Division ==
  ASSUME NEW n \in Nat, n > 0, NEW x \in Nat
  PROVE  /\ x % n \in 0..(n - 1)
         /\ \E q \in Nat : x = n * q + (x % n)
<1>1. x % n \in 0..(n - 1) /\ x = n * (x \div n) + (x % n)
  OBVIOUS
<1>2. x \div n \in Nat
  OBVIOUS
<1> QED
  BY <1>1, <1>2, Zenon

\* A number below the modulus is its own remainder.
LEMMA Below ==
  ASSUME NEW n \in Nat, n > 0, NEW x \in 0..(n - 1)
  PROVE  x % n = x
<1>1. PICK q \in Nat : x = n * q + (x % n)
  BY Division
<1>2. n * 0 + x = n * q + (x % n) /\ x % n \in 0..(n - 1)
  BY <1>1, Division
<1> QED
  BY <1>2, Remainders

\* Adding the modulus does not change the remainder.
LEMMA Above ==
  ASSUME NEW n \in Nat, n > 0, NEW x \in Nat
  PROVE  (n + x) % n = x % n
<1>1. PICK q \in Nat : x = n * q + (x % n)
  BY Division
<1>2. PICK p \in Nat : n + x = n * p + ((n + x) % n)
  BY Division
<1>3. n + x = n * (q + 1) + (x % n)
  BY <1>1
<1>4. x % n \in 0..(n - 1) /\ (n + x) % n \in 0..(n - 1)
  BY Division
<1>5. q + 1 \in Nat /\ n * (q + 1) + (x % n) = n * p + ((n + x) % n)
  BY <1>2, <1>3
<1> QED
  BY <1>4, <1>5, Remainders

\* The next index.
LEMMA SuccValue ==
  ASSUME NEW x \in Idx
  PROVE  /\ Succ(x) \in Idx
         /\ Succ(x) = IF x = W - 1 THEN 0 ELSE x + 1
<1>1. CASE x = W - 1
  <2>1. W % W = 0
    BY VirtioNetAssumption, Above, Below, W + 0 = W
  <2> QED
    BY <1>1, <2>1, VirtioNetAssumption DEF Succ, Idx
<1>2. CASE x # W - 1
  <2>1. x + 1 \in 0..(W - 1)
    BY <1>2, VirtioNetAssumption DEF Idx
  <2>2. (x + 1) % W = x + 1
    BY <2>1, Below, VirtioNetAssumption
  <2> QED
    BY <1>2, <2>1, <2>2 DEF Succ, Idx
<1> QED
  BY <1>1, <1>2

\* The distance from one index to another, round the circle.
LEMMA DistanceValue ==
  ASSUME NEW x \in Idx, NEW y \in Idx
  PROVE  /\ Distance(x, y) \in Idx
         /\ Distance(x, y) = IF x <= y THEN y - x ELSE y + W - x
<1>1. CASE x <= y
  <2>1. y - x \in 0..(W - 1) /\ y + W - x = W + (y - x)
    BY <1>1, VirtioNetAssumption DEF Idx
  <2>2. (W + (y - x)) % W = y - x
    BY <2>1, Above, Below, VirtioNetAssumption
  <2> QED
    BY <1>1, <2>1, <2>2 DEF Distance, Idx
<1>2. CASE ~(x <= y)
  <2>1. y + W - x \in 0..(W - 1)
    BY <1>2, VirtioNetAssumption DEF Idx
  <2>2. (y + W - x) % W = y + W - x
    BY <2>1, Below, VirtioNetAssumption
  <2> QED
    BY <1>2, <2>1, <2>2 DEF Distance, Idx
<1> QED
  BY <1>1, <1>2

\* A distance is a number.
LEMMA DistanceNat ==
  ASSUME NEW x \in Idx, NEW y \in Idx
  PROVE  Distance(x, y) \in Nat
<1>1. Distance(x, y) \in Idx
  BY DistanceValue
<1> QED
  BY <1>1, Sizes DEF Idx

\* What the steps of the two ends of a window do to its length.
LEMMA Distances ==
  ASSUME NEW x \in Idx, NEW y \in Idx
  PROVE  /\ Distance(x, y) = 0 <=> x = y
         /\ x # y => Distance(Succ(x), y) = Distance(x, y) - 1
         /\ Distance(x, y) + 1 < W => Distance(x, Succ(y)) = Distance(x, y) + 1
<1>1. Succ(x) \in Idx /\ Succ(y) \in Idx /\ W \in Nat /\ W > 1
  BY SuccValue, VirtioNetAssumption
<1>2. Distance(x, y) = IF x <= y THEN y - x ELSE y + W - x
  BY DistanceValue
<1>3. Distance(Succ(x), y) = IF Succ(x) <= y THEN y - Succ(x) ELSE y + W - Succ(x)
  BY <1>1, DistanceValue
<1>4. Distance(x, Succ(y)) = IF x <= Succ(y) THEN Succ(y) - x ELSE Succ(y) + W - x
  BY <1>1, DistanceValue
<1>5. Succ(x) = IF x = W - 1 THEN 0 ELSE x + 1
  BY SuccValue
<1>6. Succ(y) = IF y = W - 1 THEN 0 ELSE y + 1
  BY SuccValue
<1>7. Distance(x, y) = 0 <=> x = y
  BY <1>1, <1>2 DEF Idx
<1>8. x # y => Distance(Succ(x), y) = Distance(x, y) - 1
  BY <1>1, <1>2, <1>3, <1>5 DEF Idx
<1>9. Distance(x, y) + 1 < W => Distance(x, Succ(y)) = Distance(x, y) + 1
  BY <1>1, <1>2, <1>4, <1>6 DEF Idx
<1> QED
  BY <1>7, <1>8, <1>9

\* The next index is one further.
LEMMA DistanceOne ==
  ASSUME NEW x \in Idx
  PROVE  Distance(x, Succ(x)) = 1
<1>1. Distance(x, x) = 0
  BY Distances
<1>2. 0 + 1 < W
  BY Sizes
<1> QED
  BY <1>1, <1>2, Distances

-----------------------------------------------------------------------------
(* Ring slots: the index modulo the size of the ring.                      *)

\* A slot is a descriptor number.
LEMMA SlotType ==
  ASSUME NEW x \in Nat, NEW i \in Nat
  PROVE  Slot(x, i) \in Descriptors /\ x % N = Slot(x, 0)
<1>1. (x + i) % N \in 0..(N - 1)
  BY Division, Sizes
<1> QED
  BY <1>1, x + 0 = x DEF Descriptors, Slot

\* The index width is a multiple of the ring size, so the slots go on where
\* the index wraps.
LEMMA SlotWrap ==
  ASSUME NEW x \in Nat
  PROVE  (W + x) % N = x % N
<1>1. PICK k \in Nat : W = N * k + (W % N)
  BY Division, Sizes
<1>2. W = N * k
  BY <1>1, VirtioNetAssumption
<1>3. PICK q \in Nat : x = N * q + (x % N)
  BY Division, Sizes, Zenon
<1>4. PICK p \in Nat : W + x = N * p + ((W + x) % N)
  BY Division, Sizes, W + x \in Nat, Zenon
<1>5. W + x = N * (k + q) + (x % N)
  <2>1. N * (k + q) = N * k + N * q
    BY VirtioNetAssumption
  <2>2. x % N \in Nat /\ N * k \in Nat /\ N * q \in Nat
    BY Division, Sizes
  <2> QED
    BY <1>2, <1>3, <2>1, <2>2
<1>6. x % N \in 0..(N - 1) /\ (W + x) % N \in 0..(N - 1)
  BY Division, Sizes
<1>7. k + q \in Nat /\ N * (k + q) + (x % N) = N * p + ((W + x) % N)
  BY <1>4, <1>5
<1> QED
  BY <1>6, <1>7, Remainders, Sizes

\* Slots seen from the next index.
LEMMA SlotSucc ==
  ASSUME NEW x \in Idx, NEW i \in Nat
  PROVE  Slot(Succ(x), i) = Slot(x, i + 1)
<1>1. CASE x = W - 1
  <2>1. Succ(x) + i = i /\ x + (i + 1) = W + i
    BY <1>1, SuccValue, VirtioNetAssumption DEF Idx
  <2> QED
    BY <2>1, SlotWrap DEF Slot
<1>2. CASE x # W - 1
  <2>1. Succ(x) + i = x + (i + 1)
    BY <1>2, SuccValue, VirtioNetAssumption DEF Idx
  <2> QED
    BY <2>1 DEF Slot
<1> QED
  BY <1>1, <1>2

\* The slot behind a window is the slot of its end.
LEMMA SlotEnd ==
  ASSUME NEW x \in Idx, NEW y \in Idx
  PROVE  Slot(x, Distance(x, y)) = y % N
<1>1. CASE x <= y
  <2>1. x + Distance(x, y) = y
    BY <1>1, DistanceValue, VirtioNetAssumption DEF Idx
  <2> QED
    BY <2>1 DEF Slot
<1>2. CASE ~(x <= y)
  <2>1. x + Distance(x, y) = W + y
    BY <1>2, DistanceValue, VirtioNetAssumption DEF Idx
  <2> QED
    BY <2>1, SlotWrap DEF Slot, Idx
<1> QED
  BY <1>1, <1>2

\* N consecutive indices have different slots.
LEMMA SlotInjective ==
  ASSUME NEW x \in Nat, NEW i \in 0..(N - 1), NEW j \in 0..(N - 1),
         Slot(x, i) = Slot(x, j)
  PROVE  i = j
<1>1. SUFFICES ASSUME NEW k \in 0..(N - 1), NEW l \in 0..(N - 1), k <= l,
                      Slot(x, k) = Slot(x, l)
               PROVE  k = l
  BY VirtioNetAssumption
<1>2. PICK p \in Nat : x + k = N * p + ((x + k) % N)
  BY Division, Sizes, x + k \in Nat, Zenon
<1>3. PICK q \in Nat : x + l = N * q + ((x + l) % N)
  BY Division, Sizes, x + l \in Nat
<1>4. (x + k) % N \in 0..(N - 1) /\ (x + k) % N = (x + l) % N
  BY <1>1, Division, VirtioNetAssumption DEF Slot
<1>5. l - k \in 0..(N - 1) /\ N * p + (l - k) = N * q + 0
  <2>1. N * p \in Nat /\ N * q \in Nat
    BY VirtioNetAssumption
  <2> QED
    BY <1>1, <1>2, <1>3, <1>4, <2>1, VirtioNetAssumption
<1>6. l - k = 0
  BY <1>5, Remainders, VirtioNetAssumption
<1> QED
  BY <1>6

-----------------------------------------------------------------------------
(* Windows: what n consecutive slots of a ring hold.                       *)

Window(f, x, n) == {f[Slot(x, i)] : i \in 0..(n - 1)}
Distinct(f, x, n) == \A i, j \in 0..(n - 1) : f[Slot(x, i)] = f[Slot(x, j)] => i = j

\* Advancing the start of a window takes its first element out.
LEMMA WindowPop ==
  ASSUME NEW f, NEW x \in Idx, NEW n \in Nat, n > 0, Distinct(f, x, n)
  PROVE  /\ f[x % N] \in Window(f, x, n)
         /\ Window(f, Succ(x), n - 1) = Window(f, x, n) \ {f[x % N]}
         /\ Distinct(f, Succ(x), n - 1)
<1>1. \A i \in 0..(n - 1 - 1) : Slot(Succ(x), i) = Slot(x, i + 1) /\ i + 1 \in 0..(n - 1)
  BY SlotSucc
<1>2. x % N = Slot(x, 0) /\ 0 \in 0..(n - 1)
  BY SlotType, VirtioNetAssumption DEF Idx
<1>3. Distinct(f, Succ(x), n - 1)
  BY <1>1 DEF Distinct
<1>4. f[x % N] \in Window(f, x, n)
  BY <1>2 DEF Window
<1>5. ASSUME NEW e \in Window(f, Succ(x), n - 1)
      PROVE  e \in Window(f, x, n) \ {f[x % N]}
  <2>1. PICK i \in 0..(n - 1 - 1) : e = f[Slot(Succ(x), i)]
    BY <1>5 DEF Window
  <2>2. e = f[Slot(x, i + 1)] /\ i + 1 \in 0..(n - 1) /\ i + 1 # 0
    BY <1>1, <2>1
  <2> QED
    BY <1>2, <2>2 DEF Window, Distinct
<1>6. ASSUME NEW e \in Window(f, x, n), e # f[x % N]
      PROVE  e \in Window(f, Succ(x), n - 1)
  <2>1. PICK i \in 0..(n - 1) : e = f[Slot(x, i)]
    BY DEF Window
  <2>2. i - 1 \in 0..(n - 1 - 1) /\ (i - 1) + 1 = i
    BY <1>2, <1>6, <2>1
  <2>3. e = f[Slot(Succ(x), i - 1)]
    BY <1>1, <2>1, <2>2
  <2> QED
    BY <2>2, <2>3 DEF Window
<1> QED
  BY <1>3, <1>4, <1>5, <1>6

\* Advancing the end of a window brings the next element in.
LEMMA WindowPush ==
  ASSUME NEW f, NEW x \in Idx, NEW n \in Nat, Distinct(f, x, n),
         f[Slot(x, n)] \notin Window(f, x, n)
  PROVE  /\ Window(f, x, n + 1) = Window(f, x, n) \cup {f[Slot(x, n)]}
         /\ Distinct(f, x, n + 1)
<1>1. 0..(n + 1 - 1) = 0..(n - 1) \cup {n}
  OBVIOUS
<1>2. \A i \in 0..(n - 1) : f[Slot(x, i)] # f[Slot(x, n)]
  BY DEF Window
<1> QED
  BY <1>1, <1>2 DEF Window, Distinct

\* Writing the slot behind a window that is not full leaves it alone.
LEMMA WindowFrame ==
  ASSUME NEW f, NEW g, NEW x \in Idx, NEW n \in Nat, n < N,
         \A k \in Descriptors : k # Slot(x, n) => g[k] = f[k]
  PROVE  /\ Window(g, x, n) = Window(f, x, n)
         /\ Distinct(g, x, n) <=> Distinct(f, x, n)
<1>1. \A i \in 0..(n - 1) : g[Slot(x, i)] = f[Slot(x, i)]
  <2>1. TAKE i \in 0..(n - 1)
  <2>2. Slot(x, i) # Slot(x, n)
    BY SlotInjective, VirtioNetAssumption DEF Idx
  <2>3. Slot(x, i) \in Descriptors
    BY SlotType, VirtioNetAssumption DEF Idx
  <2> QED
    BY <2>2, <2>3
<1> QED
  BY <1>1 DEF Window, Distinct

-----------------------------------------------------------------------------
(* Sets that are counted.                                                  *)

\* f lists the n elements of S, each once.
Lists(f, S, n) ==
  /\ \A i \in 1..n : f[i] \in S
  /\ \A i, j \in 1..n : f[i] = f[j] => i = j
  /\ \A e \in S : \E i \in 1..n : f[i] = e

Numbers(S, n) == \E f : Lists(f, S, n)

\* The empty set has no element.
LEMMA NumbersEmpty == Numbers({}, 0)
<1>1. Lists(<<>>, {}, 0)
  BY DEF Lists
<1> QED
  BY <1>1 DEF Numbers

\* A new element is one more.
LEMMA NumbersAdd ==
  ASSUME NEW S, NEW n \in Nat, Numbers(S, n), NEW e, e \notin S
  PROVE  Numbers(S \cup {e}, n + 1)
<1>1. PICK f : Lists(f, S, n)
  BY DEF Numbers
<1> DEFINE g == [i \in 1..(n + 1) |-> IF i = n + 1 THEN e ELSE f[i]]
<1>2. /\ n + 1 \in 1..(n + 1) /\ g[n + 1] = e
      /\ \A i \in 1..n : i \in 1..(n + 1) /\ i # n + 1 /\ g[i] = f[i]
      /\ \A i \in 1..(n + 1) : i = n + 1 \/ i \in 1..n
  OBVIOUS
<1> HIDE DEF g
<1>3. Lists(g, S \cup {e}, n + 1)
  BY <1>1, <1>2 DEF Lists
<1> QED
  BY <1>3 DEF Numbers

\* Without one of its elements a set has one less: the last takes its place.
LEMMA NumbersRemove ==
  ASSUME NEW S, NEW n \in Nat, Numbers(S, n), NEW e \in S
  PROVE  n > 0 /\ Numbers(S \ {e}, n - 1)
<1>1. PICK f : Lists(f, S, n)
  BY DEF Numbers
<1>2. PICK k \in 1..n : f[k] = e
  BY <1>1 DEF Lists
<1> DEFINE g == [i \in 1..(n - 1) |-> IF i = k THEN f[n] ELSE f[i]]
<1>3. /\ n > 0 /\ n \in 1..n /\ n - 1 \in Nat
      /\ \A i \in 1..(n - 1) : i \in 1..n /\ i # n
      /\ \A i \in 1..n : i = n \/ i \in 1..(n - 1)
  OBVIOUS
<1>4. \A i \in 1..(n - 1) : g[i] = IF i = k THEN f[n] ELSE f[i]
  OBVIOUS
<1> HIDE DEF g
<1>5. \A i \in 1..(n - 1) : g[i] \in S \ {e}
  BY <1>1, <1>2, <1>3, <1>4 DEF Lists
<1>6. \A i, j \in 1..(n - 1) : g[i] = g[j] => i = j
  BY <1>1, <1>2, <1>3, <1>4 DEF Lists
<1>7. ASSUME NEW x \in S \ {e}
      PROVE  \E i \in 1..(n - 1) : g[i] = x
  <2>1. PICK i \in 1..n : f[i] = x /\ i # k
    BY <1>1, <1>2 DEF Lists
  <2>2. CASE i = n
    BY <1>3, <1>4, <2>1, <2>2
  <2>3. CASE i # n
    BY <1>3, <1>4, <2>1, <2>3
  <2> QED
    BY <2>2, <2>3
<1>8. Lists(g, S \ {e}, n - 1)
  BY <1>5, <1>6, <1>7 DEF Lists
<1> QED
  BY <1>3, <1>8 DEF Numbers

-----------------------------------------------------------------------------
(* Who owns the receive descriptors.  Four indices go round the circle, in *)
(* this order: what the driver has consumed (r), what the device has       *)
(* completed (u) and fetched (s), and what the driver has made available   *)
(* (a).  ids are the descriptors in the used ring, ring the available ring.*)

Owned(unread, posted, held, returning) ==
  /\ (held \cup posted) \cap (unread \cup returning) = {}
  /\ held \cap posted = {}
  /\ unread \cap returning = {}
  /\ held \cup posted \cup unread \cup returning = Descriptors

Counted(r, u, s, a, held) ==
  /\ Numbers(held, Distance(u, s))
  /\ Distance(r, u) + Distance(u, s) + Distance(s, a) = Distance(r, a)
  /\ Distance(r, a) <= N

\* new is old with the element at k set to e.
Written(new, old, k, e) == new[k] = e /\ \A c \in Descriptors : c # k => new[c] = old[c]

Ownership(r, u, s, a, ids, ring, held, returning) ==
  /\ Counted(r, u, s, a, held)
  /\ Distinct(ids, r, Distance(r, u))
  /\ Distinct(ring, s, Distance(s, a))
  /\ Owned(Window(ids, r, Distance(r, u)), Window(ring, s, Distance(s, a)), held, returning)

\* The lengths of the windows are numbers, and fit.
LEMMA Counts ==
  ASSUME NEW r \in Idx, NEW u \in Idx, NEW s \in Idx, NEW a \in Idx, NEW held,
         Counted(r, u, s, a, held)
  PROVE  /\ Distance(r, u) \in Nat /\ Distance(s, a) \in Nat /\ Distance(r, a) \in Nat
         /\ Distance(u, s) \in Nat
         /\ Distance(r, u) <= Distance(r, a) /\ Distance(s, a) <= Distance(r, a)
         /\ Distance(r, a) <= N /\ N < W
<1>1. Distance(r, u) \in Nat /\ Distance(s, a) \in Nat /\ Distance(r, a) \in Nat
  BY DistanceValue, VirtioNetAssumption DEF Idx
<1>2. Distance(u, s) \in Nat
  BY DistanceNat
<1> QED
  BY <1>1, <1>2, VirtioNetAssumption DEF Counted

\* take() makes the oldest completion the one that is being returned.
LEMMA OwnTake ==
  ASSUME NEW r \in Idx, NEW u \in Idx, NEW s \in Idx, NEW a \in Idx, NEW ids, NEW ring,
         NEW held, Ownership(r, u, s, a, ids, ring, held, {}), Distance(r, u) > 0
  PROVE  /\ Ownership(Succ(r), u, s, a, ids, ring, held, {ids[r % N]})
         /\ Distance(Succ(r), u) = Distance(r, u) - 1
         /\ Distance(Succ(r), a) = Distance(r, a) - 1
<1> USE DEF Ownership
<1>1. /\ Distance(r, u) \in Nat /\ Distance(s, a) \in Nat /\ Distance(r, a) \in Nat
      /\ Distance(u, s) \in Nat /\ Distance(r, a) <= N /\ Distance(r, u) <= Distance(r, a)
  BY Counts
<1>2. r # u /\ r # a
  BY <1>1, Distances
<1>3. Distance(Succ(r), u) = Distance(r, u) - 1 /\ Distance(Succ(r), a) = Distance(r, a) - 1
  BY <1>2, Distances
<1>4. Counted(Succ(r), u, s, a, held)
  BY <1>1, <1>3, VirtioNetAssumption DEF Counted
<1>5. /\ ids[r % N] \in Window(ids, r, Distance(r, u))
      /\ Window(ids, Succ(r), Distance(r, u) - 1) = Window(ids, r, Distance(r, u)) \ {ids[r % N]}
      /\ Distinct(ids, Succ(r), Distance(r, u) - 1)
  BY <1>1, WindowPop
<1>6. Owned(Window(ids, Succ(r), Distance(Succ(r), u)), Window(ring, s, Distance(s, a)), held,
            {ids[r % N]})
  BY <1>3, <1>5 DEF Owned
<1> QED
  BY <1>3, <1>4, <1>5, <1>6

\* The slot a repost writes is not one the device may still read.
LEMMA OwnRepost ==
  ASSUME NEW r \in Idx, NEW u \in Idx, NEW s \in Idx, NEW a \in Idx, NEW ids, NEW ring, NEW new,
         NEW held, NEW d, Ownership(r, u, s, a, ids, ring, held, {d}), Distance(r, a) < N,
         \A k \in Descriptors : k # a % N => new[k] = ring[k]
  PROVE  Ownership(r, u, s, a, ids, new, held, {d})
<1> USE DEF Ownership
<1>1. Distance(s, a) \in Nat /\ Distance(r, a) \in Nat /\ Distance(s, a) <= Distance(r, a)
  BY Counts
<1>2. a % N = Slot(s, Distance(s, a)) /\ Distance(s, a) < N
  BY <1>1, SlotEnd, VirtioNetAssumption
<1>3. /\ Window(new, s, Distance(s, a)) = Window(ring, s, Distance(s, a))
      /\ Distinct(new, s, Distance(s, a)) <=> Distinct(ring, s, Distance(s, a))
  BY <1>1, <1>2, WindowFrame
<1> QED
  BY <1>3

\* Publishing gives the returned descriptor to the device.
LEMMA OwnPublish ==
  ASSUME NEW r \in Idx, NEW u \in Idx, NEW s \in Idx, NEW a \in Idx, NEW ids, NEW ring,
         NEW held, NEW d, Ownership(r, u, s, a, ids, ring, held, {d}), Distance(r, a) < N,
         ring[a % N] = d
  PROVE  /\ Ownership(r, u, s, Succ(a), ids, ring, held, {})
         /\ Distance(r, Succ(a)) = Distance(r, a) + 1
<1> USE DEF Ownership
<1>1. /\ Distance(r, u) \in Nat /\ Distance(s, a) \in Nat /\ Distance(r, a) \in Nat
      /\ Distance(u, s) \in Nat /\ Distance(s, a) <= Distance(r, a) /\ N < W
  BY Counts
<1>2. Distance(r, Succ(a)) = Distance(r, a) + 1 /\ Distance(s, Succ(a)) = Distance(s, a) + 1
  BY <1>1, Distances, VirtioNetAssumption
<1>3. Counted(r, u, s, Succ(a), held)
  BY <1>1, <1>2, VirtioNetAssumption DEF Counted
<1>4. ring[Slot(s, Distance(s, a))] = d
  BY SlotEnd
<1>5. d \notin Window(ring, s, Distance(s, a))
  BY DEF Owned
<1>6. /\ Window(ring, s, Distance(s, a) + 1) = Window(ring, s, Distance(s, a)) \cup {d}
      /\ Distinct(ring, s, Distance(s, a) + 1)
  BY <1>1, <1>4, <1>5, WindowPush
<1>7. Owned(Window(ids, r, Distance(r, u)), Window(ring, s, Distance(s, Succ(a))), held, {})
  BY <1>2, <1>6 DEF Owned
<1> QED
  BY <1>2, <1>3, <1>6, <1>7

\* The device fetches the oldest published descriptor.
LEMMA OwnFetch ==
  ASSUME NEW r \in Idx, NEW u \in Idx, NEW s \in Idx, NEW a \in Idx, NEW ids, NEW ring,
         NEW held, NEW returning, Ownership(r, u, s, a, ids, ring, held, returning), s # a
  PROVE  Ownership(r, u, Succ(s), a, ids, ring, held \cup {ring[s % N]}, returning)
<1> USE DEF Ownership
<1>1. /\ Distance(r, u) \in Nat /\ Distance(s, a) \in Nat /\ Distance(r, a) \in Nat
      /\ Distance(u, s) \in Nat
  BY Counts
<1>2. Distance(Succ(s), a) = Distance(s, a) - 1 /\ Distance(s, a) > 0
  BY <1>1, Distances
<1>3. /\ ring[s % N] \in Window(ring, s, Distance(s, a))
      /\ Window(ring, Succ(s), Distance(s, a) - 1) = Window(ring, s, Distance(s, a)) \ {ring[s % N]}
      /\ Distinct(ring, Succ(s), Distance(s, a) - 1)
  BY <1>1, <1>2, WindowPop
<1>4. ring[s % N] \notin held
  BY <1>3 DEF Owned
<1>5. /\ Numbers(held \cup {ring[s % N]}, Distance(u, s) + 1)
      /\ Distance(u, Succ(s)) = Distance(u, s) + 1
  <2>1. Numbers(held \cup {ring[s % N]}, Distance(u, s) + 1)
    BY <1>1, <1>4, NumbersAdd DEF Counted
  <2>2. Distance(u, s) + 1 < W
    BY <1>1, <1>2, Sizes DEF Counted
  <2> QED
    BY <2>1, <2>2, Distances
<1>6. Counted(r, u, Succ(s), a, held \cup {ring[s % N]})
  BY <1>1, <1>2, <1>5, VirtioNetAssumption DEF Counted
<1>7. Owned(Window(ids, r, Distance(r, u)), Window(ring, Succ(s), Distance(Succ(s), a)),
            held \cup {ring[s % N]}, returning)
  BY <1>2, <1>3 DEF Owned
<1> QED
  BY <1>2, <1>3, <1>6, <1>7

\* The device completes a buffer it holds.
LEMMA OwnComplete ==
  ASSUME NEW r \in Idx, NEW u \in Idx, NEW s \in Idx, NEW a \in Idx, NEW ids, NEW new, NEW ring,
         NEW held, NEW returning, Ownership(r, u, s, a, ids, ring, held, returning),
         NEW d \in held, Written(new, ids, u % N, d)
  PROVE  /\ Ownership(r, Succ(u), s, a, new, ring, held \ {d}, returning)
         /\ Distance(r, Succ(u)) = Distance(r, u) + 1
         /\ Distance(r, u) < N
<1> USE DEF Ownership
<1>0. new[u % N] = d /\ \A k \in Descriptors : k # u % N => new[k] = ids[k]
  BY DEF Written
<1>1. /\ Distance(r, u) \in Nat /\ Distance(s, a) \in Nat /\ Distance(r, a) \in Nat
      /\ Distance(u, s) \in Nat /\ Distance(r, a) <= N /\ N < W
  BY Counts
<1>2. /\ Numbers(held \ {d}, Distance(u, s) - 1) /\ Distance(u, s) > 0
      /\ Distance(Succ(u), s) = Distance(u, s) - 1
  <2>1. Numbers(held \ {d}, Distance(u, s) - 1) /\ Distance(u, s) > 0
    BY <1>1, NumbersRemove, Zenon DEF Counted
  <2> QED
    BY <2>1, Distances
<1>3. Distance(r, u) < N
  BY <1>1, <1>2, VirtioNetAssumption DEF Counted
<1>4. Distance(r, Succ(u)) = Distance(r, u) + 1
  BY <1>1, <1>3, Distances, VirtioNetAssumption
<1>5. Counted(r, Succ(u), s, a, held \ {d})
  BY <1>1, <1>2, <1>4, VirtioNetAssumption DEF Counted
<1>6. u % N = Slot(r, Distance(r, u))
  BY SlotEnd
<1>7. /\ Window(new, r, Distance(r, u)) = Window(ids, r, Distance(r, u))
      /\ Distinct(new, r, Distance(r, u)) <=> Distinct(ids, r, Distance(r, u))
  BY <1>0, <1>1, <1>3, <1>6, WindowFrame
<1>8. d \notin Window(ids, r, Distance(r, u))
  BY DEF Owned
<1>9. /\ Window(new, r, Distance(r, u) + 1) = Window(ids, r, Distance(r, u)) \cup {d}
      /\ Distinct(new, r, Distance(r, u) + 1)
  BY <1>0, <1>1, <1>6, <1>7, <1>8, WindowPush
<1>10. Owned(Window(new, r, Distance(r, Succ(u))), Window(ring, s, Distance(s, a)),
             held \ {d}, returning)
  BY <1>4, <1>9 DEF Owned
<1> QED
  BY <1>3, <1>4, <1>5, <1>9, <1>10

\* prepare_receive_queue(): every descriptor is published.
LEMMA OwnInit ==
  ASSUME NEW ids
  PROVE  Ownership(0, 0, 0, N, ids, [i \in Descriptors |-> i], {}, {}) /\ Distance(0, N) = N
<1> DEFINE ring == [i \in Descriptors |-> i]
<1>1. 0 \in Idx /\ N \in Idx
  BY VirtioNetAssumption DEF Idx
<1>2. Distance(0, 0) = 0 /\ Distance(0, N) = N
  BY <1>1, DistanceValue, VirtioNetAssumption
<1>3. Counted(0, 0, 0, N, {})
  BY <1>2, NumbersEmpty, VirtioNetAssumption DEF Counted
<1>4. \A i \in 0..(N - 1) : Slot(0, i) = i
  BY Below, VirtioNetAssumption DEF Slot
<1>5. Distinct(ring, 0, N) /\ Window(ring, 0, N) = Descriptors
  BY <1>4, Zenon DEF Distinct, Window, Descriptors
<1>6. Window(ids, 0, 0) = {} /\ Distinct(ids, 0, 0)
  BY DEF Window, Distinct
<1>7. Owned(Window(ids, 0, 0), Window(ring, 0, N), {}, {})
  BY <1>5, <1>6 DEF Owned
<1> QED
  BY <1>2, <1>3, <1>5, <1>6, <1>7 DEF Ownership
-----------------------------------------------------------------------------
(* The inductive invariant.                                                *)

Bringup == {"discover", "reset", "features", "config", "msix", "rx_queue", "tx_queue", "start"}
Sending == {"fill", "notify", "spin", "used"}
Busy == cpu.at \in {"copy", "repost", "publish"}

RxType == [used : Idx, entries : Seq(Entries), cursor : Nat, quarantined : BOOLEAN]
TxType == [phase : {"Idle", "Device", "Quarantined"}, available : Idx, used : Idx]
CpuType ==
  [at : {"idle", "index"}] \cup [at : {"entries"}, used_index : Idx]
  \cup [at : {"copy", "repost", "publish"}, entry : Entries]
  \cup [at : {"fill", "notify"}, observed : Nat]
  \cup [at : {"spin", "used"}, observed : Nat, spin : Nat]

DrvType == [stage : Bringup \cup {"ready", "ne2000"}, rx_available : Idx, rx : RxType,
            tx : TxType, idle_checks : Nat]
MemType == [ring : [Descriptors -> Descriptors], available : Idx,
            buffers : [Descriptors -> Nat], tx_available : Idx, tx_buffer : Nat]
DevType == [status : SUBSET {"ACKNOWLEDGE", "DRIVER", "FEATURES_OK", "DRIVER_OK", "FAILED"},
            enabled : SUBSET {"rx_queue", "tx_queue"}, seen : Idx, held : SUBSET Descriptors,
            used : Idx, ring : [Descriptors -> Entries], tx_used : Idx, tx_id : Nat,
            irq : BOOLEAN, lost : BOOLEAN, rogue : BOOLEAN]
FlagsType == [epoch : Nat, pending : BOOLEAN]
HistType == [arrived : Seq({"frame", "oversize"}), delivered : Seq(Nat), begun : Nat,
             sent : Seq(Nat), reported : Seq(Nat)]

Types ==
  /\ drv \in DrvType
  /\ cpu \in CpuType
  /\ mem \in MemType
  /\ dev \in DevType
  /\ flags \in FlagsType
  /\ hist \in HistType

\* init() goes through its stages in order; nothing runs before the last one.
BringupInv ==
  /\ "DRIVER_OK" \in dev.status => drv.stage = "ready"
  /\ drv.stage \in Bringup => "FAILED" \notin dev.status
  /\ drv.stage \in {"config", "msix", "rx_queue", "tx_queue", "start", "ready"}
       => "FEATURES_OK" \in dev.status
  /\ drv.stage \in {"discover", "reset", "features", "config", "msix", "rx_queue"}
       => dev.enabled = {}
  /\ drv.stage = "tx_queue" => dev.enabled = {"rx_queue"}
  /\ drv.stage \in {"start", "ready"} => dev.enabled = {"rx_queue", "tx_queue"}
  /\ drv.stage # "ready" =>
       /\ drv.rx = RxBatch(0) /\ drv.tx = TxQueue /\ cpu.at = "idle"
       /\ dev.seen = 0 /\ dev.held = {} /\ dev.used = 0 /\ dev.tx_used = 0 /\ ~dev.rogue
       /\ hist.arrived = <<>> /\ hist.delivered = <<>>

\* The batch in hand has no descriptor twice.
BatchValid(rx) ==
  /\ rx.cursor <= Len(rx.entries)
  /\ \A i \in 1..Len(rx.entries) : rx.entries[i].descriptor \in Descriptors
  /\ \A i, j \in 1..Len(rx.entries) :
        rx.entries[i].descriptor = rx.entries[j].descriptor => i = j

\* What the driver keeps to whatever the device does.
DriverInv ==
  /\ cpu.at # "idle" => drv.stage = "ready" /\ ~Quarantined
  /\ drv.rx_available = mem.available
  /\ drv.stage = "ready" =>
       Distance(drv.rx.used, mem.available) = IF Busy THEN N - 1 ELSE N
  /\ BatchValid(drv.rx)
  /\ Busy => drv.rx.cursor > 0 /\ cpu.entry = drv.rx.entries[drv.rx.cursor]
  /\ cpu.at \in {"index", "entries"} => drv.rx.cursor = Len(drv.rx.entries)
  /\ cpu.at = "publish" => mem.ring[mem.available % N] = cpu.entry.descriptor
  /\ cpu.at \in Sending <=> drv.tx.phase = "Device"

Ids(ring) == [k \in Descriptors |-> ring[k].descriptor]

\* The rest of the batch is what the used ring still says.
BatchCurrent(rx, u, ring) ==
  /\ Len(rx.entries) - rx.cursor <= Distance(rx.used, u)
  /\ \A k \in 0..(Len(rx.entries) - rx.cursor - 1) :
        rx.entries[rx.cursor + 1 + k] = ring[Slot(rx.used, k)]

\* The i-th unread completion is the i-th last frame of the wire.
Carried(r, u, ring, buffers, arrived) ==
  /\ Distance(r, u) <= Len(arrived)
  /\ \A i \in 0..(Distance(r, u) - 1) :
        LET k == Len(arrived) - Distance(r, u) + 1 + i
        IN /\ buffers[ring[Slot(r, i)].descriptor] = k
           /\ arrived[k] = ring[Slot(r, i)].length

\* The frames within the budget among the first k were delivered, in order.
Covered(delivered, arrived, k) ==
  /\ \A i \in DOMAIN delivered : delivered[i] \in 1..k /\ arrived[delivered[i]] = "frame"
  /\ \A i, j \in DOMAIN delivered : i < j => delivered[i] < delivered[j]
  /\ \A m \in 1..k : arrived[m] = "frame" => \E j \in DOMAIN delivered : delivered[j] = m

Consumed == Len(hist.arrived) - Distance(drv.rx.used, dev.used)

\* The receive side while the device follows the protocol.
ReceiveInv ==
  drv.stage = "ready" /\ ~dev.rogue =>
    /\ ~drv.rx.quarantined /\ "FAILED" \notin dev.status
    /\ Ownership(drv.rx.used, dev.used, dev.seen, mem.available, Ids(dev.ring), mem.ring,
                 dev.held, Returning)
    /\ BatchCurrent(drv.rx, dev.used, dev.ring)
    /\ cpu.at = "entries"
         => Distance(drv.rx.used, cpu.used_index) <= Distance(drv.rx.used, dev.used)
    /\ Carried(drv.rx.used, dev.used, dev.ring, mem.buffers, hist.arrived)
    /\ cpu.at = "copy" => /\ Consumed > 0
                          /\ mem.buffers[cpu.entry.descriptor] = Consumed
                          /\ hist.arrived[Consumed] = cpu.entry.length
    /\ Covered(hist.delivered, hist.arrived, IF cpu.at = "copy" THEN Consumed - 1 ELSE Consumed)

\* The transmit side while the device follows the protocol: the device is at
\* most one frame ahead of what the driver has taken note of.
TransmitInv ==
  ~dev.rogue =>
    /\ dev.tx_id = 0
    /\ drv.tx.phase = "Idle" => drv.tx.available = drv.tx.used
    /\ drv.tx.phase # "Idle" => drv.tx.available = Succ(drv.tx.used)
    /\ mem.tx_available \in {drv.tx.used, drv.tx.available}
    /\ cpu.at \in {"fill", "notify"} => mem.tx_available = drv.tx.used
    /\ cpu.at \in {"spin", "used"} => mem.tx_available = drv.tx.available
    /\ dev.tx_used = drv.tx.used => hist.sent = hist.reported
    /\ dev.tx_used # drv.tx.used =>
         /\ dev.tx_used = mem.tx_available
         /\ hist.sent = Append(hist.reported, mem.tx_buffer)

\* Every completion the driver has not seen is announced.
WakeInv ==
  /\ cpu.at \in Sending => cpu.observed <= flags.epoch
  /\ drv.stage = "ready" /\ ~Quarantined /\ ~dev.irq /\ ~dev.lost /\ ~dev.rogue =>
       /\ \/ Distance(drv.rx.used, dev.used) = Len(drv.rx.entries) - drv.rx.cursor
          \/ flags.pending \/ cpu.at = "index"
          \/ cpu.at = "entries" /\ cpu.used_index = dev.used
       /\ cpu.at \in {"fill", "notify", "spin"} /\ dev.tx_used # drv.tx.used
            => flags.epoch # cpu.observed

NetInv ==
  Types /\ BringupInv /\ DriverInv /\ ReceiveInv /\ TransmitInv /\ WakeInv
-----------------------------------------------------------------------------
(* The call in progress: which locals it has.                              *)

\* The fields of cpu at each point of a call.
LEMMA CpuFields ==
  ASSUME NEW c \in CpuType
  PROVE  /\ c.at \in {"idle", "index", "entries", "copy", "repost", "publish"} \cup Sending
         /\ c.at = "entries" => c.used_index \in Idx
         /\ c.at \in {"copy", "repost", "publish"} => c.entry \in Entries
         /\ c.at \in Sending => c.observed \in Nat
         /\ c.at \in {"spin", "used"} => c.spin \in Nat
BY DEF CpuType, Sending

\* A step of receive() moves on with its locals.
LEMMA CpuReturns ==
  ASSUME NEW c \in CpuType, c.at \in {"copy", "repost", "publish"}, NEW to
  PROVE  [c EXCEPT !.at = to] = [at |-> to, entry |-> c.entry]
<1>1. c \in [at : {"copy", "repost", "publish"}, entry : Entries]
  BY DEF CpuType
<1> QED
  BY <1>1

\* A step of transmit() moves on with its locals.
LEMMA CpuSends ==
  ASSUME NEW c \in CpuType, c.at = "fill"
  PROVE  [c EXCEPT !.at = "notify"] = [at |-> "notify", observed |-> c.observed]
<1>1. c \in [at : {"fill", "notify"}, observed : Nat]
  BY DEF CpuType
<1> QED
  BY <1>1

-----------------------------------------------------------------------------
(* What a step leaves alone.                                               *)

\* The receive side is not touched by a step outside receive() that leaves its
\* part of the state alone.
LEMMA ReceiveKept ==
  ASSUME ReceiveInv,
         drv'.stage = drv.stage, drv'.rx = drv.rx,
         mem'.ring = mem.ring, mem'.available = mem.available, mem'.buffers = mem.buffers,
         dev'.used = dev.used, dev'.seen = dev.seen, dev'.held = dev.held, dev'.ring = dev.ring,
         "FAILED" \in dev'.status => "FAILED" \in dev.status, dev'.rogue <=> dev.rogue,
         hist'.arrived = hist.arrived, hist'.delivered = hist.delivered,
         Returning' = Returning, cpu.at # "copy", cpu'.at # "copy",
         cpu'.at = "entries"
           => Distance(drv.rx.used, cpu'.used_index) <= Distance(drv.rx.used, dev.used)
  PROVE  ReceiveInv'
<1>1. Consumed' = Consumed
  BY DEF Consumed
<1> QED
  BY <1>1 DEF ReceiveInv

\* The transmit side is not touched by receive() or by its half of the device.
LEMMA TransmitKept ==
  ASSUME TransmitInv,
         drv'.tx = drv.tx, mem'.tx_available = mem.tx_available,
         mem'.tx_buffer = mem.tx_buffer, dev'.tx_used = dev.tx_used, dev'.tx_id = dev.tx_id,
         dev'.rogue <=> dev.rogue, hist'.sent = hist.sent, hist'.reported = hist.reported,
         \/ cpu'.at = cpu.at
         \/ cpu'.at \notin Sending
  PROVE  TransmitInv'
BY DEF TransmitInv, Sending

\* The stage of init() and what goes with it.
LEMMA BringupKept ==
  ASSUME BringupInv,
         drv'.stage = "ready", drv.stage = "ready", dev'.enabled = dev.enabled,
         "FEATURES_OK" \in dev.status => "FEATURES_OK" \in dev'.status
  PROVE  BringupInv'
BY DEF BringupInv, Bringup

-----------------------------------------------------------------------------
(* The frames of the wire, in the used ring and delivered.                 *)

\* The unread completions and the rest of the batch are where the device does
\* not write.
LEMMA EarlierSlots ==
  ASSUME NEW r \in Idx, NEW u \in Idx, Distance(r, u) < N, NEW i \in 0..(Distance(r, u) - 1)
  PROVE  Slot(r, i) \in Descriptors /\ Slot(r, i) # u % N
<1>1. Distance(r, u) \in Nat /\ r \in Nat /\ N \in Nat
  BY DistanceNat, Sizes DEF Idx
<1>2. i \in Nat /\ i \in 0..(N - 1) /\ Distance(r, u) \in 0..(N - 1) /\ i # Distance(r, u)
  BY <1>1
<1>3. Slot(r, i) # Slot(r, Distance(r, u))
  BY <1>1, <1>2, SlotInjective
<1> QED
  BY <1>1, <1>2, <1>3, SlotEnd, SlotType

\* A completion goes behind the unread ones and carries the newest frame.
LEMMA CarriedMore ==
  ASSUME NEW r \in Idx, NEW u \in Idx, Distance(r, u) < N,
         Distance(r, Succ(u)) = Distance(r, u) + 1,
         NEW ring, NEW more, NEW buffers, NEW written,
         NEW arrived \in Seq({"frame", "oversize"}), NEW length \in {"frame", "oversize"},
         NEW d,
         Carried(r, u, ring, buffers, arrived),
         d \notin Window(Ids(ring), r, Distance(r, u)),
         Window(Ids(ring), r, Distance(r, u)) \subseteq Descriptors,
         Written(more, ring, u % N, [descriptor |-> d, length |-> length]),
         Written(written, buffers, d, Len(arrived) + 1)
  PROVE  Carried(r, Succ(u), more, written, Append(arrived, length))
<1> DEFINE n == Distance(r, u)
           l == Len(arrived)
<1>0. /\ \A k \in Descriptors : k # u % N => more[k] = ring[k]
      /\ more[u % N] = [descriptor |-> d, length |-> length]
      /\ written[d] = Len(arrived) + 1
      /\ \A c \in Descriptors : c # d => written[c] = buffers[c]
  BY DEF Written
<1>1. n \in Nat /\ l \in Nat /\ n <= l
  BY DistanceNat DEF Carried
<1>2. /\ Len(Append(arrived, length)) = l + 1 /\ Append(arrived, length)[l + 1] = length
      /\ \A k \in 1..l : Append(arrived, length)[k] = arrived[k]
  OBVIOUS
<1>3. Slot(r, n) = u % N
  BY SlotEnd
<1>4. ASSUME NEW i \in 0..n
      PROVE  LET k == (l + 1) - (n + 1) + 1 + i
             IN /\ written[more[Slot(r, i)].descriptor] = k
                /\ Append(arrived, length)[k] = more[Slot(r, i)].length
  <2>1. CASE i = n
    <3>1. more[Slot(r, i)] = [descriptor |-> d, length |-> length]
      BY <1>0, <1>3, <2>1
    <3>2. (l + 1) - (n + 1) + 1 + i = l + 1
      BY <1>1, <2>1
    <3> QED
      BY <1>0, <1>2, <3>1, <3>2
  <2>2. CASE i # n
    <3>1. i \in 0..(n - 1)
      BY <1>1, <2>2
    <3>2. Slot(r, i) \in Descriptors /\ Slot(r, i) # u % N
      BY <3>1, EarlierSlots
    <3>3. more[Slot(r, i)] = ring[Slot(r, i)]
      BY <1>0, <3>2
    <3>4. ring[Slot(r, i)].descriptor # d /\ ring[Slot(r, i)].descriptor \in Descriptors
      BY <3>1, <3>2 DEF Window, Ids
    <3>5. /\ buffers[ring[Slot(r, i)].descriptor] = l - n + 1 + i
          /\ arrived[l - n + 1 + i] = ring[Slot(r, i)].length
      BY <3>1 DEF Carried
    <3>6. (l + 1) - (n + 1) + 1 + i = l - n + 1 + i /\ l - n + 1 + i \in 1..l
      BY <1>1, <3>1
    <3>7. written[ring[Slot(r, i)].descriptor] = l - n + 1 + i
      BY <1>0, <3>4, <3>5
    <3>8. Append(arrived, length)[l - n + 1 + i] = arrived[l - n + 1 + i]
      BY <1>2, <3>6
    <3> QED
      BY <3>3, <3>5, <3>6, <3>7, <3>8
  <2> QED
    BY <2>1, <2>2, Zenon
<1>5. n + 1 - 1 = n /\ n + 1 <= l + 1
  BY <1>1
<1>6. Distance(r, Succ(u)) = n + 1
  OBVIOUS
<1> DEFINE later == Append(arrived, length)
           k(i) == (l + 1) - (n + 1) + 1 + i
<1>7. Len(later) = l + 1 /\ \A i \in 0..n : /\ written[more[Slot(r, i)].descriptor] = k(i)
                                            /\ later[k(i)] = more[Slot(r, i)].length
  BY <1>2, <1>4, Zenon
<1>8. Carried(r, Succ(u), more, written, later) <=>
        /\ Distance(r, Succ(u)) <= Len(later)
        /\ \A i \in 0..(Distance(r, Succ(u)) - 1) :
              /\ written[more[Slot(r, i)].descriptor] = Len(later) - Distance(r, Succ(u)) + 1 + i
              /\ later[Len(later) - Distance(r, Succ(u)) + 1 + i] = more[Slot(r, i)].length
  BY DEF Carried
<1>9. Len(later) - Distance(r, Succ(u)) = (l + 1) - (n + 1) /\ Distance(r, Succ(u)) - 1 = n
  BY <1>1, <1>6, <1>7
<1>10. Distance(r, Succ(u)) <= Len(later)
  BY <1>5, <1>6, <1>7
<1> HIDE DEF n, l, later
<1>11. Carried(r, Succ(u), more, written, later)
  BY <1>7, <1>8, <1>9, <1>10
<1> QED
  BY <1>11 DEF later

\* Delivering the next frame, or dropping it when it is oversized.
LEMMA CoveredNext ==
  ASSUME NEW delivered \in Seq(Nat), NEW arrived \in Seq({"frame", "oversize"}), NEW k \in Nat,
         k > 0, Covered(delivered, arrived, k - 1)
  PROVE  /\ arrived[k] = "frame" => Covered(delivered \o <<k>>, arrived, k)
         /\ arrived[k] # "frame" => Covered(delivered, arrived, k)
<1>1. 1..k = 1..(k - 1) \cup {k}
  OBVIOUS
<1>2. Len(delivered) \in Nat /\ DOMAIN delivered = 1..Len(delivered)
  OBVIOUS
<1>3. ASSUME arrived[k] = "frame" PROVE Covered(delivered \o <<k>>, arrived, k)
  <2> DEFINE new == delivered \o <<k>>
  <2>1. /\ DOMAIN new = 1..(Len(delivered) + 1) /\ new[Len(delivered) + 1] = k
        /\ \A i \in 1..Len(delivered) : new[i] = delivered[i]
    BY <1>2
  <2>2. 1..(Len(delivered) + 1) = 1..Len(delivered) \cup {Len(delivered) + 1}
    BY <1>2
  <2> HIDE DEF new
  <2>3. \A i \in DOMAIN new : new[i] \in 1..k /\ arrived[new[i]] = "frame"
    BY <1>1, <1>2, <1>3, <2>1, <2>2 DEF Covered
  <2>4. \A i, j \in DOMAIN new : i < j => new[i] < new[j]
    <3>1. TAKE i, j \in DOMAIN new
    <3>2. HAVE i < j
    <3>3. i \in 1..Len(delivered)
      BY <1>2, <2>1, <3>2
    <3>4. CASE j \in 1..Len(delivered)
      BY <1>2, <2>1, <3>2, <3>3, <3>4 DEF Covered
    <3>5. CASE j = Len(delivered) + 1
      <4>1. new[i] \in 1..(k - 1) /\ new[j] = k
        BY <1>2, <2>1, <3>3, <3>5 DEF Covered
      <4> QED
        BY <4>1
    <3> QED
      BY <2>1, <2>2, <3>4, <3>5
  <2>5. \A m \in 1..k : arrived[m] = "frame" => \E j \in DOMAIN new : new[j] = m
    <3>1. TAKE m \in 1..k
    <3>2. HAVE arrived[m] = "frame"
    <3>3. CASE m = k
      BY <1>2, <2>1, <3>3, SMTT(20)
    <3>4. CASE m \in 1..(k - 1)
      <4>1. PICK j \in DOMAIN delivered : delivered[j] = m
        BY <3>2, <3>4 DEF Covered
      <4>2. j \in DOMAIN new /\ new[j] = m
        BY <1>2, <2>1, <4>1
      <4> QED
        BY <4>2
    <3> QED
      BY <1>1, <3>3, <3>4
  <2>6. Covered(new, arrived, k)
    BY <2>3, <2>4, <2>5 DEF Covered
  <2> QED
    BY <2>6 DEF new
<1>4. ASSUME arrived[k] # "frame" PROVE Covered(delivered, arrived, k)
  BY <1>1, <1>4 DEF Covered
<1> QED
  BY <1>3, <1>4

-----------------------------------------------------------------------------
(* receive(): taking a completion, and admitting what the ring holds.      *)

\* take() on the driver's side.
LEMMA TakeValid ==
  ASSUME NEW rx \in RxType, BatchValid(rx), rx.cursor < Len(rx.entries)
  PROVE  /\ take(rx) \in RxType
         /\ take(rx).used = Succ(rx.used) /\ take(rx).cursor = rx.cursor + 1
         /\ take(rx).entries = rx.entries /\ (take(rx).quarantined <=> rx.quarantined)
         /\ BatchValid(take(rx))
         /\ rx.entries[rx.cursor + 1] \in Entries
         /\ rx.entries[rx.cursor + 1].descriptor \in Descriptors
<1>1. rx.used \in Idx /\ rx.entries \in Seq(Entries) /\ rx.cursor \in Nat
  BY DEF RxType
<1>2. Succ(rx.used) \in Idx
  BY <1>1, SuccValue
<1>3. rx.cursor + 1 \in 1..Len(rx.entries)
  BY <1>1
<1>4. /\ take(rx).used = Succ(rx.used) /\ take(rx).cursor = rx.cursor + 1
      /\ take(rx).entries = rx.entries /\ (take(rx).quarantined <=> rx.quarantined)
  BY DEF take, RxType, Succ
<1>5. take(rx) \in RxType
  <2>1. (rx.used + 1) % W \in Idx /\ rx.cursor + 1 \in Nat
    BY <1>1, <1>2 DEF Succ
  <2> QED
    BY <2>1, Zenon DEF take, RxType
<1>6. BatchValid(take(rx))
  BY <1>3, <1>4 DEF BatchValid
<1> QED
  BY <1>1, <1>3, <1>4, <1>5, <1>6 DEF BatchValid

\* The entry taken is the oldest unread completion and its buffer holds the next
\* frame of the wire.
TakenWell(rx, u, s, a, ring, available, held, buffers, arrived) ==
  LET e == rx.entries[rx.cursor + 1]
      k == Len(arrived) - Distance(rx.used, u) + 1
  IN /\ Ownership(Succ(rx.used), u, s, a, Ids(ring), available, held, {e.descriptor})
     /\ Distance(Succ(rx.used), u) = Distance(rx.used, u) - 1
     /\ BatchCurrent(take(rx), u, ring)
     /\ Carried(Succ(rx.used), u, ring, buffers, arrived)
     /\ k > 0 /\ buffers[e.descriptor] = k /\ arrived[k] = e.length

\* take() against a device that follows the protocol.
LEMMA TakeReceives ==
  ASSUME NEW rx \in RxType, NEW u \in Idx, NEW s \in Idx, NEW a \in Idx,
         NEW ring \in [Descriptors -> Entries], NEW available, NEW held, NEW buffers,
         NEW arrived \in Seq({"frame", "oversize"}),
         rx.cursor < Len(rx.entries), BatchValid(rx),
         Ownership(rx.used, u, s, a, Ids(ring), available, held, {}),
         BatchCurrent(rx, u, ring), Carried(rx.used, u, ring, buffers, arrived)
  PROVE  TakenWell(rx, u, s, a, ring, available, held, buffers, arrived)
<1> DEFINE r == rx.used
           n == Distance(rx.used, u)
           e == rx.entries[rx.cursor + 1]
<1>1. r \in Idx /\ rx.entries \in Seq(Entries) /\ rx.cursor \in Nat /\ Len(arrived) \in Nat
  BY DEF RxType
<1>2. n \in Nat /\ n > 0 /\ Len(rx.entries) \in Nat
  <2>0. n \in Nat
    BY <1>1, DistanceNat, Zenon
  <2>1. Len(rx.entries) \in Nat
    BY <1>1
  <2>2. Len(rx.entries) - rx.cursor <= n
    BY DEF BatchCurrent
  <2> HIDE DEF n
  <2> QED
    BY <1>1, <2>0, <2>1, <2>2
<1>0. /\ Ownership(r, u, s, a, Ids(ring), available, held, {}) /\ n = Distance(r, u)
      /\ \A k \in 0..(Len(rx.entries) - rx.cursor - 1) :
            rx.entries[rx.cursor + 1 + k] = ring[Slot(r, k)]
      /\ Len(rx.entries) - rx.cursor <= n
      /\ n <= Len(arrived)
      /\ \A i \in 0..(n - 1) :
            /\ buffers[ring[Slot(r, i)].descriptor] = Len(arrived) - n + 1 + i
            /\ arrived[Len(arrived) - n + 1 + i] = ring[Slot(r, i)].length
      /\ e = rx.entries[rx.cursor + 1]
  BY DEF BatchCurrent, Carried
<1>a. take(rx).used = Succ(r) /\ take(rx).cursor = rx.cursor + 1 /\ take(rx).entries = rx.entries
  BY TakeValid
<1> HIDE DEF r, n, e
<1>3. e = ring[Slot(r, 0)]
  <2>1. rx.entries[rx.cursor + 1 + 0] = ring[Slot(r, 0)]
    BY <1>0, <1>1, <1>2
  <2> QED
    BY <1>0, <1>1, <2>1
<1>4. r % N = Slot(r, 0) /\ Slot(r, 0) \in Descriptors
  <2>1. r \in Nat
    BY <1>1, Sizes DEF Idx
  <2> QED
    BY <2>1, SlotType
<1>5. Ids(ring)[r % N] = e.descriptor
  BY <1>3, <1>4 DEF Ids
<1>6. /\ Ownership(Succ(r), u, s, a, Ids(ring), available, held, {e.descriptor})
      /\ Distance(Succ(r), u) = n - 1
      /\ Distance(Succ(r), a) = Distance(r, a) - 1
  <2> DEFINE ids == Ids(ring)
  <2>1. Distance(r, u) > 0 /\ n = Distance(r, u) /\ r \in Idx
    BY <1>0, <1>1, <1>2, Zenon
  <2>2. Ownership(r, u, s, a, ids, available, held, {}) /\ ids[r % N] = e.descriptor
    BY <1>0, <1>5, Zenon
  <2> HIDE DEF ids
  <2>3. /\ Ownership(Succ(r), u, s, a, ids, available, held, {ids[r % N]})
        /\ Distance(Succ(r), u) = Distance(r, u) - 1
        /\ Distance(Succ(r), a) = Distance(r, a) - 1
    BY <2>1, <2>2, OwnTake
  <2> QED
    BY <2>1, <2>2, <2>3, Zenon DEF ids
<1>7. BatchCurrent(take(rx), u, ring)
  <2>2. Len(rx.entries) - (rx.cursor + 1) <= n - 1
    BY <1>0, <1>1, <1>2
  <2>3. ASSUME NEW k \in 0..(Len(rx.entries) - (rx.cursor + 1) - 1)
        PROVE  rx.entries[(rx.cursor + 1) + 1 + k] = ring[Slot(Succ(r), k)]
    <3>1. k + 1 \in 0..(Len(rx.entries) - rx.cursor - 1)
      BY <1>1, <1>2
    <3>2. rx.entries[rx.cursor + 1 + (k + 1)] = ring[Slot(r, k + 1)]
      BY <1>0, <3>1
    <3>3. Slot(Succ(r), k) = Slot(r, k + 1)
      BY <1>1, SlotSucc
    <3>4. rx.cursor + 1 + (k + 1) = (rx.cursor + 1) + 1 + k
      BY <1>1
    <3> QED
      BY <3>2, <3>3, <3>4
  <2> QED
    BY <1>a, <1>6, <2>2, <2>3 DEF BatchCurrent
<1>8. Carried(Succ(r), u, ring, buffers, arrived)
  <2>1. n - 1 <= Len(arrived)
    BY <1>0, <1>1, <1>2
  <2>2. ASSUME NEW i \in 0..(n - 1 - 1)
        PROVE  LET k == Len(arrived) - (n - 1) + 1 + i
               IN /\ buffers[ring[Slot(Succ(r), i)].descriptor] = k
                  /\ arrived[k] = ring[Slot(Succ(r), i)].length
    <3>1. i + 1 \in 0..(n - 1) /\ Slot(Succ(r), i) = Slot(r, i + 1)
      BY <1>1, <1>2, SlotSucc
    <3>2. Len(arrived) - (n - 1) + 1 + i = Len(arrived) - n + 1 + (i + 1)
      BY <1>1, <1>2
    <3> QED
      BY <1>0, <3>1, <3>2
  <2> QED
    BY <1>6, <2>1, <2>2 DEF Carried
<1>9. LET k == Len(arrived) - n + 1
      IN k > 0 /\ buffers[e.descriptor] = k /\ arrived[k] = e.length
  <2>1. 0 \in 0..(n - 1) /\ Len(arrived) - n + 1 + 0 = Len(arrived) - n + 1 /\ n <= Len(arrived)
    BY <1>0, <1>1, <1>2
  <2> QED
    BY <1>0, <1>1, <1>2, <1>3, <2>1
<1> QED
  BY <1>6, <1>7, <1>8, <1>9 DEF r, n, e, TakenWell

\* The entries copied out of the used ring.
LEMMA SnapshotEntries ==
  ASSUME NEW from \in Idx, NEW to \in Idx, dev \in DevType
  PROVE  /\ Snapshot(from, to) \in Seq(Entries)
         /\ Len(Snapshot(from, to)) = Distance(from, to)
         /\ \A i \in 1..Distance(from, to) : Snapshot(from, to)[i] = dev.ring[Slot(from, i - 1)]
<1>1. Distance(from, to) \in Nat /\ from \in Nat
  BY DistanceNat, Sizes DEF Idx
<1>2. dev.ring \in [Descriptors -> Entries]
  BY DEF DevType
<1>3. \A i \in 1..Distance(from, to) : (from + i - 1) % N = Slot(from, i - 1)
  BY <1>1 DEF Slot
<1>4. \A i \in 1..Distance(from, to) : Slot(from, i - 1) \in Descriptors
  BY <1>1, SlotType
<1>5. \A i \in 1..Distance(from, to) : dev.ring[(from + i - 1) % N] \in Entries
  BY <1>2, <1>3, <1>4
<1>6. Snapshot(from, to) \in [1..Distance(from, to) -> Entries]
  BY <1>5 DEF Snapshot
<1>7. Snapshot(from, to) \in Seq(Entries)
  BY <1>1, <1>6
<1>8. Len(Snapshot(from, to)) = Distance(from, to)
  BY <1>1, <1>6, <1>7
<1>9. \A i \in 1..Distance(from, to) : Snapshot(from, to)[i] = dev.ring[Slot(from, i - 1)]
  BY <1>3 DEF Snapshot
<1> QED
  BY <1>7, <1>8, <1>9

\* A batch that is admitted is valid.
LEMMA AdmitValid ==
  ASSUME NEW rx \in RxType, NEW end, NEW entries \in Seq(Entries), ~rx.quarantined,
         Valid(rx, end, entries)
  PROVE  /\ admit(rx, end, entries) \in RxType
         /\ admit(rx, end, entries).used = rx.used /\ ~admit(rx, end, entries).quarantined
         /\ admit(rx, end, entries).entries = entries /\ admit(rx, end, entries).cursor = 0
         /\ BatchValid(admit(rx, end, entries))
<1>1. admit(rx, end, entries) = [rx EXCEPT !.entries = entries, !.cursor = 0]
  BY DEF admit
<1>2. /\ admit(rx, end, entries) \in RxType
      /\ admit(rx, end, entries).used = rx.used /\ ~admit(rx, end, entries).quarantined
      /\ admit(rx, end, entries).entries = entries /\ admit(rx, end, entries).cursor = 0
  <2>1. admit(rx, end, entries) \in RxType
    <3>1. rx.quarantined \in BOOLEAN /\ rx.used \in Idx
      BY DEF RxType
    <3>2. admit(rx, end, entries)
            = [used |-> rx.used, entries |-> entries, cursor |-> 0, quarantined |-> rx.quarantined]
      BY <1>1, Zenon DEF RxType
    <3> QED
      BY <3>1, <3>2 DEF RxType
  <2>2. admit(rx, end, entries).used = rx.used /\ ~admit(rx, end, entries).quarantined
    BY <1>1 DEF RxType
  <2>3. admit(rx, end, entries).entries = entries /\ admit(rx, end, entries).cursor = 0
    BY <1>1 DEF RxType
  <2> QED
    BY <2>1, <2>2, <2>3
<1>3. BatchValid(admit(rx, end, entries))
  BY <1>2 DEF BatchValid, Valid
<1> QED
  BY <1>2, <1>3

\* One that is not quarantines the queue and keeps the batch there was.
LEMMA AdmitInvalid ==
  ASSUME NEW rx \in RxType, NEW end, NEW entries, BatchValid(rx), ~Valid(rx, end, entries)
  PROVE  /\ admit(rx, end, entries) \in RxType
         /\ admit(rx, end, entries).used = rx.used /\ admit(rx, end, entries).quarantined
         /\ BatchValid(admit(rx, end, entries))
<1>1. admit(rx, end, entries) = [rx EXCEPT !.quarantined = TRUE]
  BY DEF admit
<1>2. /\ admit(rx, end, entries) \in RxType
      /\ admit(rx, end, entries).used = rx.used /\ admit(rx, end, entries).quarantined
      /\ admit(rx, end, entries).entries = rx.entries
      /\ admit(rx, end, entries).cursor = rx.cursor
  BY <1>1, Zenon DEF RxType
<1> QED
  BY <1>2 DEF BatchValid
=============================================================================
