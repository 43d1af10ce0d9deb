---------------------------- MODULE LockOrderProofs ----------------------------
(***************************************************************************)
(* Proofs about LockOrder, for any threads and any mixture of operations.  *)
(*                                                                         *)
(* The locks have an order: unloadUeventMutex_ and cryptVolMutex_ before   *)
(* partitionLock_, that before diskMapMutex_, that before volumeMapMutex_. *)
(* Every operation but Format takes a lock only while it holds none of its *)
(* rank or a higher one.                                                   *)
(***************************************************************************)
EXTENDS LockOrder, Integers, SequenceTheorems, TLAPS

-----------------------------------------------------------------------------
(* Programs that keep the order *)

Rank(l) ==
    CASE l = "unload"    -> 1
      [] l = "crypt"     -> 1
      [] l = "partition" -> 2
      [] l = "disk"      -> 3
      [] l = "volume"    -> 4

Kind == {"shared", "mark", "own", "unshare", "disown"}
Entry == Kind \X Lock

Takes(e) == e[1] \in {"shared", "mark", "own"}

(* From position a on, the next thing p does with lock m, other than       *)
(* waiting for its readers, is k.  For k = "unshare" or "disown" that      *)
(* tells that m is held there.                                             *)
Quiet(p, a, b, m) == \A i \in a..b : p[i][2] = m => p[i][1] = "own"
NextIs(p, a, k, m) == \E b \in a..Len(p) : p[b] = <<k, m>> /\ Quiet(p, a, b - 1, m)

(* From position a on, p takes locks above those that it holds only, and   *)
(* gives back what it takes.                                               *)
Ordered(p, a) ==
    \A i \in a..Len(p), m \in Lock : Takes(p[i]) =>
        /\ NextIs(p, i, "unshare", m) => Rank(m) < Rank(p[i][2])
        /\ NextIs(p, i, "disown", m) => Rank(m) < Rank(p[i][2]) \/ p[i] = <<"own", m>>

Paired(p, a) ==
    \A i \in a..Len(p) :
        /\ p[i][1] = "shared" => NextIs(p, i + 1, "unshare", p[i][2])
        /\ p[i][1] = "mark" => NextIs(p, i + 1, "disown", p[i][2])

(* A program that begins with nothing held.                                *)
HoldsNothing(p, a) ==
    \A m \in Lock : ~NextIs(p, a, "unshare", m) /\ ~NextIs(p, a, "disown", m)

(* A whole program, or a part of one, with locks of rank above n only.     *)
Good(p, n) ==
    /\ p \in Seq(Entry)
    /\ Ordered(p, 1) /\ Paired(p, 1) /\ HoldsNothing(p, 1)
    /\ \A i \in 1..Len(p) : Rank(p[i][2]) > n

(* The ranks are from 1 to 4.                                              *)
LEMMA RankType ==
    ASSUME NEW l \in Lock
    PROVE  Rank(l) \in 1..4
BY DEF Rank, Lock

(* What p does next after position a, p does next in p \o q, and the other *)
(* way round unless q begins with a lock held.                             *)
LEMMA NextIsConcat ==
    ASSUME NEW p \in Seq(Entry), NEW q \in Seq(Entry), NEW k, NEW m, NEW a \in Nat \ {0}
    PROVE  /\ NextIs(p, a, k, m) => NextIs(p \o q, a, k, m)
           /\ a <= Len(p) /\ NextIs(p \o q, a, k, m) => NextIs(p, a, k, m) \/ NextIs(q, 1, k, m)
           /\ a > Len(p) => (NextIs(p \o q, a, k, m) <=> NextIs(q, a - Len(p), k, m))
<1> DEFINE r == p \o q
           n == Len(p)
<1>1. /\ r \in Seq(Entry) /\ n \in Nat /\ Len(q) \in Nat /\ Len(r) = n + Len(q)
      /\ \A i \in 1..n : r[i] = p[i]
      /\ \A i \in 1..Len(q) : r[n + i] = q[i]
  BY ConcatProperties
<1> HIDE DEF r, n
<1>2. ASSUME NextIs(p, a, k, m)
      PROVE  NextIs(r, a, k, m)
  <2>1. PICK b \in a..n : p[b] = <<k, m>> /\ Quiet(p, a, b - 1, m)
    BY <1>2 DEF NextIs, n
  <2>2. b \in a..Len(r) /\ r[b] = <<k, m>>
    BY <1>1, <2>1
  <2>3. Quiet(r, a, b - 1, m)
    <3> SUFFICES ASSUME NEW i \in a..(b - 1), r[i][2] = m
                 PROVE  r[i][1] = "own"
      BY DEF Quiet
    <3>1. i \in 1..n
      BY <1>1, <2>1
    <3> QED BY <1>1, <2>1, <3>1 DEF Quiet
  <2> QED BY <2>2, <2>3 DEF NextIs
<1>3. ASSUME a <= n, NextIs(r, a, k, m)
      PROVE  NextIs(p, a, k, m) \/ NextIs(q, 1, k, m)
  <2>1. PICK b \in a..Len(r) : r[b] = <<k, m>> /\ Quiet(r, a, b - 1, m)
    BY <1>3 DEF NextIs
  <2>2. CASE b <= n
    <3>1. p[b] = <<k, m>> /\ b \in a..n
      BY <1>1, <2>1, <2>2
    <3>2. Quiet(p, a, b - 1, m)
      BY <1>1, <2>1, <2>2 DEF Quiet
    <3> QED BY <3>1, <3>2 DEF NextIs, n
  <2>3. CASE b > n
    <3>1. q[b - n] = <<k, m>> /\ b - n \in 1..Len(q)
      <4>1. b - n \in 1..Len(q) /\ b = n + (b - n)
        BY <1>1, <2>1, <2>3
      <4> QED BY <1>1, <2>1, <4>1
    <3>2. Quiet(q, 1, b - n - 1, m)
      <4> SUFFICES ASSUME NEW i \in 1..(b - n - 1), q[i][2] = m
                   PROVE  q[i][1] = "own"
        BY DEF Quiet
      <4>1. n + i \in a..(b - 1) /\ r[n + i] = q[i]
        BY <1>1, <1>3, <2>1, <3>1
      <4> QED BY <2>1, <4>1 DEF Quiet
    <3> QED BY <3>1, <3>2 DEF NextIs
  <2> QED BY <1>1, <2>1, <2>2, <2>3
<1>4. ASSUME a > n, NextIs(r, a, k, m)
      PROVE  NextIs(q, a - n, k, m)
  <2>1. PICK b \in a..Len(r) : r[b] = <<k, m>> /\ Quiet(r, a, b - 1, m)
    BY <1>4 DEF NextIs
  <2>2. b - n \in (a - n)..Len(q) /\ r[n + (b - n)] = q[b - n] /\ n + (b - n) = b
    <3>1. b - n \in (a - n)..Len(q) /\ b - n \in 1..Len(q) /\ n + (b - n) = b
      BY <1>1, <1>4, <2>1
    <3> QED BY <1>1, <3>1
  <2>3. Quiet(q, a - n, b - n - 1, m)
    <3> SUFFICES ASSUME NEW i \in (a - n)..(b - n - 1), q[i][2] = m
                 PROVE  q[i][1] = "own"
      BY DEF Quiet
    <3>1. n + i \in a..(b - 1) /\ i \in 1..Len(q)
      BY <1>1, <1>4, <2>1, <2>2
    <3> QED BY <1>1, <2>1, <3>1 DEF Quiet
  <2> QED BY <2>1, <2>2, <2>3 DEF NextIs
<1>5. ASSUME a > n, NextIs(q, a - n, k, m)
      PROVE  NextIs(r, a, k, m)
  <2>1. PICK b \in (a - n)..Len(q) : q[b] = <<k, m>> /\ Quiet(q, a - n, b - 1, m)
    BY <1>5 DEF NextIs
  <2>2. n + b \in a..Len(r) /\ r[n + b] = q[b]
    BY <1>1, <1>5, <2>1
  <2>3. Quiet(r, a, (n + b) - 1, m)
    <3> SUFFICES ASSUME NEW i \in a..((n + b) - 1), r[i][2] = m
                 PROVE  r[i][1] = "own"
      BY DEF Quiet
    <3>0. n \in Nat /\ Len(q) \in Nat /\ a > n /\ a \in Nat /\ b \in Int /\ b <= Len(q)
      BY <1>1, <1>5
    <3>1. i - n \in (a - n)..(b - 1) /\ i - n \in 1..Len(q) /\ n + (i - n) = i
      <4>1. i \in Int /\ i >= a /\ i <= (n + b) - 1
        BY <3>0
      <4>2. i - n >= a - n /\ i - n <= b - 1 /\ i - n >= 1 /\ i - n <= Len(q)
        BY <3>0, <4>1
      <4> QED BY <3>0, <4>1, <4>2
    <3>2. r[i] = q[i - n]
      BY <1>1, <3>1
    <3> QED BY <2>1, <3>1, <3>2 DEF Quiet
  <2> QED BY <2>1, <2>2, <2>3 DEF NextIs
<1> QED BY <1>2, <1>3, <1>4, <1>5 DEF r, n

(* A whole program after another that keeps the order from a on.           *)
LEMMA OrderedConcat ==
    ASSUME NEW n, NEW p \in Seq(Entry), NEW q, Good(q, n), NEW a \in 1..(Len(p) + 1),
           Ordered(p, a), Paired(p, a)
    PROVE  /\ p \o q \in Seq(Entry) /\ Len(p \o q) = Len(p) + Len(q)
           /\ \A i \in 1..Len(p) : (p \o q)[i] = p[i]
           /\ Ordered(p \o q, a) /\ Paired(p \o q, a)
<1> DEFINE r == p \o q
<1>0. q \in Seq(Entry)
  BY DEF Good
<1>1. /\ r \in Seq(Entry) /\ Len(p) \in Nat /\ Len(q) \in Nat /\ Len(r) = Len(p) + Len(q)
      /\ \A i \in 1..Len(p) : r[i] = p[i]
      /\ \A i \in 1..Len(q) : r[Len(p) + i] = q[i]
  BY <1>0, ConcatProperties
<1>2. ASSUME NEW k, NEW m, NEW i \in 1..Len(p), NextIs(r, i, k, m), ~NextIs(q, 1, k, m)
      PROVE  NextIs(p, i, k, m)
  BY <1>0, <1>1, <1>2, NextIsConcat
<1>3. ASSUME NEW k, NEW m, NEW i \in 1..Len(q)
      PROVE  NextIs(r, Len(p) + i, k, m) <=> NextIs(q, i, k, m)
  <2>1. Len(p) + i > Len(p) /\ Len(p) + i \in Nat \ {0} /\ (Len(p) + i) - Len(p) = i
    BY <1>1
  <2> QED BY <1>0, <2>1, NextIsConcat
<1>4. ASSUME NEW k, NEW m, NEW i \in Nat \ {0}, NextIs(p, i, k, m)
      PROVE  NextIs(r, i, k, m)
  BY <1>0, <1>4, NextIsConcat
<1> HIDE DEF r
<1>5. ASSUME NEW i \in a..Len(r), i \notin a..Len(p)
      PROVE  \E j \in 1..Len(q) : i = Len(p) + j /\ r[i] = q[j]
  <2>1. i - Len(p) \in 1..Len(q) /\ i = Len(p) + (i - Len(p))
    BY <1>1, <1>5
  <2> QED BY <1>1, <2>1
<1>6. a..Len(p) \subseteq 1..Len(p)
  BY <1>1
<1>7. Ordered(r, a)
  <2> SUFFICES ASSUME NEW i \in a..Len(r), NEW m \in Lock, Takes(r[i])
               PROVE  /\ NextIs(r, i, "unshare", m) => Rank(m) < Rank(r[i][2])
                      /\ NextIs(r, i, "disown", m)
                            => Rank(m) < Rank(r[i][2]) \/ r[i] = <<"own", m>>
    BY DEF Ordered
  <2>1. CASE i \in a..Len(p)
    BY <1>1, <1>2, <1>6, <2>1 DEF Good, Ordered, HoldsNothing
  <2>2. CASE i \notin a..Len(p)
    BY <1>3, <1>5, <2>2 DEF Good, Ordered
  <2> QED BY <2>1, <2>2
<1>8. Paired(r, a)
  <2> SUFFICES ASSUME NEW i \in a..Len(r)
               PROVE  /\ r[i][1] = "shared" => NextIs(r, i + 1, "unshare", r[i][2])
                      /\ r[i][1] = "mark" => NextIs(r, i + 1, "disown", r[i][2])
    BY DEF Paired
  <2>1. CASE i \in a..Len(p)
    <3>1. i + 1 \in Nat \ {0}
      BY <1>1
    <3> QED BY <1>1, <1>4, <1>6, <2>1, <3>1 DEF Paired
  <2>2. CASE i \notin a..Len(p)
    <3>1. PICK j \in 1..Len(q) : i = Len(p) + j /\ r[i] = q[j]
      BY <1>5, <2>2
    <3>2. ASSUME NEW k, NEW m, NextIs(q, j + 1, k, m)
          PROVE  NextIs(r, i + 1, k, m)
      <4>1. j + 1 \in 1..Len(q) /\ i + 1 = Len(p) + (j + 1)
        BY <1>1, <3>1, <3>2 DEF NextIs
      <4> QED BY <1>3, <3>2, <4>1
    <3> QED BY <3>1, <3>2 DEF Good, Paired
  <2> QED BY <2>1, <2>2
<1> QED BY <1>1, <1>7, <1>8 DEF r

(* Programs one after the other.                                           *)
LEMMA GoodConcat ==
    ASSUME NEW n \in Nat, NEW p, NEW q, Good(p, n), Good(q, n)
    PROVE  Good(p \o q, n)
<1> DEFINE r == p \o q
<1>0. p \in Seq(Entry) /\ q \in Seq(Entry) /\ Ordered(p, 1) /\ Paired(p, 1) /\ 1 \in 1..(Len(p) + 1)
  BY DEF Good
<1>1. r \in Seq(Entry) /\ Ordered(r, 1) /\ Paired(r, 1)
  BY <1>0, OrderedConcat
<1>2. HoldsNothing(r, 1)
  <2> SUFFICES ASSUME NEW m \in Lock, NEW k \in {"unshare", "disown"}, NextIs(r, 1, k, m)
               PROVE  FALSE
    BY DEF HoldsNothing
  <2>1. ~NextIs(p, 1, k, m) /\ ~NextIs(q, 1, k, m)
    BY DEF Good, HoldsNothing
  <2>2. Len(p) \in Nat /\ 1 - 0 = 1
    BY <1>0
  <2>3. CASE Len(p) = 0
    BY <1>0, <2>1, <2>2, <2>3, NextIsConcat
  <2>4. CASE Len(p) # 0
    <3>1. 1 <= Len(p)
      BY <2>2, <2>4
    <3> QED BY <1>0, <2>1, <3>1, NextIsConcat
  <2> QED BY <2>3, <2>4
<1>3. \A i \in 1..Len(r) : Rank(r[i][2]) > n
  <2>1. \A i \in 1..(Len(p) + Len(q)) : r[i] = IF i <= Len(p) THEN p[i] ELSE q[i - Len(p)]
    BY <1>0, ConcatProperties
  <2>2. Len(r) = Len(p) + Len(q) /\ Len(p) \in Nat /\ Len(q) \in Nat
    BY <1>0, ConcatProperties
  <2> HIDE DEF r
  <2> SUFFICES ASSUME NEW i \in 1..(Len(p) + Len(q))
               PROVE  Rank(r[i][2]) > n
    BY <2>2
  <2>3. CASE i <= Len(p)
    BY <2>1, <2>2, <2>3 DEF Good
  <2>4. CASE ~(i <= Len(p))
    <3>1. i - Len(p) \in 1..Len(q)
      BY <2>2, <2>4
    <3> QED BY <2>1, <2>4, <3>1 DEF Good
  <2> QED BY <2>3, <2>4
<1> QED BY <1>1, <1>2, <1>3 DEF Good

(* A program with locks above n is one with locks above m <= n.            *)
LEMMA GoodAbove ==
    ASSUME NEW n \in Nat, NEW p, Good(p, n), NEW m \in Nat, m <= n
    PROVE  Good(p, m)
<1>1. \A i \in 1..Len(p) : p[i][2] \in Lock
  <2> SUFFICES ASSUME NEW i \in 1..Len(p)
               PROVE  p[i][2] \in Lock
    OBVIOUS
  <2>1. p[i] \in Entry
    BY DEF Good
  <2> QED BY <2>1 DEF Entry
<1>2. \A i \in 1..Len(p) : Rank(p[i][2]) \in Nat /\ Rank(p[i][2]) > n
  BY <1>1, RankType DEF Good
<1> QED BY <1>2 DEF Good

(* r is a section of lock l around body: d entries take the lock, and the  *)
(* last one, of kind e, gives it back.                                     *)
Section(r, l, body, d, e) ==
    /\ r \in Seq(Entry) /\ d \in 1..2
    /\ Len(r) = Len(body) + d + 1 /\ r[Len(body) + d + 1] = <<e, l>>
    /\ \A i \in 1..Len(body) : r[i + d] = body[i]
    /\ \/ d = 1 /\ r[1] = <<"shared", l>> /\ e = "unshare"
       \/ d = 2 /\ r[1] = <<"mark", l>> /\ r[2] = <<"own", l>> /\ e = "disown"

(* A section of a lock around a program with higher locks.                 *)
LEMMA GoodSection ==
    ASSUME NEW l \in Lock, NEW body, Good(body, Rank(l)), NEW n \in Nat, n < Rank(l),
           NEW r, NEW d, NEW e, Section(r, l, body, d, e)
    PROVE  Good(r, n)
<1> DEFINE c == Len(body)
<1>0. /\ r \in Seq(Entry) /\ d \in 1..2 /\ Len(r) = c + d + 1 /\ r[c + d + 1] = <<e, l>>
      /\ \A i \in 1..c : r[i + d] = body[i]
      /\ \/ d = 1 /\ r[1] = <<"shared", l>> /\ e = "unshare"
         \/ d = 2 /\ r[1] = <<"mark", l>> /\ r[2] = <<"own", l>> /\ e = "disown"
  BY DEF Section
<1>1. c \in Nat /\ \A i \in 1..c : body[i] \in Entry
  BY DEF Good
<1> HIDE DEF c
<1> USE <1>0
<1>2. \A i \in 1..c : body[i][2] \in Lock /\ Rank(body[i][2]) > Rank(l) /\ body[i][2] # l
  <2>1. \A i \in 1..c : Rank(body[i][2]) > Rank(l)
    BY DEF Good, c
  <2>2. ~(Rank(l) > Rank(l))
    BY RankType
  <2> QED BY <1>1, <2>1, <2>2 DEF Entry
<1>3. ASSUME NEW i \in 1..(c + d + 1)
      PROVE  i = 1 \/ (d = 2 /\ i = 2) \/ i = c + d + 1 \/ \E j \in 1..c : i = j + d
  <2>1. i = 1 \/ (d = 2 /\ i = 2) \/ i = c + d + 1 \/ (i - d \in 1..c /\ i = (i - d) + d)
    BY <1>1
  <2> QED BY <2>1
<1>4. ASSUME NEW m \in Lock, NEW k \in {"unshare", "disown"}, NEW j \in 1..c,
             NextIs(r, j + d, k, m)
      PROVE  (m = l /\ k = e) \/ NextIs(body, j, k, m)
  <2>1. PICK b \in (j + d)..(c + d + 1) : r[b] = <<k, m>> /\ Quiet(r, j + d, b - 1, m)
    BY <1>4 DEF NextIs
  <2>2. CASE b = c + d + 1
    BY <2>1, <2>2
  <2>3. CASE b # c + d + 1
    <3>1. b - d \in j..c /\ b - d \in 1..c /\ (b - d) + d = b
      BY <1>1, <2>1, <2>3
    <3>2. body[b - d] = <<k, m>>
      BY <2>1, <3>1
    <3>3. Quiet(body, j, (b - d) - 1, m)
      <4> SUFFICES ASSUME NEW i \in j..((b - d) - 1), body[i][2] = m
                   PROVE  body[i][1] = "own"
        BY DEF Quiet
      <4>1. i + d \in (j + d)..(b - 1) /\ i \in 1..c
        BY <1>1, <2>1, <3>1
      <4> QED BY <2>1, <4>1 DEF Quiet
    <3> QED BY <3>1, <3>2, <3>3 DEF NextIs, c
  <2> QED BY <2>2, <2>3
<1>5. ASSUME NEW m \in Lock, NEW k \in {"unshare", "disown"}, NextIs(r, d + 1, k, m)
      PROVE  m = l /\ k = e
  <2>1. CASE c = 0
    <3>1. PICK b \in (d + 1)..(c + d + 1) : r[b] = <<k, m>>
      BY <1>5 DEF NextIs
    <3>2. b = c + d + 1
      BY <2>1, <3>1
    <3> QED BY <3>1, <3>2
  <2>2. CASE c # 0
    <3>1. 1 \in 1..c /\ 1 + d = d + 1
      BY <1>1, <2>2
    <3>2. ~NextIs(body, 1, k, m)
      BY DEF Good, HoldsNothing
    <3>3. NextIs(r, 1 + d, k, m)
      BY <1>5, <3>1
    <3> QED BY <1>4, <3>1, <3>2, <3>3
  <2> QED BY <2>1, <2>2
<1>6. ASSUME NEW m \in Lock, NEW k \in {"unshare", "disown"}, NEW a \in 1..d, NextIs(r, a, k, m)
      PROVE  a = 2 /\ m = l /\ k = e
  <2>1. PICK b \in a..(c + d + 1) : r[b] = <<k, m>> /\ Quiet(r, a, b - 1, m)
    BY <1>6 DEF NextIs
  <2>2. b # 1 /\ (d = 2 => b # 2)
    BY <2>1
  <2>3. b \in (d + 1)..Len(r) /\ Quiet(r, d + 1, b - 1, m) /\ a \in a..(b - 1)
    BY <1>1, <2>1, <2>2 DEF Quiet
  <2>4. NextIs(r, d + 1, k, m)
    BY <2>1, <2>3 DEF NextIs
  <2>5. m = l /\ k = e
    BY <1>5, <2>4
  <2>6. r[a][2] = m => r[a][1] = "own"
    BY <2>1, <2>3 DEF Quiet
  <2> QED BY <2>5, <2>6
<1>7. Ordered(r, 1)
  <2> SUFFICES ASSUME NEW i \in 1..(c + d + 1), NEW m \in Lock, Takes(r[i])
               PROVE  /\ NextIs(r, i, "unshare", m) => Rank(m) < Rank(r[i][2])
                      /\ NextIs(r, i, "disown", m)
                            => Rank(m) < Rank(r[i][2]) \/ r[i] = <<"own", m>>
    BY DEF Ordered
  <2>1. CASE i = 1
    <3>1. 1 \in 1..d
      OBVIOUS
    <3> QED BY <1>6, <2>1, <3>1
  <2>2. CASE d = 2 /\ i = 2
    <3>1. 2 \in 1..d
      BY <2>2
    <3> QED BY <1>6, <2>2, <3>1
  <2>3. CASE i = c + d + 1
    BY <2>3 DEF Takes
  <2>4. ASSUME NEW j \in 1..c, i = j + d
        PROVE  /\ NextIs(r, i, "unshare", m) => Rank(m) < Rank(r[i][2])
               /\ NextIs(r, i, "disown", m) => Rank(m) < Rank(r[i][2]) \/ r[i] = <<"own", m>>
    <3>1. r[i] = body[j] /\ Rank(l) < Rank(r[i][2])
      <4>1. r[i] = body[j] /\ Rank(body[j][2]) > Rank(l) /\ body[j][2] \in Lock
        BY <1>2, <2>4
      <4> QED BY <4>1, RankType
    <3>2. /\ NextIs(body, j, "unshare", m) => Rank(m) < Rank(body[j][2])
          /\ NextIs(body, j, "disown", m) => Rank(m) < Rank(body[j][2]) \/ body[j] = <<"own", m>>
      BY <3>1 DEF Good, Ordered, c
    <3> QED BY <1>4, <2>4, <3>1, <3>2
  <2> QED BY <1>3, <2>1, <2>2, <2>3, <2>4
<1>8. Paired(r, 1)
  <2> SUFFICES ASSUME NEW i \in 1..(c + d + 1)
               PROVE  /\ r[i][1] = "shared" => NextIs(r, i + 1, "unshare", r[i][2])
                      /\ r[i][1] = "mark" => NextIs(r, i + 1, "disown", r[i][2])
    BY DEF Paired
  <2>1. CASE i = 1
    <3>1. Quiet(r, 2, (c + d + 1) - 1, l)
      <4> SUFFICES ASSUME NEW x \in 2..(c + d)
                   PROVE  r[x][2] = l => r[x][1] = "own"
        BY <1>1 DEF Quiet
      <4>1. (d = 2 /\ x = 2) \/ (x - d \in 1..c /\ (x - d) + d = x)
        BY <1>1
      <4>2. CASE d = 2 /\ x = 2
        BY <4>2
      <4>3. CASE x - d \in 1..c /\ (x - d) + d = x
        <5>1. r[x] = body[x - d]
          BY <4>3
        <5> QED BY <1>2, <4>3, <5>1
      <4> QED BY <4>1, <4>2, <4>3
    <3>2. c + d + 1 \in 2..Len(r)
      BY <1>1
    <3>3. NextIs(r, 2, e, l)
      BY <3>1, <3>2 DEF NextIs
    <3> QED BY <2>1, <3>3
  <2>2. CASE (d = 2 /\ i = 2) \/ i = c + d + 1
    BY <2>2
  <2>3. ASSUME NEW j \in 1..c, i = j + d
        PROVE  /\ r[i][1] = "shared" => NextIs(r, i + 1, "unshare", r[i][2])
               /\ r[i][1] = "mark" => NextIs(r, i + 1, "disown", r[i][2])
    <3>1. r[i] = body[j] /\ j \in Nat
      BY <1>1, <2>3
    <3>2. ASSUME NEW k, NEW m, NextIs(body, j + 1, k, m)
          PROVE  NextIs(r, i + 1, k, m)
      <4>1. PICK b \in (j + 1)..c : body[b] = <<k, m>> /\ Quiet(body, j + 1, b - 1, m)
        BY <3>2 DEF NextIs, c
      <4>2. b + d \in (i + 1)..Len(r) /\ r[b + d] = <<k, m>>
        BY <1>1, <2>3, <4>1
      <4>3. Quiet(r, i + 1, (b + d) - 1, m)
        <5> SUFFICES ASSUME NEW x \in (i + 1)..((b + d) - 1), r[x][2] = m
                     PROVE  r[x][1] = "own"
          BY DEF Quiet
        <5>1. x - d \in (j + 1)..(b - 1) /\ x - d \in 1..c /\ (x - d) + d = x
          BY <1>1, <2>3, <4>1
        <5>2. r[x] = body[x - d]
          BY <5>1
        <5> QED BY <4>1, <5>1, <5>2 DEF Quiet
      <4> QED BY <4>2, <4>3 DEF NextIs
    <3> QED BY <3>1, <3>2 DEF Good, Paired, c
  <2> QED BY <1>3, <2>1, <2>2, <2>3
<1>9. HoldsNothing(r, 1)
  <2>1. 1 \in 1..d
    OBVIOUS
  <2> QED BY <1>6, <2>1 DEF HoldsNothing
<1>10. \A i \in 1..Len(r) : Rank(r[i][2]) > n
  <2> SUFFICES ASSUME NEW i \in 1..(c + d + 1)
               PROVE  Rank(r[i][2]) > n
    OBVIOUS
  <2>1. Rank(l) \in Nat /\ Rank(l) > n
    BY RankType
  <2>2. CASE i = 1 \/ (d = 2 /\ i = 2) \/ i = c + d + 1
    <3>1. r[i][2] = l
      BY <2>2
    <3> QED BY <2>1, <3>1
  <2>3. ASSUME NEW j \in 1..c, i = j + d
        PROVE  Rank(r[i][2]) > n
    <3>1. Rank(body[j][2]) > Rank(l) /\ Rank(body[j][2]) \in Nat /\ r[i] = body[j]
      BY <1>2, <2>3, RankType
    <3> QED BY <2>1, <3>1
  <2> QED BY <1>3, <2>2, <2>3
<1> QED BY <1>7, <1>8, <1>9, <1>10 DEF Good

(* Reading(l, body) and Writing(l, body) are such sections.                *)
LEMMA GoodLocking ==
    ASSUME NEW l \in Lock, NEW body, Good(body, Rank(l)), NEW n \in Nat, n < Rank(l)
    PROVE  Good(Reading(l, body), n) /\ Good(Writing(l, body), n)
<1>1. body \in Seq(Entry) /\ Len(body) \in Nat
  BY DEF Good
<1>2. ASSUME NEW h \in Seq(Entry), NEW x \in Entry, Len(h) \in 1..2
      PROVE  LET r == h \o body \o <<x>>
                 d == Len(h)
             IN  /\ r \in Seq(Entry) /\ Len(r) = Len(body) + d + 1 /\ r[Len(body) + d + 1] = x
                 /\ \A i \in 1..d : r[i] = h[i]
                 /\ \A i \in 1..Len(body) : r[i + d] = body[i]
  <2> DEFINE d == Len(h)
             g == h \o body
             y == <<x>>
             r == g \o y
  <2>1. /\ g \in Seq(Entry) /\ Len(g) = d + Len(body)
        /\ \A i \in 1..d : g[i] = h[i]
        /\ \A i \in 1..Len(body) : g[d + i] = body[i]
    BY <1>1, ConcatProperties
  <2> HIDE DEF g
  <2>2. y \in Seq(Entry) /\ Len(y) = 1 /\ y[1] = x
    OBVIOUS
  <2> HIDE DEF y
  <2>3. /\ r \in Seq(Entry) /\ Len(r) = Len(g) + 1 /\ r[Len(g) + 1] = x
        /\ \A i \in 1..Len(g) : r[i] = g[i]
    <3>0. g \in Seq(Entry) /\ y \in Seq(Entry)
      BY <2>1, <2>2
    <3>1. /\ r \in Seq(Entry) /\ Len(r) = Len(g) + Len(y)
          /\ \A i \in 1..(Len(g) + Len(y)) :
                 r[i] = IF i <= Len(g) THEN g[i] ELSE y[i - Len(g)]
      BY <3>0, ConcatProperties, Zenon
    <3>2. Len(g) \in Nat
      BY <2>1
    <3> HIDE DEF r
    <3>3. Len(g) + 1 \in 1..(Len(g) + Len(y)) /\ ~(Len(g) + 1 <= Len(g))
          /\ (Len(g) + 1) - Len(g) = 1
      BY <2>2, <3>2
    <3>4. \A i \in 1..Len(g) : i \in 1..(Len(g) + Len(y)) /\ i <= Len(g)
      BY <2>2, <3>2
    <3> QED BY <2>2, <3>1, <3>3, <3>4
  <2> HIDE DEF r
  <2>4. /\ Len(g) + 1 = Len(body) + d + 1 /\ \A i \in 1..d : i \in 1..Len(g)
        /\ \A i \in 1..Len(body) : d + i \in 1..Len(g) /\ d + i = i + d
    BY <1>1, <1>2, <2>1
  <2>5. /\ r \in Seq(Entry) /\ Len(r) = Len(body) + d + 1 /\ r[Len(body) + d + 1] = x
        /\ \A i \in 1..d : r[i] = h[i]
        /\ \A i \in 1..Len(body) : r[i + d] = body[i]
    BY <2>1, <2>3, <2>4
  <2> QED BY <2>5 DEF r, g, y
<1>3. Good(Reading(l, body), n)
  <2> DEFINE h == <<S(l)>>
             r == h \o body \o <<US(l)>>
  <2>1. h \in Seq(Entry) /\ US(l) \in Entry /\ Len(h) = 1 /\ h[1] = <<"shared", l>>
        /\ US(l) = <<"unshare", l>>
    BY DEF S, US, Entry, Kind
  <2> HIDE DEF h
  <2>2. /\ r \in Seq(Entry) /\ Len(r) = Len(body) + 1 + 1 /\ r[Len(body) + 1 + 1] = <<"unshare", l>>
        /\ r[1] = <<"shared", l>> /\ \A i \in 1..Len(body) : r[i + 1] = body[i]
    BY <1>2, <2>1
  <2>3. r = Reading(l, body)
    BY DEF Reading, h
  <2> HIDE DEF r
  <2>4. Section(r, l, body, 1, "unshare")
    BY <2>2 DEF Section
  <2>5. Good(r, n)
    BY <2>4, GoodSection
  <2> QED BY <2>3, <2>5
<1>4. Good(Writing(l, body), n)
  <2> DEFINE h == <<X(l), O(l)>>
             r == h \o body \o <<UX(l)>>
  <2>1. h \in Seq(Entry) /\ UX(l) \in Entry /\ Len(h) = 2 /\ h[1] = <<"mark", l>>
        /\ h[2] = <<"own", l>> /\ UX(l) = <<"disown", l>>
    BY DEF X, O, UX, Entry, Kind
  <2> HIDE DEF h
  <2>2. /\ r \in Seq(Entry) /\ Len(r) = Len(body) + 2 + 1 /\ r[Len(body) + 2 + 1] = <<"disown", l>>
        /\ r[1] = <<"mark", l>> /\ r[2] = <<"own", l>>
        /\ \A i \in 1..Len(body) : r[i + 2] = body[i]
    <3>1. 1 \in 1..Len(h) /\ 2 \in 1..Len(h) /\ Len(h) \in 1..2
      BY <2>1
    <3>2. /\ r \in Seq(Entry) /\ Len(r) = Len(body) + Len(h) + 1
          /\ r[Len(body) + Len(h) + 1] = UX(l)
          /\ \A i \in 1..Len(h) : r[i] = h[i]
          /\ \A i \in 1..Len(body) : r[i + Len(h)] = body[i]
      BY <1>2, <2>1, <3>1
    <3> HIDE DEF r
    <3> QED BY <2>1, <3>1, <3>2
  <2>3. r = Writing(l, body)
    BY DEF Writing, h
  <2> HIDE DEF r
  <2>4. Section(r, l, body, 2, "disown")
    BY <2>2 DEF Section
  <2>5. Good(r, n)
    BY <2>4, GoodSection
  <2> QED BY <2>3, <2>5
<1> QED BY <1>3, <1>4

(* The empty program.                                                      *)
LEMMA GoodEmpty ==
    ASSUME NEW n \in Nat
    PROVE  Good(<<>>, n)
BY DEF Good, Ordered, Paired, HoldsNothing, NextIs

(* A lock taken and given back.                                            *)
LEMMA GoodOne ==
    ASSUME NEW l \in Lock, NEW n \in Nat, n < Rank(l)
    PROVE  Good(Read(l), n) /\ Good(Write(l), n)
<1>1. Rank(l) \in Nat
  BY RankType
<1> QED BY <1>1, GoodEmpty, GoodLocking DEF Read, Write

-----------------------------------------------------------------------------
(* The operations of LockOrder keep the order, all but Format.             *)

(* Those that need the two maps only.                                      *)
LEMMA GoodBasics ==
    /\ Good(ReadBoth, 2)
    /\ Good(Read("disk"), 2) /\ Good(Write("disk"), 2)
    /\ Good(Read("volume"), 2) /\ Good(Write("volume"), 2)
    /\ Good(Write("partition"), 1)
<1>1. /\ Rank("disk") = 3 /\ Rank("volume") = 4 /\ Rank("partition") = 2
      /\ "disk" \in Lock /\ "volume" \in Lock /\ "partition" \in Lock
  BY DEF Rank, Lock
<1>2. Good(Read("volume"), Rank("disk"))
  BY <1>1, GoodOne
<1>3. Good(ReadBoth, 2)
  BY <1>1, <1>2, GoodLocking DEF ReadBoth
<1> QED BY <1>1, <1>3, GoodOne

(* The operations on volumes.                                              *)
LEMMA GoodVolumeOps ==
    /\ Good(GetExternalVolumeInfos, 2) /\ Good(MountVolumeEntry, 2) /\ Good(Mount, 2)
    /\ Good(DoUnmountVolume, 2) /\ Good(Unmount, 2) /\ Good(ForceUnmount, 2)
    /\ Good(UpdateVolumeAfterFormat, 2) /\ Good(RepairAndCheckVolume, 2) /\ Good(TryToFix, 2)
    /\ Good(SetVolumeDescription, 2) /\ Good(DestroyVolumeByDiskIdAndPartNum, 2)
    /\ Good(IsDiskNotReady, 2) /\ Good(GetFsTypeByDiskIdAndPartNum, 2)
    /\ Good(OnVolumeCreated, 2)
<1> USE GoodBasics, GoodConcat
<1>1. Good(GetFreeSizeOfVolume, 2) /\ Good(EnsureFsUuidReady, 2) /\ Good(SetVolumeStateLocked, 2)
      /\ Good(ComputeVolumeMountPolicy, 2) /\ Good(MountVolumeSetPath, 2) /\ Good(CheckVolId, 2)
      /\ Good(SaveVolumeFreeSize, 2) /\ Good(NotifyVolumeEjecting, 2) /\ Good(GetDiskById, 2)
      /\ Good(ResolveUnmountForceFlag, 2) /\ Good(IsDiskSupported, 2) /\ Good(GetVolumeById, 2)
      /\ Good(UpdateVoldataMappingAfterFormat, 2) /\ Good(OnVolumeDestroyed, 2)
  BY DEF GetFreeSizeOfVolume, EnsureFsUuidReady, SetVolumeStateLocked, ComputeVolumeMountPolicy,
         MountVolumeSetPath, CheckVolId, GetVolumeById, SaveVolumeFreeSize, NotifyVolumeEjecting,
         ResolveUnmountForceFlag, IsDiskSupported, GetDiskById, UpdateVoldataMappingAfterFormat,
         OnVolumeDestroyed
<1>2. Good(GetExternalVolumeInfos, 2)
  BY <1>1 DEF GetExternalVolumeInfos
<1>3. Good(MountVolumeEntry, 2)
  BY <1>1 DEF MountVolumeEntry
<1>4. Good(Mount, 2)
  BY <1>1, <1>3 DEF Mount
<1>5. Good(DoUnmountVolume, 2)
  BY <1>1 DEF DoUnmountVolume
<1>6. Good(Unmount, 2) /\ Good(ForceUnmount, 2)
  BY <1>5 DEF Unmount, ForceUnmount
<1>7. Good(UpdateVolumeAfterFormat, 2)
  BY <1>1 DEF UpdateVolumeAfterFormat
<1>8. Good(RepairAndCheckVolume, 2)
  BY <1>1 DEF RepairAndCheckVolume
<1>9. Good(TryToFix, 2)
  BY <1>1, <1>3, <1>8 DEF TryToFix
<1>10. Good(SetVolumeDescription, 2)
  BY <1>1 DEF SetVolumeDescription
<1>11. Good(DestroyVolumeByDiskIdAndPartNum, 2)
  BY <1>1, <1>6 DEF DestroyVolumeByDiskIdAndPartNum
<1>12. Good(IsDiskNotReady, 2) /\ Good(GetFsTypeByDiskIdAndPartNum, 2)
  BY <1>1 DEF IsDiskNotReady, GetFsTypeByDiskIdAndPartNum
<1>13. Good(OnVolumeCreated, 2)
  BY DEF OnVolumeCreated
<1> QED BY <1>2, <1>3, <1>4, <1>5, <1>6, <1>7, <1>8, <1>9, <1>10, <1>11, <1>12, <1>13

(* The operations on partitions, disks and encrypted volumes.              *)
LEMMA GoodDiskOps ==
    /\ Good(GetPartitionTable, 1) /\ Good(CreatePartition, 1) /\ Good(DeletePartition, 1)
    /\ Good(Partition, 1) /\ Good(HandleDiskChange, 1) /\ Good(HandleDiskRemove, 1)
    /\ Good(CheckAndUnloadIfIdle, 0) /\ Good(OnBlockDiskUevent(HandleDiskChange), 0)
    /\ Good(OnBlockDiskUevent(HandleDiskRemove), 0)
    /\ Good(BindBlockLoopDev, 0) /\ Good(MountVolumeByPath, 0) /\ Good(UmountVolumeByPath, 0)
<1> USE GoodConcat
<1>1. ASSUME NEW p, Good(p, 2)
      PROVE  Good(p, 1)
  BY <1>1, GoodAbove
<1>2. /\ "partition" \in Lock /\ "unload" \in Lock /\ "crypt" \in Lock
      /\ Rank("partition") = 2 /\ Rank("unload") = 1 /\ Rank("crypt") = 1
  BY DEF Lock, Rank
<1>3. /\ Good(GetDiskById, 2) /\ Good(GetVolumeById, 2) /\ Good(HasDisk, 2)
      /\ Good(IsDiskSupported, 2) /\ Good(OnDiskCreated, 2) /\ Good(OnDiskDestroyed, 2)
      /\ Good(UpdateVolumeMetadata, 2) /\ Good(GetAllVolumes, 2) /\ Good(HasManagedResources, 2)
      /\ Good(IsInternalDataDiskById, 2) /\ Good(UpsertDiskAndPublishEvent, 2)
      /\ Good(DestroyDmCryptVolume, 2) /\ Good(UnbindBlockLoopDev, 2) /\ Good(OnVolumeDestroyed, 2)
      /\ Good(LookupVolumeByCryptPath, 2) /\ Good(UpdateVolumeExternal, 2)
      /\ Good(GetFreeSizeOfVolume, 2)
  BY GoodBasics
  DEF GetDiskById, GetVolumeById, HasDisk, IsDiskSupported, OnDiskCreated, OnDiskDestroyed,
      UpdateVolumeMetadata, GetAllVolumes, HasManagedResources, IsInternalDataDiskById,
      UpsertDiskAndPublishEvent, DestroyDmCryptVolume, UnbindBlockLoopDev, OnVolumeDestroyed,
      LookupVolumeByCryptPath, UpdateVolumeExternal, GetFreeSizeOfVolume
<1>4. /\ Good(IsPartitioning, 1) /\ Good(AddPartitioningDisk, 1)
      /\ Good(RemovePartitioningDisk, 1) /\ Good(NotifyPartitionDone, 1)
      /\ Good(WaitForPartitionDone, 1)
  BY GoodBasics
  DEF IsPartitioning, AddPartitioningDisk, RemovePartitioningDisk, NotifyPartitionDone,
      WaitForPartitionDone
<1>5. ASSUME NEW p, Good(p, 2)
      PROVE  Good(Writing("partition", p), 1)
  BY <1>2, <1>5, GoodLocking
<1>6. ASSUME NEW p, Good(p, 1)
      PROVE  Good(Writing("unload", p), 0) /\ Good(Writing("crypt", p), 0)
  BY <1>2, <1>6, GoodLocking
<1>7. Good(GetPartitionTable, 1)
  BY <1>1, <1>3, <1>5, GoodVolumeOps DEF GetPartitionTable
<1>8. Good(GetDiskById \o IsDiskNotReady, 1)
  BY <1>1, <1>3, GoodVolumeOps
<1>9. Good(CreatePartition, 1)
  BY <1>4, <1>8, GoodBasics DEF CreatePartition
<1>10. Good(Writing("partition", DestroyVolumeByDiskIdAndPartNum), 1)
  BY <1>5, GoodVolumeOps
<1>11. Good(DeletePartition, 1)
  BY <1>4, <1>8, <1>10 DEF DeletePartition
<1>12. Good(DiscoverSinglePartitionVolume, 2)
  <2>1. Good(CreateAndSetupVolume, 2)
    BY <1>3, GoodVolumeOps DEF CreateAndSetupVolume
  <2> QED BY <1>3, <2>1, GoodVolumeOps DEF DiscoverSinglePartitionVolume
<1>13. Good(DiscoverPartitionsAndVolumes, 1)
  <2>1. /\ Good(UpsertDiskAndPublishEvent, 1) /\ Good(IsInternalDataDiskById, 1)
        /\ Good(DestroyVolumeByDiskIdAndPartNum, 1) /\ Good(DiscoverSinglePartitionVolume, 1)
    BY <1>1, <1>3, <1>12, GoodVolumeOps
  <2> QED BY <1>4, <2>1 DEF DiscoverPartitionsAndVolumes
<1>14. Good(Partition, 1)
  <2>1. Good(PurgeVolumesForDisk, 2)
    BY <1>3, GoodBasics DEF PurgeVolumesForDisk
  <2>2. Good(IsDiskSupported, 1) /\ Good(IsDiskNotReady, 1) /\ Good(PurgeVolumesForDisk, 1)
    BY <1>1, <1>3, <2>1, GoodVolumeOps
  <2> QED BY <1>4, <1>13, <2>2 DEF Partition
<1>15. Good(HandleDiskChange, 1)
  <2>1. Good(IsInternalDataDiskById, 1) /\ Good(HasDisk, 1)
    BY <1>1, <1>3
  <2> QED BY <1>4, <1>13, <2>1 DEF HandleDiskChange
<1>16. Good(HandleDiskRemove, 1)
  <2>1. Good(DestroyALLVolume, 2)
    BY <1>3, GoodVolumeOps DEF DestroyALLVolume
  <2>2. Good(HandleDiskRemove, 2)
    BY <1>3, <2>1 DEF HandleDiskRemove
  <2> QED BY <1>1, <2>2
<1>17. /\ Good(CheckAndUnloadIfIdle, 0) /\ Good(OnBlockDiskUevent(HandleDiskChange), 0)
       /\ Good(OnBlockDiskUevent(HandleDiskRemove), 0)
  BY <1>1, <1>3, <1>6, <1>15, <1>16 DEF CheckAndUnloadIfIdle, OnBlockDiskUevent
<1>18. Good(BindBlockLoopDev, 0)
  <2>1. Good(GetDiskById \o GetVolumeById \o OnVolumeCreated, 2)
    BY <1>3, GoodVolumeOps
  <2> QED BY <1>1, <1>6, <2>1 DEF BindBlockLoopDev
<1>19. Good(MountVolumeByPath, 0)
  <2>1. Good(GetDiskById \o LookupVolumeByCryptPath \o UpdateVolumeExternal
                 \o GetFreeSizeOfVolume, 2)
    BY <1>3
  <2> QED BY <1>1, <1>6, <2>1 DEF MountVolumeByPath
<1>20. Good(UmountVolumeByPath, 0)
  <2>1. Good(GetDiskById \o LookupVolumeByCryptPath \o DoUnmountVolume, 2)
    BY <1>3, GoodVolumeOps
  <2> QED BY <1>1, <1>6, <2>1 DEF UmountVolumeByPath
<1> QED BY <1>7, <1>9, <1>11, <1>14, <1>15, <1>16, <1>17, <1>18, <1>19, <1>20

(* All operations but Format.                                              *)
LEMMA GoodProgram ==
    ASSUME NEW o \in Operation, o # "Format"
    PROVE  Good(Program(o), 0)
<1>1. ASSUME NEW p, Good(p, 2) \/ Good(p, 1)
      PROVE  Good(p, 0)
  BY <1>1, GoodAbove
<1>2. /\ Good(GetAllVolumes, 0) /\ Good(GetAllDisks, 0) /\ Good(GetExternalDiskInfos, 0)
      /\ Good(UpdateDisk, 0) /\ Good(NotifyMtpMounted, 0) /\ Good(NotifyMtpUnmounted, 0)
  BY <1>1, GoodBasics
  DEF GetAllVolumes, GetAllDisks, GetExternalDiskInfos, UpdateDisk, NotifyMtpMounted,
      NotifyMtpUnmounted
<1>3. /\ Good(GetExternalVolumeInfos, 0) /\ Good(Mount, 0) /\ Good(Unmount, 0)
      /\ Good(TryToFix, 0) /\ Good(SetVolumeDescription, 0)
  BY <1>1, GoodVolumeOps
<1>4. /\ Good(GetPartitionTable, 0) /\ Good(CreatePartition, 0) /\ Good(DeletePartition, 0)
      /\ Good(Partition, 0)
  BY <1>1, GoodDiskOps
<1> QED BY <1>2, <1>3, <1>4, GoodDiskOps DEF Program, Operation

-----------------------------------------------------------------------------
(* The inductive invariant *)

LockTypes ==
    /\ writer \in [Lock -> SUBSET Thread]
    /\ readers \in [Lock -> [Thread -> Int]]
    /\ op \in [Thread -> Operation \cup {"none"}]
    /\ todo \in [Thread -> Seq(Entry)]

(* What is left of the operation of a thread keeps the order, and says of  *)
(* each lock the thread holds that it is given back before it is taken     *)
(* again.                                                                  *)
InOrder(t) ==
    /\ Ordered(todo[t], 1) /\ Paired(todo[t], 1)
    /\ \A m \in Lock :
        /\ readers[m][t] <= 1
        /\ readers[m][t] > 0 => NextIs(todo[t], 1, "unshare", m)
        /\ t \in writer[m] => NextIs(todo[t], 1, "disown", m)

(* Format begins with a section of volumeMapMutex_ around IsDiskSupported, *)
(* which takes diskMapMutex_ and volumeMapMutex_ again.  After n of these  *)
(* entries it holds at most FormatReads(n, m) shares of lock m; what       *)
(* follows them keeps the order.                                           *)
FormatEntries == <<S("volume"), S("disk"), S("volume"), US("volume"), US("disk"), US("volume")>>

FormatReads(n, m) ==
    CASE m = "volume" -> <<0, 1, 1, 2, 1, 1>>[n + 1]
      [] m = "disk"   -> <<0, 0, 1, 1, 1, 0>>[n + 1]
      [] OTHER        -> 0

Begun(p, n) ==
    /\ Len(p) >= 6 - n
    /\ \A i \in 1..(6 - n) : p[i] = FormatEntries[n + i]
    /\ Ordered(p, 7 - n) /\ Paired(p, 7 - n)

InFormat(t) ==
    /\ op[t] = "Format"
    /\ \A m \in Lock : t \notin writer[m]
    /\ \E n \in 0..5 : Begun(todo[t], n) /\ \A m \in Lock : readers[m][t] <= FormatReads(n, m)

IInv == LockTypes /\ \A t \in Thread : InOrder(t) \/ InFormat(t)

(* What is left after the first entry.                                     *)
LEMMA TailOrdered ==
    ASSUME NEW p \in Seq(Entry), p # <<>>, NEW a \in Nat \ {0}
    PROVE  /\ Tail(p) \in Seq(Entry) /\ Len(Tail(p)) = Len(p) - 1
           /\ \A i \in 1..(Len(p) - 1) : Tail(p)[i] = p[i + 1]
           /\ \A k, m : NextIs(Tail(p), a, k, m) <=> NextIs(p, a + 1, k, m)
           /\ Ordered(p, a + 1) => Ordered(Tail(p), a)
           /\ Paired(p, a + 1) => Paired(Tail(p), a)
<1> DEFINE r == Tail(p)
<1>1. /\ r \in Seq(Entry) /\ Len(p) \in Nat \ {0} /\ Len(r) = Len(p) - 1
      /\ \A i \in 1..Len(r) : r[i] = p[i + 1]
  BY HeadTailProperties, EmptySeq, LenProperties
<1> HIDE DEF r
<1>2. ASSUME NEW b \in Nat \ {0}, NEW k, NEW m
      PROVE  NextIs(r, b, k, m) <=> NextIs(p, b + 1, k, m)
  <2>1. ASSUME NextIs(r, b, k, m)
        PROVE  NextIs(p, b + 1, k, m)
    <3>1. PICK c \in b..Len(r) : r[c] = <<k, m>> /\ Quiet(r, b, c - 1, m)
      BY <2>1 DEF NextIs
    <3>2. c + 1 \in (b + 1)..Len(p) /\ p[c + 1] = <<k, m>>
      BY <1>1, <3>1
    <3>3. Quiet(p, b + 1, (c + 1) - 1, m)
      <4> SUFFICES ASSUME NEW i \in (b + 1)..c, p[i][2] = m
                   PROVE  p[i][1] = "own"
        BY <3>1 DEF Quiet
      <4>1. i - 1 \in b..(c - 1) /\ i - 1 \in 1..Len(r) /\ (i - 1) + 1 = i
        BY <1>1, <3>1
      <4>2. r[i - 1] = p[i]
        BY <1>1, <4>1
      <4> QED BY <3>1, <4>1, <4>2 DEF Quiet
    <3> QED BY <3>2, <3>3 DEF NextIs
  <2>2. ASSUME NextIs(p, b + 1, k, m)
        PROVE  NextIs(r, b, k, m)
    <3>1. PICK c \in (b + 1)..Len(p) : p[c] = <<k, m>> /\ Quiet(p, b + 1, c - 1, m)
      BY <2>2 DEF NextIs
    <3>2. c - 1 \in b..Len(r) /\ c - 1 \in 1..Len(r) /\ (c - 1) + 1 = c
      BY <1>1, <3>1
    <3>3. r[c - 1] = <<k, m>>
      BY <1>1, <3>1, <3>2
    <3>4. Quiet(r, b, (c - 1) - 1, m)
      <4> SUFFICES ASSUME NEW i \in b..((c - 1) - 1), r[i][2] = m
                   PROVE  r[i][1] = "own"
        BY DEF Quiet
      <4>1. i + 1 \in (b + 1)..(c - 1) /\ i \in 1..Len(r)
        BY <1>1, <3>1, <3>2
      <4>2. r[i] = p[i + 1]
        BY <1>1, <4>1
      <4> QED BY <3>1, <4>1, <4>2 DEF Quiet
    <3> QED BY <3>2, <3>3, <3>4 DEF NextIs
  <2> QED BY <2>1, <2>2
<1>3. ASSUME NEW i \in a..Len(r)
      PROVE  /\ i + 1 \in (a + 1)..Len(p) /\ r[i] = p[i + 1]
             /\ \A k, m : NextIs(r, i, k, m) <=> NextIs(p, i + 1, k, m)
             /\ \A k, m : NextIs(r, i + 1, k, m) <=> NextIs(p, (i + 1) + 1, k, m)
  <2>1. i \in 1..Len(r) /\ i \in Nat \ {0} /\ i + 1 \in Nat \ {0} /\ i + 1 \in (a + 1)..Len(p)
    BY <1>1
  <2> QED BY <1>1, <1>2, <2>1
<1>4. Ordered(p, a + 1) => Ordered(r, a)
  BY <1>3 DEF Ordered
<1>5. Paired(p, a + 1) => Paired(r, a)
  BY <1>3 DEF Paired
<1> QED BY <1>1, <1>2, <1>4, <1>5 DEF r

(* What the first entry of a program tells about the locks held before it. *)
LEMMA NextIsHead ==
    ASSUME NEW p \in Seq(Entry), NEW k, NEW m, NextIs(p, 1, k, m)
    PROVE  /\ p # <<>>
           /\ p[1] # <<k, m>> => NextIs(p, 2, k, m)
           /\ p[1][2] = m /\ p[1][1] # "own" => p[1] = <<k, m>>
<1>1. PICK b \in 1..Len(p) : p[b] = <<k, m>> /\ Quiet(p, 1, b - 1, m)
  BY DEF NextIs
<1>2. CASE b = 1
  BY <1>1, <1>2
<1>3. CASE b # 1
  <2>1. b \in 2..Len(p) /\ 1 \in 1..(b - 1) /\ p # <<>>
    BY <1>1, <1>3
  <2>2. Quiet(p, 2, b - 1, m)
    BY <1>1 DEF Quiet
  <2>3. p[1][2] = m => p[1][1] = "own"
    BY <1>1, <2>1 DEF Quiet
  <2> QED BY <1>1, <2>1, <2>2, <2>3 DEF NextIs
<1> QED BY <1>2, <1>3

(* A suffix of an ordered program is ordered.                              *)
LEMMA OrderedLater ==
    ASSUME NEW p \in Seq(Entry), Ordered(p, 1), Paired(p, 1)
    PROVE  Ordered(p, 2) /\ Paired(p, 2)
BY DEF Ordered, Paired

(* A step of t changes of what another thread has at most that it is no    *)
(* longer the writer of a lock.                                            *)
LEMMA OthersKeep ==
    ASSUME LockTypes, NEW t \in Thread, NEW u \in Thread \ {t},
           Begin(t) \/ LockShared(t) \/ MarkWriter(t) \/ Own(t) \/ Unlock(t),
           InOrder(u) \/ InFormat(u)
    PROVE  InOrder(u)' \/ InFormat(u)'
<1>1. todo'[u] = todo[u] /\ op'[u] = op[u]
  BY DEF LockTypes, Begin, LockShared, MarkWriter, Own, Unlock, Done
<1>2. ASSUME NEW m \in Lock
      PROVE  readers'[m][u] = readers[m][u] /\ (u \in writer'[m] => u \in writer[m])
  <2>1. CASE readers' = readers
    BY <2>1 DEF LockTypes, Begin, LockShared, MarkWriter, Own, Unlock
  <2>2. CASE readers' # readers
    <3>1. /\ writer' = writer
          /\ \E l, x : readers' = [readers EXCEPT ![l] = [readers[l] EXCEPT ![t] = x]]
      BY <2>2 DEF Begin, LockShared, MarkWriter, Own, Unlock
    <3>2. PICK l, x : readers' = [readers EXCEPT ![l] = [readers[l] EXCEPT ![t] = x]]
      BY <3>1
    <3>3. CASE m = l
      BY <3>1, <3>2, <3>3 DEF LockTypes
    <3>4. CASE m # l
      BY <3>1, <3>2, <3>4 DEF LockTypes
    <3> QED BY <3>3, <3>4
  <2> QED BY <2>1, <2>2
<1>3. CASE InOrder(u)
  BY <1>1, <1>2, <1>3 DEF InOrder
<1>4. CASE InFormat(u)
  BY <1>1, <1>2, <1>4 DEF InFormat
<1> QED BY <1>3, <1>4

(* A step of t itself, when it is in order.                                *)
LEMMA StaysInOrder ==
    ASSUME LockTypes, NEW t \in Thread, InOrder(t),
           LockShared(t) \/ MarkWriter(t) \/ Own(t) \/ Unlock(t)
    PROVE  InOrder(t)'
<1> DEFINE p == todo[t]
           e == p[1]
<1>1. /\ p \in Seq(Entry) /\ p # <<>> /\ todo'[t] = Tail(p)
      /\ Head(p) = e /\ Target(t) = e[2] /\ e \in Entry
  <2>1. p \in Seq(Entry) /\ p # <<>> /\ todo'[t] = Tail(p) /\ Target(t) = Head(p)[2]
    BY DEF LockTypes, LockShared, MarkWriter, Own, Unlock, Wants, Done, Target
  <2>2. Head(p) = e /\ e \in Entry
    BY <2>1, HeadTailProperties, EmptySeq, LenProperties
  <2> QED BY <2>1, <2>2
<1>2. e[2] \in Lock /\ e = <<e[1], e[2]>>
  BY <1>1 DEF Entry
<1>3. Ordered(p, 1) /\ Paired(p, 1)
  BY DEF InOrder
<1> HIDE DEF p, e
<1>4. /\ Ordered(Tail(p), 1) /\ Paired(Tail(p), 1)
      /\ \A k, m : NextIs(Tail(p), 1, k, m) <=> NextIs(p, 2, k, m)
  <2>1. Ordered(p, 1 + 1) /\ Paired(p, 1 + 1) /\ 1 \in Nat \ {0} /\ 1 + 1 = 2
    BY <1>1, <1>3, OrderedLater
  <2> QED BY <1>1, <2>1, TailOrdered
<1>5. /\ e[1] = "shared" => NextIs(p, 2, "unshare", e[2])
      /\ e[1] = "mark" => NextIs(p, 2, "disown", e[2])
  <2>1. 1 \in 1..Len(p) /\ 1 + 1 = 2
    BY <1>1, EmptySeq, LenProperties
  <2> QED BY <1>3, <2>1 DEF Paired, e
<1>6. ASSUME NEW m \in Lock
      PROVE  /\ readers[m][t] \in Int /\ readers[m][t] <= 1
             /\ readers[m][t] > 0 => NextIs(p, 1, "unshare", m)
             /\ t \in writer[m] => NextIs(p, 1, "disown", m)
  BY DEF InOrder, LockTypes, p
<1>7. ASSUME NEW m \in Lock
      PROVE  /\ readers[m][t] > 0 =>
                   /\ e # <<"unshare", m>> => NextIs(p, 2, "unshare", m)
                   /\ e[2] = m => e[1] \in {"own", "unshare"}
             /\ t \in writer[m] =>
                   /\ e # <<"disown", m>> => NextIs(p, 2, "disown", m)
                   /\ e[2] = m => e[1] \in {"own", "disown"}
  BY <1>1, <1>6, NextIsHead DEF e
<1>8. ASSUME NEW m \in Lock
      PROVE  /\ readers'[m][t] <= 1
             /\ readers'[m][t] > 0 => NextIs(p, 2, "unshare", m)
             /\ t \in writer'[m] => NextIs(p, 2, "disown", m)
  <2>1. CASE LockShared(t)
    <3>1. e[1] = "shared" /\ writer' = writer
          /\ readers' = [readers EXCEPT ![e[2]][t] = @ + 1]
      BY <1>1, <2>1 DEF LockShared, Wants, p
    <3>2. t \in writer'[m] => NextIs(p, 2, "disown", m)
      BY <1>7, <3>1
    <3>3. CASE m = e[2]
      <4>1. readers'[m][t] = readers[m][t] + 1
        BY <1>2, <3>1, <3>3 DEF LockTypes
      <4>2. ~(readers[m][t] > 0)
        BY <1>7, <3>1, <3>3
      <4>3. NextIs(p, 2, "unshare", m)
        BY <1>5, <3>1, <3>3
      <4> QED BY <1>6, <3>2, <4>1, <4>2, <4>3
    <3>4. CASE m # e[2]
      <4>1. readers'[m][t] = readers[m][t]
        BY <1>2, <3>1, <3>4 DEF LockTypes
      <4> QED BY <1>6, <1>7, <3>1, <3>2, <4>1
    <3> QED BY <3>3, <3>4
  <2>2. CASE MarkWriter(t)
    <3>1. e[1] = "mark" /\ readers' = readers /\ writer' = [writer EXCEPT ![e[2]] = {t}]
      BY <1>1, <2>2 DEF MarkWriter, Wants, p
    <3>2. t \in writer'[m] => m = e[2] \/ t \in writer[m]
      BY <1>2, <3>1 DEF LockTypes
    <3> QED BY <1>5, <1>6, <1>7, <3>1, <3>2
  <2>3. CASE Own(t)
    <3>1. e[1] = "own" /\ readers' = readers /\ writer' = writer
      BY <1>1, <2>3 DEF Own, Wants, p
    <3> QED BY <1>6, <1>7, <3>1
  <2>4. CASE Unlock(t)
    <3>1. CASE e[1] = "unshare" /\ readers' = [readers EXCEPT ![e[2]][t] = @ - 1] /\ writer' = writer
      <4>1. t \in writer'[m] => NextIs(p, 2, "disown", m)
        BY <1>7, <3>1
      <4>2. CASE m = e[2]
        <5>1. readers'[m][t] = readers[m][t] - 1
          BY <1>2, <3>1, <4>2 DEF LockTypes
        <5> QED BY <1>6, <4>1, <5>1
      <4>3. CASE m # e[2]
        <5>1. readers'[m][t] = readers[m][t]
          BY <1>2, <3>1, <4>3 DEF LockTypes
        <5> QED BY <1>6, <1>7, <4>1, <4>3, <5>1
      <4> QED BY <4>2, <4>3
    <3>2. CASE e[1] = "disown" /\ writer' = [writer EXCEPT ![e[2]] = {}] /\ readers' = readers
      <4>1. t \in writer'[m] => m # e[2] /\ t \in writer[m]
        BY <1>2, <3>2 DEF LockTypes
      <4> QED BY <1>6, <1>7, <3>2, <4>1
    <3> QED BY <1>1, <2>4, <3>1, <3>2 DEF Unlock, Wants, p
  <2> QED BY <2>1, <2>2, <2>3, <2>4
<1> QED BY <1>1, <1>4, <1>8 DEF InOrder

(* The concatenation of two sequences, by its elements.                    *)
LEMMA ConcatIs ==
    ASSUME NEW p \in Seq(Entry), NEW q \in Seq(Entry), NEW r \in Seq(Entry),
           Len(r) = Len(p) + Len(q),
           \A i \in 1..Len(p) : r[i] = p[i],
           \A i \in 1..Len(q) : r[Len(p) + i] = q[i]
    PROVE  p \o q = r
<1>1. p \o q \in Seq(Entry) /\ Len(p \o q) = Len(r)
  BY ConcatProperties
<1>2. Len(p) \in Nat /\ Len(q) \in Nat
  BY LenProperties
<1>3. ASSUME NEW i \in 1..Len(r)
      PROVE  (p \o q)[i] = r[i]
  <2>1. CASE i <= Len(p)
    <3>1. i \in 1..Len(p) /\ i \in 1..(Len(p) + Len(q))
      BY <1>2, <2>1
    <3> QED BY <2>1, <3>1, ConcatProperties
  <2>2. CASE ~(i <= Len(p))
    <3>1. i - Len(p) \in 1..Len(q) /\ i \in 1..(Len(p) + Len(q)) /\ Len(p) + (i - Len(p)) = i
      BY <1>2, <2>2
    <3>2. (p \o q)[i] = q[i - Len(p)]
      BY <2>2, <3>1, ConcatProperties
    <3> QED BY <3>1, <3>2
  <2> QED BY <2>1, <2>2
<1> QED BY <1>1, <1>3, SeqEqual

(* The first section of Format.                                            *)
LEMMA FormatBegins ==
    Format \in Seq(Entry) /\ Begun(Format, 0)
<1> DEFINE A == Reading("volume", IsDiskSupported)
<1>1. A = FormatEntries
  <2> DEFINE v == S("volume")
             d == S("disk")
             x == US("volume")
             y == US("disk")
  <2>1. A = (<<v>> \o ((<<d>> \o ((<<v>> \o <<>>) \o <<x>>)) \o <<y>>)) \o <<x>>
    BY DEF Reading, IsDiskSupported, GetDiskById, ReadBoth, Read
  <2>2. FormatEntries = <<v, d, v, x, y, x>>
    BY DEF FormatEntries
  <2>0. v \in Entry /\ d \in Entry /\ x \in Entry /\ y \in Entry
    BY DEF S, US, Entry, Kind, Lock
  <2> HIDE DEF v, d, x, y, A
  <2>3. <<v>> \o <<>> = <<v>>
    BY <2>0
  <2>4. <<v>> \o <<x>> = <<v, x>>
    <3> DEFINE p == <<v>>
               q == <<x>>
               r == <<v, x>>
    <3>1. p \in Seq(Entry) /\ q \in Seq(Entry) /\ r \in Seq(Entry)
      BY <2>0
    <3>2. /\ Len(r) = Len(p) + Len(q)
          /\ \A i \in 1..Len(p) : r[i] = p[i]
          /\ \A i \in 1..Len(q) : r[Len(p) + i] = q[i]
      OBVIOUS
    <3> HIDE DEF p, q, r
    <3>3. p \o q = r
      BY <3>1, <3>2, ConcatIs
    <3> QED BY <3>3 DEF p, q, r
  <2>5. <<d>> \o <<v, x>> = <<d, v, x>>
    <3> DEFINE p == <<d>>
               q == <<v, x>>
               r == <<d, v, x>>
    <3>1. p \in Seq(Entry) /\ q \in Seq(Entry) /\ r \in Seq(Entry)
      BY <2>0
    <3>2. /\ Len(r) = Len(p) + Len(q)
          /\ \A i \in 1..Len(p) : r[i] = p[i]
          /\ \A i \in 1..Len(q) : r[Len(p) + i] = q[i]
      OBVIOUS
    <3> HIDE DEF p, q, r
    <3>3. p \o q = r
      BY <3>1, <3>2, ConcatIs
    <3> QED BY <3>3 DEF p, q, r
  <2>6. <<d, v, x>> \o <<y>> = <<d, v, x, y>>
    <3> DEFINE p == <<d, v, x>>
               q == <<y>>
               r == <<d, v, x, y>>
    <3>1. p \in Seq(Entry) /\ q \in Seq(Entry) /\ r \in Seq(Entry)
      BY <2>0
    <3>2. /\ Len(r) = Len(p) + Len(q)
          /\ \A i \in 1..Len(p) : r[i] = p[i]
          /\ \A i \in 1..Len(q) : r[Len(p) + i] = q[i]
      OBVIOUS
    <3> HIDE DEF p, q, r
    <3>3. p \o q = r
      BY <3>1, <3>2, ConcatIs
    <3> QED BY <3>3 DEF p, q, r
  <2>7. <<v>> \o <<d, v, x, y>> = <<v, d, v, x, y>>
    <3> DEFINE p == <<v>>
               q == <<d, v, x, y>>
               r == <<v, d, v, x, y>>
    <3>1. p \in Seq(Entry) /\ q \in Seq(Entry) /\ r \in Seq(Entry)
      BY <2>0
    <3>2. /\ Len(r) = Len(p) + Len(q)
          /\ \A i \in 1..Len(p) : r[i] = p[i]
          /\ \A i \in 1..Len(q) : r[Len(p) + i] = q[i]
      OBVIOUS
    <3> HIDE DEF p, q, r
    <3>3. p \o q = r
      BY <3>1, <3>2, ConcatIs
    <3> QED BY <3>3 DEF p, q, r
  <2>8. <<v, d, v, x, y>> \o <<x>> = <<v, d, v, x, y, x>>
    <3> DEFINE p == <<v, d, v, x, y>>
               q == <<x>>
               r == <<v, d, v, x, y, x>>
    <3>1. p \in Seq(Entry) /\ q \in Seq(Entry) /\ r \in Seq(Entry)
      BY <2>0
    <3>2. /\ Len(r) = Len(p) + Len(q)
          /\ \A i \in 1..Len(p) : r[i] = p[i]
          /\ \A i \in 1..Len(q) : r[Len(p) + i] = q[i]
      OBVIOUS
    <3> HIDE DEF p, q, r
    <3>3. p \o q = r
      BY <3>1, <3>2, ConcatIs
    <3> QED BY <3>3 DEF p, q, r
  <2> QED BY <2>1, <2>2, <2>3, <2>4, <2>5, <2>6, <2>7, <2>8
<1>2. FormatEntries \in Seq(Entry) /\ Len(FormatEntries) = 6
  BY DEF FormatEntries, S, US, Entry, Kind, Lock
<1> HIDE DEF A
<1>3. A \in Seq(Entry) /\ Len(A) = 6 /\ Ordered(A, 7) /\ Paired(A, 7) /\ 7 \in 1..(Len(A) + 1)
  BY <1>1, <1>2 DEF Ordered, Paired
<1>4. Good(Read("disk"), 2) /\ Good(CheckVolId, 2) /\ Good(UpdateVolumeAfterFormat, 2)
  BY GoodBasics, GoodVolumeOps DEF CheckVolId, GetVolumeById
<1> DEFINE B == A \o Read("disk")
           C == B \o CheckVolId
           D == C \o UpdateVolumeAfterFormat
<1>5. /\ B \in Seq(Entry) /\ Len(B) >= 6 /\ Ordered(B, 7) /\ Paired(B, 7) /\ 7 \in 1..(Len(B) + 1)
      /\ \A i \in 1..6 : B[i] = A[i]
  <2>1. Len(Read("disk")) \in Nat
    BY <1>4 DEF Good
  <2> DEFINE q == Read("disk")
  <2>2. Good(q, 2)
    BY <1>4
  <2> HIDE DEF q
  <2>3. /\ A \o q \in Seq(Entry) /\ Len(A \o q) = Len(A) + Len(q)
        /\ \A i \in 1..Len(A) : (A \o q)[i] = A[i]
        /\ Ordered(A \o q, 7) /\ Paired(A \o q, 7)
    BY <1>3, <2>2, OrderedConcat
  <2> QED BY <1>3, <2>1, <2>3 DEF q
<1> HIDE DEF B
<1>6. /\ C \in Seq(Entry) /\ Len(C) >= 6 /\ Ordered(C, 7) /\ Paired(C, 7) /\ 7 \in 1..(Len(C) + 1)
      /\ \A i \in 1..6 : C[i] = A[i]
  <2>1. Len(CheckVolId) \in Nat /\ Len(B) \in Nat /\ \A i \in 1..6 : i \in 1..Len(B)
    BY <1>4, <1>5 DEF Good
  <2> DEFINE q == CheckVolId
  <2>2. Good(q, 2)
    BY <1>4
  <2> HIDE DEF q
  <2>3. /\ B \o q \in Seq(Entry) /\ Len(B \o q) = Len(B) + Len(q)
        /\ \A i \in 1..Len(B) : (B \o q)[i] = B[i]
        /\ Ordered(B \o q, 7) /\ Paired(B \o q, 7)
    BY <1>5, <2>2, OrderedConcat
  <2> QED BY <1>5, <2>1, <2>3 DEF q
<1> HIDE DEF C
<1>7. /\ D \in Seq(Entry) /\ Len(D) >= 6 /\ Ordered(D, 7) /\ Paired(D, 7)
      /\ \A i \in 1..6 : D[i] = A[i]
  <2>1. Len(UpdateVolumeAfterFormat) \in Nat /\ Len(C) \in Nat /\ \A i \in 1..6 : i \in 1..Len(C)
    BY <1>4, <1>6 DEF Good
  <2> DEFINE q == UpdateVolumeAfterFormat
  <2>2. Good(q, 2)
    BY <1>4
  <2> HIDE DEF q
  <2>3. /\ C \o q \in Seq(Entry) /\ Len(C \o q) = Len(C) + Len(q)
        /\ \A i \in 1..Len(C) : (C \o q)[i] = C[i]
        /\ Ordered(C \o q, 7) /\ Paired(C \o q, 7)
    BY <1>6, <2>2, OrderedConcat
  <2> QED BY <1>6, <2>1, <2>3 DEF q
<1> HIDE DEF D
<1>8. D = Format
  BY DEF Format, A, B, C, D
<1> QED BY <1>1, <1>7, <1>8 DEF Begun

(* A step in it.                                                           *)
LEMMA FormatGoesOn ==
    ASSUME LockTypes, NEW t \in Thread, InFormat(t),
           LockShared(t) \/ MarkWriter(t) \/ Own(t) \/ Unlock(t)
    PROVE  InOrder(t)' \/ InFormat(t)'
<1> DEFINE p == todo[t]
<1>1. PICK n \in 0..5 : Begun(p, n) /\ \A m \in Lock : readers[m][t] <= FormatReads(n, m)
  BY DEF InFormat
<1>2. p \in Seq(Entry) /\ p # <<>> /\ todo'[t] = Tail(p) /\ op' = op /\ Target(t) = Head(p)[2]
  BY DEF LockTypes, LockShared, MarkWriter, Own, Unlock, Wants, Done, Target
<1>3. Head(p) = FormatEntries[n + 1]
  <2>1. 1 \in 1..(6 - n) /\ Head(p) = p[1]
    BY <1>2, HeadTailProperties, EmptySeq, LenProperties
  <2> QED BY <1>1, <2>1 DEF Begun
<1>4. FormatEntries[n + 1] = IF n = 0 \/ n = 2 THEN <<"shared", "volume">>
                             ELSE IF n = 1 THEN <<"shared", "disk">>
                             ELSE IF n = 4 THEN <<"unshare", "disk">>
                             ELSE <<"unshare", "volume">>
  BY DEF FormatEntries, S, US
<1>5. /\ writer' = writer
      /\ n \in {0, 2} => readers' = [readers EXCEPT !["volume"][t] = @ + 1]
      /\ n = 1 => readers' = [readers EXCEPT !["disk"][t] = @ + 1]
      /\ n \in {3, 5} => readers' = [readers EXCEPT !["volume"][t] = @ - 1]
      /\ n = 4 => readers' = [readers EXCEPT !["disk"][t] = @ - 1]
  <2>1. CASE n \in {0, 1, 2}
    <3>1. Head(p)[1] = "shared" /\ Target(t) = IF n = 1 THEN "disk" ELSE "volume"
      BY <1>2, <1>3, <1>4, <2>1
    <3>2. ~Wants(t, "mark") /\ ~Wants(t, "own") /\ ~Wants(t, "unshare") /\ ~Wants(t, "disown")
      BY <3>1 DEF Wants
    <3>3. LockShared(t)
      BY <3>2 DEF MarkWriter, Own, Unlock
    <3>4. writer' = writer /\ readers' = [readers EXCEPT ![Target(t)][t] = @ + 1]
      BY <3>3 DEF LockShared
    <3>5. CASE n = 1
      BY <3>1, <3>4, <3>5
    <3>6. CASE n = 0
      BY <3>1, <3>4, <3>6
    <3>7. CASE n = 2
      BY <3>1, <3>4, <3>7
    <3> QED BY <2>1, <3>5, <3>6, <3>7
  <2>2. CASE n \in {3, 4, 5}
    <3>1. Head(p)[1] = "unshare" /\ Target(t) = IF n = 4 THEN "disk" ELSE "volume"
      BY <1>2, <1>3, <1>4, <2>2
    <3>2. ~Wants(t, "shared") /\ ~Wants(t, "mark") /\ ~Wants(t, "own") /\ ~Wants(t, "disown")
      BY <3>1 DEF Wants
    <3>3. Unlock(t)
      BY <3>2 DEF LockShared, MarkWriter, Own
    <3>4. writer' = writer /\ readers' = [readers EXCEPT ![Target(t)][t] = @ - 1]
      BY <3>2, <3>3 DEF Unlock
    <3>5. CASE n = 4
      BY <3>1, <3>4, <3>5
    <3>6. CASE n = 3
      BY <3>1, <3>4, <3>6
    <3>7. CASE n = 5
      BY <3>1, <3>4, <3>7
    <3> QED BY <2>2, <3>5, <3>6, <3>7
  <2> QED BY <2>1, <2>2
<1>6. \A m \in Lock : t \notin writer'[m]
  BY <1>5 DEF InFormat
<1> HIDE DEF p
<1>7. /\ Tail(p) \in Seq(Entry) /\ Len(Tail(p)) = Len(p) - 1 /\ Len(p) \in Nat
      /\ \A i \in 1..(Len(p) - 1) : Tail(p)[i] = p[i + 1]
      /\ Ordered(Tail(p), 6 - n) /\ Paired(Tail(p), 6 - n)
  <2>1. 6 - n \in Nat \ {0} /\ (6 - n) + 1 = 7 - n
    OBVIOUS
  <2>2. Ordered(p, (6 - n) + 1) /\ Paired(p, (6 - n) + 1)
    BY <1>1, <2>1 DEF Begun
  <2> QED BY <1>2, <2>1, <2>2, TailOrdered
<1>8. \A m \in Lock : readers[m][t] \in Int /\ readers[m][t] <= FormatReads(n, m)
  BY <1>1 DEF LockTypes
<1>9. \A m \in Lock : readers'[m][t] = readers[m][t]
          + (IF (m = "volume" /\ n \in {0, 2}) \/ (m = "disk" /\ n = 1) THEN 1
             ELSE IF (m = "volume" /\ n \in {3, 5}) \/ (m = "disk" /\ n = 4) THEN 0 - 1 ELSE 0)
  <2>1. "volume" \in Lock /\ "disk" \in Lock
    BY DEF Lock
  <2> SUFFICES ASSUME NEW m \in Lock
               PROVE  readers'[m][t] = readers[m][t]
          + (IF (m = "volume" /\ n \in {0, 2}) \/ (m = "disk" /\ n = 1) THEN 1
             ELSE IF (m = "volume" /\ n \in {3, 5}) \/ (m = "disk" /\ n = 4) THEN 0 - 1 ELSE 0)
    OBVIOUS
  <2>2. CASE n \in {0, 2}
    BY <1>5, <2>1, <2>2 DEF LockTypes
  <2>3. CASE n = 1
    BY <1>5, <2>1, <2>3 DEF LockTypes
  <2>4. CASE n \in {3, 5}
    BY <1>5, <2>1, <2>4 DEF LockTypes
  <2>5. CASE n = 4
    BY <1>5, <2>1, <2>5 DEF LockTypes
  <2> QED BY <2>2, <2>3, <2>4, <2>5
<1>10. CASE n = 5
  <2>1. ASSUME NEW m \in Lock
        PROVE  ~(readers'[m][t] > 0) /\ readers'[m][t] <= 1
    <3>1. FormatReads(n, m) = IF m = "volume" THEN 1 ELSE 0
      BY <1>10 DEF FormatReads
    <3>2. readers'[m][t] = readers[m][t] + (IF m = "volume" THEN 0 - 1 ELSE 0)
      BY <1>9, <1>10
    <3> QED BY <1>8, <3>1, <3>2
  <2> QED BY <1>2, <1>6, <1>7, <1>10, <2>1 DEF InOrder
<1>11. CASE n # 5
  <2>1. n + 1 \in 0..5 /\ 7 - (n + 1) = 6 - n /\ 6 - (n + 1) = 5 - n
    BY <1>11
  <2>2. ASSUME NEW m \in Lock
        PROVE  readers'[m][t] <= FormatReads(n + 1, m)
    <3>1. n \in {0, 1, 2, 3, 4}
      BY <1>11
    <3>2. CASE n = 0
      BY <1>8, <1>9, <3>2 DEF FormatReads
    <3>3. CASE n = 1
      BY <1>8, <1>9, <3>3 DEF FormatReads
    <3>4. CASE n = 2
      BY <1>8, <1>9, <3>4 DEF FormatReads
    <3>5. CASE n = 3
      BY <1>8, <1>9, <3>5 DEF FormatReads
    <3>6. CASE n = 4
      BY <1>8, <1>9, <3>6 DEF FormatReads
    <3> QED BY <3>1, <3>2, <3>3, <3>4, <3>5, <3>6
  <2>3. Begun(Tail(p), n + 1)
    <3>1. Len(p) >= 6 - n
      BY <1>1 DEF Begun
    <3>2. Len(Tail(p)) >= 5 - n
      BY <1>7, <3>1
    <3>3. \A i \in 1..(5 - n) : Tail(p)[i] = FormatEntries[(n + 1) + i]
      <4> SUFFICES ASSUME NEW i \in 1..(5 - n)
                   PROVE  Tail(p)[i] = FormatEntries[(n + 1) + i]
        OBVIOUS
      <4>1. i \in 1..(Len(p) - 1) /\ i + 1 \in 1..(6 - n) /\ n + (i + 1) = (n + 1) + i
        BY <1>7, <3>1
      <4>2. p[i + 1] = FormatEntries[n + (i + 1)]
        BY <1>1, <4>1 DEF Begun
      <4> QED BY <1>7, <4>1, <4>2
    <3> QED BY <1>7, <2>1, <3>2, <3>3 DEF Begun
  <2>4. op'[t] = "Format"
    BY <1>2 DEF InFormat
  <2> QED BY <1>2, <1>6, <2>1, <2>2, <2>3, <2>4 DEF InFormat
<1> QED BY <1>10, <1>11

(* An operation begins with nothing held.                                  *)
LEMMA BeginsInOrder ==
    ASSUME LockTypes, NEW t \in Thread, InOrder(t) \/ InFormat(t), Begin(t)
    PROVE  InOrder(t)' \/ InFormat(t)'
<1>1. PICK o \in Ops[t] : op'[t] = o /\ todo'[t] = Program(o)
  BY DEF Begin, LockTypes
<1>2. o \in Operation /\ writer' = writer /\ readers' = readers /\ todo[t] = <<>>
  BY OpsAssumption DEF Begin
<1>3. InOrder(t)
  <2>1. ~InFormat(t)
    BY <1>2 DEF InFormat, Begun
  <2> QED BY <2>1
<1>4. \A m \in Lock : readers'[m][t] <= 0 /\ t \notin writer'[m]
  <2>1. \A k, m : ~NextIs(<<>>, 1, k, m)
    BY DEF NextIs
  <2> SUFFICES ASSUME NEW m \in Lock
               PROVE  readers[m][t] <= 0 /\ t \notin writer[m]
    BY <1>2
  <2>2. readers[m][t] \in Int
    BY DEF LockTypes
  <2>3. ~(readers[m][t] > 0) /\ t \notin writer[m]
    BY <1>2, <1>3, <2>1 DEF InOrder
  <2> QED BY <2>2, <2>3
<1>5. \A m \in Lock : readers'[m][t] \in Int
  BY <1>2 DEF LockTypes
<1>6. CASE o # "Format"
  <2>1. Ordered(todo'[t], 1) /\ Paired(todo'[t], 1)
    BY <1>1, <1>2, <1>6, GoodProgram DEF Good
  <2>2. \A m \in Lock : readers'[m][t] <= 1 /\ ~(readers'[m][t] > 0)
    BY <1>4, <1>5
  <2> QED BY <1>4, <2>1, <2>2 DEF InOrder
<1>7. CASE o = "Format"
  <2>1. todo'[t] = Format
    BY <1>1, <1>7 DEF Program
  <2>2. Begun(todo'[t], 0)
    BY <2>1, FormatBegins
  <2>3. \A m \in Lock : FormatReads(0, m) = 0
    BY DEF FormatReads
  <2>4. \A m \in Lock : readers'[m][t] <= FormatReads(0, m)
    BY <1>4, <2>3
  <2> QED BY <1>1, <1>4, <1>7, <2>2, <2>4 DEF InFormat
<1> QED BY <1>6, <1>7

(* The types.                                                              *)
LEMMA TypesKept ==
    ASSUME LockTypes, NEW t \in Thread,
           Begin(t) \/ LockShared(t) \/ MarkWriter(t) \/ Own(t) \/ Unlock(t)
    PROVE  LockTypes'
<1>1. CASE Begin(t)
  <2>1. PICK o \in Ops[t] : /\ op' = [op EXCEPT ![t] = o]
                            /\ todo' = [todo EXCEPT ![t] = Program(o)]
    BY <1>1 DEF Begin
  <2>2. o \in Operation /\ writer' = writer /\ readers' = readers
    BY <1>1, OpsAssumption DEF Begin
  <2>3. Program(o) \in Seq(Entry)
    <3>1. CASE o # "Format"
      BY <2>2, <3>1, GoodProgram DEF Good
    <3>2. CASE o = "Format"
      <4>1. Program(o) = Format
        BY <3>2 DEF Program
      <4> QED BY <4>1, FormatBegins
    <3> QED BY <3>1, <3>2
  <2> HIDE DEF Operation
  <2> QED BY <2>1, <2>2, <2>3 DEF LockTypes
<1>2. CASE LockShared(t) \/ MarkWriter(t) \/ Own(t) \/ Unlock(t)
  <2>1. todo[t] \in Seq(Entry) /\ todo[t] # <<>>
    BY <1>2 DEF LockTypes, LockShared, MarkWriter, Own, Unlock, Wants
  <2>2. Tail(todo[t]) \in Seq(Entry)
    BY <2>1, HeadTailProperties
  <2>3. op' = op /\ todo' = [todo EXCEPT ![t] = Tail(todo[t])]
    BY <1>2 DEF LockShared, MarkWriter, Own, Unlock, Done
  <2>4. op' \in [Thread -> Operation \cup {"none"}] /\ todo' \in [Thread -> Seq(Entry)]
    BY <2>2, <2>3 DEF LockTypes
  <2>5. Target(t) \in Lock
    BY <2>1, HeadTailProperties DEF Target, Entry
  <2>6. writer' \in [Lock -> SUBSET Thread]
    <3>1. \/ writer' = writer
          \/ writer' = [writer EXCEPT ![Target(t)] = {t}]
          \/ writer' = [writer EXCEPT ![Target(t)] = {}]
      BY <1>2 DEF LockShared, MarkWriter, Own, Unlock
    <3> QED BY <2>5, <3>1 DEF LockTypes
  <2>7. readers' \in [Lock -> [Thread -> Int]]
    <3> DEFINE f == readers[Target(t)]
    <3>1. f \in [Thread -> Int] /\ f[t] \in Int
      BY <2>5 DEF LockTypes
    <3>2. \/ readers' = readers
          \/ readers' = [readers EXCEPT ![Target(t)] = [f EXCEPT ![t] = f[t] + 1]]
          \/ readers' = [readers EXCEPT ![Target(t)] = [f EXCEPT ![t] = f[t] - 1]]
      BY <1>2 DEF LockShared, MarkWriter, Own, Unlock
    <3> HIDE DEF f
    <3>3. [f EXCEPT ![t] = f[t] + 1] \in [Thread -> Int] /\ [f EXCEPT ![t] = f[t] - 1] \in [Thread -> Int]
      BY <3>1
    <3> QED BY <2>5, <3>2, <3>3 DEF LockTypes
  <2> QED BY <2>4, <2>6, <2>7 DEF LockTypes
<1> QED BY <1>1, <1>2

(* Initially no thread has begun an operation.                             *)
LEMMA InitInOrder == Init => IInv
<1> SUFFICES ASSUME Init PROVE IInv
  OBVIOUS
<1>1. LockTypes
  BY DEF Init, LockTypes
<1>2. ASSUME NEW t \in Thread PROVE InOrder(t)
  <2>1. todo[t] = <<>> /\ \A m \in Lock : readers[m][t] = 0 /\ t \notin writer[m]
    BY DEF Init
  <2> QED BY <2>1 DEF InOrder, Ordered, Paired
<1> QED BY <1>1, <1>2 DEF IInv

(* Every step keeps it.                                                    *)
LEMMA StepInOrder == IInv /\ [Next]_vars => IInv'
<1> SUFFICES ASSUME IInv, [Next]_vars PROVE IInv'
  OBVIOUS
<1>1. CASE Next
  <2>1. PICK t \in Thread : Begin(t) \/ LockShared(t) \/ MarkWriter(t) \/ Own(t) \/ Unlock(t)
    BY <1>1 DEF Next
  <2>2. LockTypes /\ \A u \in Thread : InOrder(u) \/ InFormat(u)
    BY DEF IInv
  <2>3. LockTypes'
    BY <2>1, <2>2, TypesKept
  <2>4. InOrder(t)' \/ InFormat(t)'
    BY <2>1, <2>2, BeginsInOrder, StaysInOrder, FormatGoesOn
  <2>5. ASSUME NEW u \in Thread \ {t} PROVE InOrder(u)' \/ InFormat(u)'
    BY <2>1, <2>2, OthersKeep
  <2> QED BY <2>3, <2>4, <2>5 DEF IInv
<1>2. CASE UNCHANGED vars
  BY <1>2 DEF vars, IInv, LockTypes, InOrder, InFormat
<1> QED BY <1>1, <1>2

(* The inductive invariant, for every mixture of operations.               *)
THEOREM KeepsLockOrder == Spec => []IInv
BY InitInOrder, StepInOrder, PTL DEF Spec

-----------------------------------------------------------------------------
(* Threads that wait *)

(* A thread that waits is higher the higher the lock it waits for, and     *)
(* higher when it has marked it already.                                   *)
Height(t) == 2 * Rank(Target(t)) + (IF Wants(t, "own") THEN 1 ELSE 0)

Waits(t) == Wants(t, "shared") \/ Wants(t, "mark") \/ Wants(t, "own")

(* A thread that waits for another one that waits is below it.             *)
LEMMA WaitsForHigher ==
    ASSUME IInv, NEW t \in Thread, NEW u \in Thread, InOrder(u), Waits(u), WaitsFor(t, u)
    PROVE  Height(t) \in 2..9 /\ Height(u) \in 2..9 /\ Height(t) < Height(u)
<1>1. Waits(t)
  BY DEF WaitsFor, Waits
<1>2. ASSUME NEW w \in Thread, Waits(w)
      PROVE  /\ todo[w] \in Seq(Entry) /\ 1 \in 1..Len(todo[w]) /\ Takes(todo[w][1])
             /\ Target(w) \in Lock /\ todo[w][1][2] = Target(w) /\ Rank(Target(w)) \in 1..4
             /\ todo[w][1] = <<"own", Target(w)>> => Wants(w, "own")
  <2>1. todo[w] \in Seq(Entry) /\ todo[w] # <<>>
    BY <1>2 DEF IInv, LockTypes, Waits, Wants
  <2>2. Head(todo[w]) = todo[w][1] /\ Head(todo[w]) \in Entry /\ 1 \in 1..Len(todo[w])
    BY <2>1, HeadTailProperties, EmptySeq, LenProperties
  <2>3. Target(w) = todo[w][1][2] /\ Target(w) \in Lock
    BY <2>2 DEF Target, Entry
  <2>4. Takes(todo[w][1])
    BY <1>2, <2>2 DEF Takes, Waits, Wants
  <2>5. todo[w][1] = <<"own", Target(w)>> => Wants(w, "own")
    BY <2>1, <2>2 DEF Wants
  <2> QED BY <2>1, <2>2, <2>3, <2>4, <2>5, RankType
<1>3. Height(t) \in 2..9 /\ Height(u) \in 2..9
  BY <1>1, <1>2 DEF Height
<1> DEFINE l == Target(t)
<1>4. l \in Lock /\ Rank(l) \in 1..4 /\ Rank(Target(u)) \in 1..4
  BY <1>1, <1>2
<1>5. CASE (Wants(t, "shared") \/ Wants(t, "mark")) /\ writer[l] = {u}
  <2>1. NextIs(todo[u], 1, "disown", l)
    BY <1>4, <1>5 DEF InOrder
  <2>2. Rank(l) < Rank(todo[u][1][2]) \/ todo[u][1] = <<"own", l>>
    BY <1>2, <1>4, <2>1 DEF InOrder, Ordered
  <2>3. ~Wants(t, "own")
    BY <1>5 DEF Wants
  <2>4. Rank(l) < Rank(Target(u)) \/ (l = Target(u) /\ Wants(u, "own"))
    BY <1>2, <2>2
  <2> QED BY <1>3, <1>4, <2>3, <2>4 DEF Height
<1>6. CASE Wants(t, "own") /\ readers[l][u] > 0
  <2>1. NextIs(todo[u], 1, "unshare", l)
    BY <1>4, <1>6 DEF InOrder
  <2>2. Rank(l) < Rank(todo[u][1][2])
    BY <1>2, <1>4, <2>1 DEF InOrder, Ordered
  <2>3. Rank(l) < Rank(Target(u))
    BY <1>2, <2>2
  <2> QED BY <1>3, <1>4, <2>3 DEF Height
<1> QED BY <1>5, <1>6 DEF WaitsFor

(* So no circle is without a thread that breaks the order.                 *)
LEMMA NoCircleInOrder == IInv => OnlyFormatDeadlocks
<1> SUFFICES ASSUME IInv,
                    NEW ring \in (SUBSET Thread) \ {{}},
                    \A t \in ring : \E u \in ring : WaitsFor(t, u),
                    \A t \in ring : op[t] # "Format"
             PROVE  FALSE
  BY DEF OnlyFormatDeadlocks
<1>1. ASSUME NEW t \in ring
      PROVE  t \in Thread /\ InOrder(t) /\ Waits(t)
  <2>1. t \in Thread /\ \E u \in ring : WaitsFor(t, u)
    OBVIOUS
  <2>2. Waits(t)
    BY <2>1 DEF WaitsFor, Waits
  <2>3. InOrder(t)
    BY <2>1 DEF IInv, InFormat
  <2> QED BY <2>1, <2>2, <2>3
<1>2. \A t \in ring : \E u \in ring :
          Height(t) \in 2..9 /\ Height(u) \in 2..9 /\ Height(t) < Height(u)
  BY <1>1, WaitsForHigher
<1> DEFINE Above(k) == \E t \in ring : Height(t) \in Int /\ Height(t) >= k
<1>3. Above(2)
  BY <1>2
<1>4. ASSUME NEW k \in Nat, Above(k)
      PROVE  Above(k + 1)
  <2>1. PICK t \in ring : Height(t) \in Int /\ Height(t) >= k
    BY <1>4
  <2>2. PICK u \in ring : Height(u) \in 2..9 /\ Height(t) < Height(u)
    BY <1>2
  <2>3. Height(u) \in Int /\ Height(u) >= k + 1
    BY <2>1, <2>2
  <2> QED BY <2>3
<1>5. ~Above(10)
  BY <1>2
<1> HIDE DEF Above
<1>6. Above(3) /\ Above(4) /\ Above(5) /\ Above(6) /\ Above(7) /\ Above(8) /\ Above(9) /\ Above(10)
  <2>1. Above(3)
    BY <1>3, <1>4, 2 + 1 = 3
  <2>2. Above(4)
    BY <1>4, <2>1, 3 + 1 = 4
  <2>3. Above(5)
    BY <1>4, <2>2, 4 + 1 = 5
  <2>4. Above(6)
    BY <1>4, <2>3, 5 + 1 = 6
  <2>5. Above(7)
    BY <1>4, <2>4, 6 + 1 = 7
  <2>6. Above(8)
    BY <1>4, <2>5, 7 + 1 = 8
  <2>7. Above(9)
    BY <1>4, <2>6, 8 + 1 = 9
  <2>8. Above(10)
    BY <1>4, <2>7, 9 + 1 = 10
  <2> QED BY <2>1, <2>2, <2>3, <2>4, <2>5, <2>6, <2>7, <2>8
<1> QED BY <1>5, <1>6

(* OnlyFormatDeadlocks: whatever requests, uevents and idle checks run at  *)
(* once, and however many, threads that wait for each other in a circle    *)
(* have a call of Format among them.                                       *)
THEOREM OnlyFormatCloses == Spec => []OnlyFormatDeadlocks
BY KeepsLockOrder, NoCircleInOrder, PTL
=============================================================================
