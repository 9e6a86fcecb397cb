---------------------------- MODULE DcmListProofs ----------------------------
(***************************************************************************)
(* The services that keep lists of identifiers: what is sent periodically  *)
(* and what is defined dynamically (DcmPeriodic), and what response on     *)
(* event sets up, starts and stores (DcmRoe); for any identifiers,         *)
(* sources and rows, and lists of any length.                              *)
(***************************************************************************)
EXTENDS DcmPeriodic, DcmRoe, SequenceTheorems, FiniteSetTheorems, WellFoundedInduction, TLAPS

-----------------------------------------------------------------------------
(* Natural numbers: least and largest elements, and induction over a range *)

LEMMA LeastOf ==
  ASSUME NEW S \in SUBSET Nat, S # {}
  PROVE  \E i \in S : \A j \in S : i <= j
<1> DEFINE R == OpToRel(<, Nat)
<1>1. IsWellFoundedOn(R, Nat)
  BY NatLessThanWellFounded
<1>2. \A x, y \in Nat : x < y => <<x, y>> \in R
  BY DEF OpToRel
<1> HIDE DEF R
<1>3. PICK i \in S : \A j \in S : <<j, i>> \notin R
  BY <1>1, WFMin
<1>4. \A j \in S : i <= j
  <2> TAKE j \in S
  <2>1. i \in Nat /\ j \in Nat
    OBVIOUS
  <2>2. ~(j < i)
    BY <1>2, <1>3, <2>1, Zenon
  <2> QED BY <2>1, <2>2
<1> QED BY <1>4
-----------------------------------------------------------------------------
(* What holds of 0 and of every number up to m if it holds of the one before. *)
LEMMA UpTo ==
  ASSUME NEW m \in Nat, NEW S, 0 \in S, \A n \in 1 .. m : n - 1 \in S => n \in S
  PROVE  0 .. m \subseteq S
<1> SUFFICES ASSUME 0 .. m \ S # {} PROVE FALSE
  OBVIOUS
<1>1. PICK i \in 0 .. m \ S : \A j \in 0 .. m \ S : i <= j
  <2>1. 0 .. m \ S \in SUBSET Nat
    OBVIOUS
  <2> QED BY <2>1, LeastOf
<1>2. i \in 1 .. m
  BY <1>1
<1>3. i - 1 \notin S /\ i - 1 \in 0 .. m
  BY <1>2
<1> QED BY <1>1, <1>2, <1>3

LEMMA StepwiseIs ==
  ASSUME NEW t, NEW ops, Len(ops) \in Nat
  PROVE  /\ DOMAIN Stepwise(t, ops) = 0 .. Len(ops)
         /\ Stepwise(t, ops)[0] = t
         /\ \A n \in 1 .. Len(ops) :
              Stepwise(t, ops)[n] = OneStep(Stepwise(t, ops)[n - 1], ops[n])
<1> DEFINE L == Len(ops)
           Run(g, m) == g = [n \in 0 .. m |-> IF n = 0 THEN t ELSE OneStep(g[n - 1], ops[n])]
           S == {m \in 0 .. L : \E g : Run(g, m)}
<1>1. 0 \in S
  <2> DEFINE g == [n \in 0 .. 0 |-> t]
  <2>1. g = [n \in 0 .. 0 |-> IF n = 0 THEN t ELSE OneStep(g[n - 1], ops[n])]
    OBVIOUS
  <2>2. \E h : Run(h, 0)
    BY <2>1, Zenon
  <2> QED BY <2>2
<1>2. ASSUME NEW m \in 1 .. L, m - 1 \in S PROVE m \in S
  <2>1. PICK g : Run(g, m - 1)
    BY <1>2
  <2> HIDE DEF Run
  <2> DEFINE h == [n \in 0 .. m |-> IF n = m THEN OneStep(g[m - 1], ops[m]) ELSE g[n]]
  <2>2. \A n \in 0 .. m - 1 : g[n] = IF n = 0 THEN t ELSE OneStep(g[n - 1], ops[n])
    BY <2>1 DEF Run
  <2>3. \A n \in 0 .. m : h[n] = IF n = 0 THEN t ELSE OneStep(h[n - 1], ops[n])
    <3> SUFFICES ASSUME NEW n \in 0 .. m
                 PROVE  h[n] = IF n = 0 THEN t ELSE OneStep(h[n - 1], ops[n])
      OBVIOUS
    <3>1. CASE n = m
      BY <3>1
    <3>2. CASE n # m
      <4>1. n \in 0 .. m - 1 /\ h[n] = g[n]
        BY <3>2
      <4>2. n # 0 => h[n - 1] = g[n - 1]
        BY <3>2
      <4> QED BY <4>1, <4>2, <2>2
    <3> QED BY <3>1, <3>2
  <2>4. Run(h, m)
    <3>1. h = [n \in 0 .. m |-> h[n]]
      OBVIOUS
    <3> HIDE DEF h
    <3>2. [n \in 0 .. m |-> h[n]]
          = [n \in 0 .. m |-> IF n = 0 THEN t ELSE OneStep(h[n - 1], ops[n])]
      BY <2>3
    <3> QED BY <3>1, <3>2 DEF Run
  <2> QED BY <2>4
<1>3. L \in S
  <2> HIDE DEF S
  <2>1. 0 .. L \subseteq S
    BY <1>1, <1>2, UpTo
  <2> QED BY <2>1
<1>4. Run(CHOOSE g : Run(g, L), L)
  BY <1>3
<1>5. Stepwise(t, ops) = CHOOSE g : Run(g, L)
  BY DEF Stepwise
<1> DEFINE f == Stepwise(t, ops)
<1>6. f = [n \in 0 .. L |-> IF n = 0 THEN t ELSE OneStep(f[n - 1], ops[n])]
  BY <1>4, <1>5
<1> HIDE DEF f, Run, S
<1>7. DOMAIN f = 0 .. L /\ \A n \in 0 .. L : f[n] = IF n = 0 THEN t ELSE OneStep(f[n - 1], ops[n])
  BY <1>6
<1> QED BY <1>7 DEF f

-----------------------------------------------------------------------------
(* The table of periodic identifiers: no identifier twice for a connection. *)
Entries == [did : Dids, rx : Connections, period : Nat, counter : Nat, sample : Samples]
Keys(t) == {KeyOf(t.pdid[i]) : i \in DOMAIN t.pdid}
TableOK(t) ==
  /\ t \in [pdid : Seq(Entries), next : Nat] /\ Len(t.pdid) <= PdidLimit
  /\ \A i, j \in DOMAIN t.pdid : KeyOf(t.pdid[i]) = KeyOf(t.pdid[j]) => i = j
  /\ t.next = 0 \/ t.next < Len(t.pdid)

(* An operation leaves the start index, or resets one that is out of range. *)
StartKept(t, u) == u.next = t.next \/ (u.next = 0 /\ t.next >= Len(u.pdid))

(* The entries of t remain at their place, those of some keys perhaps anew;  *)
(* the first m remain; the first m have other keys than those.               *)
Renews(t, u, period, ks) ==
  /\ Len(t.pdid) <= Len(u.pdid)
  /\ \A i \in 1 .. Len(t.pdid) :
       \/ u.pdid[i] = t.pdid[i]
       \/ KeyOf(t.pdid[i]) \in ks /\ u.pdid[i] = NewEntry(KeyOf(t.pdid[i]), period)
Stays(t, u, m) == m <= Len(u.pdid) /\ \A i \in 1 .. m : u.pdid[i] = t.pdid[i]
Spared(t, ks) == {m \in 0 .. Len(t.pdid) : \A i \in 1 .. m : KeyOf(t.pdid[i]) \notin ks}

LEMMA PeriodicConstants ==
  /\ PdidLimit \in Nat \ {0} /\ DddLimit \in Nat \ {0} /\ SourceLimit \in Nat \ {0}
  /\ DynamicDids \subseteq Dids /\ NoDid \notin Dids
BY PeriodicAssumption

LEMMA TableIs ==
  ASSUME NEW t, TableOK(t)
  PROVE  /\ t.pdid \in Seq(Entries) /\ t.next \in Nat /\ Len(t.pdid) \in Nat
         /\ DOMAIN t.pdid = 1 .. Len(t.pdid) /\ t = [pdid |-> t.pdid, next |-> t.next]
         /\ \A i \in 1 .. Len(t.pdid) : t.pdid[i] \in Entries /\ KeyOf(t.pdid[i]) \in Internal
         /\ Keys(t) \subseteq Internal
         /\ \A k : Holds(t, k) <=> k \in Keys(t)
<1>1. t.pdid \in Seq(Entries) /\ t.next \in Nat /\ t = [pdid |-> t.pdid, next |-> t.next]
  BY DEF TableOK
<1>2. Len(t.pdid) \in Nat /\ DOMAIN t.pdid = 1 .. Len(t.pdid)
  BY <1>1
<1>3. \A i \in 1 .. Len(t.pdid) : t.pdid[i] \in Entries
  BY <1>1
<1>4. \A e \in Entries : KeyOf(e) \in Internal
  BY DEF Entries, KeyOf, Internal
<1>5. \A k : Holds(t, k) <=> k \in Keys(t)
  BY DEF Holds, Keys
<1>6. Keys(t) \subseteq Internal
  BY <1>2, <1>3, <1>4 DEF Keys
<1> QED BY <1>1, <1>2, <1>3, <1>4, <1>5, <1>6

LEMMA PlaceIs ==
  ASSUME NEW t, TableOK(t), NEW k, Holds(t, k)
  PROVE  Place(t, k) \in 1 .. Len(t.pdid) /\ KeyOf(t.pdid[Place(t, k)]) = k
<1>1. \E i \in DOMAIN t.pdid : KeyOf(t.pdid[i]) = k
  BY DEF Holds
<1>2. Place(t, k) \in DOMAIN t.pdid /\ KeyOf(t.pdid[Place(t, k)]) = k
  BY <1>1 DEF Place
<1> QED BY <1>2, TableIs

(* A table has as many keys as entries. *)
LEMMA SizeOf ==
  ASSUME NEW t, TableOK(t)
  PROVE  IsFiniteSet(Keys(t)) /\ Cardinality(Keys(t)) = Len(t.pdid)
<1> DEFINE f == [i \in 1 .. Len(t.pdid) |-> KeyOf(t.pdid[i])]
<1>1. Len(t.pdid) \in Nat /\ DOMAIN t.pdid = 1 .. Len(t.pdid)
  BY TableIs
<1>2. f \in Bijection(1 .. Len(t.pdid), Keys(t))
  BY <1>1 DEF TableOK, Keys, Bijection, Injection, Surjection, IsInjective
<1>3. IsFiniteSet(1 .. Len(t.pdid)) /\ Cardinality(1 .. Len(t.pdid)) = Len(t.pdid)
  BY <1>1, FS_Interval
<1>4. ExistsBijection(1 .. Len(t.pdid), Keys(t))
  BY <1>2, Zenon DEF ExistsBijection
<1> HIDE DEF f
<1> QED BY <1>3, <1>4, FS_Bijection

(* DspPdidRemove *)
LEMMA Removes ==
  ASSUME NEW t, TableOK(t), NEW k
  PROVE  LET u == DspPdidRemove(t, k)
         IN /\ TableOK(u) /\ Keys(u) = Keys(t) \ {k} /\ StartKept(t, u)
            /\ u = t \/ Len(u.pdid) < Len(t.pdid)
            /\ \A m \in Spared(t, {k}) : Stays(t, u, m)
<1> DEFINE u == DspPdidRemove(t, k)
           L == Len(t.pdid)
<1> USE TableIs
<1>1. CASE ~Holds(t, k)
  <2>1. u = t
    BY <1>1 DEF DspPdidRemove
  <2>2. k \notin Keys(t)
    BY <1>1
  <2>3. \A m \in Spared(t, {k}) : Stays(t, u, m)
    BY <2>1 DEF Spared, Stays
  <2> QED BY <2>1, <2>2, <2>3 DEF StartKept
<1>2. CASE Holds(t, k)
  <2> DEFINE p == Place(t, k)
             s == [t.pdid EXCEPT ![p] = t.pdid[L]]
             q == [i \in 1 .. L - 1 |-> s[i]]
  <2>1. p \in 1 .. L /\ KeyOf(t.pdid[p]) = k
    BY <1>2, PlaceIs
  <2>2. s \in Seq(Entries) /\ Len(s) = L
        /\ \A i \in 1 .. L : s[i] = IF i = p THEN t.pdid[L] ELSE t.pdid[i]
    <3>1. t.pdid[L] \in Entries
      BY <2>1
    <3> HIDE DEF p
    <3> QED BY <2>1, <3>1, ExceptSeq
  <2>3. u = [pdid |-> Front(s), next |-> IF t.next >= L - 1 THEN 0 ELSE t.next]
    BY <1>2 DEF DspPdidRemove, Last
  <2> HIDE DEF p, s, u
  <2>4. /\ Front(s) \in Seq(Entries) /\ Len(Front(s)) = L - 1
        /\ \A i \in 1 .. L - 1 : Front(s)[i] = IF i = p THEN t.pdid[L] ELSE t.pdid[i]
    <3>1. \A i \in 1 .. L - 1 : s[i] \in Entries
      BY <2>2
    <3>2. 1 \in Int /\ L - 1 \in Int /\ L - 1 >= 0
      BY <2>1
    <3>3. /\ SubSeq(s, 1, L - 1) \in Seq(Entries)
          /\ Len(SubSeq(s, 1, L - 1)) = IF 1 <= L - 1 THEN L - 1 - 1 + 1 ELSE 0
          /\ \A i \in 1 .. L - 1 - 1 + 1 : SubSeq(s, 1, L - 1)[i] = s[1 + i - 1]
      BY <3>1, <3>2, SubSeqProperties
    <3>4. Len(SubSeq(s, 1, L - 1)) = L - 1
      BY <3>2, <3>3
    <3>5. \A i \in 1 .. L - 1 : SubSeq(s, 1, L - 1)[i] = s[i]
      BY <3>2, <3>3
    <3>6. \A i \in 1 .. L - 1 : s[i] = IF i = p THEN t.pdid[L] ELSE t.pdid[i]
      BY <2>2, <3>2
    <3>7. Front(s) = SubSeq(s, 1, L - 1)
      BY <2>2 DEF Front
    <3> QED BY <3>3, <3>4, <3>5, <3>6, <3>7
  <2> DEFINE r == Front(s)
  <2>5. DOMAIN r = 1 .. L - 1
    BY <2>4
  <2> HIDE DEF r
  <2>6. u.pdid = r /\ u.next = IF t.next >= L - 1 THEN 0 ELSE t.next
    BY <2>3 DEF r
  <2>7. TableOK(u)
    <3>1. u \in [pdid : Seq(Entries), next : Nat]
      BY <2>3, <2>4
    <3>2. Len(r) <= PdidLimit
      BY <2>4, PeriodicConstants DEF TableOK, r
    <3>3. ASSUME NEW i \in 1 .. L - 1, NEW j \in 1 .. L - 1, KeyOf(r[i]) = KeyOf(r[j]) PROVE i = j
      <4>1. \A x, y \in 1 .. L : KeyOf(t.pdid[x]) = KeyOf(t.pdid[y]) => x = y
        BY DEF TableOK
      <4>2. r[i] = (IF i = p THEN t.pdid[L] ELSE t.pdid[i])
            /\ r[j] = (IF j = p THEN t.pdid[L] ELSE t.pdid[j])
        BY <2>4 DEF r
      <4>3. i \in 1 .. L /\ j \in 1 .. L /\ L \in 1 .. L /\ i # L /\ j # L
        BY <2>1
      <4> QED BY <3>3, <4>1, <4>2, <4>3
    <3>4. u.next = 0 \/ u.next < Len(u.pdid)
      BY <2>6, <2>4 DEF r
    <3> QED BY <2>5, <2>6, <3>1, <3>2, <3>3, <3>4 DEF TableOK
  <2>8. Keys(u) = Keys(t) \ {k}
    <3>1. Keys(u) = {KeyOf(r[i]) : i \in 1 .. L - 1}
      BY <2>5, <2>6 DEF Keys
    <3>2. Keys(t) = {KeyOf(t.pdid[i]) : i \in 1 .. L}
      BY DEF Keys
    <3>3. \A x, y \in 1 .. L : KeyOf(t.pdid[x]) = KeyOf(t.pdid[y]) => x = y
      BY DEF TableOK
    <3>4. \A i \in 1 .. L - 1 : \E j \in 1 .. L : j # p /\ r[i] = t.pdid[j]
      <4> TAKE i \in 1 .. L - 1
      <4>1. CASE i = p
        <5>1. L \in 1 .. L /\ L # p /\ r[i] = t.pdid[L]
          BY <4>1, <2>1, <2>4 DEF r
        <5> QED BY <5>1
      <4>2. CASE i # p
        <5>1. i \in 1 .. L /\ r[i] = t.pdid[i]
          BY <4>2, <2>4 DEF r
        <5> QED BY <4>2, <5>1
      <4> QED BY <4>1, <4>2
    <3>5. \A j \in 1 .. L : j # p => \E i \in 1 .. L - 1 : r[i] = t.pdid[j]
      <4> SUFFICES ASSUME NEW j \in 1 .. L, j # p PROVE \E i \in 1 .. L - 1 : r[i] = t.pdid[j]
        OBVIOUS
      <4>1. CASE j = L
        <5>1. p \in 1 .. L - 1 /\ r[p] = t.pdid[j]
          BY <4>1, <2>1, <2>4 DEF r
        <5> QED BY <5>1
      <4>2. CASE j # L
        <5>1. j \in 1 .. L - 1 /\ r[j] = t.pdid[j]
          BY <4>2, <2>4 DEF r
        <5> QED BY <5>1
      <4> QED BY <4>1, <4>2
    <3>6. \A j \in 1 .. L : KeyOf(t.pdid[j]) = k <=> j = p
      BY <3>3, <2>1
    <3>7. Keys(u) \subseteq Keys(t) \ {k}
      BY <3>1, <3>2, <3>4, <3>6
    <3>8. Keys(t) \ {k} \subseteq Keys(u)
      BY <3>1, <3>2, <3>5, <3>6
    <3> QED BY <3>7, <3>8
  <2>9. StartKept(t, u) /\ Len(u.pdid) < L
    BY <2>6, <2>4 DEF StartKept, r
  <2>10. ASSUME NEW m \in Spared(t, {k}) PROVE Stays(t, u, m)
    <3>1. m \in 0 .. L /\ \A i \in 1 .. m : KeyOf(t.pdid[i]) # k
      BY DEF Spared
    <3>2. p \notin 1 .. m
      BY <3>1, <2>1
    <3>3. m <= L - 1
      BY <3>1, <3>2, <2>1
    <3>4. \A i \in 1 .. m : r[i] = t.pdid[i]
      <4> TAKE i \in 1 .. m
      <4>1. i \in 1 .. L - 1 /\ i # p
        BY <3>1, <3>2, <3>3
      <4> QED BY <4>1, <2>4 DEF r
    <3> QED BY <3>3, <3>4, <2>4, <2>6 DEF Stays, r
  <2> QED BY <2>7, <2>8, <2>9, <2>10 DEF u
<1> QED BY <1>1, <1>2

LEMMA NewEntryIs ==
  ASSUME NEW k \in Internal, NEW period \in Nat
  PROVE  NewEntry(k, period) \in Entries /\ KeyOf(NewEntry(k, period)) = k
BY DEF Internal, NewEntry, Entries, KeyOf, Samples

(* DspPdidAddOrUpdate *)
LEMMA Updates ==
  ASSUME NEW t, TableOK(t), NEW k \in Internal, NEW period \in Nat
  PROVE  LET u == DspPdidAddOrUpdate(t, k, period)
         IN /\ TableOK(u) /\ u.next = t.next
            /\ Keys(u) = IF Full(t, k) THEN Keys(t) ELSE Keys(t) \cup {k}
            /\ Renews(t, u, period, {k})
<1> DEFINE u == DspPdidAddOrUpdate(t, k, period)
           L == Len(t.pdid)
           e == NewEntry(k, period)
<1> USE TableIs
<1>1. e \in Entries /\ KeyOf(e) = k
  BY NewEntryIs
<1>5. e = NewEntry(k, period)
  OBVIOUS
<1> HIDE DEF e
<1>2. CASE Holds(t, k) /\ period # 0
  <2> DEFINE p == Place(t, k)
             s == [t.pdid EXCEPT ![p] = e]
  <2>1. p \in 1 .. L /\ KeyOf(t.pdid[p]) = k
    BY <1>2, PlaceIs
  <2> HIDE DEF p
  <2>2. s \in Seq(Entries) /\ Len(s) = L
        /\ \A i \in 1 .. L : s[i] = IF i = p THEN e ELSE t.pdid[i]
    BY <2>1, <1>1, ExceptSeq
  <2>3. u = [t EXCEPT !.pdid = s]
    BY <1>2 DEF DspPdidAddOrUpdate, e, p
  <2> HIDE DEF s, u
  <2>4. u = [pdid |-> s, next |-> t.next]
    BY <2>3
  <2>5. DOMAIN s = 1 .. L /\ \A i \in 1 .. L : KeyOf(s[i]) = KeyOf(t.pdid[i])
    BY <2>1, <2>2, <1>1
  <2>6. TableOK(u)
    BY <2>2, <2>4, <2>5, SMTT(30) DEF TableOK
  <2>7. Keys(u) = Keys(t)
    BY <2>4, <2>5 DEF Keys
  <2>8. ~Full(t, k) /\ k \in Keys(t)
    BY <1>2 DEF Full
  <2>9. Renews(t, u, period, {k})
    BY <2>1, <2>2, <2>4, <1>5 DEF Renews
  <2> QED BY <2>4, <2>6, <2>7, <2>8, <2>9 DEF u
<1>3. CASE ~Holds(t, k) /\ ~Full(t, k)
  <2> DEFINE s == Append(t.pdid, e)
  <2>1. u = [t EXCEPT !.pdid = s]
    BY <1>3 DEF DspPdidAddOrUpdate, e
  <2>2. /\ s \in Seq(Entries) /\ Len(s) = L + 1
        /\ \A i \in 1 .. L : s[i] = t.pdid[i]
        /\ s[L + 1] = e
    BY <1>1, AppendProperties
  <2> HIDE DEF s, u
  <2>3. u = [pdid |-> s, next |-> t.next]
    BY <2>1
  <2>4. DOMAIN s = 1 .. L + 1
    BY <2>2
  <2>5. L + 1 <= PdidLimit
    BY <1>3, PeriodicConstants DEF Full
  <2>6. \A i \in 1 .. L : KeyOf(t.pdid[i]) # k
    BY <1>3 DEF Holds
  <2>7. \A i, j \in 1 .. L + 1 : KeyOf(s[i]) = KeyOf(s[j]) => i = j
    <3> SUFFICES ASSUME NEW i \in 1 .. L + 1, NEW j \in 1 .. L + 1, KeyOf(s[i]) = KeyOf(s[j])
                 PROVE  i = j
      OBVIOUS
    <3>1. CASE i \in 1 .. L /\ j \in 1 .. L
      BY <3>1, <2>2 DEF TableOK
    <3>2. CASE i = L + 1 \/ j = L + 1
      BY <3>2, <2>2, <2>6, <1>1
    <3> QED BY <3>1, <3>2
  <2>8. TableOK(u)
    BY <2>2, <2>3, <2>4, <2>5, <2>7 DEF TableOK
  <2>9. Keys(u) = Keys(t) \cup {k}
    <3>1. Keys(u) = {KeyOf(s[i]) : i \in 1 .. L + 1}
      BY <2>3, <2>4 DEF Keys
    <3>2. Keys(t) = {KeyOf(t.pdid[i]) : i \in 1 .. L}
      BY DEF Keys
    <3>3. Keys(u) \subseteq Keys(t) \cup {k}
      <4>1. \A i \in 1 .. L + 1 : i \in 1 .. L \/ i = L + 1
        OBVIOUS
      <4> QED BY <3>1, <3>2, <4>1, <2>2, <1>1
    <3>4. Keys(t) \cup {k} \subseteq Keys(u)
      <4>1. L + 1 \in 1 .. L + 1 /\ \A i \in 1 .. L : i \in 1 .. L + 1
        OBVIOUS
      <4> QED BY <3>1, <3>2, <4>1, <2>2, <1>1
    <3> QED BY <3>3, <3>4
  <2>10. Renews(t, u, period, {k})
    BY <2>2, <2>3 DEF Renews
  <2> QED BY <1>3, <2>3, <2>8, <2>9, <2>10 DEF u
<1>4. CASE (Holds(t, k) /\ period = 0) \/ Full(t, k)
  <2>1. u = t
    BY <1>4 DEF DspPdidAddOrUpdate, Full
  <2>2. ~Full(t, k) => k \in Keys(t)
    BY <1>4
  <2>3. Renews(t, u, period, {k})
    BY <2>1 DEF Renews
  <2> QED BY <2>1, <2>2, <2>3
<1> QED BY <1>2, <1>3, <1>4 DEF Full

LEMMA RenewsTwice ==
  ASSUME NEW t, NEW u, NEW v, TableOK(t), TableOK(u), TableOK(v),
         NEW period \in Nat, NEW ks, NEW k,
         Renews(t, u, period, ks), Renews(u, v, period, {k})
  PROVE  Renews(t, v, period, ks \cup {k})
<1>1. Len(t.pdid) \in Nat /\ Len(u.pdid) \in Nat /\ Len(v.pdid) \in Nat
  BY TableIs
<1>2. Len(t.pdid) <= Len(v.pdid) /\ \A i \in 1 .. Len(t.pdid) : i \in 1 .. Len(u.pdid)
  BY <1>1 DEF Renews
<1>3. ASSUME NEW i \in 1 .. Len(t.pdid)
      PROVE  \/ v.pdid[i] = t.pdid[i]
             \/ /\ KeyOf(t.pdid[i]) \in ks \cup {k}
                /\ v.pdid[i] = NewEntry(KeyOf(t.pdid[i]), period)
  <2>1. KeyOf(u.pdid[i]) = KeyOf(t.pdid[i])
    <3>1. KeyOf(t.pdid[i]) \in Internal
      BY TableIs
    <3> QED BY <3>1, NewEntryIs DEF Renews
  <2>2. \/ u.pdid[i] = t.pdid[i]
        \/ KeyOf(t.pdid[i]) \in ks /\ u.pdid[i] = NewEntry(KeyOf(t.pdid[i]), period)
    BY DEF Renews
  <2>3. \/ v.pdid[i] = u.pdid[i]
        \/ KeyOf(u.pdid[i]) = k /\ v.pdid[i] = NewEntry(KeyOf(u.pdid[i]), period)
    BY <1>2 DEF Renews
  <2> QED BY <2>1, <2>2, <2>3
<1> QED BY <1>2, <1>3 DEF Renews

(* DspSynchronizePdids *)
LEMMA Synchronizes ==
  ASSUME NEW t, TableOK(t), NEW period \in Nat, NEW rx
  PROVE  LET u == DspSynchronizePdids(t, period, rx)
         IN TableOK(u) /\ u.next = t.next /\ Keys(u) = Keys(t)
<1> DEFINE u == DspSynchronizePdids(t, period, rx)
           L == Len(t.pdid)
           new(i) == IF t.pdid[i].period = period /\ t.pdid[i].rx = rx
                     THEN NewEntry(KeyOf(t.pdid[i]), period) ELSE t.pdid[i]
           s == [i \in 1 .. L |-> new(i)]
<1> USE TableIs
<1>1. \A i \in 1 .. L : new(i) \in Entries /\ KeyOf(new(i)) = KeyOf(t.pdid[i])
  BY NewEntryIs
<1>2. u = [pdid |-> s, next |-> t.next]
  <2>1. s = [i \in DOMAIN t.pdid |-> IF t.pdid[i].period = period /\ t.pdid[i].rx = rx
                                     THEN NewEntry(KeyOf(t.pdid[i]), period) ELSE t.pdid[i]]
    OBVIOUS
  <2>2. u = [t EXCEPT !.pdid = s]
    BY <2>1, Zenon DEF DspSynchronizePdids
  <2> HIDE DEF s, u
  <2> QED BY <2>2
<1> HIDE DEF new, u
<1>3. s \in Seq(Entries) /\ Len(s) = L /\ DOMAIN s = 1 .. L
  BY <1>1
<1>4. \A i \in 1 .. L : KeyOf(s[i]) = KeyOf(t.pdid[i])
  BY <1>1
<1> HIDE DEF s
<1>5. TableOK(u)
  BY <1>2, <1>3, <1>4 DEF TableOK
<1>6. Keys(u) = Keys(t)
  BY <1>2, <1>3, <1>4 DEF Keys
<1> QED BY <1>2, <1>5, <1>6 DEF u

-----------------------------------------------------------------------------
(* Loops over the table, by induction on their steps.                       *)
Ops == [does : {"add", "remove", "pass"}, key : Internal, period : Nat]
Named(ops, what, n) == {ops[m].key : m \in {m \in 1 .. n : ops[m].does = what}}

LEMMA NamedNone ==
  ASSUME NEW ops, NEW what
  PROVE  Named(ops, what, 0) = {}
BY DEF Named

LEMMA RemovesAll ==
  ASSUME NEW t, TableOK(t), NEW ops, Len(ops) \in Nat,
         \A n \in 1 .. Len(ops) : ops[n] \in Ops /\ ops[n].does # "add"
  PROVE  LET u == Final(t, ops)
         IN /\ TableOK(u) /\ Keys(u) = Keys(t) \ Named(ops, "remove", Len(ops))
            /\ StartKept(t, u) /\ (u = t \/ Len(u.pdid) < Len(t.pdid))
            /\ \A m \in Spared(t, Named(ops, "remove", Len(ops))) : Stays(t, u, m)
<1> DEFINE f == Stepwise(t, ops)
           Fine(n) == /\ TableOK(f[n]) /\ Keys(f[n]) = Keys(t) \ Named(ops, "remove", n)
                      /\ StartKept(t, f[n]) /\ (f[n] = t \/ Len(f[n].pdid) < Len(t.pdid))
                      /\ \A m \in Spared(t, Named(ops, "remove", n)) : Stays(t, f[n], m)
           S == {n \in 0 .. Len(ops) : Fine(n)}
<1>1. f[0] = t /\ \A n \in 1 .. Len(ops) : f[n] = OneStep(f[n - 1], ops[n])
  BY StepwiseIs
<1> HIDE DEF f
<1>2. 0 \in S
  <2>1. \A m \in Spared(t, Named(ops, "remove", 0)) : Stays(t, t, m)
    BY TableIs DEF Spared, Stays
  <2> QED BY <1>1, <2>1, NamedNone DEF StartKept
<1>3. ASSUME NEW n \in 1 .. Len(ops), n - 1 \in S PROVE n \in S
  <2> DEFINE u == f[n - 1]
             v == f[n]
             k == ops[n].key
  <2>1. Fine(n - 1)
    BY <1>3
  <2>2. v = OneStep(u, ops[n])
    BY <1>1
  <2>3. Len(t.pdid) \in Nat /\ t.next \in Nat /\ Len(u.pdid) \in Nat
    BY <2>1, TableIs
  <2> HIDE DEF u, v
  <2>4. Named(ops, "remove", n) = Named(ops, "remove", n - 1)
                                  \cup (IF ops[n].does = "remove" THEN {k} ELSE {})
    <3>1. \A m : m \in 1 .. n <=> m \in 1 .. n - 1 \/ m = n
      BY <1>3
    <3> QED BY <3>1 DEF Named
  <2>5. CASE ops[n].does = "pass"
    <3>1. v = u
      BY <2>2, <2>5 DEF OneStep
    <3>2. Named(ops, "remove", n) = Named(ops, "remove", n - 1)
      BY <2>4, <2>5
    <3> QED BY <3>1, <3>2, <2>1 DEF u, v
  <2>6. CASE ops[n].does = "remove"
    <3>1. v = DspPdidRemove(u, k)
      BY <2>2, <2>6 DEF OneStep
    <3>2. /\ TableOK(v) /\ Keys(v) = Keys(u) \ {k} /\ StartKept(u, v)
          /\ v = u \/ Len(v.pdid) < Len(u.pdid)
          /\ \A m \in Spared(u, {k}) : Stays(u, v, m)
      BY <3>1, <2>1, Removes DEF u
    <3>3. Keys(v) = Keys(t) \ Named(ops, "remove", n)
      BY <3>2, <2>1, <2>4, <2>6 DEF u
    <3>4. v = t \/ Len(v.pdid) < Len(t.pdid)
      <4>1. Len(v.pdid) \in Nat
        BY <3>2, TableIs
      <4> QED BY <3>2, <2>1, <2>3, <4>1 DEF u
    <3>5. StartKept(t, v)
      <4>1. Len(v.pdid) \in Nat /\ v.next \in Nat /\ Len(v.pdid) <= Len(u.pdid)
        BY <3>2, <2>3, TableIs
      <4>2. StartKept(t, u) /\ u.next \in Nat
        BY <2>1, TableIs DEF u
      <4>3. CASE u.next = t.next
        BY <4>3, <3>2 DEF StartKept
      <4>4. CASE u.next = 0 /\ t.next >= Len(u.pdid)
        <5>1. v.next = 0
          BY <4>4, <3>2 DEF StartKept
        <5>2. t.next >= Len(v.pdid)
          BY <4>1, <4>4, <2>3
        <5> QED BY <5>1, <5>2 DEF StartKept
      <4> QED BY <4>2, <4>3, <4>4 DEF StartKept
    <3>6. ASSUME NEW m \in Spared(t, Named(ops, "remove", n)) PROVE Stays(t, v, m)
      <4>1. m \in 0 .. Len(t.pdid) /\ \A i \in 1 .. m : KeyOf(t.pdid[i]) \notin Named(ops, "remove", n)
        BY DEF Spared
      <4>2. m \in Spared(t, Named(ops, "remove", n - 1))
        BY <4>1, <2>4 DEF Spared
      <4>3. Stays(t, u, m)
        BY <4>2, <2>1 DEF u
      <4>4. m \in Spared(u, {k})
        BY <4>1, <4>3, <2>3, <2>4, <2>6 DEF Spared, Stays
      <4>5. Stays(u, v, m)
        BY <4>4, <3>2
      <4> QED BY <4>3, <4>5 DEF Stays
    <3> QED BY <3>2, <3>3, <3>4, <3>5, <3>6 DEF v
  <2>7. ops[n].does \in {"remove", "pass"}
    BY DEF Ops
  <2> QED BY <2>5, <2>6, <2>7
<1>4. Len(ops) \in S
  <2> HIDE DEF S
  <2>1. 0 .. Len(ops) \subseteq S
    BY <1>2, <1>3, UpTo
  <2> QED BY <2>1
<1>5. Final(t, ops) = f[Len(ops)]
  BY DEF Final, f
<1> QED BY <1>4, <1>5

(* Additions, as long as the table is not full. *)
LEMMA AddsUntilFull ==
  ASSUME NEW t, TableOK(t), NEW ops, Len(ops) \in Nat, NEW last \in 0 .. Len(ops),
         \A n \in 1 .. Len(ops) : ops[n] \in Ops /\ ops[n].does # "remove",
         \A n \in 1 .. last : ops[n].does = "add"
           => ~Full(Stepwise(t, ops)[n - 1], ops[n].key),
         NEW period \in Nat,
         \A n \in 1 .. Len(ops) : ops[n].does = "add" => ops[n].period = period
  PROVE  LET u == Stepwise(t, ops)[last]
         IN /\ TableOK(u) /\ u.next = t.next /\ Keys(u) = Keys(t) \cup Named(ops, "add", last)
            /\ Renews(t, u, period, Named(ops, "add", last))
<1> DEFINE f == Stepwise(t, ops)
           Fine(n) == /\ TableOK(f[n]) /\ f[n].next = t.next
                      /\ Keys(f[n]) = Keys(t) \cup Named(ops, "add", n)
                      /\ Renews(t, f[n], period, Named(ops, "add", n))
           S == {n \in 0 .. last : Fine(n)}
<1>1. f[0] = t /\ \A n \in 1 .. Len(ops) : f[n] = OneStep(f[n - 1], ops[n])
  BY StepwiseIs
<1>2. \A n \in 1 .. last : ops[n].does = "add" => ~Full(f[n - 1], ops[n].key)
  OBVIOUS
<1> HIDE DEF f
<1>3. 0 \in S
  <2>1. Renews(t, t, period, Named(ops, "add", 0))
    BY TableIs DEF Renews
  <2> QED BY <1>1, <2>1, NamedNone
<1>4. ASSUME NEW n \in 1 .. last, n - 1 \in S PROVE n \in S
  <2> DEFINE u == f[n - 1]
             v == f[n]
             k == ops[n].key
  <2>1. Fine(n - 1)
    BY <1>4
  <2>2. v = OneStep(u, ops[n]) /\ ops[n] \in Ops
    BY <1>1
  <2> HIDE DEF u, v
  <2>3. Named(ops, "add", n) = Named(ops, "add", n - 1)
                               \cup (IF ops[n].does = "add" THEN {k} ELSE {})
    <3>1. \A m : m \in 1 .. n <=> m \in 1 .. n - 1 \/ m = n
      BY <1>4
    <3> QED BY <3>1 DEF Named
  <2>4. CASE ops[n].does = "pass"
    <3>1. v = u
      BY <2>2, <2>4 DEF OneStep
    <3>2. Named(ops, "add", n) = Named(ops, "add", n - 1)
      BY <2>3, <2>4
    <3> QED BY <3>1, <3>2, <2>1 DEF u, v
  <2>5. CASE ops[n].does = "add"
    <3>1. v = DspPdidAddOrUpdate(u, k, ops[n].period)
      BY <2>2, <2>5 DEF OneStep
    <3>2. ~Full(u, k)
      BY <1>2, <2>5 DEF u
    <3>3. k \in Internal /\ ops[n].period \in Nat
      BY <2>2 DEF Ops
    <3>4. TableOK(u)
      BY <2>1 DEF u
    <3>5. /\ TableOK(v) /\ v.next = u.next /\ Keys(v) = Keys(u) \cup {k}
          /\ Renews(u, v, ops[n].period, {k})
      BY <3>1, <3>2, <3>3, <3>4, Updates
    <3>6. ops[n].period = period
      BY <2>5
    <3>7. Named(ops, "add", n) = Named(ops, "add", n - 1) \cup {k}
      BY <2>3, <2>5
    <3>8. Renews(t, u, period, Named(ops, "add", n - 1))
      BY <2>1 DEF u
    <3>9. Renews(t, v, period, Named(ops, "add", n))
      <4>1. Renews(u, v, period, {k})
        BY <3>5, <3>6
      <4>2. TableOK(v)
        BY <3>5
      <4>3. Renews(t, v, period, Named(ops, "add", n - 1) \cup {k})
        BY <3>4, <3>8, <4>1, <4>2, RenewsTwice, Zenon
      <4> QED BY <4>3, <3>7
    <3>10. Keys(v) = Keys(t) \cup Named(ops, "add", n)
      BY <3>5, <3>7, <2>1 DEF u
    <3> QED BY <3>5, <3>9, <3>10, <2>1 DEF u, v
  <2>6. ops[n].does \in {"add", "pass"}
    BY <2>2 DEF Ops
  <2> QED BY <2>4, <2>5, <2>6
<1>5. last \in S
  <2> HIDE DEF S
  <2>1. last \in Nat
    OBVIOUS
  <2>2. 0 .. last \subseteq S
    BY <1>3, <1>4, <2>1, UpTo
  <2> QED BY <2>1, <2>2
<1> QED BY <1>5 DEF f

-----------------------------------------------------------------------------
(* The requests that change the table.                                      *)
NamedBy(list, rx) == {[did |-> list[n], rx |-> rx] : n \in DOMAIN list}

LEMMA AdditionsAre ==
  ASSUME NEW period \in Nat, NEW list \in Seq(Dids), NEW rx \in Connections
  PROVE  LET ops == Additions(period, list, rx)
         IN /\ ops \in Seq(Ops) /\ Len(ops) = Len(list) /\ Len(ops) \in Nat
            /\ DOMAIN ops = 1 .. Len(ops)
            /\ \A n \in 1 .. Len(ops) : ops[n] \in Ops /\ ops[n].does # "remove"
            /\ \A n \in 1 .. Len(ops) : ops[n].does = "add" => ops[n].period = period
            /\ Named(ops, "add", Len(ops)) \subseteq {k \in Internal : Accepted(k.did)}
            /\ \A n \in 1 .. Len(ops) : ops[n].key \in NamedBy(list, rx)
<1> DEFINE ops == Additions(period, list, rx)
           key(i) == [did |-> list[i], rx |-> rx]
<1>1. Len(list) \in Nat /\ DOMAIN list = 1 .. Len(list) /\ \A i \in 1 .. Len(list) : list[i] \in Dids
  OBVIOUS
<1>2. \A i \in 1 .. Len(list) : key(i) \in Internal
  BY <1>1 DEF Internal
<1>3. ops = [i \in 1 .. Len(list) |->
               IF Accepted(list[i]) THEN Adding(key(i), period) ELSE Passing(key(i))]
  BY <1>1 DEF Additions
<1> HIDE DEF ops, key
<1>4. \A i \in 1 .. Len(list) :
        /\ ops[i] \in Ops /\ ops[i].does # "remove"
        /\ ops[i].key = key(i)
        /\ ops[i].does = "add" => Accepted(list[i]) /\ ops[i].period = period
  BY <1>2, <1>3 DEF Adding, Passing, Ops
<1>5. ops \in Seq(Ops) /\ Len(ops) = Len(list) /\ DOMAIN ops = 1 .. Len(list)
  BY <1>1, <1>3, <1>4
<1>6. \A i \in 1 .. Len(list) : key(i).did = list[i]
  BY DEF key
<1>7. Named(ops, "add", Len(list)) \subseteq {k \in Internal : Accepted(k.did)}
  BY <1>2, <1>4, <1>6 DEF Named
<1>8. \A i \in 1 .. Len(list) : ops[i].key \in NamedBy(list, rx)
  BY <1>1, <1>4 DEF NamedBy, key
<1> QED BY <1>1, <1>4, <1>5, <1>7, <1>8 DEF ops

(* A request to schedule: what it adds is accepted; refused, it leaves      *)
(* every entry at its place, and those it names perhaps anew.               *)
LEMMA Schedules ==
  ASSUME TableOK(Table), NEW period \in Nat, NEW list \in Seq(Dids), NEW rx \in Connections
  PROVE  LET r == Schedule(period, list, rx)
         IN /\ TableOK(r.table) /\ r.table.next = Table.next
            /\ r.ret = "refused" => /\ Len(r.table.pdid) = Len(Table.pdid)
                                   /\ Renews(Table, r.table, period, NamedBy(list, rx))
            /\ Keys(r.table) \subseteq Keys(Table) \cup {k \in Internal : Accepted(k.did)}
<1> DEFINE r == Schedule(period, list, rx)
           ops == Additions(period, list, rx)
           after == Stepwise(Table, ops)
           overflow == Overflow(after, ops)
           first == CHOOSE n \in overflow : \A m \in overflow : n <= m
           all == after[Len(ops)]
<1>1. /\ ops \in Seq(Ops) /\ Len(ops) \in Nat /\ DOMAIN ops = 1 .. Len(ops)
      /\ \A n \in 1 .. Len(ops) : ops[n] \in Ops /\ ops[n].does # "remove"
      /\ \A n \in 1 .. Len(ops) : ops[n].does = "add" => ops[n].period = period
      /\ Named(ops, "add", Len(ops)) \subseteq {k \in Internal : Accepted(k.did)}
      /\ \A n \in 1 .. Len(ops) : ops[n].key \in NamedBy(list, rx)
  BY AdditionsAre
<1> HIDE DEF ops
<1>2. \A n : n \in overflow <=> /\ n \in 1 .. Len(ops) /\ ops[n].does = "add"
                                /\ Full(after[n - 1], ops[n].key)
  BY <1>1 DEF Overflow, Added
<1> HIDE DEF overflow, after
<1>6. ASSUME NEW last \in 0 .. Len(ops),
             \A n \in 1 .. last : ops[n].does = "add" => ~Full(after[n - 1], ops[n].key)
      PROVE  /\ TableOK(after[last]) /\ after[last].next = Table.next
             /\ Keys(after[last]) = Keys(Table) \cup Named(ops, "add", last)
             /\ Renews(Table, after[last], period, Named(ops, "add", last))
  <2>1. Len(ops) \in Nat
    BY <1>1
  <2>2. \A n \in 1 .. Len(ops) : ops[n] \in Ops /\ ops[n].does # "remove"
    BY <1>1
  <2>3. \A n \in 1 .. Len(ops) : ops[n].does = "add" => ops[n].period = period
    BY <1>1
  <2>4. \A n \in 1 .. last :
          ops[n].does = "add" => ~Full(Stepwise(Table, ops)[n - 1], ops[n].key)
    BY <1>6 DEF after
  <2> DEFINE t == Table
  <2>5. TableOK(t)
    OBVIOUS
  <2> HIDE DEF t, first, all, r
  <2>6. LET u == Stepwise(t, ops)[last]
        IN /\ TableOK(u) /\ u.next = t.next /\ Keys(u) = Keys(t) \cup Named(ops, "add", last)
           /\ Renews(t, u, period, Named(ops, "add", last))
    <3>1. \A n \in 1 .. last :
            ops[n].does = "add" => ~Full(Stepwise(t, ops)[n - 1], ops[n].key)
      BY <2>4 DEF t
    <3> QED BY <2>1, <2>2, <2>3, <2>5, <3>1, AddsUntilFull
  <2> QED BY <2>6 DEF after, t
<1>3. CASE overflow # {}
  <2> DEFINE last == first - 1
             pre == SubSeq(ops, 1, last)
             undo == Undoing(pre)
             t == after[last]
             u == Final(t, undo)
  <2>1. first \in overflow /\ \A m \in overflow : first <= m
    <3>1. overflow \in SUBSET Nat
      BY <1>1, <1>2
    <3>2. \E n \in overflow : \A m \in overflow : n <= m
      BY <1>3, <3>1, LeastOf
    <3> QED BY <3>2
  <2>2. r = [table |-> u, ret |-> "refused"]
    BY <1>3 DEF Schedule, overflow, after, ops
  <2> HIDE DEF first, r
  <2>3. last \in 0 .. Len(ops) /\ last \in Nat /\ first = last + 1
    BY <2>1, <1>2, <1>1
  <2> HIDE DEF last
  <2>4. \A n \in 1 .. last : ops[n].does = "add" => ~Full(after[n - 1], ops[n].key)
    <3> SUFFICES ASSUME NEW n \in 1 .. last, ops[n].does = "add", Full(after[n - 1], ops[n].key)
                 PROVE  FALSE
      OBVIOUS
    <3>1. n \in 1 .. Len(ops) /\ n < first
      BY <2>3, <1>1
    <3>2. n \in overflow
      BY <3>1, <1>2
    <3> QED BY <3>1, <3>2, <2>1, <2>3, <1>1
  <2>5. /\ TableOK(t) /\ t.next = Table.next /\ Keys(t) = Keys(Table) \cup Named(ops, "add", last)
        /\ Renews(Table, t, period, Named(ops, "add", last))
    BY <2>3, <2>4, <1>6
  <2> HIDE DEF t
  <2>6. /\ Len(pre) = last /\ DOMAIN pre = 1 .. last
        /\ \A n \in 1 .. last : pre[n] = ops[n] /\ ops[n] \in Ops
    <3>1. \A n \in 1 .. last : ops[n] \in Ops
      BY <1>1, <2>3
    <3>2. 1 \in Int /\ last \in Int
      BY <2>3
    <3>3. /\ pre \in Seq(Ops)
          /\ Len(pre) = IF 1 <= last THEN last - 1 + 1 ELSE 0
          /\ \A n \in 1 .. last - 1 + 1 : pre[n] = ops[1 + n - 1]
      BY <3>1, <3>2, SubSeqProperties
    <3> HIDE DEF pre
    <3>4. Len(pre) = last
      BY <3>3, <2>3
    <3>5. \A n \in 1 .. last : pre[n] = ops[n]
      BY <3>3, <2>3
    <3> QED BY <3>1, <3>3, <3>4, <3>5
  <2> HIDE DEF pre
  <2>7. /\ DOMAIN undo = 1 .. last /\ Len(undo) = last
        /\ \A n \in 1 .. last : undo[n] = IF ops[n].does = "add" /\ ~Holds(Table, ops[n].key)
                                          THEN Removing(ops[n].key) ELSE Passing(ops[n].key)
    <3>1. undo = [n \in 1 .. last |-> IF ops[n].does = "add" /\ ~Holds(Table, ops[n].key)
                                      THEN Removing(ops[n].key) ELSE Passing(ops[n].key)]
      BY <2>6 DEF Undoing, Added
    <3> HIDE DEF undo
    <3> QED BY <3>1, <2>3
  <2> HIDE DEF undo
  <2>8. \A n \in 1 .. last : undo[n] \in Ops /\ undo[n].does # "add"
    BY <2>6, <2>7 DEF Removing, Passing, Ops
  <2>9. /\ TableOK(u) /\ Keys(u) = Keys(t) \ Named(undo, "remove", last) /\ StartKept(t, u)
        /\ \A m \in Spared(t, Named(undo, "remove", last)) : Stays(t, u, m)
    BY <2>3, <2>5, <2>7, <2>8, RemovesAll
  <2> HIDE DEF u
  <2>12. Named(undo, "remove", last) = Named(ops, "add", last) \ Keys(Table)
    <3>1. \A n \in 1 .. last : undo[n].key = ops[n].key
            /\ (undo[n].does = "remove" <=> ops[n].does = "add" /\ ops[n].key \notin Keys(Table))
      BY <2>7, TableIs DEF Removing, Passing
    <3> QED BY <3>1 DEF Named
  <2>10. Keys(u) = Keys(Table)
    BY <2>12, <2>5, <2>9
  <2>13. Len(u.pdid) = Len(Table.pdid)
    BY <2>9, <2>10, SizeOf
  <2>14. Renews(Table, u, period, NamedBy(list, rx))
    <3> DEFINE L == Len(Table.pdid)
    <3>1. L \in Nat /\ Len(t.pdid) \in Nat /\ L <= Len(t.pdid)
      BY <2>5, TableIs DEF Renews
    <3>2. ASSUME NEW i \in 1 .. L
          PROVE  /\ KeyOf(t.pdid[i]) \in Keys(Table)
                 /\ \/ t.pdid[i] = Table.pdid[i]
                    \/ /\ KeyOf(Table.pdid[i]) \in NamedBy(list, rx)
                       /\ t.pdid[i] = NewEntry(KeyOf(Table.pdid[i]), period)
      <4>1. \/ t.pdid[i] = Table.pdid[i]
            \/ /\ KeyOf(Table.pdid[i]) \in Named(ops, "add", last)
               /\ t.pdid[i] = NewEntry(KeyOf(Table.pdid[i]), period)
        BY <2>5 DEF Renews
      <4>2. KeyOf(Table.pdid[i]) \in Internal /\ KeyOf(Table.pdid[i]) \in Keys(Table)
        BY TableIs DEF Keys
      <4>3. KeyOf(t.pdid[i]) = KeyOf(Table.pdid[i])
        BY <4>1, <4>2, NewEntryIs
      <4>4. Named(ops, "add", last) \subseteq NamedBy(list, rx)
        <5>1. \A n \in 1 .. last : ops[n].key \in NamedBy(list, rx)
          BY <1>1, <2>3
        <5> QED BY <5>1 DEF Named
      <4> QED BY <4>1, <4>2, <4>3, <4>4
    <3>3. L \in Spared(t, Named(undo, "remove", last))
      BY <3>1, <3>2, <2>12 DEF Spared
    <3>4. Stays(t, u, L)
      BY <3>3, <2>9
    <3> QED BY <3>2, <3>4 DEF Renews, Stays
  <2>11. u.next = Table.next
    <3>1. Len(u.pdid) = Len(Table.pdid)
      BY <2>13
    <3>2. Table.next \in Nat /\ Len(Table.pdid) \in Nat /\ (Table.next = 0 \/ Table.next < Len(Table.pdid))
      BY TableIs DEF TableOK
    <3> QED BY <3>1, <3>2, <2>5, <2>9 DEF StartKept
  <2> QED BY <2>2, <2>9, <2>10, <2>11, <2>13, <2>14 DEF r
<1>4. CASE overflow = {} /\ Added(ops) = {}
  <2>1. r = [table |-> Table, ret |-> "refused"]
    BY <1>4 DEF Schedule, overflow, after, ops
  <2>2. Renews(Table, Table, period, NamedBy(list, rx))
    BY TableIs DEF Renews
  <2> QED BY <2>1, <2>2
<1>5. CASE overflow = {} /\ Added(ops) # {}
  <2>1. \A n \in 1 .. Len(ops) : ops[n].does = "add" => ~Full(after[n - 1], ops[n].key)
    BY <1>5, <1>2
  <2>2. Len(ops) \in 0 .. Len(ops)
    BY <1>1
  <2>3. /\ TableOK(all) /\ all.next = Table.next
        /\ Keys(all) = Keys(Table) \cup Named(ops, "add", Len(ops))
    BY <2>1, <2>2, <1>6
  <2>4. r = [table |-> IF synch THEN DspSynchronizePdids(all, period, rx) ELSE all,
             ret |-> "positive"]
    BY <1>5 DEF Schedule, overflow, after, ops
  <2> HIDE DEF all, r
  <2>5. TableOK(r.table) /\ r.table.next = Table.next /\ Keys(r.table) = Keys(all)
    BY <2>3, <2>4, Synchronizes
  <2>6. r.ret # "refused"
    BY <2>4
  <2>7. Keys(r.table) \subseteq Keys(Table) \cup {k \in Internal : Accepted(k.did)}
    BY <2>3, <2>5, <1>1
  <2> QED BY <2>5, <2>6, <2>7 DEF r
<1> QED BY <1>3, <1>4, <1>5

(* The table after a step: nothing new besides some identifiers, and what   *)
(* starts elsewhere is shorter.                                            *)
Changes(t, u, new) ==
  /\ TableOK(u) /\ Keys(u) \subseteq Keys(t) \cup new
  /\ u.next = t.next \/ Len(u.pdid) < Len(t.pdid)
AcceptedKeys == {k \in Internal : Accepted(k.did)}

LEMMA Becomes ==
  ASSUME NEW t, TableOK(t), BecomesTable(t)
  PROVE  Table' = t
BY TableIs DEF BecomesTable, Table

LEMMA EmptyChanges ==
  ASSUME NEW t, TableOK(t)
  PROVE  Changes(t, EmptyTable, {}) /\ Keys(EmptyTable) = {}
<1>1. EmptyTable.pdid = <<>> /\ EmptyTable.next = 0 /\ Len(EmptyTable.pdid) = 0
  BY DEF EmptyTable
<1>2. EmptyTable \in [pdid : Seq(Entries), next : Nat]
  BY DEF EmptyTable
<1>3. DOMAIN EmptyTable.pdid = {}
  BY <1>1
<1>4. Keys(EmptyTable) = {}
  BY <1>3 DEF Keys
<1>5. TableOK(EmptyTable)
  BY <1>1, <1>2, <1>3, PeriodicConstants DEF TableOK
<1>6. t.next = 0 \/ t.next < Len(t.pdid)
  BY DEF TableOK
<1> QED BY <1>1, <1>4, <1>5, <1>6, TableIs DEF Changes

LEMMA StopChanges ==
  ASSUME TableOK(Table), StopRequest
  PROVE  Changes(Table, Table', {})
<1>1. PICK list \in DidLists, rx \in Connections :
        BecomesTable(Final(Table, [i \in DOMAIN list |-> Removing([did |-> list[i], rx |-> rx])]))
  BY DEF StopRequest
<1> DEFINE ops == [i \in DOMAIN list |-> Removing([did |-> list[i], rx |-> rx])]
           u == Final(Table, ops)
<1>2. list \in Seq(Dids)
  BY PeriodicAssumption
<1>3. Len(list) \in Nat /\ DOMAIN list = 1 .. Len(list) /\ \A i \in 1 .. Len(list) : list[i] \in Dids
  BY <1>2
<1>4. Len(ops) = Len(list) /\ \A i \in 1 .. Len(list) : ops[i] \in Ops /\ ops[i].does # "add"
  BY <1>3 DEF Removing, Ops, Internal
<1> HIDE DEF ops
<1>5. /\ TableOK(u) /\ Keys(u) \subseteq Keys(Table)
      /\ StartKept(Table, u) /\ (u = Table \/ Len(u.pdid) < Len(Table.pdid))
  BY <1>3, <1>4, RemovesAll
<1>6. Table' = u
  BY <1>1, <1>5, Becomes DEF ops
<1> QED BY <1>5, <1>6 DEF Changes

LEMMA ScheduleChanges ==
  ASSUME TableOK(Table), ScheduleRequest
  PROVE  /\ Changes(Table, Table', AcceptedKeys)
         /\ answer' = "refused" => LeavesTable
<1>1. PICK m \in DOMAIN Periods, list \in DidLists, rx \in Connections :
        LET result == Schedule(Periods[m], list, rx)
        IN BecomesTable(result.table) /\ KeepsDdd(result.ret)
  BY DEF ScheduleRequest
<1> DEFINE r == Schedule(Periods[m], list, rx)
<1>2. list \in Seq(Dids) /\ Periods[m] \in Nat
  BY PeriodicAssumption
<1>3. /\ TableOK(r.table) /\ r.table.next = Table.next
      /\ r.ret = "refused" => /\ Len(r.table.pdid) = Len(Table.pdid)
                             /\ Renews(Table, r.table, Periods[m], NamedBy(list, rx))
      /\ Keys(r.table) \subseteq Keys(Table) \cup AcceptedKeys
  BY <1>2, Schedules DEF AcceptedKeys
<1>4. BecomesTable(r.table) /\ answer' = r.ret
  BY <1>1 DEF KeepsDdd
<1> HIDE DEF r
<1>5. Table' = r.table
  BY <1>3, <1>4, Becomes
<1>6. ASSUME answer' = "refused" PROVE LeavesTable
  <2>1. r.table.pdid = pdids' /\ r.table.next = nextStart' /\ Table.pdid = pdids /\ Table.next = nextStart
    BY <1>5 DEF Table
  <2>2. Len(pdids') = Len(pdids) /\ nextStart' = nextStart
    BY <1>3, <1>4, <1>6, <2>1
  <2>3. DOMAIN pdids = 1 .. Len(pdids)
    BY <2>1, TableIs
  <2>4. \A i \in DOMAIN pdids :
          \/ pdids'[i] = pdids[i]
          \/ /\ KeyOf(pdids[i]) \in {[did |-> list[n], rx |-> rx] : n \in DOMAIN list}
             /\ pdids'[i] = NewEntry(KeyOf(pdids[i]), Periods[m])
    BY <1>3, <1>4, <1>6, <2>1, <2>3 DEF Renews, NamedBy
  <2> QED BY <2>2, <2>4 DEF LeavesTable
<1> QED BY <1>3, <1>4, <1>5, <1>6 DEF Changes

(* Entries that are replaced by entries of the same key. *)
LEMMA Revised ==
  ASSUME NEW t, TableOK(t), NEW s \in Seq(Entries), Len(s) = Len(t.pdid),
         \A i \in 1 .. Len(s) : KeyOf(s[i]) = KeyOf(t.pdid[i]),
         NEW next \in Nat, next < Len(s) \/ next = t.next
  PROVE  TableOK([pdid |-> s, next |-> next]) /\ Keys([pdid |-> s, next |-> next]) = Keys(t)
<1> DEFINE u == [pdid |-> s, next |-> next]
<1>1. DOMAIN s = 1 .. Len(t.pdid) /\ DOMAIN t.pdid = 1 .. Len(t.pdid)
  BY TableIs
<1>2. u.pdid = s /\ u.next = next /\ u \in [pdid : Seq(Entries), next : Nat]
  OBVIOUS
<1> HIDE DEF u
<1>3. Keys(u) = Keys(t)
  BY <1>1, <1>2 DEF Keys
<1>4. TableOK(u)
  BY <1>1, <1>2 DEF TableOK
<1> QED BY <1>3, <1>4 DEF u

LEMMA InternalChanges ==
  ASSUME TableOK(Table), NEW k \in Internal, InternalRead(k)
  PROVE  Changes(Table, Table', AcceptedKeys)
<1> DEFINE t == DspPdidAddOrUpdate(Table, k, 0)
           sent == [t EXCEPT !.pdid[Place(t, k)].sample = "not_sampled"]
           ended == DspPdidRemove(t, k)
<1>1. CASE BecomesTable(Table)
  <2>1. Table' = Table
    BY <1>1, Becomes
  <2> QED BY <2>1 DEF Changes
<1>2. CASE Accepted(k.did) /\ ~Full(Table, k) /\ (BecomesTable(sent) \/ BecomesTable(ended))
  <2>1. TableOK(t) /\ t.next = Table.next /\ Keys(t) = Keys(Table) \cup {k}
    BY <1>2, Updates
  <2>2. k \in AcceptedKeys
    BY <1>2 DEF AcceptedKeys
  <2>3. CASE BecomesTable(ended)
    <3>1. TableOK(ended) /\ Keys(ended) = Keys(t) \ {k} /\ StartKept(t, ended)
      BY <2>1, Removes
    <3>2. Table' = ended
      BY <2>3, <3>1, Becomes
    <3> HIDE DEF t, ended
    <3>3. Keys(ended) = Keys(Table) \ {k}
      BY <2>1, <3>1
    <3>4. /\ Len(Table.pdid) \in Nat /\ Table.next \in Nat
          /\ Table.next = 0 \/ Table.next < Len(Table.pdid)
      BY TableIs DEF TableOK
    <3>5. /\ IsFiniteSet(Keys(Table)) /\ Cardinality(Keys(Table)) = Len(Table.pdid)
          /\ Cardinality(Keys(ended)) = Len(ended.pdid)
      BY <3>1, SizeOf
    <3>6. Len(ended.pdid) = IF k \in Keys(Table) THEN Len(Table.pdid) - 1 ELSE Len(Table.pdid)
      <4>1. Cardinality(Keys(Table) \ {k})
            = IF k \in Keys(Table) THEN Cardinality(Keys(Table)) - 1 ELSE Cardinality(Keys(Table))
        BY <3>5, FS_RemoveElement, Zenon
      <4> QED BY <4>1, <3>3, <3>5, Zenon
    <3>7. ended.next = Table.next \/ Len(ended.pdid) < Len(Table.pdid)
      BY <2>1, <3>1, <3>4, <3>6, SMTT(30) DEF StartKept
    <3> QED BY <3>1, <3>2, <3>3, <3>7 DEF Changes
  <2>4. CASE BecomesTable(sent)
    <3> HIDE DEF t
    <3> DEFINE p == Place(t, k)
               e == [t.pdid[p] EXCEPT !.sample = "not_sampled"]
               s == [t.pdid EXCEPT ![p] = e]
    <3>1. p \in 1 .. Len(t.pdid)
      BY <2>1, PlaceIs, TableIs
    <3>2. sent = [t EXCEPT !.pdid = s]
      OBVIOUS
    <3> HIDE DEF p, sent
    <3>3. t.pdid[p] \in Entries /\ t = [pdid |-> t.pdid, next |-> t.next]
      BY <2>1, <3>1, TableIs
    <3>4. e \in Entries /\ KeyOf(e) = KeyOf(t.pdid[p])
      BY <3>3 DEF Entries, KeyOf, Samples
    <3> HIDE DEF e
    <3>5. t.pdid \in Seq(Entries) /\ t.next \in Nat
      BY <2>1, TableIs
    <3>6. s \in Seq(Entries) /\ Len(s) = Len(t.pdid)
          /\ \A i \in 1 .. Len(s) : s[i] = IF i = p THEN e ELSE t.pdid[i]
      BY <3>1, <3>4, <3>5, ExceptSeq
    <3> HIDE DEF s
    <3>7. sent = [pdid |-> s, next |-> t.next]
      BY <3>2, <3>3
    <3>8. TableOK(sent) /\ Keys(sent) = Keys(t) /\ sent.next = t.next
      BY <2>1, <3>4, <3>5, <3>6, <3>7, Revised
    <3>9. Table' = sent
      BY <2>4, <3>8, Becomes DEF sent
    <3> QED BY <2>1, <2>2, <3>8, <3>9 DEF Changes
  <2> QED BY <1>2, <2>3, <2>4
<1> QED BY <1>1, <1>2 DEF InternalRead

-----------------------------------------------------------------------------
(* Turns: one that has been passed over comes, from the start index on,     *)
(* before as many others are left as have been sent in its place.           *)
Nth(t, i) == ((t.next + i) % Len(t.pdid)) + 1
ComesWithin(t, k, n) == \E i \in 0 .. Len(t.pdid) - 1 :
                    KeyOf(t.pdid[Nth(t, i)]) = k /\ n + i <= Len(t.pdid) - 1
InTurn(t, waited) ==
  waited \in [Internal -> Nat] /\ \A k \in Internal : waited[k] = 0 \/ ComesWithin(t, k, waited[k])

LEMMA Wraps ==
  ASSUME NEW L \in Nat \ {0}, NEW a \in 0 .. L - 1, NEW b \in 0 .. L
  PROVE  (a + b) % L = IF a + b < L THEN a + b ELSE a + b - L
<1>1. CASE a + b < L
  BY <1>1
<1>2. CASE a + b >= L
  <2>1. a + b - L \in 0 .. L - 1
    BY <1>2
  <2> QED BY <1>2, <2>1
<1> QED BY <1>1, <1>2

LEMMA WrapsFurther ==
  ASSUME NEW L \in Nat \ {0}, NEW n \in 0 .. L - 1, NEW first \in 0 .. L - 1
  PROVE  /\ (n + first + 1) % L \in 0 .. L - 1
         /\ \A i \in 0 .. L - 1 : first < i =>
              (((n + first + 1) % L) + (i - first - 1)) % L = (n + i) % L
<1> DEFINE m == (n + first + 1) % L
<1>1. m = IF n + first + 1 < L THEN n + first + 1 ELSE n + first + 1 - L
  <2>1. first + 1 \in 0 .. L
    OBVIOUS
  <2>2. (n + (first + 1)) % L
        = IF n + (first + 1) < L THEN n + (first + 1) ELSE n + (first + 1) - L
    BY <2>1, Wraps
  <2>3. n + first + 1 = n + (first + 1)
    OBVIOUS
  <2> QED BY <2>2, <2>3
<1> HIDE DEF m
<1>2. m \in 0 .. L - 1
  BY <1>1
<1>3. ASSUME NEW i \in 0 .. L - 1, first < i PROVE (m + (i - first - 1)) % L = (n + i) % L
  <2> DEFINE j == i - first - 1
  <2>1. j \in 0 .. L /\ i \in 0 .. L
    BY <1>3
  <2>2. (n + i) % L = IF n + i < L THEN n + i ELSE n + i - L
    BY <2>1, Wraps
  <2> HIDE DEF j
  <2>3. (m + j) % L = IF m + j < L THEN m + j ELSE m + j - L
    BY <1>2, <2>1, Wraps
  <2> DEFINE a == (n + i) % L
             b == (m + j) % L
  <2> HIDE DEF a, b
  <2>4. a = b
    BY <1>1, <1>2, <2>2, <2>3 DEF a, b, j
  <2> QED BY <2>4 DEF a, b, j
<1> QED BY <1>2, <1>3 DEF m

LEMMA NthIs ==
  ASSUME NEW t, TableOK(t), Len(t.pdid) > 0
  PROVE  /\ t.next \in 0 .. Len(t.pdid) - 1
         /\ \A i \in 0 .. Len(t.pdid) : Nth(t, i) \in 1 .. Len(t.pdid)
         /\ \A i, j \in 0 .. Len(t.pdid) - 1 : Nth(t, i) = Nth(t, j) => i = j
<1> DEFINE L == Len(t.pdid)
           n == t.next
<1>1. L \in Nat \ {0} /\ n \in 0 .. L - 1
  BY TableIs DEF TableOK
<1>2. \A i \in 0 .. L : Nth(t, i) = IF n + i < L THEN n + i + 1 ELSE n + i - L + 1
  BY <1>1, Wraps DEF Nth
<1> HIDE DEF n, L
<1>3. \A i \in 0 .. L : Nth(t, i) \in 1 .. L
  BY <1>1, <1>2
<1>4. ASSUME NEW i \in 0 .. L - 1, NEW j \in 0 .. L - 1, Nth(t, i) = Nth(t, j) PROVE i = j
  BY <1>1, <1>2, <1>4
<1> QED BY <1>1, <1>3, <1>4 DEF n, L

(* What the table keeps and whoever it passes over or not: a step that      *)
(* leaves the turns alone leaves the index.                                 *)
LEMMA TurnsKept ==
  ASSUME TableOK(Table), InTurn(Table, passed), KeepsTurns,
         NEW new, Changes(Table, Table', new)
  PROVE  InTurn(Table', passed')
<1>1. TableOK(Table') /\ (Table'.next = Table.next \/ Len(Table'.pdid) < Len(Table.pdid))
  BY DEF Changes
<1>2. CASE Turns' = Turns
  <2>1. passed' = passed
    BY <1>2 DEF KeepsTurns
  <2> DEFINE L == Len(Table.pdid)
             u == Table'
  <2>2. Table.pdid = pdids /\ u.pdid = pdids'
    BY DEF Table
  <2>3. DOMAIN Turns = DOMAIN pdids /\ DOMAIN Turns' = DOMAIN pdids'
    BY DEF Turns
  <2>4. DOMAIN Table.pdid = 1 .. L /\ DOMAIN u.pdid = 1 .. Len(u.pdid) /\ L \in Nat
        /\ Len(u.pdid) \in Nat
    BY <1>1, TableIs
  <2>5. Len(u.pdid) = L
    <3>1. 1 .. Len(u.pdid) = 1 .. L
      BY <1>2, <2>2, <2>3, <2>4
    <3> QED BY <3>1, <2>4
  <2>6. \A i \in 1 .. L : KeyOf(u.pdid[i]) = KeyOf(Table.pdid[i])
    <3> TAKE i \in 1 .. L
    <3>1. Turns[i] = <<KeyOf(pdids[i]), pdids[i].counter>>
      BY <2>2, <2>4 DEF Turns
    <3>2. Turns'[i] = <<KeyOf(pdids[i])', (pdids[i].counter)'>>
      BY <2>2, <2>4, <2>5 DEF Turns
    <3>3. KeyOf(pdids[i])' = KeyOf(u.pdid[i])
      BY <2>2 DEF KeyOf
    <3> QED BY <1>2, <2>2, <3>1, <3>2, <3>3
  <2>7. u.next = Table.next
    BY <1>1, <2>5, <2>4
  <2> HIDE DEF u
  <2>8. \A i \in 0 .. L - 1 : Nth(u, i) = Nth(Table, i) /\ Nth(Table, i) \in 1 .. L
    <3> TAKE i \in 0 .. L - 1
    <3>1. L > 0
      BY <2>4
    <3>2. Nth(Table, i) \in 1 .. L
      BY <2>4, <3>1, NthIs
    <3> QED BY <3>2, <2>5, <2>7 DEF Nth
  <2>9. ASSUME NEW k \in Internal PROVE passed[k] = 0 \/ ComesWithin(u, k, passed[k])
    BY <2>5, <2>6, <2>8 DEF InTurn, ComesWithin
  <2> QED BY <2>1, <2>9 DEF InTurn, u
<1>3. CASE Turns' # Turns
  <2>1. passed' = NobodyPassed
    BY <1>3 DEF KeepsTurns
  <2> QED BY <2>1 DEF InTurn, NobodyPassed
<1> QED BY <1>2, <1>3

LEMMA TurnsBound ==
  ASSUME TableOK(Table), InTurn(Table, passed)
  PROVE  EachInTurn
<1> SUFFICES ASSUME NEW k \in Internal PROVE passed[k] <= PdidLimit - 1
  BY DEF EachInTurn
<1>1. PdidLimit \in Nat \ {0} /\ Len(Table.pdid) \in Nat /\ Len(Table.pdid) <= PdidLimit
  BY PeriodicConstants, TableIs DEF TableOK
<1>2. passed[k] \in Nat /\ (passed[k] = 0 \/ ComesWithin(Table, k, passed[k]))
  BY DEF InTurn
<1> QED BY <1>1, <1>2 DEF ComesWithin

LEMMA TickedIs ==
  ASSUME NEW e \in Entries
  PROVE  Ticked(e) \in Entries /\ KeyOf(Ticked(e)) = KeyOf(e)
BY DEF Ticked, Entries, KeyOf

(* DspPeriodicDIDMainFunction *)
LEMMA SendsInTurn ==
  ASSUME TableOK(Table), InTurn(Table, passed), DspPeriodicDIDMainFunction
  PROVE  /\ TableOK(Table') /\ Keys(Table') = Keys(Table) /\ InTurn(Table', passed')
         /\ inbox' = inbox \/ inbox' \in Internal
<1> DEFINE L == Len(pdids)
           t == [i \in DOMAIN pdids |-> Ticked(pdids[i])]
           due == {i \in 0 .. Len(pdids) - 1 : Due(t[Place1(i)])}
           sends == inbox = Nothing /\ due # {}
           first == CHOOSE i \in due : \A j \in due : i <= j
           trying == {Place1(i) : i \in IF sends THEN {first} ELSE due}
           u(o) == [i \in DOMAIN t |-> [t[i] EXCEPT !.sample = o[i]]]
<1>1. PICK o \in SampleOutcomes(t, trying) :
        IF sends
        THEN /\ pdids' = [u(o) EXCEPT ![Place1(first)].counter = 0]
             /\ nextStart' = StartAfter(first)
             /\ inbox' = KeyOf(u(o)[Place1(first)])
             /\ passed' = [k \in Internal |->
                  IF k # inbox' /\ \E i \in due : KeyOf(u(o)[Place1(i)]) = k
                  THEN passed[k] + 1 ELSE 0]
        ELSE pdids' = u(o) /\ UNCHANGED <<nextStart, inbox, passed>>
  BY DEF DspPeriodicDIDMainFunction
<1>2. Table.pdid = pdids /\ Table.next = nextStart /\ Table' = [pdid |-> pdids', next |-> nextStart']
  BY DEF Table
<1>3. /\ pdids \in Seq(Entries) /\ L \in Nat /\ DOMAIN pdids = 1 .. L /\ nextStart \in Nat
      /\ \A i \in 1 .. L : pdids[i] \in Entries
  BY <1>2, TableIs
<1>4. DOMAIN t = 1 .. L /\ \A i \in 1 .. L : t[i] \in Entries /\ KeyOf(t[i]) = KeyOf(pdids[i])
  BY <1>3, TickedIs
<1>5. \A i \in 1 .. L : o[i] \in Samples
  BY <1>4 DEF SampleOutcomes
<1> HIDE DEF t, due, trying
<1>6. DOMAIN u(o) = 1 .. L
      /\ \A i \in 1 .. L : u(o)[i] \in Entries /\ KeyOf(u(o)[i]) = KeyOf(pdids[i])
  BY <1>4, <1>5 DEF Entries, KeyOf
<1>7. u(o) \in Seq(Entries) /\ Len(u(o)) = L
  BY <1>3, <1>4, <1>6
<1> DEFINE v == u(o)
<1> HIDE DEF u
<1>8. CASE ~sends
  <2>1. pdids' = v /\ nextStart' = nextStart /\ passed' = passed /\ inbox' = inbox
    BY <1>1, <1>8
  <2> HIDE DEF v
  <2>2. TableOK(Table') /\ Keys(Table') = Keys(Table)
    BY <2>1, <1>2, <1>3, <1>6, <1>7, Revised DEF v
  <2>3. Len(Table'.pdid) = L /\ Table'.next = Table.next
    BY <2>1, <1>2, <1>7 DEF v
  <2>4. Len(Table.pdid) = L /\ Table'.pdid = v
    BY <1>2, <2>1
  <2>5. \A i \in 0 .. L - 1 : Nth(Table', i) = Nth(Table, i) /\ Nth(Table, i) \in 1 .. L
    <3> TAKE i \in 0 .. L - 1
    <3>1. L > 0
      BY <1>3
    <3>2. Nth(Table, i) \in 1 .. L
      BY <1>3, <2>4, <3>1, NthIs
    <3> QED BY <3>2, <2>3, <2>4 DEF Nth
  <2>6. \A k \in Internal : passed[k] = 0 \/ ComesWithin(Table', k, passed[k])
    BY <2>3, <2>4, <2>5, <1>2, <1>6 DEF InTurn, ComesWithin, v
  <2> QED BY <2>1, <2>2, <2>6 DEF InTurn
<1>9. CASE sends
  <2>1. /\ pdids' = [v EXCEPT ![Place1(first)].counter = 0]
        /\ nextStart' = StartAfter(first)
        /\ inbox' = KeyOf(v[Place1(first)])
        /\ passed' = [k \in Internal |->
             IF k # inbox' /\ \E i \in due : KeyOf(v[Place1(i)]) = k
             THEN passed[k] + 1 ELSE 0]
    BY <1>1, <1>9
  <2> HIDE DEF v
  <2>2. first \in due /\ \A j \in due : first <= j
    <3>1. due \in SUBSET Nat /\ due # {}
      BY <1>9, <1>3 DEF due
    <3>2. \E i \in due : \A j \in due : i <= j
      BY <3>1, LeastOf
    <3> QED BY <3>2
  <2> HIDE DEF first
  <2>3. due \subseteq 0 .. L - 1 /\ first \in 0 .. L - 1 /\ L \in Nat \ {0}
    BY <2>2, <1>3 DEF due
  <2>4. /\ nextStart \in 0 .. L - 1
        /\ \A i \in 0 .. L : Place1(i) = Nth(Table, i) /\ Place1(i) \in 1 .. L
        /\ \A i, j \in 0 .. L - 1 : Place1(i) = Place1(j) => i = j
    <3>1. \A i : Place1(i) = Nth(Table, i)
      BY <1>2 DEF Place1, Nth
    <3> QED BY <3>1, <1>2, <2>3, NthIs, SMTT(30)
  <2> DEFINE p == Place1(first)
             e == [v[p] EXCEPT !.counter = 0]
             w == [v EXCEPT ![p] = e]
  <2>5. p \in 1 .. L
    <3>1. first \in 0 .. L
      BY <2>3
    <3> QED BY <3>1, <2>4
  <2>6. pdids' = w
    BY <2>1
  <2> HIDE DEF p
  <2>7. e \in Entries /\ KeyOf(e) = KeyOf(v[p])
    BY <2>5, <1>6 DEF Entries, KeyOf, v
  <2> HIDE DEF e
  <2>8. w \in Seq(Entries) /\ Len(w) = L
        /\ \A i \in 1 .. L : w[i] = IF i = p THEN e ELSE v[i]
    BY <2>5, <2>7, <1>7, ExceptSeq DEF v
  <2> HIDE DEF w
  <2>9. \A i \in 1 .. L : KeyOf(w[i]) = KeyOf(pdids[i]) /\ KeyOf(v[i]) = KeyOf(pdids[i])
    BY <2>7, <2>8, <1>6 DEF v
  <2>10. nextStart' = (nextStart + first + 1) % L
    BY <2>1 DEF StartAfter
  <2>11. /\ nextStart' \in 0 .. L - 1
         /\ \A i \in 0 .. L - 1 : first < i =>
              (nextStart' + (i - first - 1)) % L = (nextStart + i) % L
    <3> HIDE DEF L
    <3>1. /\ L \in Nat \ {0}
          /\ nextStart \in 0 .. L - 1
          /\ first \in 0 .. L - 1
      BY <2>3, <2>4
    <3>2. /\ (nextStart + first + 1) % L \in 0 .. L - 1
          /\ \A i \in 0 .. L - 1 : first < i =>
               (((nextStart + first + 1) % L) + (i - first - 1)) % L = (nextStart + i) % L
      BY <3>1, WrapsFurther, Zenon
    <3> QED BY <3>2, <2>10, Zenon
  <2>12. TableOK(Table') /\ Keys(Table') = Keys(Table)
    <3>1. Table' = [pdid |-> w, next |-> nextStart']
      BY <1>2, <2>6
    <3>2. nextStart' \in Nat /\ nextStart' < Len(w) /\ Len(w) = Len(Table.pdid)
      BY <2>11, <2>8, <1>2, <1>3
    <3>3. \A i \in 1 .. Len(w) : KeyOf(w[i]) = KeyOf(Table.pdid[i])
      BY <2>8, <2>9, <1>2
    <3> HIDE DEF L
    <3> QED BY <3>1, <3>2, <3>3, <2>8, Revised
  <2>13. Table'.pdid = w /\ Table'.next = nextStart' /\ Len(Table'.pdid) = L
    BY <1>2, <2>6, <2>8
  <2>14. ASSUME NEW i \in due, i # first
         PROVE  i - first - 1 \in 0 .. L - 1 /\ Nth(Table', i - first - 1) = Place1(i)
    <3>1. i \in 0 .. L - 1 /\ first < i
      BY <2>2, <2>3, <2>14
    <3>2. i - first - 1 \in 0 .. L - 1
      BY <3>1, <2>3
    <3>3. (nextStart' + (i - first - 1)) % L = (nextStart + i) % L
      BY <2>11, <3>1
    <3>6. Nth(Table', i - first - 1) = ((nextStart' + (i - first - 1)) % L) + 1
      BY <2>13 DEF Nth
    <3>7. Place1(i) = ((nextStart + i) % L) + 1
      BY DEF Place1
    <3> HIDE DEF L
    <3> QED BY <3>2, <3>3, <3>6, <3>7
  <2>15. ASSUME NEW k \in Internal PROVE passed'[k] = 0 \/ ComesWithin(Table', k, passed'[k])
    <3>1. CASE ~(k # inbox' /\ \E i \in due : KeyOf(v[Place1(i)]) = k)
      BY <3>1, <2>1
    <3>2. CASE k # inbox' /\ \E i \in due : KeyOf(v[Place1(i)]) = k
      <4>1. PICK i \in due : KeyOf(v[Place1(i)]) = k
        BY <3>2
      <4>2. i # first /\ passed'[k] = passed[k] + 1
        BY <3>2, <4>1, <2>1
      <4>3. i \in 0 .. L - 1 /\ first < i /\ Place1(i) \in 1 .. L
        BY <4>2, <2>2, <2>3, <2>4
      <4>4. KeyOf(pdids[Place1(i)]) = k /\ KeyOf(w[Place1(i)]) = k
        BY <4>1, <4>3, <2>9
      <4>5. passed[k] \in Nat /\ (passed[k] = 0 \/ ComesWithin(Table, k, passed[k]))
        BY DEF InTurn
      <4>6. passed[k] + i <= L - 1
        <5>1. CASE passed[k] = 0
          BY <5>1, <4>3, <2>3
        <5>2. CASE ComesWithin(Table, k, passed[k])
          <6>1. PICK j \in 0 .. L - 1 : KeyOf(pdids[Place1(j)]) = k /\ passed[k] + j <= L - 1
            <7>1. PICK j \in 0 .. L - 1 :
                    KeyOf(pdids[Nth(Table, j)]) = k /\ passed[k] + j <= L - 1
              BY <5>2, <1>2 DEF ComesWithin
            <7>2. j \in 0 .. L
              BY <1>3
            <7>3. Place1(j) = Nth(Table, j)
              BY <7>2, <2>4
            <7> QED BY <7>1, <7>3
          <6>2. Place1(j) \in 1 .. L
            <7>1. j \in 0 .. L
              BY <1>3
            <7> QED BY <7>1, <2>4
          <6>3. Place1(j) = Place1(i)
            <7>1. \A x, y \in 1 .. L : KeyOf(pdids[x]) = KeyOf(pdids[y]) => x = y
              BY <1>2, <1>3 DEF TableOK
            <7> QED BY <7>1, <6>1, <6>2, <4>3, <4>4
          <6>4. j = i
            BY <6>3, <4>3, <2>4
          <6> QED BY <6>1, <6>4
        <5> QED BY <5>1, <5>2, <4>5
      <4>7. /\ i - first - 1 \in 0 .. L - 1
            /\ KeyOf(Table'.pdid[Nth(Table', i - first - 1)]) = k
        BY <4>2, <4>4, <2>13, <2>14
      <4>8. passed'[k] + (i - first - 1) <= L - 1
        BY <4>2, <4>3, <4>5, <4>6, <2>3
      <4> QED BY <4>7, <4>8, <2>13 DEF ComesWithin
    <3> QED BY <3>1, <3>2
  <2>16. passed' \in [Internal -> Nat]
    BY <2>1 DEF InTurn
  <2>17. inbox' \in Internal
    <3>1. v[Place1(first)] \in Entries
      BY <2>5, <1>6 DEF p, v
    <3> QED BY <2>1, <3>1 DEF Entries, KeyOf, Internal
  <2> QED BY <2>12, <2>15, <2>16, <2>17 DEF InTurn
<1> QED BY <1>8, <1>9

-----------------------------------------------------------------------------
LEMMA LargestOf ==
  ASSUME NEW S \in SUBSET Nat, S # {}, IsFiniteSet(S)
  PROVE  \E n \in S : \A m \in S : m <= n
<1> DEFINE above(n) == {m \in S : m > n}
           sizes == {Cardinality(above(n)) : n \in S}
<1>1. \A n \in S : IsFiniteSet(above(n)) /\ Cardinality(above(n)) \in Nat
  BY FS_Subset, FS_CardinalityType
<1>2. sizes \in SUBSET Nat /\ sizes # {}
  BY <1>1
<1>3. PICK k \in sizes : \A j \in sizes : k <= j
  BY <1>2, LeastOf
<1>4. PICK n \in S : k = Cardinality(above(n))
  OBVIOUS
<1>5. ASSUME NEW m \in S, m > n PROVE FALSE
  <2>1. m \in Nat /\ n \in Nat
    OBVIOUS
  <2>2. above(m) \subseteq above(n)
    <3>1. ASSUME NEW i \in S, i > m PROVE i > n
      <4>1. i \in Nat
        OBVIOUS
      <4> QED BY <1>5, <2>1, <3>1, <4>1
    <3> QED BY <3>1
  <2>3. m \in above(n) /\ m \notin above(m)
    BY <1>5, <2>1
  <2>4. IsFiniteSet(above(n)) /\ Cardinality(above(m)) \in Nat /\ Cardinality(above(n)) \in Nat
    BY <1>1
  <2> HIDE DEF above
  <2>6. above(m) # above(n)
    BY <2>3
  <2>7. /\ Cardinality(above(m)) <= Cardinality(above(n))
        /\ Cardinality(above(m)) # Cardinality(above(n))
    BY <2>2, <2>4, <2>6, FS_Subset
  <2>5. Cardinality(above(n)) <= Cardinality(above(m))
    BY <1>3, <1>4
  <2> QED BY <2>4, <2>5, <2>7
<1>6. \A m \in S : m <= n
  <2> TAKE m \in S
  <2>1. m \in Nat /\ n \in Nat
    OBVIOUS
  <2> QED BY <1>5, <2>1
<1> QED BY <1>6

(* The dynamic definitions: packed from the first slot on, none of them     *)
(* twice.                                                                   *)
Slots == [did : DynamicDids \cup {NoDid},
          source : [1 .. SourceLimit -> Dids \cup Addresses \cup {NoSource}]]
Packed(slots) ==
  /\ slots \in [1 .. DddLimit -> Slots]
  /\ \A m, n \in 1 .. DddLimit :
       m < n /\ slots[n].did # NoDid => slots[m].did \notin {NoDid, slots[n].did}
DidsOf(slots) == {slots[n].did : n \in 1 .. DddLimit}

LEMMA SlotIs ==
  ASSUME Packed(ddd), NEW d \in DynamicDids
  PROVE  /\ Defined(d) <=> d \in DidsOf(ddd)
         /\ Defined(d) => SlotOf(d) \in 1 .. DddLimit /\ ddd[SlotOf(d)].did = d
         /\ d # NoDid
         /\ \A m, n \in 1 .. DddLimit : ddd[m].did = d /\ ddd[n].did = d => m = n
<1>1. Defined(d) <=> d \in DidsOf(ddd)
  BY DEF Defined, DidsOf
<1>2. Defined(d) => SlotOf(d) \in 1 .. DddLimit /\ ddd[SlotOf(d)].did = d
  BY DEF Defined, SlotOf
<1>3. d # NoDid
  BY PeriodicConstants
<1>4. ASSUME NEW m \in 1 .. DddLimit, NEW n \in 1 .. DddLimit, ddd[m].did = d, ddd[n].did = d
      PROVE  m = n
  <2>1. m < n \/ n < m \/ m = n
    OBVIOUS
  <2> QED BY <1>3, <1>4, <2>1 DEF Packed
<1> QED BY <1>1, <1>2, <1>3, <1>4

LEMMA OffsetIs ==
  ASSUME NEW d
  PROVE  Offset(d) \in 0 .. SourceLimit
<1> DEFINE used == SourcesUsed(ddd[SlotOf(d)])
<1>1. SourceLimit \in Nat
  BY PeriodicConstants
<1>2. IsFiniteSet(1 .. SourceLimit) /\ Cardinality(1 .. SourceLimit) = SourceLimit
  BY <1>1, FS_Interval
<1>3. used \in SUBSET (1 .. SourceLimit)
  BY DEF SourcesUsed
<1> HIDE DEF used
<1>4. Cardinality(used) \in Nat /\ Cardinality(used) <= SourceLimit
  BY <1>2, <1>3, FS_Subset, FS_CardinalityType
<1> QED BY <1>1, <1>4 DEF Offset, SourceCount, used

(* Where a definition goes: the slot it has, or the first one of the free. *)
LEMMA TargetIs ==
  ASSUME Packed(ddd), NEW d \in DynamicDids, HasPlace(d)
  PROVE  /\ Target(d) \in 1 .. DddLimit
         /\ Defined(d) => ddd[Target(d)].did = d
         /\ ~Defined(d) => /\ ddd[Target(d)].did = NoDid
                           /\ \A n \in 1 .. DddLimit : ddd[n].did = NoDid => Target(d) <= n
<1>1. CASE Defined(d)
  BY <1>1, SlotIs DEF Target
<1>2. CASE ~Defined(d)
  <2>1. FreeSlots \in SUBSET Nat /\ FreeSlots # {}
    BY <1>2, PeriodicConstants DEF HasPlace, FreeSlots
  <2>2. \E n \in FreeSlots : \A m \in FreeSlots : n <= m
    BY <2>1, LeastOf
  <2>3. Target(d) \in FreeSlots /\ \A m \in FreeSlots : Target(d) <= m
    BY <1>2, <2>2 DEF Target
  <2> QED BY <1>2, <2>3 DEF FreeSlots
<1> QED BY <1>1, <1>2

LEMMA WrittenIs ==
  ASSUME Packed(ddd), NEW d \in DynamicDids, HasPlace(d), NEW list \in Seq(Dids \cup Addresses)
  PROVE  /\ Written(d, list) \in [1 .. SourceLimit -> Dids \cup Addresses \cup {NoSource}]
         /\ Emptied(d, list) \in [1 .. SourceLimit -> Dids \cup Addresses \cup {NoSource}]
         /\ \A i \in 1 .. SourceLimit :
              /\ \/ Written(d, list)[i] = ddd[Target(d)].source[i]
                 \/ i > Offset(d) /\ \E j \in DOMAIN list : Written(d, list)[i] = list[j]
              /\ \/ Emptied(d, list)[i] = ddd[Target(d)].source[i]
                 \/ i > Offset(d) /\ Emptied(d, list)[i] = NoSource
<1>1. /\ Len(list) \in Nat /\ DOMAIN list = 1 .. Len(list)
      /\ \A i \in 1 .. Len(list) : list[i] \in Dids \cup Addresses
  OBVIOUS
<1>2. ddd[Target(d)].source \in [1 .. SourceLimit -> Dids \cup Addresses \cup {NoSource}]
  <2>1. ddd[Target(d)] \in Slots
    BY TargetIs DEF Packed
  <2> QED BY <2>1 DEF Slots
<1>3. Offset(d) \in 0 .. SourceLimit /\ SourceLimit \in Nat
  BY OffsetIs, PeriodicConstants
<1>4. \A i \in 1 .. SourceLimit : i - Offset(d) \in DOMAIN list => i > Offset(d)
  BY <1>1, <1>3
<1> QED BY <1>1, <1>2, <1>4 DEF Written, Emptied

LEMMA AllowedPrefixIs ==
  ASSUME NEW list \in Seq(Dids \cup Addresses)
  PROVE  /\ AllowedPrefix(list) \in Seq(Dids \cup Addresses)
         /\ \A j \in DOMAIN AllowedPrefix(list) :
              SourceAllowed(AllowedPrefix(list)[j], session, security)
<1> DEFINE refused == {i \in DOMAIN list : ~SourceAllowed(list[i], session, security)}
           first == CHOOSE i \in refused : \A j \in refused : i <= j
<1>1. CASE refused = {}
  <2>1. AllowedPrefix(list) = list
    BY <1>1 DEF AllowedPrefix
  <2> QED BY <1>1, <2>1
<1>2. CASE refused # {}
  <2>1. Len(list) \in Nat /\ DOMAIN list = 1 .. Len(list)
    OBVIOUS
  <2>2. refused \in SUBSET Nat
    BY <2>1
  <2>3. refused \subseteq 1 .. Len(list)
    BY <2>1
  <2>4. AllowedPrefix(list) = SubSeq(list, 1, first - 1)
    BY <1>2 DEF AllowedPrefix
  <2> HIDE DEF refused
  <2>5. \E i \in refused : \A j \in refused : i <= j
    BY <1>2, <2>2, LeastOf
  <2>6. first \in refused /\ \A j \in refused : first <= j
    BY <2>5
  <2> HIDE DEF first
  <2>7. first - 1 \in Int /\ 1 \in Int /\ \A i \in 1 .. first - 1 : list[i] \in Dids \cup Addresses
    BY <2>1, <2>3, <2>6
  <2>8. \A i \in 1 .. first - 1 : i \in DOMAIN list /\ i \notin refused
    BY <2>1, <2>3, <2>6
  <2>9. \A i \in 1 .. first - 1 : SourceAllowed(list[i], session, security)
    BY <2>8 DEF refused
  <2> DEFINE pre == SubSeq(list, 1, first - 1)
  <2>10. /\ pre \in Seq(Dids \cup Addresses)
         /\ Len(pre) = IF 1 <= first - 1 THEN first - 1 - 1 + 1 ELSE 0
         /\ \A i \in 1 .. first - 1 - 1 + 1 : pre[i] = list[1 + i - 1]
    BY <2>7, SubSeqProperties
  <2> HIDE DEF pre
  <2>11. DOMAIN pre = 1 .. Len(pre) /\ first \in 1 .. Len(list)
    BY <2>3, <2>6, <2>10
  <2>12. \A i \in DOMAIN pre : i \in 1 .. first - 1 /\ pre[i] = list[i]
    BY <2>10, <2>11
  <2> QED BY <2>4, <2>9, <2>10, <2>12 DEF pre
<1> QED BY <1>1, <1>2

LEMMA UnchangedDefinitions ==
  ASSUME ddd' = ddd
  PROVE  LeavesDefinitions
BY PeriodicConstants DEF LeavesDefinitions

LEMMA UnchangedTable ==
  ASSUME pdids' = pdids, nextStart' = nextStart
  PROVE  LeavesTable
BY DEF LeavesTable

LEMMA DefineKeeps ==
  ASSUME Packed(ddd), DefineRequest
  PROVE  /\ Packed(ddd') /\ DidsOf(ddd) \ {NoDid} \subseteq DidsOf(ddd')
         /\ pdids' = pdids /\ nextStart' = nextStart
         /\ answer' = "refused" => LeavesDefinitions
<1>1. pdids' = pdids /\ nextStart' = nextStart
  BY DEF DefineRequest
<1>2. PICK d \in DynamicDids, list \in SourceLists :
        \/ KeepsDdd("refused")
        \/ /\ HasPlace(d) /\ answer' = "positive"
           /\ ddd' = [ddd EXCEPT ![Target(d)] = [did |-> d, source |-> Written(d, list)]]
        \/ HasPlace(d) /\ answer' = "refused" /\ ddd' = RefusedDefinition(d, list)
  BY Zenon DEF DefineRequest
<1>3. list \in Seq(Dids \cup Addresses)
  BY PeriodicAssumption
<1>4. CASE KeepsDdd("refused")
  <2>1. ddd' = ddd
    BY <1>4 DEF KeepsDdd
  <2> QED BY <1>1, <2>1, UnchangedDefinitions
<1>5. CASE /\ HasPlace(d) /\ answer' = "positive"
           /\ ddd' = [ddd EXCEPT ![Target(d)] = [did |-> d, source |-> Written(d, list)]]
  <2> DEFINE T == Target(d)
             e == [did |-> d, source |-> Written(d, list)]
  <2>1. /\ T \in 1 .. DddLimit
        /\ Defined(d) => ddd[T].did = d
        /\ ~Defined(d) => /\ ddd[T].did = NoDid
                          /\ \A n \in 1 .. DddLimit : ddd[n].did = NoDid => T <= n
    BY <1>5, TargetIs
  <2>2. e \in Slots /\ e.did = d /\ ddd' = [ddd EXCEPT ![T] = e]
    BY <1>3, <1>5, WrittenIs DEF Slots
  <2> HIDE DEF T, e
  <2>3. ddd' \in [1 .. DddLimit -> Slots]
        /\ \A n \in 1 .. DddLimit : ddd'[n].did = IF n = T THEN d ELSE ddd[n].did
    BY <2>1, <2>2 DEF Packed
  <2>4. d # NoDid /\ ~Defined(d) => \A n \in 1 .. DddLimit : ddd[n].did # d
    BY PeriodicConstants DEF Defined
  <2>5. ASSUME NEW m \in 1 .. DddLimit, NEW n \in 1 .. DddLimit, m < n, ddd'[n].did # NoDid
        PROVE  ddd'[m].did \notin {NoDid, ddd'[n].did}
    <3>1. d # NoDid
      BY PeriodicConstants
    <3>2. CASE Defined(d)
      BY <2>1, <2>3, <2>5, <3>2 DEF Packed
    <3>3. CASE ~Defined(d)
      <4>1. \A x \in 1 .. DddLimit : ddd[x].did # d
        BY <3>3 DEF Defined
      <4>2. CASE n = T
        <5>1. ddd[m].did # NoDid
          BY <2>1, <2>5, <3>3, <4>2
        <5> QED BY <2>3, <2>5, <4>1, <4>2, <5>1
      <4>3. CASE n # T
        <5>1. ddd[n].did # NoDid /\ ddd[m].did \notin {NoDid, ddd[n].did}
          BY <2>3, <2>5, <4>3 DEF Packed
        <5> QED BY <2>3, <4>1, <4>3, <5>1, <3>1
      <4> QED BY <4>2, <4>3
    <3> QED BY <3>2, <3>3
  <2>6. DidsOf(ddd) \ {NoDid} \subseteq DidsOf(ddd')
    <3> SUFFICES ASSUME NEW n \in 1 .. DddLimit, ddd[n].did # NoDid
                 PROVE  ddd[n].did \in DidsOf(ddd')
      BY DEF DidsOf
    <3>1. ddd'[n].did = ddd[n].did
      BY <2>1, <2>3
    <3> QED BY <3>1 DEF DidsOf
  <2> QED BY <1>1, <1>5, <2>3, <2>5, <2>6 DEF Packed
<1>6. CASE HasPlace(d) /\ answer' = "refused" /\ ddd' = RefusedDefinition(d, list)
  <2> DEFINE T == Target(d)
             X == IF IsAddresses(list) THEN Emptied(d, list) ELSE Written(d, AllowedPrefix(list))
  <2>1. /\ T \in 1 .. DddLimit
        /\ Defined(d) => ddd[T].did = d
        /\ ~Defined(d) => ddd[T].did = NoDid
    BY <1>6, TargetIs
  <2>2. /\ X \in [1 .. SourceLimit -> Dids \cup Addresses \cup {NoSource}]
        /\ \A i \in 1 .. SourceLimit :
             \/ X[i] = ddd[T].source[i]
             \/ /\ i > Offset(d)
                /\ X[i] = NoSource \/ SourceAllowed(X[i], session, security)
    <3>1. CASE IsAddresses(list)
      BY <1>3, <1>6, <3>1, WrittenIs
    <3>2. CASE ~IsAddresses(list)
      <4> DEFINE pre == AllowedPrefix(list)
      <4>1. /\ pre \in Seq(Dids \cup Addresses)
            /\ \A j \in DOMAIN pre : SourceAllowed(pre[j], session, security)
        BY <1>3, AllowedPrefixIs
      <4>2. X = Written(d, pre)
        BY <3>2
      <4> HIDE DEF pre, X
      <4> QED BY <1>6, <4>1, <4>2, WrittenIs
    <3> QED BY <3>1, <3>2
  <2>9. Defined(d) => Offset(d) = SourceCount(ddd[T])
    BY DEF Offset, Target
  <2>3. ddd' = [ddd EXCEPT ![T].source = X]
    BY <1>6 DEF RefusedDefinition
  <2> HIDE DEF T, X
  <2>4. ddd' \in [1 .. DddLimit -> Slots]
        /\ \A n \in 1 .. DddLimit :
             ddd'[n].did = ddd[n].did /\ ddd'[n].source = IF n = T THEN X ELSE ddd[n].source
    <3>1. \A n \in 1 .. DddLimit : ddd[n] \in Slots
      BY DEF Packed
    <3>2. [ddd[T] EXCEPT !.source = X] \in Slots
          /\ [ddd[T] EXCEPT !.source = X].did = ddd[T].did
          /\ [ddd[T] EXCEPT !.source = X].source = X
      BY <2>1, <2>2, <3>1 DEF Slots
    <3>3. ddd' = [ddd EXCEPT ![T] = [ddd[T] EXCEPT !.source = X]]
      BY <2>3
    <3> QED BY <2>1, <3>2, <3>3 DEF Packed
  <2>5. Packed(ddd')
    BY <2>4 DEF Packed
  <2>6. DidsOf(ddd') = DidsOf(ddd)
    BY <2>4 DEF DidsOf
  <2>7. \A k \in 1 .. DddLimit \ {T} : ddd'[k] = ddd[k]
    BY <2>1, <2>3 DEF Packed
  <2>8. LeavesDefinitions
    <3>1. ddd'[T].did = ddd[T].did /\ ddd'[T].source = X
      BY <2>1, <2>4
    <3>2. ASSUME NEW i \in 1 .. SourceLimit
          PROVE  \/ ddd'[T].source[i] = ddd[T].source[i]
                 \/ /\ ddd[T].did = NoDid \/ i > SourceCount(ddd[T])
                    /\ \/ ddd'[T].source[i] = NoSource
                       \/ SourceAllowed(ddd'[T].source[i], session, security)
      BY <2>1, <2>2, <2>9, <3>1
    <3> QED BY <2>1, <2>7, <3>1, <3>2 DEF LeavesDefinitions
  <2> QED BY <1>1, <2>5, <2>6, <2>8
<1> QED BY <1>2, <1>4, <1>5, <1>6

(* ClearDynamicallyDefinedDid *)
LEMMA CompactedIs ==
  ASSUME Packed(ddd), NEW h \in 1 .. DddLimit
  PROVE  LET slots == [ddd EXCEPT ![h] = FreeSlot]
         IN /\ Packed(Compacted(slots))
            /\ \A n \in 1 .. DddLimit \ {h} : ddd[n].did # NoDid
                 => ddd[n].did \in DidsOf(Compacted(slots))
<1> DEFINE s == [ddd EXCEPT ![h] = FreeSlot]
           used(n) == s[n].did # NoDid
           gap == {n \in DOMAIN s : ~used(n) /\ \E m \in DOMAIN s : m > n /\ used(m)}
           bottom == CHOOSE n \in DOMAIN s : used(n) /\ \A m \in DOMAIN s : m > n => ~used(m)
           hole == CHOOSE n \in gap : \A m \in gap : n <= m
           c == Compacted(s)
<1>1. /\ ddd \in [1 .. DddLimit -> Slots] /\ DddLimit \in Nat
      /\ \A m, n \in 1 .. DddLimit :
           m < n /\ ddd[n].did # NoDid => ddd[m].did # NoDid /\ ddd[m].did # ddd[n].did
  BY PeriodicConstants DEF Packed
<1>2. FreeSlot \in Slots /\ FreeSlot.did = NoDid
  BY DEF FreeSlot, Slots
<1>3. /\ s \in [1 .. DddLimit -> Slots] /\ DOMAIN s = 1 .. DddLimit
      /\ \A n \in 1 .. DddLimit : s[n] = IF n = h THEN FreeSlot ELSE ddd[n]
  BY <1>1, <1>2
<1>4. c = IF gap = {} THEN s ELSE [s EXCEPT ![hole] = s[bottom], ![bottom] = FreeSlot]
  BY DEF Compacted
<1> HIDE DEF s, c
<1>5. ASSUME NEW n \in gap PROVE n = h
  <2>1. n \in 1 .. DddLimit /\ ~used(n) /\ \E m \in 1 .. DddLimit : m > n /\ used(m)
    BY <1>3
  <2>2. PICK m \in 1 .. DddLimit : m > n /\ used(m)
    BY <2>1
  <2> QED BY <1>1, <1>2, <1>3, <2>1, <2>2
<1>6. CASE gap = {}
  <2>1. c = s
    BY <1>4, <1>6
  <2>2. ASSUME NEW m \in 1 .. DddLimit, NEW n \in 1 .. DddLimit, m < n, s[n].did # NoDid
        PROVE  s[m].did \notin {NoDid, s[n].did}
    <3>1. n # h /\ s[n] = ddd[n]
      BY <1>2, <1>3, <2>2
    <3>2. m # h
      <4>1. SUFFICES ASSUME m = h PROVE FALSE
        OBVIOUS
      <4>2. ~used(m) /\ m \in DOMAIN s /\ n \in DOMAIN s /\ n > m /\ used(n)
        BY <1>2, <1>3, <2>2, <4>1
      <4> QED BY <4>2, <1>6
    <3> QED BY <1>1, <1>3, <2>2, <3>1, <3>2
  <2>3. Packed(s)
    BY <1>3, <2>2 DEF Packed
  <2>4. ASSUME NEW n \in 1 .. DddLimit \ {h} PROVE ddd[n].did \in DidsOf(s)
    BY <1>3 DEF DidsOf
  <2> QED BY <2>1, <2>3, <2>4 DEF s, c
<1>7. CASE gap # {}
  <2>1. gap = {h} /\ hole = h
    BY <1>5, <1>7
  <2>2. h \in gap
    BY <2>1
  <2>3. PICK x \in 1 .. DddLimit : x > h /\ used(x)
    BY <2>2, <1>3
  <2>4. PICK b \in 1 .. DddLimit : used(b) /\ \A m \in 1 .. DddLimit : m > b => ~used(m)
    <3> DEFINE U == {n \in 1 .. DddLimit : used(n)}
    <3>1. IsFiniteSet(1 .. DddLimit)
      BY <1>1, FS_Interval
    <3>2. IsFiniteSet(U)
      BY <3>1, FS_Subset
    <3>3. U \in SUBSET Nat /\ U # {}
      BY <2>3
    <3>4. PICK n \in U : \A m \in U : m <= n
      BY <3>2, <3>3, LargestOf
    <3>5. \A m \in 1 .. DddLimit : m > n => ~used(m)
      BY <3>4
    <3> QED BY <3>4, <3>5
  <2>5. used(bottom) /\ bottom \in 1 .. DddLimit /\ \A m \in 1 .. DddLimit : m > bottom => ~used(m)
    BY <2>4, <1>3
  <2> HIDE DEF gap, hole, bottom
  <2>6. bottom > h /\ s[bottom] = ddd[bottom] /\ ddd[bottom].did # NoDid
    BY <1>2, <1>3, <2>3, <2>5
  <2>7. c = [s EXCEPT ![h] = s[bottom], ![bottom] = FreeSlot]
    BY <1>4, <1>7, <2>1
  <2>8. /\ c \in [1 .. DddLimit -> Slots]
        /\ \A n \in 1 .. DddLimit : c[n] = IF n = bottom THEN FreeSlot
                                           ELSE IF n = h THEN ddd[bottom] ELSE ddd[n]
    BY <1>1, <1>2, <1>3, <2>5, <2>6, <2>7
  <2>9. \A m \in 1 .. DddLimit : m > bottom => ddd[m].did = NoDid
    BY <1>3, <2>5, <2>6
  <2>10. ASSUME NEW m \in 1 .. DddLimit, NEW n \in 1 .. DddLimit, m < n, c[n].did # NoDid
         PROVE  c[m].did # NoDid /\ c[m].did # c[n].did
    <3>1. n # bottom
      BY <1>2, <2>8, <2>10
    <3>2. n < bottom
      BY <2>5, <2>6, <2>8, <2>9, <2>10, <3>1
    <3>3. m # bottom /\ m < bottom
      BY <2>5, <2>10, <3>2
    <3>4. CASE m = h
      <4>1. c[m] = ddd[bottom] /\ c[n] = ddd[n]
        BY <2>8, <2>10, <3>1, <3>3, <3>4
      <4> QED BY <1>1, <2>5, <2>6, <3>2, <4>1
    <3>5. CASE m # h /\ n = h
      <4>1. c[m] = ddd[m] /\ c[n] = ddd[bottom]
        BY <2>8, <3>1, <3>3, <3>5
      <4> QED BY <1>1, <2>5, <2>6, <3>3, <4>1
    <3>6. CASE m # h /\ n # h
      <4>1. c[m] = ddd[m] /\ c[n] = ddd[n]
        BY <2>8, <3>1, <3>3, <3>6
      <4> QED BY <1>1, <2>10, <4>1
    <3> QED BY <3>4, <3>5, <3>6
  <2>11. Packed(c)
    BY <2>8, <2>10 DEF Packed
  <2>12. ASSUME NEW n \in 1 .. DddLimit \ {h} PROVE ddd[n].did \in DidsOf(c)
    <3>1. CASE n = bottom
      <4>1. c[h] = ddd[n]
        BY <2>5, <2>6, <2>8, <3>1
      <4> QED BY <4>1 DEF DidsOf
    <3>2. CASE n # bottom
      <4>1. c[n] = ddd[n]
        BY <2>8, <3>2
      <4> QED BY <4>1 DEF DidsOf
    <3> QED BY <3>1, <3>2
  <2> QED BY <2>11, <2>12 DEF c, s
<1> QED BY <1>6, <1>7

(* What goes is not scheduled on any connection.                            *)
InUse(d) == \E k \in Keys(Table) : k.did = d
LEMMA InBuffer ==
  ASSUME TableOK(Table), NEW d
  PROVE  isInPDidBuffer(d) <=> InUse(d)
<1>1. Table.pdid = pdids
  BY DEF Table
<1>2. Keys(Table) = {KeyOf(pdids[i]) : i \in DOMAIN pdids}
  BY <1>1 DEF Keys
<1>3. \A i : KeyOf(pdids[i]).did = pdids[i].did
  BY DEF KeyOf
<1> QED BY <1>2, <1>3, Zenon DEF isInPDidBuffer, InUse

LEMMA ClearKeeps ==
  ASSUME Packed(ddd), TableOK(Table), ClearRequest \/ ClearAllRequest
  PROVE  /\ Packed(ddd') /\ pdids' = pdids /\ nextStart' = nextStart
         /\ \A d \in DynamicDids : InUse(d) /\ d \in DidsOf(ddd) => d \in DidsOf(ddd')
         /\ answer' = "refused" => LeavesDefinitions
<1>1. CASE ClearRequest
  <2>1. PICK d \in DynamicDids :
          IF MayDefine(d) /\ Defined(d) /\ ~isInPDidBuffer(d)
          THEN answer' = "positive" /\ ddd' = Compacted([ddd EXCEPT ![SlotOf(d)] = FreeSlot])
          ELSE KeepsDdd("refused")
    BY <1>1 DEF ClearRequest
  <2>2. pdids' = pdids /\ nextStart' = nextStart
    BY <1>1 DEF ClearRequest
  <2>3. CASE MayDefine(d) /\ Defined(d) /\ ~isInPDidBuffer(d)
    <3> DEFINE h == SlotOf(d)
    <3>1. h \in 1 .. DddLimit /\ ddd[h].did = d
      BY <2>3, SlotIs
    <3>2. answer' = "positive" /\ ddd' = Compacted([ddd EXCEPT ![h] = FreeSlot])
      BY <2>1, <2>3
    <3> HIDE DEF h
    <3>3. /\ Packed(ddd')
          /\ \A n \in 1 .. DddLimit \ {h} : ddd[n].did # NoDid => ddd[n].did \in DidsOf(ddd')
      BY <3>1, <3>2, CompactedIs
    <3>4. ASSUME NEW c \in DynamicDids, InUse(c), c \in DidsOf(ddd) PROVE c \in DidsOf(ddd')
      <4>1. c # d
        BY <2>3, <3>4, InBuffer
      <4>2. PICK n \in 1 .. DddLimit : ddd[n].did = c
        BY <3>4 DEF DidsOf
      <4>3. n # h /\ c # NoDid
        BY <3>1, <4>1, <4>2, PeriodicConstants
      <4> QED BY <3>3, <4>2, <4>3
    <3> QED BY <2>2, <3>2, <3>3, <3>4
  <2>4. CASE ~(MayDefine(d) /\ Defined(d) /\ ~isInPDidBuffer(d))
    <3>1. ddd' = ddd
      BY <2>1, <2>4 DEF KeepsDdd
    <3> QED BY <2>2, <3>1, UnchangedDefinitions
  <2> QED BY <2>3, <2>4
<1>2. CASE ClearAllRequest
  <2>1. pdids' = pdids /\ nextStart' = nextStart
    BY <1>2 DEF ClearAllRequest
  <2>2. CASE \E d \in DynamicDids : Defined(d) /\ isInPDidBuffer(d)
    <3>1. ddd' = ddd
      BY <1>2, <2>2 DEF ClearAllRequest, KeepsDdd
    <3> QED BY <2>1, <3>1, UnchangedDefinitions
  <2>3. CASE ~\E d \in DynamicDids : Defined(d) /\ isInPDidBuffer(d)
    <3>1. answer' = "positive" /\ ddd' = NoSlots
      BY <1>2, <2>3 DEF ClearAllRequest
    <3>2. ASSUME NEW d \in DynamicDids, InUse(d), d \in DidsOf(ddd) PROVE FALSE
      BY <2>3, <3>2, SlotIs, InBuffer
    <3>3. Packed(NoSlots)
      BY DEF Packed, NoSlots, FreeSlot, Slots
    <3> QED BY <2>1, <3>1, <3>2, <3>3
  <2> QED BY <2>2, <2>3
<1> QED BY <1>1, <1>2

-----------------------------------------------------------------------------
(* The inductive invariant: the table and the definitions have their types  *)
(* and shapes, turns are kept, and what is scheduled may be read.           *)
Readable(t, s, slots) ==
  \A k \in Keys(t) : /\ DspCheckSessionLevel(ReadRow[k.did], s)
                     /\ k.did \in DynamicDids => k.did \in DidsOf(slots)
PeriodicInv ==
  /\ TableOK(Table) /\ Packed(ddd)
  /\ InTurn(Table, passed)
  /\ Readable(Table, session, ddd)

LEMMA ReadableIs ==
  ASSUME TableOK(Table), Packed(ddd), Readable(Table, session, ddd)
  PROVE  ScheduledIsReadable
<1> SUFFICES ASSUME NEW i \in DOMAIN pdids
             PROVE  /\ DspCheckSessionLevel(ReadRow[pdids[i].did], session)
                    /\ pdids[i].did \in DynamicDids => Defined(pdids[i].did)
  BY DEF ScheduledIsReadable
<1>1. KeyOf(pdids[i]) \in Keys(Table) /\ KeyOf(pdids[i]).did = pdids[i].did
  BY DEF Keys, Table, KeyOf
<1> QED BY <1>1, SlotIs DEF Readable

(* A step that adds only what is accepted, in a session and with definitions *)
(* under which what was scheduled still may be read.                         *)
LEMMA StillReadable ==
  ASSUME PeriodicInv, Changes(Table, Table', AcceptedKeys), session' = session,
         DidsOf(ddd) \ {NoDid} \subseteq DidsOf(ddd')
  PROVE  Readable(Table', session', ddd')
<1> SUFFICES ASSUME NEW k \in Keys(Table')
             PROVE  /\ DspCheckSessionLevel(ReadRow[k.did], session)
                    /\ k.did \in DynamicDids => k.did \in DidsOf(ddd')
  BY DEF Readable
<1>1. k \in Keys(Table) \/ k \in AcceptedKeys
  BY DEF Changes
<1>2. CASE k \in Keys(Table)
  BY <1>2, PeriodicConstants DEF PeriodicInv, Readable
<1>3. CASE k \in AcceptedKeys
  <2>1. Allows(ReadRow[k.did], session, security) /\ (k.did \in DynamicDids => Defined(k.did))
    BY <1>3 DEF AcceptedKeys, Accepted, checkPDidSupported
  <2>2. k.did \in DynamicDids => k.did \in DidsOf(ddd) \ {NoDid}
    BY <2>1, PeriodicConstants DEF Defined, DidsOf
  <2> QED BY <2>1, <2>2 DEF Allows
<1> QED BY <1>1, <1>2, <1>3

(* A session change: what stays scheduled may be read in the new session.   *)
LEMMA StopPeriodicKeeps ==
  ASSUME PeriodicInv, NEW s, NEW l
  PROVE  LET u == DspStopPeriodicDids(Table, s, l)
         IN Changes(Table, u, {}) /\ Readable(u, s, ddd)
<1> DEFINE u == DspStopPeriodicDids(Table, s, l)
           check(e) == IF checkPDidSupported(e.did, s, l) THEN Passing(KeyOf(e))
                       ELSE Removing(KeyOf(e))
           ops == [i \in DOMAIN Table.pdid |-> check(Table.pdid[i])]
           L == Len(Table.pdid)
<1>1. CASE Allows(ServiceRow, s, l)
  <2>1. u = Final(Table, ops)
    BY <1>1 DEF DspStopPeriodicDids
  <2>2. /\ L \in Nat /\ DOMAIN Table.pdid = 1 .. L
        /\ \A i \in 1 .. L : KeyOf(Table.pdid[i]) \in Internal
    BY TableIs DEF PeriodicInv
  <2>3. /\ DOMAIN ops = 1 .. L /\ Len(ops) = L
        /\ \A i \in 1 .. L : ops[i] = check(Table.pdid[i])
    BY <2>2
  <2> HIDE DEF ops
  <2>4. \A i \in 1 .. L :
          /\ ops[i] \in Ops /\ ops[i].does # "add" /\ ops[i].key = KeyOf(Table.pdid[i])
          /\ ops[i].does = "remove" <=> ~checkPDidSupported(Table.pdid[i].did, s, l)
    <3> TAKE i \in 1 .. L
    <3> DEFINE e == Table.pdid[i]
    <3>1. ops[i] = check(e) /\ KeyOf(e) \in Internal
      BY <2>2, <2>3
    <3> HIDE DEF e
    <3>2. CASE checkPDidSupported(e.did, s, l)
      <4>1. ops[i] = Passing(KeyOf(e))
        BY <3>1, <3>2
      <4>2. ops[i] \in Ops /\ ops[i].does = "pass" /\ ops[i].key = KeyOf(e)
        BY <3>1, <4>1 DEF Passing, Ops
      <4> QED BY <3>2, <4>2 DEF e
    <3>3. CASE ~checkPDidSupported(e.did, s, l)
      <4>1. ops[i] = Removing(KeyOf(e))
        BY <3>1, <3>3
      <4>2. ops[i] \in Ops /\ ops[i].does = "remove" /\ ops[i].key = KeyOf(e)
        BY <3>1, <4>1 DEF Removing, Ops
      <4> QED BY <3>3, <4>2 DEF e
    <3> QED BY <3>2, <3>3
  <2> HIDE DEF L, u, check
  <2>5. /\ TableOK(u) /\ Keys(u) = Keys(Table) \ Named(ops, "remove", L)
        /\ u = Table \/ Len(u.pdid) < L
    BY <2>1, <2>2, <2>3, <2>4, RemovesAll DEF PeriodicInv, L
  <2>6. Changes(Table, u, {})
    BY <2>5 DEF Changes, L
  <2>7. ASSUME NEW k \in Keys(u)
        PROVE  /\ DspCheckSessionLevel(ReadRow[k.did], s)
               /\ k.did \in DynamicDids => k.did \in DidsOf(ddd)
    <3>1. PICK i \in 1 .. L : KeyOf(Table.pdid[i]) = k
      BY <2>2, <2>5 DEF Keys
    <3>2. ops[i].does # "remove"
      BY <2>4, <2>5, <3>1 DEF Named
    <3>3. checkPDidSupported(k.did, s, l)
      BY <2>4, <3>1, <3>2 DEF KeyOf
    <3> QED BY <3>3, SlotIs DEF checkPDidSupported, Allows, PeriodicInv
  <2> QED BY <2>6, <2>7 DEF Readable, u
<1>2. CASE ~Allows(ServiceRow, s, l)
  <2>1. u = EmptyTable
    BY <1>2 DEF DspStopPeriodicDids
  <2> QED BY <2>1, EmptyChanges DEF PeriodicInv, Readable
<1> QED BY <1>1, <1>2

LEMMA NoSlotsPacked == Packed(NoSlots)
BY DEF Packed, NoSlots, FreeSlot, Slots

LEMMA SameTable ==
  ASSUME TableOK(Table), pdids' = pdids, nextStart' = nextStart
  PROVE  Table' = Table /\ Changes(Table, Table', {})
BY DEF Table, Changes

(* One request that DsdMain serves.                                         *)
LEMMA PeriodicServed ==
  ASSUME PeriodicInv, DsdServesPeriodic
  PROVE  /\ \E new : Changes(Table, Table', new)
         /\ Packed(ddd') /\ Readable(Table', session', ddd')
         /\ answer' = "refused" => LeavesTable /\ LeavesDefinitions
<1>1. TableOK(Table) /\ Packed(ddd) /\ session' = session
  BY DEF PeriodicInv, DsdServesPeriodic, levels
<1>2. ASSUME NEW new, Changes(Table, Table', new), new \subseteq AcceptedKeys, ddd' = ddd
      PROVE  Packed(ddd') /\ Readable(Table', session', ddd')
  <2>1. Changes(Table, Table', AcceptedKeys)
    BY <1>2 DEF Changes
  <2> QED BY <2>1, <1>1, <1>2, StillReadable
<1>3. CASE ScheduleRequest
  <2>1. /\ Changes(Table, Table', AcceptedKeys)
        /\ answer' = "refused" => LeavesTable
    BY <1>1, <1>3, ScheduleChanges
  <2>2. ddd' = ddd
    BY <1>3 DEF ScheduleRequest, KeepsDdd
  <2> QED BY <1>2, <2>1, <2>2, UnchangedDefinitions
<1>4. CASE StopRequest
  <2>1. Changes(Table, Table', {})
    BY <1>1, <1>4, StopChanges
  <2>2. ddd' = ddd /\ answer' = "positive"
    BY <1>4 DEF StopRequest, KeepsDdd
  <2> QED BY <1>2, <2>1, <2>2
<1>5. CASE StopAllRequest
  <2>1. Changes(Table, EmptyTable, {}) /\ TableOK(EmptyTable)
    BY <1>1, EmptyChanges DEF Changes
  <2>2. BecomesTable(EmptyTable) /\ ddd' = ddd /\ answer' = "positive"
    BY <1>5 DEF StopAllRequest, KeepsDdd
  <2>3. Table' = EmptyTable
    BY <2>1, <2>2, Becomes
  <2>4. Changes(Table, Table', {})
    BY <2>1, <2>3
  <2> QED BY <1>2, <2>2, <2>4
<1>6. CASE DefineRequest
  <2>1. /\ Packed(ddd') /\ DidsOf(ddd) \ {NoDid} \subseteq DidsOf(ddd')
        /\ pdids' = pdids /\ nextStart' = nextStart
        /\ answer' = "refused" => LeavesDefinitions
    BY <1>1, <1>6, DefineKeeps
  <2>2. Table' = Table /\ Changes(Table, Table', {})
    BY <1>1, <2>1, SameTable
  <2>3. Changes(Table, Table', AcceptedKeys)
    BY <2>2 DEF Changes
  <2>4. Readable(Table', session', ddd')
    BY <1>1, <2>1, <2>3, StillReadable
  <2> QED BY <2>1, <2>2, <2>4, UnchangedTable
<1>7. CASE ClearRequest \/ ClearAllRequest
  <2>1. /\ Packed(ddd') /\ pdids' = pdids /\ nextStart' = nextStart
        /\ \A d \in DynamicDids : InUse(d) /\ d \in DidsOf(ddd) => d \in DidsOf(ddd')
        /\ answer' = "refused" => LeavesDefinitions
    BY <1>1, <1>7, ClearKeeps
  <2>2. Table' = Table /\ Changes(Table, Table', {})
    BY <1>1, <2>1, SameTable
  <2>3. Readable(Table, session, ddd')
    BY <2>1 DEF PeriodicInv, Readable, InUse
  <2> QED BY <1>1, <2>1, <2>2, <2>3, UnchangedTable
<1>8. CASE inbox \in Internal /\ answer' = "none" /\ ddd' = ddd
           /\ (InternalRead(inbox) \/ BecomesTable(Table))
  <2>1. CASE InternalRead(inbox)
    <3>1. Changes(Table, Table', AcceptedKeys)
      BY <1>1, <1>8, <2>1, InternalChanges
    <3> QED BY <1>2, <1>8, <3>1
  <2>2. CASE BecomesTable(Table)
    <3>1. Table' = Table
      BY <1>1, <2>2, Becomes
    <3>2. Changes(Table, Table', {})
      BY <1>1, <3>1 DEF Changes
    <3> QED BY <1>2, <1>8, <3>2
  <2> QED BY <1>8, <2>1, <2>2
<1>9. TesterRequest \/ (inbox \in Internal /\ answer' = "none" /\ ddd' = ddd
                        /\ (InternalRead(inbox) \/ BecomesTable(Table)))
  BY Zenon DEF DsdServesPeriodic
<1> QED BY <1>3, <1>4, <1>5, <1>6, <1>7, <1>8, <1>9 DEF TesterRequest

(* The other steps: none answers with a refusal.                            *)
LEMMA LevelsChange ==
  ASSUME PeriodicInv, PeriodicSessionChange \/ PeriodicPreempted
  PROVE  /\ \E new : Changes(Table, Table', new)
         /\ Packed(ddd') /\ Readable(Table', session', ddd')
         /\ answer' = "none"
<1>1. TableOK(Table) /\ Packed(ddd)
  BY DEF PeriodicInv
<1>2. CASE BecomesTable(EmptyTable) /\ ddd' \in {ddd, NoSlots} /\ answer' = "none"
  <2>1. Changes(Table, EmptyTable, {}) /\ TableOK(EmptyTable) /\ Keys(EmptyTable) = {}
    BY <1>1, EmptyChanges DEF Changes
  <2>2. Table' = EmptyTable
    BY <1>2, <2>1, Becomes
  <2> QED BY <1>1, <1>2, <2>1, <2>2, NoSlotsPacked DEF Readable
<1>3. CASE PeriodicPreempted
  BY <1>2, <1>3 DEF PeriodicPreempted
<1>4. CASE PeriodicSessionChange
  <2>1. PICK s \in DspSessions :
          /\ session' = s
          /\ IF InitializesDsp THEN BecomesTable(EmptyTable) /\ ddd' = NoSlots
             ELSE BecomesTable(DspStopPeriodicDids(Table, s, LevelAfter)) /\ ddd' = ddd
    BY <1>4, Zenon DEF PeriodicSessionChange, ChangesSession
  <2>2. answer' = "none"
    BY <1>4 DEF PeriodicSessionChange
  <2>3. CASE InitializesDsp
    BY <1>2, <2>1, <2>2, <2>3
  <2>4. CASE ~InitializesDsp
    <3> DEFINE u == DspStopPeriodicDids(Table, s, LevelAfter)
    <3>1. Changes(Table, u, {}) /\ Readable(u, s, ddd)
      BY StopPeriodicKeeps
    <3>2. BecomesTable(u) /\ ddd' = ddd
      BY <2>1, <2>4
    <3> HIDE DEF u
    <3>3. Table' = u
      BY <3>1, <3>2, Becomes DEF Changes
    <3> QED BY <1>1, <2>1, <2>2, <3>1, <3>2, <3>3
  <2> QED BY <2>3, <2>4
<1> QED BY <1>3, <1>4

LEMMA PeriodicStep ==
  ASSUME PeriodicInv, [PeriodicNext]_<<levels, periodicVars>>
  PROVE  /\ PeriodicInv'
         /\ <<levels, periodicVars>>' # <<levels, periodicVars>> /\ answer' = "refused"
              => LeavesTable /\ LeavesDefinitions
<1>1. TableOK(Table) /\ Packed(ddd) /\ InTurn(Table, passed) /\ Readable(Table, session, ddd)
  BY DEF PeriodicInv
<1>2. CASE DspPreDsdMain
  <2>1. /\ DspPeriodicDIDMainFunction /\ answer' = "none"
        /\ ddd' = ddd /\ session' = session
    BY <1>2 DEF DspPreDsdMain, levels
  <2>2. TableOK(Table') /\ Keys(Table') = Keys(Table) /\ InTurn(Table', passed')
    BY <1>1, <2>1, SendsInTurn
  <2>3. Readable(Table', session', ddd')
    BY <1>1, <2>1, <2>2 DEF Readable
  <2> QED BY <1>1, <2>1, <2>2, <2>3 DEF PeriodicInv
<1>3. ASSUME KeepsTurns, NEW new, Changes(Table, Table', new), Packed(ddd'),
             Readable(Table', session', ddd')
      PROVE  PeriodicInv'
  <2>1. InTurn(Table', passed')
    BY <1>1, <1>3, TurnsKept
  <2> QED BY <1>3, <2>1 DEF PeriodicInv, Changes
<1>4. CASE DsdServesPeriodic /\ KeepsTurns
  <2>1. /\ \E new : Changes(Table, Table', new)
        /\ Packed(ddd') /\ Readable(Table', session', ddd')
        /\ answer' = "refused" => LeavesTable /\ LeavesDefinitions
    BY <1>4, PeriodicServed
  <2> QED BY <1>3, <1>4, <2>1
<1>5. CASE (PeriodicSessionChange \/ PeriodicPreempted) /\ KeepsTurns
  <2>1. /\ \E new : Changes(Table, Table', new)
        /\ Packed(ddd') /\ Readable(Table', session', ddd') /\ answer' = "none"
    BY <1>5, LevelsChange
  <2> QED BY <1>3, <1>5, <2>1
<1>6. CASE (DsdIdle \/ PeriodicConfirmation \/ PeriodicReception \/ PeriodicUnlock) /\ KeepsTurns
  <2>1. pdids' = pdids /\ nextStart' = nextStart /\ ddd' = ddd /\ session' = session
        /\ answer' = "none"
    BY <1>6 DEF DsdIdle, PeriodicConfirmation, PeriodicReception, PeriodicUnlock,
                DslInternal_SetSecurityLevel, levels
  <2>2. Table' = Table /\ Changes(Table, Table', {})
    BY <1>1, <2>1, SameTable
  <2>3. Readable(Table', session', ddd') /\ Packed(ddd')
    BY <1>1, <2>1, <2>2
  <2> QED BY <1>3, <1>6, <2>1, <2>2, <2>3
<1>7. CASE UNCHANGED <<levels, periodicVars>>
  <2>1. pdids' = pdids /\ nextStart' = nextStart /\ ddd' = ddd /\ session' = session
        /\ passed' = passed
    BY <1>7 DEF levels, periodicVars
  <2>2. Table' = Table
    BY <1>1, <2>1, SameTable
  <2> QED BY <1>1, <1>7, <2>1, <2>2 DEF PeriodicInv
<1> QED BY <1>2, <1>4, <1>5, <1>6, <1>7 DEF PeriodicNext

(* Whatever occupies the reception is a request of the tester, one the main *)
(* function made, or a response.                                            *)
InboxOK == inbox \in {Nothing, FromTester, Response} \cup Internal

LEMMA LevelsKept ==
  ASSUME LevelsTypeOK, PeriodicNext
  PROVE  LevelsTypeOK' /\ synch' = synch
<1>1. LevelAfter \in DspLevels \cup {Locked}
  BY DEF LevelAfter, LevelsTypeOK
<1>2. CASE PeriodicSessionChange \/ PeriodicPreempted
  BY <1>1, <1>2, LevelsAssumption
  DEF PeriodicSessionChange, PeriodicPreempted, ChangesSession, ProtocolTakesOver, LevelsTypeOK
<1>3. CASE PeriodicUnlock
  BY <1>3 DEF PeriodicUnlock, DslInternal_SetSecurityLevel, LevelsTypeOK
<1>4. CASE DspPreDsdMain \/ DsdServesPeriodic \/ DsdIdle \/ PeriodicConfirmation \/ PeriodicReception
  <2>1. UNCHANGED levels /\ synch' = synch
    BY <1>4 DEF DspPreDsdMain, DsdServesPeriodic, DsdIdle, PeriodicConfirmation, PeriodicReception
  <2> QED BY <2>1 DEF levels, LevelsTypeOK
<1> QED BY <1>2, <1>3, <1>4 DEF PeriodicNext

LEMMA InboxKept ==
  ASSUME PeriodicInv, InboxOK, PeriodicNext
  PROVE  InboxOK'
<1>1. CASE DspPreDsdMain
  <2>1. TableOK(Table) /\ InTurn(Table, passed) /\ DspPeriodicDIDMainFunction
    BY <1>1 DEF PeriodicInv, DspPreDsdMain
  <2> QED BY <2>1, SendsInTurn DEF InboxOK
<1>2. CASE ~DspPreDsdMain
  <2>1. inbox' \in {inbox, Nothing, FromTester, Response}
    BY <1>2 DEF PeriodicNext, DsdServesPeriodic, DsdIdle, PeriodicConfirmation, PeriodicReception,
                PeriodicSessionChange, PeriodicUnlock, PeriodicPreempted
  <2> QED BY <2>1 DEF InboxOK
<1> QED BY <1>1, <1>2

LEMMA PeriodicStarts ==
  ASSUME LevelsInit, PeriodicInit
  PROVE  PeriodicInv
<1>1. Table = EmptyTable /\ ddd = NoSlots /\ passed = NobodyPassed
  BY DEF PeriodicInit, Table, EmptyTable
<1>2. EmptyTable \in [pdid : Seq(Entries), next : Nat] /\ Len(EmptyTable.pdid) = 0
      /\ DOMAIN EmptyTable.pdid = {} /\ EmptyTable.next = 0
  BY DEF EmptyTable
<1>3. TableOK(EmptyTable) /\ Keys(EmptyTable) = {}
  BY <1>2, PeriodicConstants DEF TableOK, Keys
<1>4. InTurn(EmptyTable, NobodyPassed)
  BY DEF InTurn, NobodyPassed
<1>5. Readable(EmptyTable, session, ddd)
  BY <1>3 DEF Readable
<1> QED BY <1>1, <1>3, <1>4, <1>5, NoSlotsPacked DEF PeriodicInv

LEMMA PeriodicInvHolds == PeriodicSpec => []PeriodicInv
<1>1. LevelsInit /\ PeriodicInit => PeriodicInv
  BY PeriodicStarts
<1>2. PeriodicInv /\ [PeriodicNext]_<<levels, periodicVars>> => PeriodicInv'
  BY PeriodicStep
<1> QED BY <1>1, <1>2, PTL DEF PeriodicSpec

(* The type invariant: what the table, the definitions and the request that *)
(* occupies the reception are made of, and their bounds.                    *)
THEOREM PeriodicWellTyped == PeriodicSpec => []PeriodicTypeOK
<1> DEFINE IInv == PeriodicInv /\ LevelsTypeOK /\ synch \in BOOLEAN /\ InboxOK
<1>1. LevelsInit /\ PeriodicInit => IInv
  BY PeriodicStarts, LevelsAssumption DEF LevelsInit, LevelsTypeOK, PeriodicInit, InboxOK
<1>2. IInv /\ [PeriodicNext]_<<levels, periodicVars>> => IInv'
  <2>1. ASSUME IInv, PeriodicNext PROVE IInv'
    BY <2>1, PeriodicStep, LevelsKept, InboxKept
  <2>2. ASSUME IInv, UNCHANGED <<levels, periodicVars>> PROVE IInv'
    <3>1. PeriodicInv'
      BY <2>2, PeriodicStep
    <3> QED BY <2>2, <3>1 DEF levels, periodicVars, LevelsTypeOK, InboxOK
  <2> QED BY <2>1, <2>2
<1>3. IInv => PeriodicTypeOK
  <2> SUFFICES ASSUME IInv PROVE PeriodicTypeOK
    OBVIOUS
  <2>1. Table.pdid = pdids /\ Table.next = nextStart
    BY DEF Table
  <2>2. TableOK(Table) /\ Packed(ddd)
    BY DEF PeriodicInv
  <2>3. \A i \in DOMAIN pdids : pdids[i] \in Entries
    BY <2>1, <2>2, TableIs
  <2> QED BY <2>1, <2>2, <2>3 DEF PeriodicTypeOK, TableOK, Packed, InboxOK, Entries
<1> HIDE DEF IInv
<1>4. PeriodicSpec => []IInv
  BY <1>1, <1>2, PTL DEF PeriodicSpec
<1> QED BY <1>3, <1>4, PTL

(* What the main function sends a tester without being asked again may be   *)
(* read in the session that is on, and is defined.                          *)
THEOREM ScheduledStaysReadable == PeriodicSpec => []ScheduledIsReadable
<1>1. PeriodicInv => ScheduledIsReadable
  BY ReadableIs DEF PeriodicInv
<1> QED BY <1>1, PeriodicInvHolds, PTL

(* The round robin of DspPeriodicDIDMainFunction: an identifier that is due *)
(* is passed over less often than there are places in the table.            *)
THEOREM PeriodicInTurn == PeriodicSpec => []EachInTurn
<1>1. PeriodicInv => EachInTurn
  BY TurnsBound DEF PeriodicInv
<1> QED BY <1>1, PeriodicInvHolds, PTL

(* A request that is refused, in the middle of its list or at once, takes   *)
(* nothing away: all that is scheduled stays at its place, though what it    *)
(* named may have a new period, and every definition keeps its sources,      *)
(* though sources the tester may read may stand behind them.                 *)
THEOREM RefusalTakesNothing == PeriodicSpec => RefusedTakesNothing
<1> DEFINE Remains == answer' = "refused" => LeavesTable /\ LeavesDefinitions
<1>1. PeriodicInv /\ [PeriodicNext]_<<levels, periodicVars>> => [Remains]_<<levels, periodicVars>>
  BY PeriodicStep
<1> HIDE DEF Remains
<1>2. PeriodicSpec => [][Remains]_<<levels, periodicVars>>
  BY <1>1, PeriodicInvHolds, PTL DEF PeriodicSpec
<1> QED BY <1>2 DEF RefusedTakesNothing, Remains

-----------------------------------------------------------------------------
(* Response on event: what NvM has of the list of a tester.                 *)
RoeStores == [active : BOOLEAN, pdu : RoeTesters \cup {NoTester}, dids : SUBSET RoeDids,
              pendingMark : BOOLEAN]
RoeCopies == [active : BOOLEAN, pdu : RoeTesters \cup {NoTester}, dids : SUBSET RoeDids]
RoeInv ==
  /\ roeStore \in RoeStores
  /\ roeNvM \in [copy : RoeCopies, marked : BOOLEAN, busy : BOOLEAN]
  /\ StoredIsMarked

LEMMA RoeConstants ==
  /\ RoePreconfig \in Seq(RoeDids) /\ Len(RoePreconfig) \in Nat
  /\ DOMAIN RoePreconfig = 1 .. Len(RoePreconfig)
  /\ \A i, j \in 1 .. Len(RoePreconfig) : RoePreconfig[i] = RoePreconfig[j] => i = j
  /\ Len(RoePreconfig) <= MaxRoeEvents /\ MaxRoeEvents \in Nat \ {0}
  /\ PreconfiguredDids = {RoePreconfig[i] : i \in 1 .. Len(RoePreconfig)}
  /\ PreconfiguredDids \subseteq RoeDids
  /\ IsFiniteSet(RoeDids)
<1>1. RoePreconfig \in Seq(RoeDids) /\ IsFiniteSet(RoeDids)
  BY RoeAssumption
<1>2. Len(RoePreconfig) \in Nat /\ DOMAIN RoePreconfig = 1 .. Len(RoePreconfig)
  BY <1>1
<1>3. \A i, j \in 1 .. Len(RoePreconfig) : RoePreconfig[i] = RoePreconfig[j] => i = j
  BY <1>2, RoeAssumption DEF IsInjective
<1>4. PreconfiguredDids = {RoePreconfig[i] : i \in 1 .. Len(RoePreconfig)}
  BY <1>2 DEF PreconfiguredDids, Range
<1>5. PreconfiguredDids \subseteq RoeDids
  BY <1>1, <1>2, <1>4
<1> QED BY <1>1, <1>2, <1>3, <1>4, <1>5, RoeAssumption

(* DCM_ROE_Init: the list has the identifiers it is made of. *)
LEMMA ListedAre ==
  ASSUME NEW dids \in Seq(RoeDids)
  PROVE  Listed(AllAdded(dids)) = {dids[i] : i \in 1 .. Len(dids)}
<1> DEFINE list == AllAdded(dids)
<1>1. Len(dids) \in Nat /\ DOMAIN dids = 1 .. Len(dids)
  OBVIOUS
<1>2. \E start : list = [i \in DOMAIN dids |-> [did |-> dids[i], start |-> start[i]]]
  BY DEF AllAdded
<1> HIDE DEF list
<1>3. PICK start : list = [i \in 1 .. Len(dids) |-> [did |-> dids[i], start |-> start[i]]]
  BY <1>1, <1>2
<1>4. Len(list) = Len(dids) /\ \A i \in 1 .. Len(dids) : list[i].did = dids[i]
  BY <1>1, <1>3
<1> QED BY <1>4 DEF Listed, list

(* What does not fit the list at start is taken out of the buffer; then the *)
(* list is full.                                                            *)
LEMMA KeptAtStart ==
  ASSUME NEW dids \in SUBSET RoeDids, NEW stored \in InSomeOrder(dids \ PreconfiguredDids)
  PROVE  LET list == AllAdded(ThatFit(RoePreconfig \o stored))
             kept == dids \cap (Listed(list) \ PreconfiguredDids)
         IN \/ dids \ kept \subseteq PreconfiguredDids
            \/ Cardinality(kept \cup PreconfiguredDids) = MaxRoeEvents
<1> DEFINE D == dids \ PreconfiguredDids
           N == Cardinality(D)
           P == Len(RoePreconfig)
           all == RoePreconfig \o stored
           fit == ThatFit(all)
           L == Listed(AllAdded(fit))
           kept == dids \cap (L \ PreconfiguredDids)
<1>1. N \in Nat
  BY RoeConstants, FS_Subset, FS_CardinalityType
<1>2. /\ stored \in [1 .. N -> D]
      /\ \A i, j \in 1 .. N : stored[i] = stored[j] => i = j
      /\ \A d \in D : \E i \in 1 .. N : stored[i] = d
  BY DEF InSomeOrder, IsInjective, Range
<1> HIDE DEF N
<1>3. stored \in Seq(RoeDids) /\ Len(stored) = N
  BY <1>1, <1>2
<1>4. /\ all \in Seq(RoeDids) /\ Len(all) = P + N
      /\ \A i \in 1 .. P + N : all[i] = IF i <= P THEN RoePreconfig[i] ELSE stored[i - P]
  <2>1. RoePreconfig \in Seq(RoeDids)
    BY RoeConstants
  <2>2. /\ all \in Seq(RoeDids) /\ Len(all) = Len(RoePreconfig) + Len(stored)
        /\ \A i \in 1 .. Len(RoePreconfig) + Len(stored) :
             all[i] = IF i <= Len(RoePreconfig) THEN RoePreconfig[i]
                      ELSE stored[i - Len(RoePreconfig)]
    BY <1>3, <2>1, ConcatProperties, Zenon
  <2> HIDE DEF all
  <2> QED BY <1>3, <2>2
<1>5. P \in Nat /\ P <= MaxRoeEvents /\ MaxRoeEvents \in Nat
  BY RoeConstants
<1> HIDE DEF P, all
<1>6. \A i \in 1 .. P : all[i] = RoePreconfig[i] /\ all[i] \in PreconfiguredDids
  BY <1>1, <1>4, <1>5, RoeConstants DEF P
<1>7. \A i \in P + 1 .. P + N : i - P \in 1 .. N /\ all[i] = stored[i - P] /\ all[i] \in D
  <2> TAKE i \in P + 1 .. P + N
  <2>1. i \in 1 .. P + N /\ ~(i <= P) /\ i - P \in 1 .. N
    BY <1>1, <1>5
  <2> QED BY <2>1, <1>2, <1>4
<1>8. \A i, j \in 1 .. P + N : all[i] = all[j] => i = j
  <2> SUFFICES ASSUME NEW i \in 1 .. P + N, NEW j \in 1 .. P + N, all[i] = all[j] PROVE i = j
    OBVIOUS
  <2>1. \A x \in 1 .. P + N : x \in 1 .. P \/ x \in P + 1 .. P + N
    BY <1>1, <1>5
  <2>2. CASE i \in 1 .. P /\ j \in 1 .. P
    BY <2>2, <1>6, RoeConstants DEF P
  <2>3. CASE i \in P + 1 .. P + N /\ j \in P + 1 .. P + N
    <3>1. i - P = j - P
      BY <2>3, <1>2, <1>7
    <3> QED BY <3>1, <1>5
  <2>4. CASE (i \in 1 .. P /\ j \in P + 1 .. P + N) \/ (j \in 1 .. P /\ i \in P + 1 .. P + N)
    BY <2>4, <1>6, <1>7
  <2> QED BY <2>1, <2>2, <2>3, <2>4
<1> DEFINE M == IF P + N <= MaxRoeEvents THEN P + N ELSE MaxRoeEvents
<1>9. M \in 0 .. P + N /\ P <= M
  BY <1>1, <1>5
<1>10. fit \in Seq(RoeDids) /\ Len(fit) = M /\ \A i \in 1 .. M : fit[i] = all[i]
  <2>1. fit = SubSeq(all, 1, M)
    BY <1>4 DEF ThatFit
  <2> HIDE DEF M, fit
  <2>2. \A i \in 1 .. M : all[i] \in RoeDids
    BY <1>1, <1>4, <1>5, <1>9
  <2>3. 1 \in Int /\ M \in Int /\ M >= 0
    BY <1>1, <1>5, <1>9
  <2>4. /\ SubSeq(all, 1, M) \in Seq(RoeDids)
        /\ Len(SubSeq(all, 1, M)) = IF 1 <= M THEN M - 1 + 1 ELSE 0
        /\ \A i \in 1 .. M - 1 + 1 : SubSeq(all, 1, M)[i] = all[1 + i - 1]
    BY <2>2, <2>3, SubSeqProperties
  <2>5. \A i \in 1 .. M : SubSeq(all, 1, M)[i] = all[i]
    BY <2>3, <2>4
  <2>6. Len(SubSeq(all, 1, M)) = M
    BY <2>3, <2>4
  <2> QED BY <2>1, <2>4, <2>5, <2>6
<1> HIDE DEF fit
<1>11. L = {all[i] : i \in 1 .. M}
  BY <1>10, ListedAre
<1> HIDE DEF L, M
<1>12. \A i \in 1 .. M : i \in 1 .. P + N
  BY <1>1, <1>5, <1>9
<1>13. PreconfiguredDids \subseteq L
  <2> SUFFICES ASSUME NEW i \in 1 .. P PROVE RoePreconfig[i] \in L
    BY RoeConstants DEF P
  <2>1. i \in 1 .. M
    BY <1>1, <1>5, <1>9
  <2> QED BY <2>1, <1>6, <1>11
<1>14. L \subseteq PreconfiguredDids \cup D
  <2> SUFFICES ASSUME NEW i \in 1 .. M PROVE all[i] \in PreconfiguredDids \cup D
    BY <1>11
  <2>1. i \in 1 .. P \/ i \in P + 1 .. P + N
    BY <1>1, <1>5, <1>12
  <2> QED BY <2>1, <1>6, <1>7
<1>15. CASE P + N <= MaxRoeEvents
  <2>1. M = P + N
    BY <1>15 DEF M
  <2>2. D \subseteq L
    <3> SUFFICES ASSUME NEW d \in D PROVE d \in L
      OBVIOUS
    <3>1. PICK i \in 1 .. N : stored[i] = d
      BY <1>2
    <3>2. P + i \in P + 1 .. P + N /\ (P + i) - P = i /\ P + i \in 1 .. M
      BY <1>1, <1>5, <2>1
    <3>3. all[P + i] = d
      BY <3>1, <3>2, <1>7
    <3> QED BY <3>2, <3>3, <1>11
  <2>3. dids \ kept \subseteq PreconfiguredDids
    BY <2>2
  <2> QED BY <2>3 DEF L, fit, all
<1>16. CASE ~(P + N <= MaxRoeEvents)
  <2>1. M = MaxRoeEvents
    BY <1>16 DEF M
  <2>2. kept \cup PreconfiguredDids = L
    BY <1>13, <1>14
  <2>3. Cardinality(L) = M
    <3> DEFINE f == [i \in 1 .. M |-> all[i]]
    <3>1. f \in Bijection(1 .. M, L)
      BY <1>8, <1>11, <1>12 DEF Bijection, Injection, Surjection, IsInjective
    <3>2. ExistsBijection(1 .. M, L)
      BY <3>1, Zenon DEF ExistsBijection
    <3>3. M \in Nat
      BY <1>1, <1>5, <1>9
    <3>4. IsFiniteSet(1 .. M) /\ Cardinality(1 .. M) = M
      BY <3>3, FS_Interval
    <3> QED BY <3>2, <3>4, FS_Bijection
  <2>4. Cardinality(kept \cup PreconfiguredDids) = MaxRoeEvents
    BY <2>1, <2>2, <2>3
  <2> QED BY <2>4 DEF L, fit, all
<1> QED BY <1>15, <1>16

LEMMA MarkKept ==
  ASSUME RoeInv, NEW store \in RoeStores, SetNvMBlockChanged(store)
  PROVE  RoeInv'
<1>1. CASE roeNvM.busy
  <2>1. roeStore' = [store EXCEPT !.pendingMark = TRUE] /\ roeNvM' = roeNvM
    BY <1>1 DEF SetNvMBlockChanged, RefusedMark
  <2>2. roeStore' \in RoeStores /\ roeStore'.pendingMark
    BY <2>1 DEF RoeStores
  <2> QED BY <2>1, <2>2 DEF RoeInv, StoredIsMarked
<1>2. CASE ~roeNvM.busy
  <2>1. roeStore' = store /\ roeNvM' = [roeNvM EXCEPT !.marked = TRUE]
    BY <1>2 DEF SetNvMBlockChanged
  <2>2. roeNvM' \in [copy : RoeCopies, marked : BOOLEAN, busy : BOOLEAN] /\ roeNvM'.marked
    BY <2>1 DEF RoeInv
  <2> QED BY <2>1, <2>2 DEF RoeInv, StoredIsMarked
<1> QED BY <1>1, <1>2

LEMMA SameStore ==
  ASSUME RoeInv, roeStore' = roeStore, roeNvM' = roeNvM
  PROVE  RoeInv'
BY DEF RoeInv, StoredIsMarked

LEMMA ActiveStored ==
  ASSUME RoeInv, NEW active \in BOOLEAN, NEW pdu \in RoeTesters \cup {NoTester},
         storeROEActive(active, pdu)
  PROVE  RoeInv'
<1>1. CASE roeStore' = roeStore /\ roeNvM' = roeNvM
  BY <1>1, SameStore
<1>2. CASE SetNvMBlockChanged([roeStore EXCEPT !.active = active, !.pdu = pdu])
  <2>1. [roeStore EXCEPT !.active = active, !.pdu = pdu] \in RoeStores
    BY DEF RoeInv, RoeStores
  <2> QED BY <1>2, <2>1, MarkKept
<1> QED BY <1>1, <1>2 DEF storeROEActive

(* A start, from a copy that NvM has or writes at an orderly shutdown.      *)
LEMMA RoeStarts ==
  ASSUME NEW copy \in RoeCopies, RoeStartsWith(copy)
  PROVE  RoeInv'
<1>1. PICK stored \in InSomeOrder(copy.dids \ PreconfiguredDids) :
        LET list == AllAdded(ThatFit(RoePreconfig \o stored))
            kept == copy.dids \cap (Listed(list) \ PreconfiguredDids)
        IN /\ roeStore' = [active |-> copy.active, pdu |-> copy.pdu, dids |-> kept,
                           pendingMark |-> FALSE]
           /\ roeNvM' = [copy |-> copy, marked |-> FALSE, busy |-> FALSE]
  BY Zenon DEF RoeStartsWith
<1> DEFINE list == AllAdded(ThatFit(RoePreconfig \o stored))
           kept == copy.dids \cap (Listed(list) \ PreconfiguredDids)
<1>2. copy.dids \in SUBSET RoeDids /\ copy.active \in BOOLEAN
      /\ copy.pdu \in RoeTesters \cup {NoTester}
  BY DEF RoeCopies
<1>3. \/ copy.dids \ kept \subseteq PreconfiguredDids
      \/ Cardinality(kept \cup PreconfiguredDids) = MaxRoeEvents
  BY <1>2, KeptAtStart
<1>4. kept \in SUBSET RoeDids /\ kept \subseteq copy.dids
  BY <1>2
<1>5. /\ roeStore' = [active |-> copy.active, pdu |-> copy.pdu, dids |-> kept,
                      pendingMark |-> FALSE]
      /\ roeNvM' = [copy |-> copy, marked |-> FALSE, busy |-> FALSE]
  BY <1>1
<1> HIDE DEF list, kept
<1>6. roeStore' \in RoeStores /\ roeNvM' \in [copy : RoeCopies, marked : BOOLEAN, busy : BOOLEAN]
  BY <1>2, <1>4, <1>5 DEF RoeStores
<1>7. StoredIsMarked'
  BY <1>3, <1>4, <1>5 DEF StoredIsMarked
<1> QED BY <1>6, <1>7 DEF RoeInv

LEMMA RoeStep ==
  ASSUME RoeInv, [RoeNext]_roeVars
  PROVE  RoeInv'
<1>1. /\ roeStore \in RoeStores /\ roeNvM.copy \in RoeCopies
      /\ roeNvM \in [copy : RoeCopies, marked : BOOLEAN, busy : BOOLEAN]
  BY DEF RoeInv
<1>2. NoTester \in RoeTesters \cup {NoTester} /\ RoeTesters \subseteq RoeTesters \cup {NoTester}
  OBVIOUS
<1>3. CASE AddDataIdentifierEvent
  <2>1. PICK did \in RoeDids :
          SetNvMBlockChanged([roeStore EXCEPT !.dids = @ \cup {did}])
          \/ (roeStore' = roeStore /\ roeNvM' = roeNvM)
    BY <1>3 DEF AddDataIdentifierEvent
  <2>2. [roeStore EXCEPT !.dids = @ \cup {did}] \in RoeStores
    BY <1>1 DEF RoeStores
  <2> QED BY <2>1, <2>2, MarkKept, SameStore
<1>4. CASE DCM_ROE_Start
  <2>1. PICK pdu \in RoeTesters :
          storeROEActive(TRUE, pdu) \/ (roeStore' = roeStore /\ roeNvM' = roeNvM)
    BY <1>4 DEF DCM_ROE_Start, ROE_Start
  <2> QED BY <2>1, <1>2, ActiveStored, SameStore
<1>5. CASE DCM_ROE_Stop
  <2>1. storeROEActive(FALSE, NoTester) \/ (roeStore' = roeStore /\ roeNvM' = roeNvM)
    BY <1>5 DEF DCM_ROE_Stop
  <2> QED BY <2>1, <1>2, ActiveStored, SameStore
<1>6. CASE DCM_ROE_ClearEventList
  <2>1. SetNvMBlockChanged([roeStore EXCEPT !.dids = {}])
        \/ (roeStore' = roeStore /\ roeNvM' = roeNvM)
    BY <1>6 DEF DCM_ROE_ClearEventList, RemoveStored
  <2>2. [roeStore EXCEPT !.dids = {}] \in RoeStores
    BY <1>1 DEF RoeStores
  <2> QED BY <2>1, <2>2, MarkKept, SameStore
<1>7. CASE Dcm_RestartROE \/ RoeSessionChange \/ PollDataIdentifiers \/ Dcm_TriggerOnEvent
           \/ DidChanges
  <2>1. roeStore' = roeStore /\ roeNvM' = roeNvM
    BY <1>7 DEF Dcm_RestartROE, RoeSessionChange, PollDataIdentifiers, Dcm_TriggerOnEvent,
                DidChanges
  <2> QED BY <2>1, SameStore
<1>8. CASE Dcm_ROE_MainFunction
  <2>1. /\ roeStore' = [roeStore EXCEPT !.pendingMark = FALSE]
        /\ roeNvM' = [roeNvM EXCEPT !.marked = TRUE]
    BY <1>8 DEF Dcm_ROE_MainFunction
  <2>2. roeStore' \in RoeStores
    BY <1>1, <2>1 DEF RoeStores
  <2>3. roeNvM' \in [copy : RoeCopies, marked : BOOLEAN, busy : BOOLEAN] /\ roeNvM'.marked
    BY <1>1, <2>1
  <2> QED BY <2>2, <2>3 DEF RoeInv, StoredIsMarked
<1>9. CASE NvMWritesBlock
  <2>1. roeStore' = roeStore
    BY <1>9 DEF NvMWritesBlock
  <2>2. CASE roeNvM.busy
    <3>1. roeNvM' = [roeNvM EXCEPT !.busy = FALSE]
      BY <1>9, <2>2 DEF NvMWritesBlock
    <3>2. /\ roeNvM' \in [copy : RoeCopies, marked : BOOLEAN, busy : BOOLEAN]
          /\ roeNvM'.copy = roeNvM.copy /\ roeNvM'.marked = roeNvM.marked
      BY <1>1, <3>1
    <3> QED BY <2>1, <3>2 DEF RoeInv, StoredIsMarked
  <2>3. CASE ~roeNvM.busy
    <3>1. roeNvM' = [copy |-> Kept(roeStore), marked |-> FALSE, busy |-> TRUE]
      BY <1>9, <2>3 DEF NvMWritesBlock
    <3>2. Kept(roeStore) \in RoeCopies /\ Kept(roeStore).active = roeStore.active
          /\ Kept(roeStore).dids = roeStore.dids
      BY <1>1 DEF Kept, RoeStores, RoeCopies
    <3>3. /\ roeNvM' \in [copy : RoeCopies, marked : BOOLEAN, busy : BOOLEAN]
          /\ roeNvM'.copy.active = roeStore.active /\ roeNvM'.copy.dids = roeStore.dids
      BY <3>1, <3>2
    <3> QED BY <1>1, <2>1, <3>3 DEF RoeInv, StoredIsMarked
  <2> QED BY <2>2, <2>3
<1>10. CASE RoePowerCycle
  BY <1>1, <1>10, RoeStarts DEF RoePowerCycle
<1>11. CASE RoeShutdown
  <2>1. Kept(roeStore) \in RoeCopies
    BY <1>1 DEF Kept, RoeStores, RoeCopies
  <2> QED BY <1>1, <1>11, <2>1, RoeStarts DEF RoeShutdown
<1>12. CASE UNCHANGED roeVars
  <2>1. roeStore' = roeStore /\ roeNvM' = roeNvM
    BY <1>12 DEF roeVars
  <2> QED BY <2>1, SameStore
<1> QED BY <1>3, <1>4, <1>5, <1>6, <1>7, <1>8, <1>9, <1>10, <1>11, <1>12 DEF RoeNext

(* What a tester has had stored is marked to be written, waits to be, or is *)
(* what NvM has, but for what the list had no place for at the last start.  *)
THEOREM StoredListIsMarked == RoeBehaviour => []StoredIsMarked
<1>1. RoeInit => RoeInv
  <2> SUFFICES ASSUME RoeInit PROVE RoeInv
    OBVIOUS
  <2>1. roeStore = NewStore /\ roeNvM = [copy |-> EmptyCopy, marked |-> FALSE, busy |-> FALSE]
    BY DEF RoeInit
  <2>2. roeStore \in RoeStores /\ EmptyCopy \in RoeCopies
    BY <2>1 DEF NewStore, EmptyCopy, RoeStores, RoeCopies
  <2>3. StoredIsMarked
    BY <2>1 DEF StoredIsMarked, NewStore, EmptyCopy
  <2> QED BY <2>1, <2>2, <2>3 DEF RoeInv
<1>2. RoeInv /\ [RoeNext]_roeVars => RoeInv'
  BY RoeStep
<1>3. RoeInv => StoredIsMarked
  BY DEF RoeInv
<1> QED BY <1>1, <1>2, <1>3, PTL DEF RoeBehaviour
==============================================================================
