--------------------------- MODULE ThuatToan_proofs ---------------------------
(***************************************************************************)
(* What the rules compute, for every meeting, mark, credit and term: the   *)
(* properties of KiemQuyTac, and the facts about sums over finite sets     *)
(* that they and the proofs about marks rest on; then what the timetable   *)
(* search of XepLich finds, for every problem.                             *)
(*                                                                         *)
(* A sum over a set is a recursive function on its subsets.  No induction  *)
(* rule is needed for it: of the subsets that would break a law, a set of  *)
(* subsets of a finite set has a smallest one, and its own elements        *)
(* contradict it.                                                          *)
(***************************************************************************)
EXTENDS KiemQuyTac, XepLich, FiniteSetTheorems, TLAPS

-----------------------------------------------------------------------------
(* Sums over finite sets *)

\* Of any subsets of a finite set, one has none of the others below it.
LEMMA ToiThieu ==
  ASSUME NEW S, IsFiniteSet(S), NEW F, F \subseteq SUBSET S, F # {}
  PROVE  \E A \in F : \A B \in F : B \subseteq A => B = A
<1>1. IsWellFoundedOn(StrictSubsetOrdering(S), FiniteSubsetsOf(S))
  BY FS_StrictSubsetOrderingWellFounded
<1>2. FiniteSubsetsOf(S) = SUBSET S
  BY FS_FiniteSubsetsOfFinite
<1>3. PICK A \in F : \A B \in F : <<B, A>> \notin StrictSubsetOrdering(S)
  BY <1>1, <1>2, WFMin
<1>4. QED
  BY <1>3 DEF StrictSubsetOrdering

\* The element a sum takes first.
Chon(s) == CHOOSE x \in s : TRUE

\* g adds up h over every subset of S, element by element.
CongDon(h, S, g) ==
  g = [s \in SUBSET S |-> IF s = {} THEN 0 ELSE h[Chon(s)] + g[s \ {Chon(s)}]]

Tong(h, S) == MapThenSumSet(LAMBDA m : h[m], S)

LEMMA TongLaCongDon == ASSUME NEW h, NEW S PROVE Tong(h, S) = (CHOOSE g : CongDon(h, S, g))[S]
BY DEF Tong, MapThenSumSet, MapThenFoldSet, CongDon, Chon

LEMMA ChonTrong == ASSUME NEW s, s # {} PROVE Chon(s) \in s
BY DEF Chon

LEMMA CongDonTai ==
  ASSUME NEW h, NEW S, NEW g, CongDon(h, S, g), NEW s \in SUBSET S
  PROVE  g[s] = IF s = {} THEN 0 ELSE h[Chon(s)] + g[s \ {Chon(s)}]
<1>1. g = [t \in SUBSET S |-> IF t = {} THEN 0 ELSE h[Chon(t)] + g[t \ {Chon(t)}]]
  BY DEF CongDon
<1>2. QED
  BY <1>1

LEMMA CongDonDuyNhat ==
  ASSUME NEW h, NEW S, IsFiniteSet(S), NEW T, NEW g, NEW k,
         CongDon(h, S, g), CongDon(h, T, k), NEW s \in SUBSET S, s \in SUBSET T
  PROVE  g[s] = k[s]
<1> DEFINE F == {t \in SUBSET S : t \subseteq T /\ g[t] # k[t]}
<1> SUFFICES ASSUME F # {} PROVE FALSE
  OBVIOUS
<1>1. PICK A \in F : \A B \in F : B \subseteq A => B = A
  <2>1. F \subseteq SUBSET S
    OBVIOUS
  <2> HIDE DEF F
  <2>2. QED
    BY <2>1, ToiThieu
<1>2. A \in SUBSET S /\ A \in SUBSET T /\ g[A] # k[A]
  BY <1>1
<1>3. /\ g[A] = IF A = {} THEN 0 ELSE h[Chon(A)] + g[A \ {Chon(A)}]
      /\ k[A] = IF A = {} THEN 0 ELSE h[Chon(A)] + k[A \ {Chon(A)}]
  <2> HIDE DEF F
  <2>1. QED
    BY <1>2, CongDonTai
<1>4. CASE A = {}
  BY <1>2, <1>3, <1>4
<1>5. CASE A # {}
  <2>1. PICK c : c = Chon(A) /\ c \in A
    BY <1>5, ChonTrong
  <2>2. A \ {c} \notin F
    BY <1>1, <2>1
  <2>3. g[A \ {c}] = k[A \ {c}]
    BY <2>2
  <2>4. QED
    BY <1>2, <1>3, <1>5, <2>1, <2>3
<1>6. QED
  BY <1>4, <1>5

LEMMA CongDonCo == ASSUME NEW h, NEW S, IsFiniteSet(S) PROVE \E g : CongDon(h, S, g)
<1> DEFINE F == {U \in SUBSET S : ~ \E g : CongDon(h, U, g)}
<1> SUFFICES ASSUME F # {} PROVE FALSE
  OBVIOUS
<1>1. PICK U \in F : \A B \in F : B \subseteq U => B = U
  <2>1. F \subseteq SUBSET S
    OBVIOUS
  <2> HIDE DEF F
  <2>2. QED
    BY <2>1, ToiThieu
<1> DEFINE K(t) == CHOOSE g : CongDon(h, t, g)
           H == [t \in SUBSET U |-> K(t)[t]]
           G == [s \in SUBSET U |-> IF s = {} THEN 0 ELSE h[Chon(s)] + H[s \ {Chon(s)}]]
<1>2. ASSUME NEW t \in SUBSET U, t # U PROVE CongDon(h, t, K(t)) /\ IsFiniteSet(t)
  <2>1. t \in SUBSET S /\ t \notin F
    BY <1>1, <1>2
  <2>2. \E g : CongDon(h, t, g)
    BY <2>1
  <2>3. QED
    BY <2>1, <2>2, FS_Subset
<1>3. ASSUME NEW t \in SUBSET U, t # U PROVE G[t] = H[t]
  <2>1. K(t)[t] = IF t = {} THEN 0 ELSE h[Chon(t)] + K(t)[t \ {Chon(t)}]
    BY <1>2, <1>3, CongDonTai
  <2>2. CASE t = {}
    BY <2>1, <2>2
  <2>3. CASE t # {}
    <3>1. PICK c, r : c = Chon(t) /\ c \in t /\ r = t \ {c}
      BY <2>3, ChonTrong
    <3>2. r \in SUBSET U /\ r # U /\ r \in SUBSET t
      BY <1>3, <3>1
    <3>3. K(t)[r] = K(r)[r]
      <4>1. CongDon(h, t, K(t)) /\ CongDon(h, r, K(r)) /\ IsFiniteSet(t)
        BY <1>2, <1>3, <3>2
      <4> HIDE DEF K
      <4>2. QED
        BY <3>2, <4>1, CongDonDuyNhat
    <3>4. H[r] = K(r)[r] /\ H[t] = K(t)[t]
      BY <3>2
    <3>5. G[t] = h[c] + H[r]
      BY <2>3, <3>1
    <3> HIDE DEF G, H, K
    <3>6. QED
      BY <2>1, <2>3, <3>1, <3>3, <3>4, <3>5
  <2>4. QED
    BY <2>2, <2>3
<1>4. ASSUME NEW s \in SUBSET U, s # {} PROVE H[s \ {Chon(s)}] = G[s \ {Chon(s)}]
  <2>1. PICK c, r : c = Chon(s) /\ c \in s /\ r = s \ {c}
    BY <1>4, ChonTrong
  <2>2. r \in SUBSET U /\ r # U
    BY <2>1
  <2> HIDE DEF G, H
  <2>3. QED
    BY <1>3, <2>1, <2>2
<1>5. CongDon(h, U, G)
  <2>1. PICK g : g = G
    OBVIOUS
  <2>2. g = [s \in SUBSET U |-> IF s = {} THEN 0 ELSE h[Chon(s)] + H[s \ {Chon(s)}]]
    BY <2>1
  <2> HIDE DEF G, H
  <2>3. g = [s \in SUBSET U |-> IF s = {} THEN 0 ELSE h[Chon(s)] + g[s \ {Chon(s)}]]
    BY <1>4, <2>1, <2>2
  <2>4. QED
    BY <2>1, <2>3 DEF CongDon
<1>6. QED
  BY <1>1, <1>5

LEMMA TongRong == ASSUME NEW h PROVE Tong(h, {}) = 0
<1>1. PICK g : CongDon(h, {}, g) /\ g = CHOOSE k : CongDon(h, {}, k)
  BY CongDonCo, FS_EmptySet
<1>2. g[{}] = 0
  BY <1>1, CongDonTai
<1>3. QED
  BY <1>1, <1>2, TongLaCongDon

LEMMA TongBuoc ==
  ASSUME NEW h, NEW S, IsFiniteSet(S), NEW c, S # {}, c = Chon(S)
  PROVE  c \in S /\ Tong(h, S) = h[c] + Tong(h, S \ {c})
<1>1. PICK R : R = S \ {c}
  OBVIOUS
<1>2. c \in S /\ R \in SUBSET S /\ R \in SUBSET R /\ S \in SUBSET S /\ IsFiniteSet(R)
  BY <1>1, ChonTrong, FS_Subset
<1>3. PICK g : CongDon(h, S, g) /\ g = CHOOSE k : CongDon(h, S, k)
  BY CongDonCo
<1>4. PICK f : CongDon(h, R, f) /\ f = CHOOSE k : CongDon(h, R, k)
  BY <1>2, CongDonCo
<1>5. g[S] = h[c] + g[R]
  <2>1. g[S] = IF S = {} THEN 0 ELSE h[Chon(S)] + g[S \ {Chon(S)}]
    BY <1>2, <1>3, CongDonTai
  <2>2. QED
    BY <1>1, <2>1
<1>6. g[R] = f[R]
  BY <1>2, <1>3, <1>4, CongDonDuyNhat
<1>7. Tong(h, S) = g[S] /\ Tong(h, R) = f[R]
  BY <1>3, <1>4, TongLaCongDon
<1>8. QED
  BY <1>1, <1>2, <1>5, <1>6, <1>7

\* A sum of natural numbers may be taken apart at any of its terms.
LEMMA TongTach ==
  ASSUME NEW h, NEW S, IsFiniteSet(S), \A m \in S : h[m] \in Nat
  PROVE  Tong(h, S) \in Nat /\ \A y \in S : Tong(h, S) = h[y] + Tong(h, S \ {y})
<1> DEFINE Dung(A) == Tong(h, A) \in Nat /\ \A y \in A : Tong(h, A) = h[y] + Tong(h, A \ {y})
           F == {A \in SUBSET S : ~Dung(A)}
<1> SUFFICES ASSUME F # {} PROVE FALSE
  OBVIOUS
<1>1. PICK A \in F : \A B \in F : B \subseteq A => B = A
  <2>1. F \subseteq SUBSET S
    OBVIOUS
  <2> HIDE DEF F
  <2>2. QED
    BY <2>1, ToiThieu
<1>2. A \in SUBSET S /\ ~Dung(A)
  BY <1>1
<1>3. ASSUME NEW y \in A PROVE Dung(A \ {y})
  <2>1. A \ {y} \in SUBSET S /\ A \ {y} \notin F
    BY <1>1, <1>2
  <2> HIDE DEF Dung
  <2>2. QED
    BY <2>1
<1>4. CASE A = {}
  <2>1. Tong(h, A) = 0
    BY <1>4, TongRong
  <2>2. QED
    BY <1>2, <1>4, <2>1
<1>5. CASE A # {}
  <2>1. PICK c : c = Chon(A)
    OBVIOUS
  <2>2. c \in A /\ Tong(h, A) = h[c] + Tong(h, A \ {c})
    BY <1>2, <1>5, <2>1, TongBuoc, FS_Subset
  <2>3. PICK a, r : a = h[c] /\ a \in Nat /\ r = Tong(h, A \ {c}) /\ r \in Nat
    BY <1>2, <1>3, <2>2
  <2>4. Tong(h, A) = a + r /\ Tong(h, A) \in Nat
    BY <2>2, <2>3
  <2>5. ASSUME NEW y \in A PROVE Tong(h, A) = h[y] + Tong(h, A \ {y})
    <3>1. CASE y = c
      BY <2>2, <3>1
    <3>2. CASE y # c
      <4>1. PICK B : B = (A \ {c}) \ {y} /\ B = (A \ {y}) \ {c}
        OBVIOUS
      <4>2. Tong(h, A \ {c}) = h[y] + Tong(h, B)
        BY <1>3, <2>2, <3>2, <4>1
      <4>3. Tong(h, A \ {y}) = h[c] + Tong(h, B) /\ Tong(h, A \ {y}) \in Nat
        BY <1>3, <2>2, <3>2, <4>1
      <4>4. Tong(h, B) \in Nat
        <5>1. y \in A \ {c} /\ IsFiniteSet(A \ {c}) /\ Dung(A \ {c})
          BY <1>2, <1>3, <2>2, <3>2, FS_Subset
        <5>2. B \in SUBSET S /\ B \subseteq A /\ B # A
          BY <1>2, <2>2, <4>1
        <5>3. Dung(B)
          <6>1. B \notin F
            BY <1>1, <5>2
          <6> HIDE DEF Dung
          <6>2. QED
            BY <5>2, <6>1
        <5>4. QED
          BY <5>3
      <4>5. PICK b, d : b = Tong(h, B) /\ d = h[y] /\ b \in Nat /\ d \in Nat
        BY <1>2, <4>4
      <4>6. r = d + b /\ Tong(h, A \ {y}) = a + b
        BY <2>3, <4>2, <4>3, <4>5
      <4>7. a + r = d + (a + b)
        BY <2>3, <4>5, <4>6
      <4>8. QED
        BY <2>4, <4>5, <4>6, <4>7
    <3>3. QED
      BY <3>1, <3>2
  <2>6. QED
    BY <1>2, <2>4, <2>5
<1>6. QED
  BY <1>4, <1>5

\* More terms, and larger ones, add up to no less.
LEMMA TongHon ==
  ASSUME NEW h, NEW k, NEW S, NEW T, IsFiniteSet(T), S \subseteq T,
         \A m \in T : k[m] \in Nat, \A m \in S : h[m] \in Nat /\ h[m] <= k[m]
  PROVE  Tong(h, S) \in Nat /\ Tong(k, T) \in Nat /\ Tong(h, S) <= Tong(k, T)
<1>1. ASSUME NEW A \in SUBSET T
      PROVE  /\ Tong(k, A) \in Nat /\ Tong(h, A \cap S) \in Nat
             /\ \A y \in A : Tong(k, A) = k[y] + Tong(k, A \ {y})
             /\ \A y \in A \cap S : Tong(h, A \cap S) = h[y] + Tong(h, (A \cap S) \ {y})
  <2>1. IsFiniteSet(A) /\ IsFiniteSet(A \cap S)
    <3>1. A \cap S \in SUBSET T
      OBVIOUS
    <3>2. QED
      BY <3>1, FS_Subset
  <2>2. (\A m \in A : k[m] \in Nat) /\ (\A m \in A \cap S : h[m] \in Nat)
    OBVIOUS
  <2>3. Tong(k, A) \in Nat /\ \A y \in A : Tong(k, A) = k[y] + Tong(k, A \ {y})
    BY <2>1, <2>2, TongTach
  <2>4. PICK B : B = A \cap S
    OBVIOUS
  <2>5. Tong(h, B) \in Nat /\ \A y \in B : Tong(h, B) = h[y] + Tong(h, B \ {y})
    <3>1. IsFiniteSet(B) /\ \A m \in B : h[m] \in Nat
      BY <2>1, <2>2, <2>4
    <3>2. QED
      BY <3>1, TongTach
  <2>6. QED
    BY <2>3, <2>4, <2>5
<1> DEFINE F == {A \in SUBSET T : ~(Tong(h, A \cap S) <= Tong(k, A))}
<1>2. F = {}
  <2> SUFFICES ASSUME F # {} PROVE FALSE
    OBVIOUS
  <2>1. PICK A \in F : \A B \in F : B \subseteq A => B = A
    <3>1. F \subseteq SUBSET T
      OBVIOUS
    <3> HIDE DEF F
    <3>2. QED
      BY <3>1, ToiThieu
  <2>2. A \in SUBSET T /\ ~(Tong(h, A \cap S) <= Tong(k, A))
    BY <2>1
  <2>3. A # {}
    <3>1. ASSUME A = {} PROVE Tong(h, A \cap S) = 0 /\ Tong(k, A) = 0
      <4>1. A \cap S = {}
        BY <3>1
      <4>2. Tong(h, {}) = 0 /\ Tong(k, {}) = 0
        BY TongRong
      <4>3. QED
        BY <3>1, <4>1, <4>2
    <3>2. QED
      BY <2>2, <3>1
  <2>4. PICK c : c \in A
    BY <2>3
  <2>5. PICK B : B = A \ {c}
    OBVIOUS
  <2>6. B \in SUBSET T /\ Tong(h, B \cap S) <= Tong(k, B)
    <3>1. B \in SUBSET T /\ B \subseteq A /\ B # A
      BY <2>2, <2>4, <2>5
    <3>2. B \notin F
      BY <2>1, <3>1
    <3>3. QED
      BY <3>1, <3>2
  <2>7. PICK a, b, p, q : /\ a = Tong(k, B) /\ b = Tong(h, B \cap S) /\ p = k[c] /\ q = Tong(k, A)
                          /\ a \in Nat /\ b \in Nat /\ p \in Nat /\ b <= a /\ q = p + a
    BY <1>1, <2>2, <2>4, <2>5, <2>6
  <2>8. CASE c \in S
    <3>1. B \cap S = (A \cap S) \ {c} /\ c \in A \cap S
      BY <2>4, <2>5, <2>8
    <3>2. Tong(h, A \cap S) = h[c] + b
      BY <1>1, <2>2, <2>7, <3>1
    <3>3. PICK e : e = h[c] /\ e \in Nat /\ e <= p
      BY <2>7, <2>8
    <3>4. e + b <= p + a
      BY <2>7, <3>3
    <3>5. QED
      BY <2>2, <2>7, <3>2, <3>3, <3>4
  <2>9. CASE c \notin S
    <3>1. B \cap S = A \cap S
      BY <2>5, <2>9
    <3>2. b <= p + a
      BY <2>7
    <3>3. QED
      BY <2>2, <2>7, <3>1, <3>2
  <2>10. QED
    BY <2>8, <2>9
<1>3. T \in SUBSET T /\ T \cap S = S
  OBVIOUS
<1>4. Tong(h, S) <= Tong(k, T)
  BY <1>2, <1>3
<1>5. QED
  BY <1>1, <1>3, <1>4
-----------------------------------------------------------------------------
(* Best marks *)

\* A finite set with a strict order on it has an element with none above it.
LEMMA CoDinh ==
  ASSUME NEW S, IsFiniteSet(S), S # {}, NEW R,
         \A x \in S : <<x, x>> \notin R,
         \A x, y, w \in S : <<x, y>> \in R /\ <<y, w>> \in R => <<x, w>> \in R
  PROVE  \E x \in S : \A y \in S : <<x, y>> \notin R
<1> DEFINE F == {A \in SUBSET S : \E x \in S : A = {w \in S : <<x, w>> \in R}}
<1>1. ASSUME NEW x \in S PROVE {w \in S : <<x, w>> \in R} \in F
  OBVIOUS
<1>2. PICK A \in F : \A B \in F : B \subseteq A => B = A
  <2>1. F \subseteq SUBSET S /\ F # {}
    BY <1>1
  <2> HIDE DEF F
  <2>2. QED
    BY <2>1, ToiThieu
<1>3. PICK x \in S : A = {w \in S : <<x, w>> \in R}
  BY <1>2
<1>4. ASSUME NEW y \in S, <<x, y>> \in R PROVE FALSE
  <2>1. PICK B : B = {w \in S : <<y, w>> \in R}
    OBVIOUS
  <2>2. y \in A /\ y \notin B /\ B \in F
    BY <1>1, <1>3, <1>4, <2>1
  <2>3. B \subseteq A
    BY <1>3, <1>4, <2>1
  <2>4. QED
    BY <1>2, <2>2, <2>3
<1>5. QED
  BY <1>4

\* A finite set of integers has a largest one.
LEMMA MaxLa ==
  ASSUME NEW Z, IsFiniteSet(Z), Z # {}, \A y \in Z : y \in Int
  PROVE  Max(Z) \in Z /\ \A y \in Z : y <= Max(Z)
<1>1. PICK R : R = {p \in Z \X Z : p[1] < p[2]}
  OBVIOUS
<1>2. \A x, y \in Z : <<x, y>> \in R <=> x < y
  BY <1>1
<1>3. \A x, y, w \in Z : x \in Int /\ y \in Int /\ w \in Int /\ ~(x < x) /\ (x < y /\ y < w => x < w)
  OBVIOUS
<1>4. PICK x \in Z : \A y \in Z : <<x, y>> \notin R
  <2>1. /\ \A x \in Z : <<x, x>> \notin R
        /\ \A x, y, w \in Z : <<x, y>> \in R /\ <<y, w>> \in R => <<x, w>> \in R
    BY <1>2, <1>3
  <2>2. QED
    BY <2>1, CoDinh, Zenon
<1>5. ASSUME NEW y \in Z PROVE x >= y
  <2>1. x \in Int /\ y \in Int /\ ~(x < y)
    BY <1>2, <1>4
  <2>2. QED
    BY <2>1
<1>6. Max(Z) \in Z /\ \A y \in Z : Max(Z) >= y
  BY <1>5, Zenon DEF Max
<1>7. ASSUME NEW y \in Z PROVE y <= Max(Z)
  <2>1. PICK m : m = Max(Z) /\ m \in Int /\ m >= y /\ y \in Int
    BY <1>6
  <2>2. QED
    BY <2>1
<1>8. QED
  BY <1>6, <1>7

LEMMA KhoangHuuHan ==
  ASSUME NEW p \in Int, NEW q \in Int, NEW Z, Z \subseteq p..q
  PROVE  IsFiniteSet(Z) /\ \A y \in Z : y \in Int
<1>1. IsFiniteSet(p..q)
  BY FS_Interval
<1>2. PICK D : D = p..q
  OBVIOUS
<1>3. IsFiniteSet(D) /\ Z \in SUBSET D
  BY <1>1, <1>2
<1>4. IsFiniteSet(Z)
  BY <1>3, FS_Subset, Zenon
<1>5. QED
  BY <1>4

\* The marks zw are at least the marks zv.
KhongKem(zv, zw) ==
  /\ DOMAIN zv = DOMAIN zw
  /\ \A m \in DOMAIN zv : zv[m] # Khong =>
       zv[m] \in 0..1000 /\ zw[m] # Khong /\ zw[m] \in 0..1000 /\ zv[m] <= zw[m]

\* Credits never fall when no mark does.
LEMMA TinChiTheoDiem ==
  ASSUME NEW zv, NEW zw, NEW tc, IsFiniteSet(DOMAIN zw), KhongKem(zv, zw),
         \A m \in DOMAIN zw : tc[m] \in Nat
  PROVE  /\ MonDat(zv) \subseteq MonDat(zw) /\ IsFiniteSet(MonDat(zw))
         /\ TongTinChi(zv, tc) \in Nat /\ TongTinChi(zw, tc) \in Nat
         /\ TongTinChi(zv, tc) <= TongTinChi(zw, tc)
<1>1. MonDat(zv) \subseteq MonDat(zw) /\ MonDat(zw) \subseteq DOMAIN zw
  <2>1. ASSUME NEW m \in MonDat(zv) PROVE m \in MonDat(zw)
    <3>1. m \in DOMAIN zv /\ zv[m] # Khong /\ zv[m] >= 400
      BY <2>1 DEF MonDat, DiemDat
    <3>2. PICK p, q : p = zv[m] /\ q = zw[m]
      OBVIOUS
    <3>3. m \in DOMAIN zw /\ q # Khong /\ p \in 0..1000 /\ q \in 0..1000 /\ p <= q
      BY <3>1, <3>2 DEF KhongKem
    <3>4. q >= 400
      <4>1. p \in Int /\ q \in Int /\ p >= 400 /\ p <= q
        BY <3>1, <3>2, <3>3
      <4>2. QED
        BY <4>1
    <3>5. QED
      BY <3>2, <3>3, <3>4 DEF MonDat, DiemDat
  <2>2. QED
    BY <2>1 DEF MonDat
<1>2. IsFiniteSet(MonDat(zw))
  BY <1>1, FS_Subset
<1>3. PICK S, T : S = MonDat(zv) /\ T = MonDat(zw)
  OBVIOUS
<1>4. Tong(tc, S) \in Nat /\ Tong(tc, T) \in Nat /\ Tong(tc, S) <= Tong(tc, T)
  <2>1. IsFiniteSet(T) /\ S \subseteq T /\ (\A m \in T : tc[m] \in Nat)
    BY <1>1, <1>2, <1>3
  <2>2. \A m \in S : tc[m] \in Nat /\ tc[m] <= tc[m]
    BY <2>1
  <2>3. QED
    BY <2>1, <2>2, TongHon
<1>5. TongTinChi(zv, tc) = Tong(tc, S) /\ TongTinChi(zw, tc) = Tong(tc, T)
  BY <1>3 DEF TongTinChi, Tong
<1>6. QED
  BY <1>1, <1>2, <1>4, <1>5
-----------------------------------------------------------------------------
(* Grade points *)

LEMMA NhanDon ==
  ASSUME NEW d \in Nat, NEW p \in Int, NEW q \in Int, p <= q
  PROVE  d * p <= d * q
<1>1. PICK e \in Nat : q = p + e
  BY Z3
<1>2. d * e \in Nat /\ d * q = d * p + d * e
  BY <1>1
<1>3. d * p \in Int /\ d * q \in Int
  OBVIOUS
<1>4. QED
  BY <1>2, <1>3

\* Quotient and remainder.
LEMMA ChiaLa ==
  ASSUME NEW n \in Nat, NEW d \in Nat \ {0}
  PROVE  /\ n \div d \in Int /\ n % d \in 0..(d - 1)
         /\ n = d * (n \div d) + (n % d)
OBVIOUS

\* Rounding keeps the order.
LEMMA LamTronDon ==
  ASSUME NEW m \in Nat, NEW n \in Nat, NEW d \in Nat \ {0}, m <= n
  PROVE  LamTron(m, d) \in Int /\ LamTron(n, d) \in Int /\ LamTron(m, d) <= LamTron(n, d)
<1>1. PICK p \in Int, r \in 0..(d - 1) : p = m \div d /\ r = m % d /\ m = d * p + r
  BY ChiaLa
<1>2. PICK q \in Int, s \in 0..(d - 1) : q = n \div d /\ s = n % d /\ n = d * q + s
  BY ChiaLa
<1>3. /\ LamTron(m, d) = IF 2 * r < d \/ (2 * r = d /\ p % 2 = 0) THEN p ELSE p + 1
      /\ LamTron(n, d) = IF 2 * s < d \/ (2 * s = d /\ q % 2 = 0) THEN q ELSE q + 1
  BY <1>1, <1>2 DEF LamTron
<1>4. p <= q
  <2> SUFFICES ASSUME q + 1 <= p PROVE FALSE
    BY <1>1, <1>2
  <2>1. d * (q + 1) <= d * p
    BY NhanDon
  <2>2. d * (q + 1) = d * q + d
    BY <1>2
  <2>3. PICK a, b : a = d * p /\ b = d * q /\ a \in Int /\ b \in Int
    OBVIOUS
  <2>4. b + d <= a /\ m = a + r /\ n = b + s /\ s < d /\ r >= 0
    BY <1>1, <1>2, <2>1, <2>2, <2>3
  <2>5. QED
    BY <2>3, <2>4
<1>5. CASE p < q
  BY <1>3, <1>5
<1>6. CASE p = q
  <2>1. PICK a : a = d * p /\ a \in Int
    OBVIOUS
  <2>2. m = a + r /\ n = a + s
    BY <1>1, <1>2, <1>6, <2>1
  <2>3. r <= s
    BY <2>1, <2>2
  <2>4. QED
    BY <1>3, <1>6, <2>3
<1>7. QED
  BY <1>4, <1>5, <1>6

LEMMA ThangDiem4Don ==
  ASSUME NEW y \in Int, NEW z \in Int, y <= z
  PROVE  ThangDiem4(y) \in Nat /\ ThangDiem4(z) \in Nat /\ ThangDiem4(y) <= ThangDiem4(z)
BY DEF ThangDiem4
\* The points that the GPA divides by the credits.
DiemTong(z, tc) == MapThenSumSet(LAMBDA m : ThangDiem4(z[m]) * tc[m], MonDat(z))

LEMMA DiemTongLa ==
  ASSUME NEW z, NEW tc, IsFiniteSet(MonDat(z)), NEW k,
         \A m \in MonDat(z) : k[m] = ThangDiem4(z[m]) * tc[m]
  PROVE  DiemTong(z, tc) = Tong(k, MonDat(z))
<1> DEFINE S == MonDat(z)
           P(g) == g = [s \in SUBSET S |->
                          IF s = {} THEN 0
                          ELSE ThangDiem4(z[CHOOSE x \in s : TRUE]) * tc[CHOOSE x \in s : TRUE]
                                 + g[s \ {CHOOSE x \in s : TRUE}]]
<1>1. DiemTong(z, tc) = (CHOOSE g : P(g))[S]
  BY DEF DiemTong, MapThenSumSet, MapThenFoldSet
<1>2. ASSUME NEW g PROVE P(g) <=> CongDon(k, S, g)
  <2>1. ASSUME NEW s \in SUBSET S, s # {}
        PROVE  k[Chon(s)] = ThangDiem4(z[Chon(s)]) * tc[Chon(s)]
    BY <2>1, ChonTrong
  <2>2. \A x : /\ x = [s \in SUBSET S |->
                        IF s = {} THEN 0
                        ELSE ThangDiem4(z[CHOOSE y \in s : TRUE]) * tc[CHOOSE y \in s : TRUE]
                               + g[s \ {CHOOSE y \in s : TRUE}]]
               <=> x = [s \in SUBSET S |-> IF s = {} THEN 0 ELSE k[Chon(s)] + g[s \ {Chon(s)}]]
    <3> HIDE DEF S
    <3>1. QED
      BY <2>1 DEF Chon
  <2>3. QED
    BY <2>2 DEF CongDon
<1>3. P(CHOOSE g : P(g))
  <2>0. \E g : CongDon(k, S, g)
    BY CongDonCo
  <2> HIDE DEF P
  <2>1. \E g : P(g)
    BY <1>2, <2>0
  <2>2. QED
    BY <2>1
<1>4. PICK f, g : f = (CHOOSE e : P(e)) /\ g = (CHOOSE e : CongDon(k, S, e))
  OBVIOUS
<1>5. CongDon(k, S, f) /\ CongDon(k, S, g)
  <2>1. CongDon(k, S, f)
    <3> HIDE DEF P
    <3>1. QED
      BY <1>2, <1>3, <1>4
  <2>2. CongDon(k, S, g)
    <3>1. \E e : CongDon(k, S, e)
      BY CongDonCo
    <3>2. QED
      BY <1>4, <3>1
  <2>3. QED
    BY <2>1, <2>2
<1>6. f[S] = g[S]
  <2> HIDE DEF S
  <2>1. S \in SUBSET S /\ IsFiniteSet(S)
    BY DEF S
  <2>2. QED
    BY <1>5, <2>1, CongDonDuyNhat
<1>7. Tong(k, S) = g[S]
  BY <1>4, TongLaCongDon
<1>8. DiemTong(z, tc) = f[S]
  <2> HIDE DEF P
  <2>1. QED
    BY <1>1, <1>4
<1>9. QED
  BY <1>6, <1>7, <1>8

\* The GPA never falls when no mark does and the same subjects are passed.
LEMMA GPATheoDiem ==
  ASSUME NEW zv, NEW zw, NEW tc, IsFiniteSet(DOMAIN zw), KhongKem(zv, zw),
         \A m \in DOMAIN zw : tc[m] \in Nat,
         MonDat(zv) = MonDat(zw)
  PROVE  GPA(zv, tc) \in Int /\ GPA(zw, tc) \in Int /\ GPA(zv, tc) <= GPA(zw, tc)
<1>1. PICK S : S = MonDat(zv) /\ S = MonDat(zw) /\ IsFiniteSet(S)
  BY TinChiTheoDiem
<1>2. PICK h, k : /\ h = [m \in S |-> ThangDiem4(zv[m]) * tc[m]]
                  /\ k = [m \in S |-> ThangDiem4(zw[m]) * tc[m]]
  OBVIOUS
<1>3. DiemTong(zv, tc) = Tong(h, S) /\ DiemTong(zw, tc) = Tong(k, S)
  BY <1>1, <1>2, DiemTongLa
<1>4. ASSUME NEW m \in S PROVE h[m] \in Nat /\ k[m] \in Nat /\ h[m] <= k[m]
  <2>1. PICK y, w, c : y = zv[m] /\ w = zw[m] /\ c = tc[m]
    OBVIOUS
  <2>2. m \in DOMAIN zv /\ y # Khong
    BY <1>1, <2>1 DEF MonDat
  <2>3. y \in 0..1000 /\ w \in 0..1000 /\ y <= w /\ c \in Nat
    BY <2>1, <2>2 DEF KhongKem
  <2>4. PICK p \in Nat, q \in Nat : p = ThangDiem4(y) /\ q = ThangDiem4(w) /\ p <= q
    BY <2>3, ThangDiem4Don
  <2>5. c * p <= c * q
    BY <2>3, <2>4, NhanDon
  <2>6. p * c \in Nat /\ q * c \in Nat /\ p * c = c * p /\ q * c = c * q
    BY <2>3, <2>4
  <2>7. h[m] = p * c /\ k[m] = q * c
    BY <1>2, <2>1, <2>4
  <2>8. QED
    BY <2>5, <2>6, <2>7
<1>5. Tong(h, S) \in Nat /\ Tong(k, S) \in Nat /\ Tong(h, S) <= Tong(k, S)
  BY <1>1, <1>4, TongHon
<1>6. PICK t : t = TongTinChi(zv, tc) /\ t = TongTinChi(zw, tc) /\ t \in Nat
  <2>1. TongTinChi(zv, tc) = TongTinChi(zw, tc)
    BY <1>1 DEF TongTinChi
  <2>2. TongTinChi(zv, tc) \in Nat
    BY TinChiTheoDiem
  <2>3. QED
    BY <2>1, <2>2
<1>7. /\ GPA(zv, tc) = IF t > 0 THEN LamTron(Tong(h, S), t) ELSE 0
      /\ GPA(zw, tc) = IF t > 0 THEN LamTron(Tong(k, S), t) ELSE 0
  BY <1>3, <1>6 DEF GPA, DiemTong
<1>8. CASE t > 0
  BY <1>5, <1>6, <1>7, <1>8, LamTronDon
<1>9. CASE ~(t > 0)
  BY <1>7, <1>9
<1>10. QED
  BY <1>8, <1>9
-----------------------------------------------------------------------------
(* Meetings and terms *)

\* Every weekday falls into seven days in a row.
LEMMA ThuTrongTuan ==
  ASSUME NEW x \in Int, NEW thu \in 2..8
  PROVE  \E n \in x..(x + 6) : (n % 7) + 2 = thu
<1>1. PICK r \in 0..6, q \in Int : thu - 2 - x = 7 * q + r
  <2>1. thu - 2 - x \in Int
    OBVIOUS
  <2>2. \A e \in Int : e % 7 \in 0..6 /\ e \div 7 \in Int /\ e = 7 * (e \div 7) + (e % 7)
    OBVIOUS
  <2>3. QED
    BY <2>1, <2>2
<1>2. PICK n \in Int : n = x + r
  OBVIOUS
<1>3. n = thu - 2 + 7 * (0 - q)
  BY <1>1, <1>2
<1>4. n % 7 = thu - 2
  BY <1>3
<1>5. QED
  BY <1>2, <1>4

\* What two meetings share, and what the clash test says of them.
LEMMA GapNhau ==
  ASSUME NEW p, NEW q, BuoiHopLe(p), BuoiHopLe(q),
         p.bd \in Int, p.kt \in Int, q.bd \in Int, q.kt \in Int
  PROVE  /\ TietHoc(p) \cap TietHoc(q) # {} => BuoiTrungNhau(p, q)
         /\ /\ BuoiTrungNhau(p, q)
            /\ p.kt - q.bd >= 6 /\ q.kt - p.bd >= 6 /\ p.kt - p.bd >= 6 /\ q.kt - q.bd >= 6
            => TietHoc(p) \cap TietHoc(q) # {}
<1>0. /\ p.thu \in 2..8 /\ p.tu \in 1..10 /\ p.den \in 1..10 /\ p.tu <= p.den
      /\ q.thu \in 2..8 /\ q.tu \in 1..10 /\ q.den \in 1..10 /\ q.tu <= q.den
  BY DEF BuoiHopLe
<1>1. ASSUME NEW x \in TietHoc(p) \cap TietHoc(q) PROVE BuoiTrungNhau(p, q)
  <2>1. PICK n, t : n = x[1] /\ t = x[2]
    OBVIOUS
  <2>2. /\ n \in p.bd..p.kt /\ t \in p.tu..p.den /\ (n % 7) + 2 = p.thu
        /\ n \in q.bd..q.kt /\ t \in q.tu..q.den /\ (n % 7) + 2 = q.thu
    BY <1>1, <2>1 DEF TietHoc
  <2>3. QED
    BY <1>0, <2>2 DEF BuoiTrungNhau
<1>2. ASSUME BuoiTrungNhau(p, q), p.kt - q.bd >= 6, q.kt - p.bd >= 6,
             p.kt - p.bd >= 6, q.kt - q.bd >= 6
      PROVE  TietHoc(p) \cap TietHoc(q) # {}
  <2>1. PICK x \in Int : x = IF p.bd >= q.bd THEN p.bd ELSE q.bd
    OBVIOUS
  <2>2. PICK t \in Int : t = IF p.tu >= q.tu THEN p.tu ELSE q.tu
    BY <1>0
  <2>3. t \in p.tu..p.den /\ t \in q.tu..q.den
    BY <1>0, <1>2, <2>2 DEF BuoiTrungNhau
  <2>4. PICK n \in x..(x + 6) : (n % 7) + 2 = p.thu
    BY <1>0, <2>1, ThuTrongTuan
  <2>5. n \in p.bd..p.kt /\ n \in q.bd..q.kt
    BY <1>2, <2>1, <2>4
  <2>6. <<n, t>> \in TietHoc(p) /\ <<n, t>> \in TietHoc(q)
    BY <1>2, <2>3, <2>4, <2>5 DEF TietHoc, BuoiTrungNhau
  <2>7. QED
    BY <2>6
<1>3. QED
  BY <1>1, <1>2

\* The place of a term in its school year: the second and the summer term share one.
TrongNam(h) == IF h.hai \/ h.phu THEN 1 ELSE 0

\* The semester reached, counted from the school year.
KyDatNamHoc(h, nam) == TinhKyDat(h, nam, TRUE)

LEMMA KyDatLa ==
  ASSUME NEW h, NEW nam \in Int, NEW m \in Int, m = h.namHoc, m >= nam,
         NEW t \in Int, t = TrongNam(h), NEW k, k = KyDatNamHoc(h, nam)
  PROVE  k = (m - nam) * 2 + 1 + t
<1>1. PICK n \in Int, e \in Int : n = e + 1 /\ e = m - nam /\ n = NamThu(h, nam, TRUE)
  BY DEF NamThu
<1>2. k = IF h.phu THEN n * 2 ELSE (n - 1) * 2 + (IF h.hai THEN 2 ELSE 1)
  BY <1>1 DEF TinhKyDat, KyDatNamHoc
<1>3. n * 2 = e * 2 + 1 + 1 /\ (n - 1) * 2 + 2 = e * 2 + 1 + 1 /\ (n - 1) * 2 + 1 = e * 2 + 1 + 0
  BY <1>1
<1>4. CASE h.phu
  <2>1. t = 1 /\ k = n * 2
    BY <1>2, <1>4 DEF TrongNam
  <2>2. QED
    BY <1>1, <1>3, <2>1
<1>5. CASE ~h.phu /\ h.hai
  <2>1. t = 1 /\ k = (n - 1) * 2 + 2
    BY <1>2, <1>5 DEF TrongNam
  <2>2. QED
    BY <1>1, <1>3, <2>1
<1>6. CASE ~h.phu /\ ~h.hai
  <2>1. t = 0 /\ k = (n - 1) * 2 + 1
    BY <1>2, <1>6 DEF TrongNam
  <2>2. QED
    BY <1>1, <1>3, <2>1
<1>7. QED
  BY <1>4, <1>5, <1>6

\* Terms in order of the calendar reach semesters in order of the curriculum.
LEMMA KyTheoThuTu ==
  ASSUME NEW h, NEW k, NEW nam \in Int, h.namHoc \in Int, k.namHoc \in Int, h.namHoc >= nam,
         h.namHoc * 2 + TrongNam(h) <= k.namHoc * 2 + TrongNam(k)
  PROVE  KyDatNamHoc(h, nam) <= KyDatNamHoc(k, nam)
<1>1. PICK m \in Int, n \in Int : m = h.namHoc /\ n = k.namHoc
  OBVIOUS
<1>2. PICK s \in 0..1, t \in 0..1 : s = TrongNam(h) /\ t = TrongNam(k)
  BY DEF TrongNam
<1>3. m >= nam /\ m * 2 + s <= n * 2 + t
  BY <1>1, <1>2
<1>4. n >= nam
  BY <1>3
<1>5. PICK u, v : u = KyDatNamHoc(h, nam) /\ v = KyDatNamHoc(k, nam)
  OBVIOUS
<1>6. s \in Int /\ t \in Int
  BY <1>2
<1>7. u = (m - nam) * 2 + 1 + s
  BY <1>1, <1>2, <1>3, <1>5, <1>6, KyDatLa
<1>8. v = (n - nam) * 2 + 1 + t
  BY <1>1, <1>2, <1>4, <1>5, <1>6, KyDatLa
<1>9. (m - nam) * 2 + 1 + s <= (n - nam) * 2 + 1 + t
  BY <1>3
<1>10. QED
  BY <1>5, <1>7, <1>8, <1>9

-----------------------------------------------------------------------------
(* The properties of KiemQuyTac *)

\* Both inputs are of the kind the question is about.
CauHoi ==
  /\ loai = "lich" => vao \in Buoi /\ (ra # Khong => ra \in Buoi)
  /\ loai = "diem" => vao \in BangDiem /\ (ra # Khong => ra \in BangDiem)
  /\ loai = "ky" => vao \in HocKyThu \X NamNhap /\ (ra # Khong => ra \in HocKyThu \X NamNhap)

LEMMA CauHoiLuon == SpecK => []CauHoi
<1>1. InitK => CauHoi
  BY DEF InitK, CauHoi
<1>2. CauHoi /\ [NextK]_varsK => CauHoi'
  BY DEF CauHoi, NextK, varsK
<1>3. QED
  BY <1>1, <1>2, PTL DEF SpecK

\* Of all meetings that ValidateLichHocs accepts: two that share a period of a day
\* clash by the four comparisons of the code, and two that clash by them while each of
\* them, and their common dates, last a week share one.
THEOREM LichTrungDung == SpecK => []TrungLichDung
<1>1. CauHoi => TrungLichDung
  <2> SUFFICES ASSUME CauHoi, HoiVe("lich") PROVE TrungLichDung
    BY DEF TrungLichDung
  <2>1. PICK p \in Buoi, q \in Buoi : p = vao /\ q = ra
    BY DEF CauHoi, HoiVe
  <2>2. BuoiHopLe(p) /\ BuoiHopLe(q) /\ p.bd \in Int /\ p.kt \in Int /\ q.bd \in Int /\ q.kt \in Int
    BY MauThu
  <2>3. /\ TietHoc(p) \cap TietHoc(q) # {} => BuoiTrungNhau(p, q)
        /\ /\ BuoiTrungNhau(p, q)
           /\ p.kt - q.bd >= 6 /\ q.kt - p.bd >= 6 /\ p.kt - p.bd >= 6 /\ q.kt - q.bd >= 6
           => TietHoc(p) \cap TietHoc(q) # {}
    BY <2>2, GapNhau
  <2>4. QED
    BY <2>1, <2>3 DEF TrungLichDung
<1>2. QED
  BY <1>1, CauHoiLuon, PTL

\* Improving marks never takes credits away, nor lowers the GPA over the same subjects:
\* sums over any number of subjects, the scale and the rounding to even keep the order.
THEOREM DiemTangKhongThiet == SpecK => []CaiThienKhongThiet
<1>1. CauHoi => CaiThienKhongThiet
  <2> SUFFICES ASSUME CauHoi, HoiVe("diem"),
                      \A m \in DOMAIN vao : vao[m] # Khong => ra[m] # Khong /\ ra[m] >= vao[m]
               PROVE  CaiThienKhongThiet
    BY DEF CaiThienKhongThiet
  <2>1. PICK v \in BangDiem, r \in BangDiem : v = vao /\ r = ra
    BY DEF CauHoi, HoiVe
  <2>2. PICK M : M = DOMAIN TinChi /\ IsFiniteSet(M) /\ \A m \in M : TinChi[m] \in Nat
    BY MauThu
  <2>3. v \in [M -> 0..1000 \cup {Khong}] /\ r \in [M -> 0..1000 \cup {Khong}]
    BY <2>2, MauThu
  <2>4. DOMAIN r = M /\ DOMAIN v = M
    BY <2>3
  <2>5. KhongKem(v, r)
    <3>1. ASSUME NEW m \in M, v[m] # Khong
          PROVE  v[m] \in 0..1000 /\ r[m] # Khong /\ r[m] \in 0..1000 /\ v[m] <= r[m]
      <4>1. r[m] # Khong /\ r[m] >= v[m]
        BY <2>1, <2>4, <3>1
      <4>2. v[m] \in 0..1000 /\ r[m] \in 0..1000
        BY <2>3, <3>1, <4>1
      <4>3. QED
        BY <4>1, <4>2
    <3>2. QED
      BY <2>4, <3>1 DEF KhongKem
  <2>6. TongTinChi(v, TinChi) \in Nat /\ TongTinChi(r, TinChi) \in Nat
        /\ TongTinChi(v, TinChi) <= TongTinChi(r, TinChi)
    BY <2>2, <2>4, <2>5, TinChiTheoDiem
  <2>7. MonDat(v) = MonDat(r) =>
          /\ GPA(v, TinChi) \in Int /\ GPA(r, TinChi) \in Int
          /\ GPA(v, TinChi) <= GPA(r, TinChi)
    BY <2>2, <2>4, <2>5, GPATheoDiem
  <2>8. TongTinChi(r, TinChi) >= TongTinChi(v, TinChi)
    BY <2>6
  <2>9. MonDat(v) = MonDat(r) => GPA(r, TinChi) >= GPA(v, TinChi)
    BY <2>7
  <2>10. QED
    BY <2>1, <2>8, <2>9 DEF CaiThienKhongThiet
<1>2. QED
  BY <1>1, CauHoiLuon, PTL

\* For every term and cohort that has entered, a later term reaches no earlier semester
\* of the curriculum, and the summer term as far as the second.
THEOREM KyDatDungThuTu == SpecK => []KyDatKhongLui
<1>1. CauHoi => KyDatKhongLui
  <2> SUFFICES ASSUME CauHoi, HoiVe("ky"), vao[2] = ra[2], vao[1].namHoc >= vao[2]
               PROVE  KyDatKhongLui
    BY DEF KyDatKhongLui
  <2>1. PICK h \in HocKyThu, k \in HocKyThu, nam \in NamNhap :
          h = vao[1] /\ k = ra[1] /\ nam = vao[2] /\ nam = ra[2]
    BY DEF CauHoi, HoiVe
  <2>2. nam \in Int /\ h.namHoc \in Int /\ k.namHoc \in Int /\ h.namHoc >= nam
    BY <2>1, MauThu
  <2>3. h.namHoc * 2 + TrongNam(h) <= k.namHoc * 2 + TrongNam(k)
        => KyDatNamHoc(h, nam) <= KyDatNamHoc(k, nam)
    BY <2>2, KyTheoThuTu
  <2>4. QED
    BY <2>1, <2>3 DEF KyDatKhongLui, TrongNam, KyDatNamHoc
<1>2. QED
  BY <1>1, CauHoiLuon, PTL

-----------------------------------------------------------------------------
(* The timetable search: what the parts of a result say *)

Khung(b) == 1..Len(b.thuTu)

LaBai(b) ==
  /\ b.thuTu \in Seq(MonCua(b)) /\ IsInjective(b.thuTu)
  /\ \A m \in MonCua(b) : Khong \notin b.lop[m]
  /\ DOMAIN b.coDinh \cap MonCua(b) = {}
  /\ b.gioiHan \in Nat

\* A subject of the problem is at one index only, and is not registered.
LEMMA ThuTuBai ==
  ASSUME NEW b, LaBai(b)
  PROVE  /\ Len(b.thuTu) \in Nat /\ DOMAIN b.thuTu = Khung(b)
         /\ MonCua(b) = MonTu(b, 1)
         /\ \A j \in Khung(b) : b.thuTu[j] \in MonCua(b) /\ b.thuTu[j] \notin DOMAIN b.coDinh
         /\ \A i, j \in Khung(b) : b.thuTu[i] = b.thuTu[j] => i = j
         /\ \A m \in MonCua(b) : \E j \in Khung(b) : m = b.thuTu[j]
<1>1. Len(b.thuTu) \in Nat /\ DOMAIN b.thuTu = Khung(b)
  BY DEF LaBai, Khung
<1>2. \A i, j \in Khung(b) : b.thuTu[i] = b.thuTu[j] => i = j
  BY <1>1 DEF LaBai, IsInjective
<1>3. \A j \in Khung(b) : b.thuTu[j] \in MonCua(b) /\ b.thuTu[j] \notin DOMAIN b.coDinh
  BY <1>1 DEF LaBai, MonCua
<1>4. MonCua(b) = MonTu(b, 1) /\ \A m \in MonCua(b) : \E j \in Khung(b) : m = b.thuTu[j]
  BY <1>1 DEF MonCua, MonTu, Khung
<1>5. QED
  BY <1>1, <1>2, <1>3, <1>4

LEMMA MonTuTach ==
  ASSUME NEW b, LaBai(b), NEW i \in Khung(b)
  PROVE  /\ b.thuTu[i] \in MonTu(b, i) /\ b.thuTu[i] \notin MonTu(b, i + 1)
         /\ MonTu(b, i) = MonTu(b, i + 1) \cup {b.thuTu[i]}
         /\ MonTu(b, i) \subseteq MonCua(b)
<1> USE ThuTuBai
<1>1. Len(b.thuTu) \in Nat /\ i \in 1..Len(b.thuTu)
  BY DEF Khung
<1>2. (i..Len(b.thuTu)) = ((i + 1)..Len(b.thuTu)) \cup {i}
  BY <1>1
<1>3. MonTu(b, i) = MonTu(b, i + 1) \cup {b.thuTu[i]}
  BY <1>2 DEF MonTu
<1>4. b.thuTu[i] \notin MonTu(b, i + 1)
  <2> SUFFICES ASSUME NEW j \in (i + 1)..Len(b.thuTu), b.thuTu[i] = b.thuTu[j] PROVE FALSE
    BY DEF MonTu
  <2>1. j \in Khung(b) /\ i # j
    BY <1>1 DEF Khung
  <2>2. QED
    BY <2>1
<1>5. MonTu(b, i) \subseteq MonCua(b)
  <2> SUFFICES ASSUME NEW j \in i..Len(b.thuTu) PROVE b.thuTu[j] \in MonCua(b)
    BY DEF MonTu
  <2>1. j \in Khung(b)
    BY <1>1 DEF Khung
  <2>2. QED
    BY <2>1
<1>6. QED
  BY <1>3, <1>4, <1>5

\* t is the table of classes being tried: a subject before the i-th is taken
\* exactly when its call tries a class, and that class.
DangChon(b, lop, t, c, i) ==
  /\ ChonHopLe(b, lop, c)
  /\ \A j \in Khung(b) : b.thuTu[j] \in DOMAIN c <=> (j < i /\ t[j] # Khong)
  /\ \A j \in Khung(b) : j < i /\ t[j] # Khong => c[b.thuTu[j]] = t[j]

LaKetQua(b, r) == r = KetQua(r.chon, r.khong, r.diem) /\ r.khong \in Seq(MonCua(b))

\* r is what a call at index i may return.
HopLe(b, lop, t, r, i) ==
  /\ LaKetQua(b, r) /\ ChonHopLe(b, lop, r.chon) /\ KeDu(b, r, i)
  /\ \A j \in Khung(b) : j < i => (b.thuTu[j] \in DOMAIN r.chon <=> t[j] # Khong)

\* Only the classes tried before i matter.
LEMMA HopLeTheo ==
  ASSUME NEW b, NEW lop, NEW t, NEW u, NEW r, NEW i,
         \A j \in Khung(b) : j < i => t[j] = u[j], HopLe(b, lop, t, r, i)
  PROVE  HopLe(b, lop, u, r, i)
BY DEF HopLe

LEMMA DangChonTheo ==
  ASSUME NEW b, NEW lop, NEW t, NEW u, NEW c, NEW i,
         \A j \in Khung(b) : j < i => t[j] = u[j], DangChon(b, lop, t, c, i)
  PROVE  DangChon(b, lop, u, c, i)
BY DEF DangChon

LEMMA GoiHetHopLe ==
  ASSUME NEW b, LaBai(b), NEW lop, NEW t, NEW c, NEW i \in Int, i > Len(b.thuTu),
         DangChon(b, lop, t, c, i)
  PROVE  HopLe(b, lop, t, KetQua(c, <<>>, 0), i)
<1> DEFINE r == KetQua(c, <<>>, 0)
<1>1. r.chon = c /\ r.khong = <<>> /\ LaKetQua(b, r)
  BY DEF KetQua, LaKetQua
<1>2. MonTu(b, i) = {}
  BY ThuTuBai DEF MonTu
<1>3. KeDu(b, r, i)
  BY <1>1, <1>2 DEF KeDu, IsInjective
<1>4. QED
  BY <1>1, <1>3 DEF HopLe, DangChon

LEMMA GoiCatHopLe ==
  ASSUME NEW b, LaBai(b), NEW lop, NEW t, NEW c, NEW i \in Khung(b), DangChon(b, lop, t, c, i)
  PROVE  HopLe(b, lop, t, KetQua(c, SubSeq(b.thuTu, i, Len(b.thuTu)), 0), i)
<1> DEFINE n == Len(b.thuTu)
           s == SubSeq(b.thuTu, i, n)
           r == KetQua(c, s, 0)
<1> USE ThuTuBai
<1>0. n \in Nat /\ Khung(b) = 1..n /\ i \in 1..n /\ b.thuTu \in Seq(MonCua(b))
  BY DEF Khung, LaBai
<1>1. s \in Seq(MonCua(b)) /\ DOMAIN s = 1..(n - i + 1) /\ \A k \in 1..(n - i + 1) : s[k] = b.thuTu[i + k - 1]
  BY <1>0
<1>2. r.chon = c /\ r.khong = s /\ LaKetQua(b, r)
  BY <1>1 DEF KetQua, LaKetQua
<1>3. IsInjective(s)
  <2> SUFFICES ASSUME NEW k \in 1..(n - i + 1), NEW l \in 1..(n - i + 1), s[k] = s[l] PROVE k = l
    BY <1>1 DEF IsInjective
  <2>1. (i + k - 1) \in Khung(b) /\ (i + l - 1) \in Khung(b)
    <3> HIDE DEF n
    <3>1. QED
      BY <1>0
  <2>2. i + k - 1 = i + l - 1
    BY <1>1, <2>1
  <2>3. QED
    BY <1>0, <2>2
<1>4. {s[k] : k \in DOMAIN s} = MonTu(b, i)
  <2>0. MonTu(b, i) = {b.thuTu[j] : j \in i..n}
    BY DEF MonTu
  <2> HIDE DEF n, s
  <2>1. ASSUME NEW k \in 1..(n - i + 1) PROVE s[k] \in MonTu(b, i)
    <3>1. (i + k - 1) \in i..n
      BY <1>0
    <3>2. QED
      BY <2>0, <3>1, <1>1
  <2>2. ASSUME NEW j \in i..n PROVE \E k \in DOMAIN s : s[k] = b.thuTu[j]
    <3>1. (j - i + 1) \in 1..(n - i + 1) /\ i + (j - i + 1) - 1 = j
      BY <1>0
    <3>2. QED
      BY <3>1, <1>1
  <2>3. {s[k] : k \in DOMAIN s} \subseteq MonTu(b, i)
    BY <2>1, <1>1
  <2>4. MonTu(b, i) \subseteq {s[k] : k \in DOMAIN s}
    <3>1. ASSUME NEW j \in i..n PROVE b.thuTu[j] \in {s[k] : k \in DOMAIN s}
      BY <2>2
    <3>2. QED
      BY <2>0, <3>1
  <2>5. QED
    BY <2>3, <2>4
<1>5. MonTu(b, i) \cap DOMAIN c = {}
  <2> SUFFICES ASSUME NEW j \in i..n PROVE b.thuTu[j] \notin DOMAIN c
    BY DEF MonTu
  <2>1. j \in Khung(b) /\ ~(j < i)
    BY <1>0 DEF Khung
  <2>2. QED
    BY <2>1 DEF DangChon
<1>6. KeDu(b, r, i)
  <2>1. MonTu(b, i) \ DOMAIN r.chon = MonTu(b, i)
    BY <1>2, <1>5
  <2> HIDE DEF r, s
  <2>2. {r.khong[k] : k \in DOMAIN r.khong} = {s[k] : k \in DOMAIN s}
    BY <1>2
  <2>3. QED
    BY <1>2, <1>3, <1>4, <2>1, <2>2 DEF KeDu
<1>7. QED
  BY <1>2, <1>6 DEF HopLe, DangChon

\* The result of the next call, with the class tried at i, is one for i.
LEMMA VeThuHopLe ==
  ASSUME NEW b, LaBai(b), NEW lop, NEW t, NEW r, NEW i \in Khung(b), NEW d, t[i] # Khong,
         HopLe(b, lop, t, r, i + 1)
  PROVE  HopLe(b, lop, t, [r EXCEPT !.diem = d], i)
<1> DEFINE sub == [r EXCEPT !.diem = d]
<1>1. sub.chon = r.chon /\ sub.khong = r.khong /\ LaKetQua(b, sub)
  BY DEF HopLe, LaKetQua, KetQua
<1>2. i \in Int /\ \A j \in Khung(b) : j \in Int
  BY ThuTuBai DEF Khung
<1>3. b.thuTu[i] \in DOMAIN r.chon
  BY <1>2 DEF HopLe
<1>4. MonTu(b, i + 1) \ DOMAIN r.chon = MonTu(b, i) \ DOMAIN r.chon
  BY <1>3, MonTuTach
<1> HIDE DEF sub
<1>5. {sub.khong[k] : k \in DOMAIN sub.khong} = {r.khong[k] : k \in DOMAIN r.khong}
  BY <1>1
<1>6. KeDu(b, sub, i)
  BY <1>1, <1>4, <1>5 DEF HopLe, KeDu
<1>7. QED
  BY <1>1, <1>2, <1>6 DEF HopLe, sub

\* Without a class at i, its subject is left out before those after it.
LEMMA VeBoQuaHopLe ==
  ASSUME NEW b, LaBai(b), NEW lop, NEW t, NEW r, NEW i \in Khung(b), t[i] = Khong,
         HopLe(b, lop, t, r, i + 1)
  PROVE  HopLe(b, lop, t, ThemKhong(r, b.thuTu[i]), i)
<1> DEFINE m == b.thuTu[i]
           q == ThemKhong(r, m)
           s == r.khong
           u == <<m>> \o s
<1>0. i \in Int /\ \A j \in Khung(b) : j \in Int
  BY ThuTuBai DEF Khung
<1>1. m \in MonCua(b) /\ s \in Seq(MonCua(b)) /\ Len(s) \in Nat /\ DOMAIN s = 1..Len(s)
  BY ThuTuBai DEF HopLe, LaKetQua
<1>2. u \in Seq(MonCua(b)) /\ DOMAIN u = 1..(Len(s) + 1) /\ u[1] = m
      /\ \A k \in 1..Len(s) : u[k + 1] = s[k]
  BY <1>1
<1>3. q.chon = r.chon /\ q.khong = u /\ LaKetQua(b, q)
  <2>1. r = [chon |-> r.chon, khong |-> s, diem |-> r.diem]
    BY DEF HopLe, LaKetQua, KetQua
  <2>2. q = [r EXCEPT !.khong = u]
    BY DEF ThemKhong
  <2> HIDE DEF q, u, s
  <2>3. q = [chon |-> r.chon, khong |-> u, diem |-> r.diem]
    BY <2>1, <2>2
  <2>4. QED
    BY <1>2, <2>3 DEF LaKetQua, KetQua
<1>4. m \notin DOMAIN r.chon
  BY <1>0 DEF HopLe
<1>5. {s[k] : k \in DOMAIN s} = MonTu(b, i + 1) \ DOMAIN r.chon /\ IsInjective(s)
  BY DEF HopLe, KeDu
<1>6. MonTu(b, i) = MonTu(b, i + 1) \cup {m} /\ m \notin MonTu(b, i + 1)
  BY MonTuTach
<1> HIDE DEF q, u, s, m
<1>7. \A k \in 1..Len(s) : s[k] # m
  BY <1>1, <1>5, <1>6
<1>8. \A k \in DOMAIN u : k = 1 \/ (k - 1 \in 1..Len(s) /\ u[k] = s[k - 1])
  BY <1>1, <1>2
<1>9. IsInjective(u)
  <2> SUFFICES ASSUME NEW k \in DOMAIN u, NEW l \in DOMAIN u, u[k] = u[l] PROVE k = l
    BY DEF IsInjective
  <2>1. k \in Int /\ l \in Int
    BY <1>1, <1>2
  <2>2. CASE k # 1 /\ l # 1
    <3>1. s[k - 1] = s[l - 1] /\ k - 1 \in DOMAIN s /\ l - 1 \in DOMAIN s
      BY <1>1, <1>8, <2>2
    <3>2. k - 1 = l - 1
      BY <3>1, <1>5 DEF IsInjective
    <3>3. QED
      BY <3>2, <2>1
  <2>3. CASE k = 1 \/ l = 1
    BY <2>3, <1>2, <1>7, <1>8
  <2>4. QED
    BY <2>2, <2>3
<1>10. {u[k] : k \in DOMAIN u} = {s[k] : k \in DOMAIN s} \cup {m}
  <2>1. ASSUME NEW k \in DOMAIN u PROVE u[k] \in {s[j] : j \in DOMAIN s} \cup {m}
    BY <1>1, <1>2, <1>8
  <2>2. ASSUME NEW k \in DOMAIN s PROVE s[k] \in {u[j] : j \in DOMAIN u}
    <3>1. k + 1 \in DOMAIN u /\ u[k + 1] = s[k]
      BY <1>1, <1>2
    <3>2. QED
      BY <3>1
  <2>3. m \in {u[k] : k \in DOMAIN u}
    <3>1. 1 \in DOMAIN u
      BY <1>1, <1>2
    <3>2. QED
      BY <3>1, <1>2
  <2>4. QED
    BY <2>1, <2>2, <2>3
<1>11. KeDu(b, q, i)
  <2>1. {q.khong[k] : k \in DOMAIN q.khong} = {u[k] : k \in DOMAIN u}
    BY <1>3
  <2>2. MonTu(b, i) \ DOMAIN q.chon = (MonTu(b, i + 1) \ DOMAIN r.chon) \cup {m}
    BY <1>3, <1>4, <1>6
  <2>3. QED
    BY <1>3, <1>5, <1>9, <1>10, <2>1, <2>2 DEF KeDu
<1>12. HopLe(b, lop, t, q, i)
  BY <1>0, <1>3, <1>11 DEF HopLe
<1>13. QED
  BY <1>12 DEF q, m

LEMMA TrungNhauDoi == ASSUME NEW A, NEW B, TrungNhau(A, B) PROVE TrungNhau(B, A)
<1>1. \A x, y : BuoiTrungNhau(x, y) => BuoiTrungNhau(y, x)
  BY DEF BuoiTrungNhau
<1>2. QED
  BY <1>1 DEF TrungNhau

\* A class that fits is taken, and given back on return.
LEMMA ThemDung ==
  ASSUME NEW b, LaBai(b), NEW lop, NEW t, NEW c, NEW i \in Khung(b), NEW l,
         DangChon(b, lop, t, c, i), l \in lop[b.thuTu[i]], l # Khong, ~TrungLich(l, c),
         NEW u, u[i] = l, \A j \in Khung(b) : j < i => u[j] = t[j]
  PROVE  DangChon(b, lop, u, Them(c, b.thuTu[i], l), i + 1)
<1> DEFINE m == b.thuTu[i]
           d == Them(c, m, l)
<1>0. i \in Int /\ \A j \in Khung(b) : j \in Int
  BY ThuTuBai DEF Khung
<1>1. m \in MonCua(b) /\ m \notin DOMAIN b.coDinh /\ m \notin DOMAIN c
  BY <1>0, ThuTuBai DEF DangChon
<1>2. DOMAIN d = DOMAIN c \cup {m} /\ d[m] = l /\ \A n \in DOMAIN c : d[n] = c[n]
  BY <1>1 DEF Them
<1>3. \A n \in DOMAIN c : ~TrungNhau(l.lich, c[n].lich) /\ ~TrungNhau(c[n].lich, l.lich)
  BY TrungNhauDoi DEF TrungLich
<1>4. \A j \in Khung(b) : j # i => b.thuTu[j] # m
  BY ThuTuBai
<1> HIDE DEF m, d
<1>5. ChonHopLe(b, lop, d)
  <2>1. ASSUME NEW x \in DOMAIN d, NEW y \in DOMAIN d, x # y, TrungNhau(d[x].lich, d[y].lich)
        PROVE  {x, y} \subseteq DOMAIN b.coDinh
    <3>1. x \in DOMAIN c /\ y \in DOMAIN c
      BY <1>2, <1>3, <2>1
    <3>2. QED
      BY <1>2, <2>1, <3>1 DEF DangChon, ChonHopLe
  <2>2. ASSUME NEW n \in DOMAIN d \cap MonCua(b) PROVE d[n] \in lop[n]
    BY <1>2 DEF DangChon, ChonHopLe, m
  <2>3. QED
    BY <1>1, <1>2, <2>1, <2>2 DEF DangChon, ChonHopLe
<1>6. ASSUME NEW j \in Khung(b)
      PROVE  /\ b.thuTu[j] \in DOMAIN d <=> (j < i + 1 /\ u[j] # Khong)
             /\ j < i + 1 /\ u[j] # Khong => d[b.thuTu[j]] = u[j]
  <2>1. CASE j = i
    BY <1>0, <1>2, <2>1 DEF m
  <2>2. CASE j # i
    <3>1. j < i + 1 <=> j < i
      BY <1>0, <2>2
    <3>2. b.thuTu[j] # m
      BY <1>4, <2>2
    <3>3. b.thuTu[j] \in DOMAIN d <=> b.thuTu[j] \in DOMAIN c
      BY <1>2, <3>2
    <3>4. QED
      BY <1>2, <3>1, <3>3 DEF DangChon
  <2>3. QED
    BY <2>1, <2>2
<1>7. QED
  BY <1>5, <1>6 DEF DangChon, d, m

LEMMA BoDung ==
  ASSUME NEW b, LaBai(b), NEW lop, NEW t, NEW c, NEW i \in Khung(b),
         DangChon(b, lop, t, c, i + 1)
  PROVE  DangChon(b, lop, t, [n \in DOMAIN c \ {b.thuTu[i]} |-> c[n]], i)
<1> DEFINE m == b.thuTu[i]
           d == [n \in DOMAIN c \ {m} |-> c[n]]
<1>0. i \in Int /\ \A j \in Khung(b) : j \in Int
  BY ThuTuBai DEF Khung
<1>1. m \in MonCua(b) /\ m \notin DOMAIN b.coDinh /\ \A j \in Khung(b) : j # i => b.thuTu[j] # m
  BY ThuTuBai
<1>2. DOMAIN d = DOMAIN c \ {m} /\ \A n \in DOMAIN d : d[n] = c[n]
  OBVIOUS
<1> HIDE DEF d
<1>3. ChonHopLe(b, lop, d)
  BY <1>1, <1>2 DEF DangChon, ChonHopLe
<1>4. ASSUME NEW j \in Khung(b)
      PROVE  /\ b.thuTu[j] \in DOMAIN d <=> (j < i /\ t[j] # Khong)
             /\ j < i /\ t[j] # Khong => d[b.thuTu[j]] = t[j]
  <2>1. CASE j = i
    BY <1>0, <1>2, <2>1
  <2>2. CASE j # i
    <3>1. j < i + 1 <=> j < i
      BY <1>0, <2>2
    <3>2. b.thuTu[j] \in DOMAIN d <=> b.thuTu[j] \in DOMAIN c
      BY <1>1, <1>2, <2>2
    <3>3. QED
      BY <1>2, <3>1, <3>2 DEF DangChon
  <2>3. QED
    BY <2>1, <2>2
<1>5. QED
  BY <1>3, <1>4 DEF DangChon, d

\* Before the first call nothing is chosen but the registered classes, which at
\* the end is so again.
LEMMA ChonDau ==
  ASSUME NEW b, LaBai(b), NEW lop, NEW t PROVE DangChon(b, lop, t, b.coDinh, 1)
<1>1. DOMAIN b.coDinh \cap MonCua(b) = {} /\ \A j \in Khung(b) : ~(j < 1) /\ b.thuTu[j] \notin DOMAIN b.coDinh
  BY ThuTuBai DEF LaBai, Khung
<1>2. ChonHopLe(b, lop, b.coDinh)
  BY <1>1 DEF ChonHopLe
<1>3. QED
  BY <1>1, <1>2 DEF DangChon

-----------------------------------------------------------------------------
(* The timetable search: what holds at every step *)

\* The call at j has begun its loop and not come back.
DangMo(j) == j < muc \/ (buocXep = "lap" /\ j = muc)

KieuXep ==
  /\ bai \in Bai
  /\ \A m \in MonCua(bai) : lopCon[m] \subseteq bai.lop[m]
  /\ nut \in Nat
  /\ muc \in 1..(Len(bai.thuTu) + 1)
  /\ conThu = [i \in Khung(bai) |-> conThu[i]]
  /\ best = [i \in Khung(bai) |-> best[i]]
  /\ dangThu = [i \in Khung(bai) |-> dangThu[i]]
  /\ \A j \in Khung(bai) : DangMo(j) => conThu[j] \subseteq lopCon[bai.thuTu[j]]
  /\ buocXep = "lap" => muc \in Khung(bai)
  /\ buocXep \in {"tiep", "xong"} => muc = 1

\* The timetable in the making fits the calls in progress.
ChonDung == DangChon(bai, lopCon, dangThu, chon, muc)

\* What a call returns, and the best it has so far, may be returned from there.
TraHopLe == buocXep = "ve" => HopLe(bai, lopCon, dangThu, kq, muc)
TotHopLe ==
  \A j \in Khung(bai) : DangMo(j) => \A r \in best[j] : HopLe(bai, lopCon, dangThu, r, j)

LEMMA BaiLaBai == ASSUME KieuXep PROVE LaBai(bai)
BY BaiHopLe DEF KieuXep, LaBai

LEMMA KieuXepDau == ASSUME InitXep PROVE KieuXep
<1>1. bai \in Bai /\ lopCon = bai.lop /\ nut = 0 /\ muc = 1 /\ buocXep = "goi"
      /\ conThu = [i \in DOMAIN bai.thuTu |-> {}]
      /\ best = [i \in DOMAIN bai.thuTu |-> {}]
      /\ dangThu = [i \in DOMAIN bai.thuTu |-> Khong]
  BY DEF InitXep
<1>2. LaBai(bai)
  BY <1>1, BaiHopLe DEF LaBai
<1>3. Len(bai.thuTu) \in Nat /\ DOMAIN bai.thuTu = Khung(bai)
  BY <1>2, ThuTuBai
<1>4. \A j \in Khung(bai) : ~DangMo(j)
  BY <1>1, <1>3 DEF DangMo, Khung
<1>5. QED
  BY <1>1, <1>3, <1>4 DEF KieuXep

LEMMA KieuXepBuoc == ASSUME KieuXep, NextXep PROVE KieuXep'
<1>0. LaBai(bai)
  BY BaiLaBai
<1>1. Len(bai.thuTu) \in Nat /\ Khung(bai) = 1..Len(bai.thuTu) /\ muc \in Int
      /\ \A j \in Khung(bai) : j \in Int
  BY <1>0, ThuTuBai DEF KieuXep, Khung
<1>2. CASE GoiHet \/ GoiCat
  BY <1>1, <1>2 DEF GoiHet, GoiCat, varsTim, KieuXep, DangMo, Khung
<1>3. CASE GoiMon
  <2>1. muc \in Khung(bai) /\ buocXep' = "lap" /\ muc' = muc /\ bai' = bai /\ lopCon' = lopCon
        /\ conThu' = [conThu EXCEPT ![muc] = lopCon[MonXet]] /\ best' = [best EXCEPT ![muc] = {}]
        /\ dangThu' = dangThu /\ nut' = nut + 1
    BY <1>1, <1>3 DEF GoiMon, varsTim, KieuXep
  <2>2. conThu' = [i \in Khung(bai) |-> conThu'[i]] /\ best' = [i \in Khung(bai) |-> best'[i]]
    BY <2>1 DEF KieuXep
  <2>3. ASSUME NEW j \in Khung(bai), DangMo(j)' PROVE conThu'[j] \subseteq lopCon[bai.thuTu[j]]
    <3>1. CASE j = muc
      BY <2>1, <3>1 DEF KieuXep, MonXet
    <3>2. CASE j # muc
      <4>1. DangMo(j) /\ conThu'[j] = conThu[j]
        BY <2>1, <2>3, <3>2 DEF DangMo, KieuXep
      <4>2. QED
        BY <4>1 DEF KieuXep
    <3>3. QED
      BY <3>1, <3>2
  <2>4. nut' \in Nat /\ muc' \in 1..(Len(bai.thuTu) + 1)
    BY <2>1 DEF KieuXep
  <2>5. QED
    BY <2>1, <2>2, <2>3, <2>4 DEF KieuXep, Khung
<1>4. ASSUME NEW l, LapTrung(l) \/ LapThu(l) PROVE KieuXep'
  <2>1. buocXep = "lap" /\ muc \in Khung(bai) /\ bai' = bai /\ lopCon' = lopCon /\ nut' = nut
        /\ conThu' = [conThu EXCEPT ![muc] = @ \ {l}] /\ best' = best
        /\ \/ muc' = muc /\ buocXep' = "lap" /\ dangThu' = dangThu
           \/ muc' = muc + 1 /\ buocXep' = "goi" /\ dangThu' = [dangThu EXCEPT ![muc] = l]
    BY <1>4 DEF LapTrung, LapThu, LopKe, varsTim, KieuXep
  <2>2. conThu' = [i \in Khung(bai) |-> conThu'[i]] /\ dangThu' = [i \in Khung(bai) |-> dangThu'[i]]
    BY <2>1 DEF KieuXep
  <2>3. muc' \in 1..(Len(bai.thuTu) + 1)
    BY <1>1, <2>1
  <2>4. ASSUME NEW j \in Khung(bai), DangMo(j)' PROVE conThu'[j] \subseteq lopCon[bai.thuTu[j]]
    <3>1. DangMo(j)
      BY <1>1, <2>1, <2>4 DEF DangMo
    <3>2. conThu'[j] \subseteq conThu[j]
      BY <2>1 DEF KieuXep
    <3>3. QED
      BY <3>1, <3>2 DEF KieuXep
  <2>5. QED
    BY <2>1, <2>2, <2>3, <2>4 DEF KieuXep, Khung
<1>5. CASE LapXong
  <2>1. buocXep = "lap" /\ muc \in Khung(bai) /\ bai' = bai /\ lopCon' = lopCon /\ nut' = nut
        /\ conThu' = conThu /\ best' = best
        /\ \/ muc' = muc /\ buocXep' = "ve" /\ dangThu' = dangThu
           \/ muc' = muc + 1 /\ buocXep' = "goi" /\ dangThu' = [dangThu EXCEPT ![muc] = Khong]
    BY <1>5 DEF LapXong, varsTim, KieuXep
  <2>2. dangThu' = [i \in Khung(bai) |-> dangThu'[i]]
    BY <2>1 DEF KieuXep
  <2>3. muc' \in 1..(Len(bai.thuTu) + 1)
    BY <1>1, <2>1
  <2>4. ASSUME NEW j \in Khung(bai), DangMo(j)' PROVE DangMo(j)
    BY <1>1, <2>1, <2>4 DEF DangMo
  <2>5. QED
    BY <2>1, <2>2, <2>3, <2>4 DEF KieuXep, Khung
<1>6. CASE VeThu \/ VeBoQua
  <2>1. buocXep = "ve" /\ muc > 1 /\ muc' = muc - 1 /\ bai' = bai /\ lopCon' = lopCon /\ nut' = nut
        /\ conThu' = conThu /\ dangThu' = dangThu /\ buocXep' \in {"lap", "ve"}
    BY <1>6 DEF VeThu, VeBoQua, varsTim
  <2>2. muc' \in Khung(bai) /\ muc' \in 1..(Len(bai.thuTu) + 1)
    BY <1>1, <2>1 DEF KieuXep
  <2>3. best' = [i \in Khung(bai) |-> best'[i]]
    BY <1>6 DEF VeThu, VeBoQua, KieuXep
  <2>4. ASSUME NEW j \in Khung(bai), DangMo(j)' PROVE DangMo(j)
    BY <1>1, <2>1, <2>4 DEF DangMo
  <2>5. QED
    BY <2>1, <2>2, <2>3, <2>4 DEF KieuXep, Khung
<1>7. CASE ThemKetQua \/ TimXong
  BY <1>1, <1>7 DEF ThemKetQua, TimXong, varsTim, KieuXep, DangMo, Khung
<1>8. CASE TimTiep
  <2>1. buocXep = "tiep" /\ muc = 1 /\ muc' = muc /\ bai' = bai /\ conThu' = conThu /\ best' = best
        /\ dangThu' = dangThu /\ buocXep' \in {"goi", "tiep"} /\ nut' \in {0, nut}
    BY <1>8 DEF TimTiep, KieuXep
  <2>2. \A m \in MonCua(bai) : lopCon'[m] \subseteq bai.lop[m]
    <3>1. CASE lopCon' = lopCon
      BY <3>1 DEF KieuXep
    <3>2. ASSUME NEW n, NEW D, lopCon' = [bai.lop EXCEPT ![n] = {l \in @ : l.ma \notin D}]
          PROVE  \A m \in MonCua(bai) : lopCon'[m] \subseteq bai.lop[m]
      <4>1. DOMAIN bai.lop = MonCua(bai)
        BY BaiHopLe DEF KieuXep
      <4>2. QED
        BY <4>1, <3>2
    <3>3. QED
      <4>1. lopCon' = lopCon \/ lopCon' = [bai.lop EXCEPT ![Head(monCon)]
                                           = {l \in @ : l.ma \notin DaDung(Head(monCon))}]
        BY <1>8 DEF TimTiep
      <4>2. QED
        BY <3>1, <3>2, <4>1
  <2>3. \A j \in Khung(bai) : ~DangMo(j)'
    BY <1>1, <2>1 DEF DangMo
  <2>4. QED
    BY <2>1, <2>2, <2>3 DEF KieuXep, Khung
<1>9. QED
  BY <1>2, <1>3, <1>4, <1>5, <1>6, <1>7, <1>8 DEF NextXep

LEMMA ChonDungBuoc == ASSUME KieuXep, ChonDung, NextXep PROVE ChonDung'
<1>0. LaBai(bai) /\ \A j \in Khung(bai) : j \in Int
  BY BaiLaBai, ThuTuBai DEF Khung
<1>1. SUFFICES DangChon(bai', lopCon', dangThu', chon', muc')
  BY DEF ChonDung
<1>2. muc \in Int /\ DangChon(bai, lopCon, dangThu, chon, muc)
  BY DEF ChonDung, KieuXep
<1>3. CASE GoiHet \/ GoiCat \/ GoiMon \/ ThemKetQua \/ TimXong
  BY <1>2, <1>3 DEF GoiHet, GoiCat, GoiMon, ThemKetQua, TimXong, varsTim
<1>4. ASSUME NEW l \in conThu[muc], LapTrung(l) \/ LapThu(l)
      PROVE  DangChon(bai', lopCon', dangThu', chon', muc')
  <2>1. CASE LapTrung(l)
    BY <1>2, <2>1 DEF LapTrung, varsTim
  <2>2. CASE LapThu(l)
    <3>1. buocXep = "lap" /\ ~TrungLich(l, chon) /\ chon' = Them(chon, bai.thuTu[muc], l) /\ bai' = bai
          /\ lopCon' = lopCon /\ dangThu' = [dangThu EXCEPT ![muc] = l] /\ muc' = muc + 1
      BY <2>2 DEF LapThu, LopKe, varsTim, MonXet
    <3>2. muc \in Khung(bai) /\ l \in lopCon[bai.thuTu[muc]]
      BY <3>1 DEF KieuXep, DangMo
    <3>3. l # Khong
      <4>1. bai.thuTu[muc] \in MonCua(bai)
        BY <1>0, <3>2, ThuTuBai
      <4>2. QED
        BY <1>0, <3>2, <4>1 DEF KieuXep, LaBai
    <3>4. dangThu'[muc] = l /\ \A j \in Khung(bai) : j < muc => dangThu'[j] = dangThu[j]
      BY <1>2, <3>1, <3>2 DEF KieuXep
    <3>5. DangChon(bai, lopCon, dangThu', Them(chon, bai.thuTu[muc], l), muc + 1)
      BY <1>0, <1>2, <3>1, <3>2, <3>3, <3>4, ThemDung
    <3>6. QED
      BY <3>1, <3>5
  <2>3. QED
    BY <1>4, <2>1, <2>2
<1>5. CASE LapXong
  <2>1. muc \in Khung(bai) /\ bai' = bai /\ lopCon' = lopCon /\ chon' = chon
        /\ \/ muc' = muc /\ dangThu' = dangThu
           \/ muc' = muc + 1 /\ dangThu' = [dangThu EXCEPT ![muc] = Khong]
    BY <1>5 DEF LapXong, varsTim, KieuXep
  <2>2. CASE muc' = muc + 1 /\ dangThu' = [dangThu EXCEPT ![muc] = Khong]
    <3>1. dangThu'[muc] = Khong /\ \A j \in Khung(bai) : j # muc => dangThu'[j] = dangThu[j]
      BY <2>1, <2>2 DEF KieuXep
    <3>2. \A j \in Khung(bai) : (j < muc + 1 /\ dangThu'[j] # Khong) <=> (j < muc /\ dangThu[j] # Khong)
      BY <1>0, <1>2, <3>1
    <3>3. \A j \in Khung(bai) : j < muc => dangThu'[j] = dangThu[j]
      BY <1>2, <3>1
    <3>4. DangChon(bai, lopCon, dangThu', chon, muc + 1)
      BY <1>2, <3>2, <3>3 DEF DangChon
    <3>5. QED
      BY <2>1, <2>2, <3>4
  <2>3. QED
    BY <1>2, <2>1, <2>2
<1>6. CASE VeThu
  <2>1. muc > 1 /\ muc' = muc - 1 /\ bai' = bai /\ lopCon' = lopCon /\ dangThu' = dangThu
        /\ chon' = [n \in DOMAIN chon \ {bai.thuTu[muc - 1]} |-> chon[n]]
    BY <1>6 DEF VeThu, varsTim
  <2>2. muc - 1 \in Khung(bai) /\ (muc - 1) + 1 = muc
    BY <1>0, <1>2, <2>1, ThuTuBai DEF KieuXep, Khung
  <2>a. DangChon(bai, lopCon, dangThu, chon, (muc - 1) + 1)
    BY <1>2, <2>2
  <2>3. DangChon(bai, lopCon, dangThu, [n \in DOMAIN chon \ {bai.thuTu[muc - 1]} |-> chon[n]], muc - 1)
    BY <1>0, <2>2, <2>a, BoDung
  <2>4. QED
    BY <2>1, <2>3
<1>7. CASE VeBoQua
  <2>1. muc > 1 /\ muc' = muc - 1 /\ bai' = bai /\ lopCon' = lopCon /\ dangThu' = dangThu /\ chon' = chon
        /\ dangThu[muc - 1] = Khong
    BY <1>7 DEF VeBoQua, varsTim
  <2>2. \A j \in Khung(bai) : (j < muc - 1 /\ dangThu[j] # Khong) <=> (j < muc /\ dangThu[j] # Khong)
    BY <1>0, <1>2, <2>1
  <2>3. DangChon(bai, lopCon, dangThu, chon, muc - 1)
    BY <1>2, <2>2 DEF DangChon
  <2>4. QED
    BY <2>1, <2>3
<1>8. CASE TimTiep
  <2>1. bai' = bai /\ dangThu' = dangThu /\ muc' = muc /\ muc = 1
        /\ ((lopCon' = lopCon /\ chon' = chon) \/ chon' = bai.coDinh)
    BY <1>8 DEF TimTiep, KieuXep
  <2>2. CASE chon' = bai.coDinh
    BY <1>0, <2>1, <2>2, ChonDau
  <2>3. QED
    BY <1>2, <2>1, <2>2
<1>9. QED
  BY <1>3, <1>4, <1>5, <1>6, <1>7, <1>8 DEF NextXep

\* A result stays valid while the calls before it try what they did.
LEMMA HopLeGiu ==
  ASSUME bai' = bai, lopCon' = lopCon, NEW r, NEW i,
         \A j \in Khung(bai) : j < i => dangThu'[j] = dangThu[j],
         HopLe(bai, lopCon, dangThu, r, i)
  PROVE  HopLe(bai', lopCon', dangThu', r, i)
<1>1. HopLe(bai, lopCon, dangThu', r, i)
  BY HopLeTheo
<1>2. QED
  BY <1>1

LEMMA KetQuaBuoc ==
  ASSUME KieuXep, ChonDung, TraHopLe, TotHopLe, NextXep
  PROVE  TraHopLe' /\ TotHopLe'
<1>a. LaBai(bai)
  BY BaiLaBai
<1>0. LaBai(bai) /\ Len(bai.thuTu) \in Nat /\ muc \in Int /\ \A j \in Khung(bai) : j \in Int
  BY <1>a, ThuTuBai DEF Khung, KieuXep
<1>1. SUFFICES /\ buocXep' = "ve" => HopLe(bai', lopCon', dangThu', kq', muc')
               /\ \A j \in Khung(bai') : DangMo(j)'
                    => \A r \in best'[j] : HopLe(bai', lopCon', dangThu', r, j)
  BY DEF TraHopLe, TotHopLe
<1>2. ASSUME bai' = bai, lopCon' = lopCon, buocXep' # "ve",
             \A j \in Khung(bai) : DangMo(j)' /\ best'[j] # {} =>
               /\ DangMo(j) /\ best'[j] = best[j]
               /\ \A k \in Khung(bai) : k < j => dangThu'[k] = dangThu[k]
      PROVE  TraHopLe' /\ TotHopLe'
  BY <1>2, HopLeGiu DEF TotHopLe, TraHopLe
<1>3. CASE GoiHet \/ GoiCat
  <2>1. bai' = bai /\ lopCon' = lopCon /\ dangThu' = dangThu /\ best' = best /\ muc' = muc
        /\ buocXep = "goi" /\ buocXep' = "ve"
    BY <1>3 DEF GoiHet, GoiCat, varsTim
  <2>2. HopLe(bai, lopCon, dangThu, kq', muc)
    <3>1. CASE GoiHet
      BY <1>0, <3>1, GoiHetHopLe DEF GoiHet, ChonDung
    <3>2. CASE GoiCat
      <4>1. muc \in Khung(bai)
        BY <1>0, <3>2 DEF GoiCat, KieuXep, Khung
      <4>2. QED
        BY <1>0, <3>2, <4>1, GoiCatHopLe DEF GoiCat, ChonDung
    <3>3. QED
      BY <1>3, <3>1, <3>2
  <2>3. \A j : DangMo(j)' => DangMo(j)
    BY <2>1 DEF DangMo
  <2>4. QED
    BY <2>1, <2>2, <2>3 DEF TotHopLe, TraHopLe
<1>4. CASE GoiMon
  <2>1. bai' = bai /\ lopCon' = lopCon /\ dangThu' = dangThu /\ muc' = muc /\ buocXep' = "lap"
        /\ best' = [best EXCEPT ![muc] = {}]
    BY <1>4 DEF GoiMon, varsTim
  <2>2. ASSUME NEW j \in Khung(bai), DangMo(j)', best'[j] # {}
        PROVE  DangMo(j) /\ best'[j] = best[j]
    BY <2>1, <2>2 DEF DangMo, KieuXep
  <2>3. QED
    BY <1>2, <2>1, <2>2 DEF TraHopLe, TotHopLe
<1>5. ASSUME NEW l, LapTrung(l) \/ LapThu(l) PROVE TraHopLe' /\ TotHopLe'
  <2>1. buocXep = "lap" /\ muc \in Khung(bai) /\ bai' = bai /\ lopCon' = lopCon /\ best' = best
        /\ \/ muc' = muc /\ buocXep' = "lap" /\ dangThu' = dangThu
           \/ muc' = muc + 1 /\ buocXep' = "goi" /\ dangThu' = [dangThu EXCEPT ![muc] = l]
    BY <1>5 DEF LapTrung, LapThu, LopKe, varsTim, KieuXep
  <2>2. ASSUME NEW j \in Khung(bai), DangMo(j)'
        PROVE  DangMo(j) /\ j <= muc
    BY <1>0, <2>1, <2>2 DEF DangMo
  <2>3. \A k \in Khung(bai) : k < muc => dangThu'[k] = dangThu[k]
    BY <1>0, <2>1 DEF KieuXep
  <2>4. QED
    BY <1>0, <1>2, <2>1, <2>2, <2>3
<1>6. CASE LapXong
  <2>1. buocXep = "lap" /\ muc \in Khung(bai) /\ bai' = bai /\ lopCon' = lopCon /\ best' = best
        /\ \/ /\ muc' = muc /\ buocXep' = "ve" /\ dangThu' = dangThu
              /\ kq' \in best[muc]
           \/ muc' = muc + 1 /\ buocXep' = "goi" /\ dangThu' = [dangThu EXCEPT ![muc] = Khong]
    BY <1>6 DEF LapXong, varsTim, KieuXep
  <2>2. ASSUME NEW j \in Khung(bai), DangMo(j)'
        PROVE  DangMo(j) /\ j <= muc
    <3>1. buocXep = "lap" /\ (muc' = muc \/ (muc' = muc + 1 /\ buocXep' = "goi"))
      BY <2>1
    <3>2. QED
      BY <1>0, <2>2, <3>1 DEF DangMo
  <2>3. \A k \in Khung(bai) : k < muc => dangThu'[k] = dangThu[k]
    BY <1>0, <2>1 DEF KieuXep
  <2>4. CASE buocXep' = "ve"
    <3>1. HopLe(bai, lopCon, dangThu, kq', muc)
      BY <2>1, <2>4 DEF TotHopLe, DangMo
    <3>2. QED
      BY <2>1, <2>2, <2>4, <3>1 DEF TotHopLe, TraHopLe
  <2>5. CASE buocXep' # "ve"
    BY <1>0, <1>2, <2>1, <2>2, <2>3, <2>5 DEF TraHopLe, TotHopLe
  <2>6. QED
    BY <2>4, <2>5
<1>7. CASE VeThu
  <2> DEFINE i == muc - 1
             sub == [kq EXCEPT !.diem = @ + dangThu[i].diem]
  <2>1. buocXep = "ve" /\ muc > 1 /\ dangThu[i] # Khong /\ bai' = bai /\ lopCon' = lopCon
        /\ dangThu' = dangThu /\ muc' = i /\ buocXep' = "lap"
        /\ best' = [best EXCEPT ![i] = IF TotHon(sub, @) THEN {sub} ELSE @]
    BY <1>7 DEF VeThu, varsTim
  <2>2. i \in Khung(bai) /\ i + 1 = muc
    BY <1>0, <2>1 DEF KieuXep, Khung
  <2>3. HopLe(bai, lopCon, dangThu, kq, i + 1)
    BY <2>1, <2>2 DEF TraHopLe
  <2>4. HopLe(bai, lopCon, dangThu, sub, i)
    BY <1>0, <2>1, <2>2, <2>3, VeThuHopLe
  <2> HIDE DEF sub
  <2>5. ASSUME NEW j \in Khung(bai), DangMo(j)', NEW r \in best'[j]
        PROVE  HopLe(bai, lopCon, dangThu, r, j)
    <3>1. DangMo(j)
      BY <1>0, <2>1, <2>5 DEF DangMo
    <3>2. best'[j] = best[j] \/ (j = i /\ best'[j] = {sub})
      BY <2>1, <2>2 DEF KieuXep
    <3>3. QED
      BY <2>4, <2>5, <3>1, <3>2 DEF TotHopLe
  <2>6. QED
    BY <2>1, <2>5
<1>8. CASE VeBoQua
  <2> DEFINE i == muc - 1
  <2>1. buocXep = "ve" /\ muc > 1 /\ dangThu[i] = Khong /\ bai' = bai /\ lopCon' = lopCon
        /\ dangThu' = dangThu /\ muc' = i /\ buocXep' = "ve" /\ best' = best
        /\ kq' = ThemKhong(kq, bai.thuTu[i])
    BY <1>8 DEF VeBoQua, varsTim
  <2>2. i \in Khung(bai) /\ i + 1 = muc
    BY <1>0, <2>1 DEF KieuXep, Khung
  <2>3. HopLe(bai, lopCon, dangThu, kq, i + 1)
    BY <2>1, <2>2 DEF TraHopLe
  <2>4. HopLe(bai, lopCon, dangThu, ThemKhong(kq, bai.thuTu[i]), i)
    BY <1>0, <2>1, <2>2, <2>3, VeBoQuaHopLe
  <2>5. ASSUME NEW j \in Khung(bai), DangMo(j)' PROVE DangMo(j)
    BY <1>0, <2>1, <2>5 DEF DangMo
  <2>6. QED
    BY <2>1, <2>4, <2>5 DEF TotHopLe
<1>9. CASE ThemKetQua \/ TimXong
  <2>1. bai' = bai /\ lopCon' = lopCon /\ dangThu' = dangThu /\ best' = best /\ muc' = muc
        /\ buocXep' \in {"tiep", "xong"}
    BY <1>9 DEF ThemKetQua, TimXong, varsTim
  <2>2. \A j : DangMo(j)' => DangMo(j)
    BY <2>1 DEF DangMo
  <2>3. QED
    BY <1>2, <2>1, <2>2 DEF TraHopLe, TotHopLe
<1>10. CASE TimTiep
  <2>1. bai' = bai /\ muc' = 1 /\ buocXep' \in {"goi", "tiep"}
    BY <1>10 DEF TimTiep, KieuXep
  <2>2. \A j \in Khung(bai) : ~DangMo(j)'
    BY <1>0, <2>1 DEF DangMo, Khung
  <2>3. QED
    BY <2>1, <2>2
<1>11. QED
  BY <1>3, <1>4, <1>5, <1>6, <1>7, <1>8, <1>9, <1>10 DEF NextXep, TraHopLe, TotHopLe

LEMMA ThemVao ==
  ASSUME NEW S, NEW s \in Seq(S), NEW e
  PROVE  /\ Append(s, e) \in Seq(S \cup {e})
         /\ \A k \in DOMAIN Append(s, e) :
              (k \in DOMAIN s /\ Append(s, e)[k] = s[k]) \/ Append(s, e)[k] = e
<1>1. s \in Seq(S \cup {e}) /\ Len(s) \in Nat /\ DOMAIN s = 1..Len(s)
  OBVIOUS
<1>2. Append(s, e) \in Seq(S \cup {e}) /\ DOMAIN Append(s, e) = 1..(Len(s) + 1)
  BY <1>1
<1>3. ASSUME NEW k \in 1..(Len(s) + 1)
      PROVE  (k \in 1..Len(s) /\ Append(s, e)[k] = s[k]) \/ Append(s, e)[k] = e
  BY <1>1
<1>4. QED
  BY <1>1, <1>2, <1>3

LaDay == \E S : ketQuas \in Seq(S)

LichBatBien == LaDay /\ LichHopLeHet

\* What the first call returns, found with some of the classes, is a timetable
\* with classes of the problem.
LEMMA LichBuoc ==
  ASSUME KieuXep, TraHopLe, LichBatBien, NextXep
  PROVE  LichBatBien'
<1>1. LaBai(bai)
  BY BaiLaBai
<1>2. ASSUME bai' = bai, ketQuas' = ketQuas PROVE LichBatBien'
  BY <1>2 DEF LichBatBien, LaDay, LichHopLeHet
<1>3. CASE GoiHet \/ GoiCat \/ GoiMon \/ LapXong \/ VeThu \/ VeBoQua \/ TimXong \/ TimTiep
  BY <1>2, <1>3 DEF GoiHet, GoiCat, GoiMon, LapXong, VeThu, VeBoQua, TimXong, TimTiep, varsTim
<1>4. ASSUME NEW l, LapTrung(l) \/ LapThu(l) PROVE LichBatBien'
  BY <1>2, <1>4 DEF LapTrung, LapThu, varsTim
<1>5. CASE ThemKetQua
  <2>1. HopLe(bai, lopCon, dangThu, kq, 1) /\ bai' = bai
        /\ (ketQuas' = ketQuas \/ ketQuas' = Append(ketQuas, kq))
    BY <1>5 DEF ThemKetQua, TraHopLe
  <2>2. ChonHopLe(bai, bai.lop, kq.chon) /\ KeDu(bai, kq, 1)
    BY <2>1 DEF HopLe, ChonHopLe, KieuXep
  <2>3. CASE ketQuas' = Append(ketQuas, kq)
    <3>1. PICK S : ketQuas \in Seq(S)
      BY DEF LichBatBien, LaDay
    <3>2. ketQuas' \in Seq(S \cup {kq})
          /\ \A k \in DOMAIN ketQuas' : (k \in DOMAIN ketQuas /\ ketQuas'[k] = ketQuas[k]) \/ ketQuas'[k] = kq
      BY <2>3, <3>1, ThemVao
    <3>3. ASSUME NEW k \in DOMAIN ketQuas'
          PROVE  ChonHopLe(bai, bai.lop, ketQuas'[k].chon) /\ KeDu(bai, ketQuas'[k], 1)
      BY <2>2, <3>2 DEF LichBatBien, LichHopLeHet
    <3>4. QED
      BY <2>1, <3>2, <3>3 DEF LichBatBien, LaDay, LichHopLeHet
  <2>4. QED
    BY <1>2, <2>1, <2>3
<1>6. QED
  BY <1>3, <1>4, <1>5 DEF NextXep

XepBatBien == KieuXep /\ ChonDung /\ TraHopLe /\ TotHopLe /\ LichBatBien

LEMMA XepBatBienLuon == SpecXep => []XepBatBien
<1>1. ASSUME InitXep PROVE XepBatBien
  <2>1. KieuXep /\ LaBai(bai)
    BY <1>1, KieuXepDau, BaiLaBai
  <2>2. muc = 1 /\ buocXep = "goi" /\ chon = bai.coDinh /\ ketQuas = <<>>
    BY <1>1 DEF InitXep
  <2>3. \A j \in Khung(bai) : ~DangMo(j)
    BY <2>1, <2>2, ThuTuBai DEF DangMo, Khung
  <2>4. ChonDung
    BY <2>1, <2>2, ChonDau DEF ChonDung
  <2>5. LichBatBien
    <3>1. ketQuas \in Seq({})
      BY <2>2
    <3>2. QED
      BY <2>2, <3>1 DEF LichBatBien, LaDay, LichHopLeHet
  <2>6. QED
    BY <2>1, <2>2, <2>3, <2>4, <2>5 DEF XepBatBien, TraHopLe, TotHopLe
<1>2. ASSUME XepBatBien, NextXep PROVE XepBatBien'
  BY <1>2, KieuXepBuoc, ChonDungBuoc, KetQuaBuoc, LichBuoc DEF XepBatBien
<1>3. ASSUME XepBatBien, UNCHANGED varsXep PROVE XepBatBien'
  BY <1>3 DEF XepBatBien, KieuXep, ChonDung, TraHopLe, TotHopLe, LichBatBien, LaDay, LichHopLeHet,
              DangMo, varsXep, varsTim
<1>4. QED
  BY <1>1, <1>2, <1>3, PTL DEF SpecXep

\* Every timetable on offer is free of clashes, keeps what is registered and
\* accounts for every subject, cut short or not.
THEOREM LichLuonHopLe == SpecXep => []LichHopLeHet
<1>1. XepBatBien => LichHopLeHet
  BY DEF XepBatBien, LichBatBien
<1>2. QED
  BY <1>1, XepBatBienLuon, PTL

-----------------------------------------------------------------------------
(* The timetable search: what has been tried *)

\* f takes what the calls before the i-th are trying.
DauKhop(f, i) ==
  \A j \in Khung(bai) : j < i => dangThu[j] # Khong /\ f[bai.thuTu[j]] = dangThu[j]

\* A subject is left out only when all its classes have been tried in vain.
BoKhiHet ==
  \A j \in Khung(bai) : j < muc /\ dangThu[j] = Khong => best[j] = {} /\ conThu[j] = {}

\* The class of f at j is still to come or being tried, unless the best there has
\* all subjects already.
ConCho(f, j) ==
  \/ f[bai.thuTu[j]] \in conThu[j]
  \/ j < muc /\ f[bai.thuTu[j]] = dangThu[j]
  \/ \E r \in best[j] : r.khong = <<>>

\* A full timetable f that agrees with the calls in progress is still within
\* reach, and a call that comes back has found one.
HetCho(f) ==
  /\ buocXep = "ve" /\ DauKhop(f, muc) => kq.khong = <<>>
  /\ \A j \in Khung(bai) : DangMo(j) /\ DauKhop(f, j) => ConCho(f, j)

\* While the limit is not passed, the search has missed none.
XepHet ==
  nut <= bai.gioiHan =>
    BoKhiHet /\ \A f \in CachXep(bai, lopCon) : XepDu(bai, lopCon, f) => HetCho(f)

\* A call has one best result at most.
MotTot == \A j \in Khung(bai) : \A r, q \in best[j] : r = q

LEMMA MotTotBuoc == ASSUME KieuXep, MotTot, NextXep PROVE MotTot'
<1>1. ASSUME bai' = bai, NEW i, NEW B,
             best' = best \/ best' = [best EXCEPT ![i] = {}] \/ best' = [best EXCEPT ![i] = {B}]
      PROVE  MotTot'
  <2>1. ASSUME NEW j \in Khung(bai) PROVE best'[j] = best[j] \/ best'[j] = {} \/ best'[j] = {B}
    BY <1>1 DEF KieuXep
  <2>2. QED
    BY <1>1, <2>1 DEF MotTot
<1>2. CASE GoiMon
  BY <1>1, <1>2 DEF GoiMon, varsTim
<1>3. CASE VeThu
  <2> DEFINE sub == [kq EXCEPT !.diem = @ + dangThu[muc - 1].diem]
  <2>1. bai' = bai /\ best' = [best EXCEPT ![muc - 1] = IF TotHon(sub, @) THEN {sub} ELSE @]
    BY <1>3 DEF VeThu, varsTim
  <2> HIDE DEF sub
  <2>2. best' = best \/ best' = [best EXCEPT ![muc - 1] = {sub}]
    BY <2>1 DEF KieuXep
  <2>3. QED
    BY <1>1, <2>1, <2>2
<1>4. CASE GoiHet \/ GoiCat \/ LapXong \/ VeBoQua \/ ThemKetQua \/ TimTiep \/ TimXong
  BY <1>1, <1>4 DEF GoiHet, GoiCat, LapXong, VeBoQua, ThemKetQua, TimTiep, TimXong, varsTim
<1>5. ASSUME NEW l, LapTrung(l) \/ LapThu(l) PROVE MotTot'
  BY <1>1, <1>5 DEF LapTrung, LapThu, varsTim
<1>6. QED
  BY <1>2, <1>3, <1>4, <1>5 DEF NextXep

\* A full result is never given up for one that is not.
LEMMA TotHonDu ==
  ASSUME NEW b, NEW r, NEW cu, LaKetQua(b, r), \A q \in cu : LaKetQua(b, q),
         r.khong = <<>> \/ \E q \in cu : q.khong = <<>>
  PROVE  \E q \in (IF TotHon(r, cu) THEN {r} ELSE cu) : q.khong = <<>>
<1>1. \A q : LaKetQua(b, q) => Len(q.khong) \in Nat /\ (Len(q.khong) = 0 <=> q.khong = <<>>)
  BY DEF LaKetQua
<1>2. CASE TotHon(r, cu)
  BY <1>1, <1>2 DEF TotHon
<1>3. CASE ~TotHon(r, cu)
  <2>1. PICK q \in cu : ~(Len(r.khong) < Len(q.khong))
    BY <1>3 DEF TotHon
  <2>2. r.khong = <<>> => q.khong = <<>>
    BY <1>1, <2>1
  <2>3. QED
    BY <1>3, <2>1, <2>2
<1>4. QED
  BY <1>2, <1>3

LEMMA BoKhiHetBuoc ==
  ASSUME KieuXep, BoKhiHet, nut <= bai.gioiHan, NextXep, ~TimTiep
  PROVE  BoKhiHet'
<1>0. LaBai(bai)
  BY BaiLaBai
<1>1. muc \in Int /\ \A j \in Khung(bai) : j \in Int
  BY <1>0, ThuTuBai DEF Khung, KieuXep
<1>2. CASE GoiHet \/ GoiCat \/ ThemKetQua \/ TimXong
  BY <1>2 DEF GoiHet, GoiCat, ThemKetQua, TimXong, varsTim, BoKhiHet
<1>3. CASE GoiMon
  <2>1. bai' = bai /\ muc' = muc /\ dangThu' = dangThu /\ best' = [best EXCEPT ![muc] = {}]
        /\ conThu' = [conThu EXCEPT ![muc] = lopCon[MonXet]]
    BY <1>3 DEF GoiMon, varsTim
  <2>2. ASSUME NEW j \in Khung(bai), j < muc PROVE best'[j] = best[j] /\ conThu'[j] = conThu[j]
    <3>1. j # muc
      BY <1>1, <2>2
    <3>2. QED
      BY <2>1, <3>1 DEF KieuXep
  <2>3. QED
    BY <2>1, <2>2 DEF BoKhiHet
<1>4. ASSUME NEW l \in conThu[muc], LapTrung(l) \/ LapThu(l) PROVE BoKhiHet'
  <2>1. muc \in Khung(bai) /\ DangMo(muc) /\ bai' = bai /\ best' = best
        /\ conThu' = [conThu EXCEPT ![muc] = @ \ {l}]
        /\ \/ muc' = muc /\ dangThu' = dangThu
           \/ muc' = muc + 1 /\ dangThu' = [dangThu EXCEPT ![muc] = l]
    BY <1>4 DEF LapTrung, LapThu, LopKe, varsTim, KieuXep, DangMo
  <2>2. l # Khong
    <3>1. bai.thuTu[muc] \in MonCua(bai)
      BY <1>0, <2>1, ThuTuBai
    <3>2. QED
      BY <1>0, <2>1, <3>1 DEF KieuXep, LaBai
  <2>3. ASSUME NEW j \in Khung(bai), j < muc', dangThu'[j] = Khong
        PROVE  best'[j] = {} /\ conThu'[j] = {}
    <3>1. j # muc
      BY <1>1, <2>1, <2>2, <2>3 DEF KieuXep
    <3>2. j < muc /\ dangThu'[j] = dangThu[j] /\ conThu'[j] = conThu[j]
      BY <1>1, <2>1, <2>3, <3>1 DEF KieuXep
    <3>3. QED
      BY <2>1, <2>3, <3>2 DEF BoKhiHet
  <2>4. QED
    BY <2>1, <2>3 DEF BoKhiHet
<1>5. CASE LapXong
  <2>1. muc \in Khung(bai) /\ DungLap /\ bai' = bai /\ best' = best /\ conThu' = conThu
        /\ \/ muc' = muc /\ dangThu' = dangThu
           \/ muc' = muc + 1 /\ best[muc] = {} /\ dangThu' = [dangThu EXCEPT ![muc] = Khong]
    BY <1>5 DEF LapXong, varsTim, KieuXep
  <2>2. nut \in Int /\ bai.gioiHan \in Int
    BY <1>0 DEF KieuXep, LaBai
  <2>3. ASSUME NEW j \in Khung(bai), j < muc', dangThu'[j] = Khong
        PROVE  best'[j] = {} /\ conThu'[j] = {}
    <3>1. CASE j = muc
      <4>1. best[muc] = {}
        BY <1>1, <2>1, <2>3, <3>1
      <4>2. conThu[muc] = {}
        BY <2>1, <2>2, <4>1 DEF DungLap
      <4>3. QED
        BY <2>1, <3>1, <4>1, <4>2
    <3>2. CASE j # muc
      <4>1. j < muc /\ dangThu'[j] = dangThu[j]
        BY <1>1, <2>1, <2>3, <3>2 DEF KieuXep
      <4>2. QED
        BY <2>1, <2>3, <4>1 DEF BoKhiHet
    <3>3. QED
      BY <3>1, <3>2
  <2>4. QED
    BY <2>1, <2>3 DEF BoKhiHet
<1>6. CASE VeThu \/ VeBoQua
  <2>1. muc' = muc - 1 /\ bai' = bai /\ conThu' = conThu /\ dangThu' = dangThu
        /\ \A j \in Khung(bai) : j < muc - 1 => best'[j] = best[j]
    BY <1>1, <1>6 DEF VeThu, VeBoQua, varsTim, KieuXep
  <2>2. \A j \in Khung(bai) : j < muc - 1 => j < muc
    BY <1>1
  <2>3. QED
    BY <2>1, <2>2 DEF BoKhiHet
<1>7. QED
  BY <1>2, <1>3, <1>4, <1>5, <1>6 DEF NextXep

\* A full timetable that agrees with the calls in progress stays within reach.
LEMMA HetChoBuoc ==
  ASSUME KieuXep, ChonDung, TraHopLe, TotHopLe, MotTot, BoKhiHet, nut <= bai.gioiHan, NextXep, ~TimTiep,
         NEW f \in CachXep(bai, lopCon), XepDu(bai, lopCon, f), HetCho(f)
  PROVE  HetCho(f)'
<1>a. LaBai(bai)
  BY BaiLaBai
<1>0. LaBai(bai) /\ Len(bai.thuTu) \in Nat /\ muc \in Int /\ \A j \in Khung(bai) : j \in Int
  BY <1>a, ThuTuBai DEF Khung, KieuXep
<1>b. nut \in Int /\ bai.gioiHan \in Int /\ ~(nut > bai.gioiHan)
  BY <1>a DEF KieuXep, LaBai
<1>c. \A j \in Khung(bai) : f[bai.thuTu[j]] \in lopCon[bai.thuTu[j]] /\ f[bai.thuTu[j]] # Khong
  <2>1. \A j \in Khung(bai) : bai.thuTu[j] \in MonCua(bai)
    BY <1>a, ThuTuBai
  <2>2. QED
    BY <1>a, <2>1 DEF XepDu, KieuXep, LaBai
<1>1. ASSUME NEW i, bai' = bai, \A j \in Khung(bai) : j < i => dangThu'[j] = dangThu[j]
      PROVE  DauKhop(f, i)' <=> DauKhop(f, i)
  BY <1>1 DEF DauKhop
<1>2. ASSUME bai' = bai, buocXep' # "ve",
             \A j \in Khung(bai) : DangMo(j)' /\ DauKhop(f, j)' => ConCho(f, j)'
      PROVE  HetCho(f)'
  BY <1>2 DEF HetCho
<1>3. CASE GoiHet \/ GoiCat
  <2>1. GoiHet
    BY <1>3, <1>b DEF GoiCat
  <2>2. bai' = bai /\ buocXep = "goi" /\ muc' = muc /\ conThu' = conThu /\ best' = best /\ dangThu' = dangThu
        /\ kq'.khong = <<>> /\ buocXep' = "ve"
    BY <2>1 DEF GoiHet, KetQua, varsTim
  <2>3. ASSUME NEW j \in Khung(bai), DangMo(j)', DauKhop(f, j)' PROVE ConCho(f, j)'
    BY <2>2, <2>3 DEF HetCho, DangMo, DauKhop, ConCho
  <2>4. QED
    BY <2>2, <2>3 DEF HetCho
<1>4. CASE GoiMon
  <2>1. bai' = bai /\ muc' = muc /\ dangThu' = dangThu /\ best' = [best EXCEPT ![muc] = {}]
        /\ conThu' = [conThu EXCEPT ![muc] = lopCon[bai.thuTu[muc]]] /\ buocXep' = "lap" /\ muc \in Khung(bai)
    BY <1>0, <1>4 DEF GoiMon, varsTim, MonXet, KieuXep, Khung
  <2>2. ASSUME NEW j \in Khung(bai), DangMo(j)', DauKhop(f, j)' PROVE ConCho(f, j)'
    <3>1. CASE j = muc
      <4>1. f[bai.thuTu[j]] \in conThu'[j]
        BY <1>c, <2>1, <3>1 DEF KieuXep
      <4>2. QED
        BY <2>1, <4>1 DEF ConCho
    <3>2. CASE j # muc
      <4>1. DangMo(j) /\ best'[j] = best[j] /\ conThu'[j] = conThu[j]
        BY <2>1, <2>2, <3>2 DEF DangMo, KieuXep
      <4>2. DauKhop(f, j)
        BY <2>1, <2>2 DEF DauKhop
      <4>3. ConCho(f, j)
        BY <4>1, <4>2 DEF HetCho
      <4>4. QED
        BY <2>1, <4>1, <4>3 DEF ConCho
    <3>3. QED
      BY <3>1, <3>2
  <2>3. QED
    BY <1>2, <2>1, <2>2
<1>5. CASE ThemKetQua \/ TimXong
  <2>1. bai' = bai /\ muc' = 1 /\ buocXep' \in {"tiep", "xong"}
    BY <1>5 DEF ThemKetQua, TimXong, varsTim, KieuXep
  <2>2. \A j \in Khung(bai) : ~DangMo(j)'
    BY <1>0, <2>1 DEF DangMo, Khung
  <2>3. QED
    BY <1>2, <2>1, <2>2
<1>6. ASSUME NEW l \in conThu[muc], LapTrung(l) PROVE HetCho(f)'
  <2>1. bai' = bai /\ muc' = muc /\ dangThu' = dangThu /\ best' = best /\ buocXep = "lap" /\ buocXep' = "lap"
        /\ conThu' = [conThu EXCEPT ![muc] = @ \ {l}] /\ TrungLich(l, chon) /\ muc \in Khung(bai)
    BY <1>6 DEF LapTrung, LopKe, varsTim, KieuXep
  <2>2. ASSUME NEW j \in Khung(bai), DangMo(j)', DauKhop(f, j)' PROVE ConCho(f, j)'
    <3>1. DangMo(j) /\ DauKhop(f, j) /\ ConCho(f, j)
      BY <2>1, <2>2 DEF DangMo, DauKhop, HetCho
    <3>2. CASE j # muc \/ f[bai.thuTu[j]] # l
      BY <2>1, <3>1, <3>2 DEF ConCho, KieuXep
    <3>3. CASE j = muc /\ f[bai.thuTu[j]] = l
      <4> DEFINE m == bai.thuTu[muc]
      <4>1. PICK n \in DOMAIN chon : TrungNhau(f[m].lich, chon[n].lich)
        BY <2>1, <3>3 DEF TrungLich
      <4>2. m \in MonCua(bai)
        BY <1>a, <2>1, ThuTuBai
      <4>3. CASE n \in DOMAIN bai.coDinh
        <5>1. chon[n] = bai.coDinh[n]
          BY <4>3 DEF ChonDung, DangChon, ChonHopLe
        <5>2. TrungLich(f[m], bai.coDinh)
          BY <4>1, <4>3, <5>1 DEF TrungLich
        <5>3. QED
          BY <4>2, <5>2 DEF XepDu
      <4>4. CASE n \notin DOMAIN bai.coDinh
        <5>1. n \in MonCua(bai)
          BY <4>4 DEF ChonDung, DangChon, ChonHopLe
        <5>2. PICK k \in Khung(bai) : n = bai.thuTu[k]
          BY <1>a, <5>1, ThuTuBai
        <5>3. k < muc /\ dangThu[k] # Khong /\ chon[n] = dangThu[k]
          BY <4>1, <5>2 DEF ChonDung, DangChon
        <5>4. f[n] = chon[n]
          BY <3>1, <3>3, <5>2, <5>3 DEF DauKhop
        <5>5. m # n
          <6>1. k # muc
            BY <1>0, <5>3
          <6>2. QED
            BY <1>a, <2>1, <5>2, <6>1, ThuTuBai
        <5>6. QED
          BY <4>1, <4>2, <5>1, <5>4, <5>5 DEF XepDu
      <4>5. QED
        BY <4>3, <4>4
    <3>4. QED
      BY <3>2, <3>3
  <2>3. QED
    BY <1>2, <2>1, <2>2
<1>7. ASSUME NEW l \in conThu[muc], LapThu(l) PROVE HetCho(f)'
  <2>1. bai' = bai /\ muc' = muc + 1 /\ best' = best /\ buocXep = "lap" /\ buocXep' = "goi"
        /\ conThu' = [conThu EXCEPT ![muc] = @ \ {l}] /\ dangThu' = [dangThu EXCEPT ![muc] = l]
        /\ muc \in Khung(bai)
    BY <1>7 DEF LapThu, LopKe, varsTim, KieuXep
  <2>2. ASSUME NEW j \in Khung(bai), DangMo(j)', DauKhop(f, j)' PROVE ConCho(f, j)'
    <3>1. j <= muc /\ DangMo(j) /\ \A k \in Khung(bai) : k < j => dangThu'[k] = dangThu[k]
      BY <1>0, <2>1, <2>2 DEF DangMo, KieuXep
    <3>2. ConCho(f, j)
      BY <1>1, <2>1, <2>2, <3>1 DEF HetCho
    <3>3. CASE j = muc
      <4>1. conThu'[j] = conThu[j] \ {l} /\ dangThu'[j] = l /\ j < muc' /\ ~(j < muc)
        BY <1>0, <2>1, <3>3 DEF KieuXep
      <4>2. QED
        BY <2>1, <3>2, <4>1 DEF ConCho
    <3>4. CASE j # muc
      <4>1. conThu'[j] = conThu[j] /\ dangThu'[j] = dangThu[j] /\ j < muc' /\ j < muc
        BY <1>0, <2>1, <3>1, <3>4 DEF KieuXep
      <4>2. QED
        BY <2>1, <3>2, <4>1 DEF ConCho
    <3>5. QED
      BY <3>3, <3>4
  <2>3. QED
    BY <1>2, <2>1, <2>2
<1>8. CASE LapXong
  <2>1. bai' = bai /\ best' = best /\ conThu' = conThu /\ buocXep = "lap" /\ DungLap /\ muc \in Khung(bai)
    BY <1>8 DEF LapXong, varsTim, KieuXep
  <2>2. DauKhop(f, muc) => \E r \in best[muc] : r.khong = <<>>
    <3>1. DauKhop(f, muc) => ConCho(f, muc)
      BY <2>1 DEF HetCho, DangMo
    <3>2. QED
      BY <1>0, <1>b, <2>1, <3>1 DEF ConCho, DungLap
  <2>3. CASE /\ kq' \in best[muc] /\ buocXep' = "ve"
             /\ UNCHANGED <<muc, dangThu>>
    <3>1. \A r, q \in best[muc] : r = q
      BY <2>1 DEF MotTot
    <3>2. DauKhop(f, muc') => kq'.khong = <<>>
      BY <2>2, <2>3, <3>1
    <3>3. ASSUME NEW j \in Khung(bai), DangMo(j)', DauKhop(f, j)' PROVE ConCho(f, j)'
      BY <2>1, <2>3, <3>3 DEF DangMo, DauKhop, HetCho, ConCho
    <3>4. DauKhop(f, muc)' => kq'.khong = <<>>
      BY <2>1, <2>3, <3>2 DEF DauKhop
    <3>5. QED
      BY <2>1, <3>3, <3>4 DEF HetCho
  <2>4. CASE /\ best[muc] = {} /\ dangThu' = [dangThu EXCEPT ![muc] = Khong]
             /\ muc' = muc + 1 /\ buocXep' = "goi"
    <3>1. ASSUME NEW j \in Khung(bai), DangMo(j)', DauKhop(f, j)' PROVE ConCho(f, j)'
      <4>1. j <= muc /\ DangMo(j) /\ \A k \in Khung(bai) : k < j => dangThu'[k] = dangThu[k]
        BY <1>0, <2>1, <2>4, <3>1 DEF DangMo, KieuXep
      <4>2. DauKhop(f, j) /\ ConCho(f, j)
        BY <1>1, <2>1, <3>1, <4>1 DEF HetCho
      <4>3. j # muc
        BY <2>2, <2>4, <4>2
      <4>4. dangThu'[j] = dangThu[j] /\ j < muc /\ j < muc'
        BY <1>0, <2>1, <2>4, <4>1, <4>3 DEF KieuXep
      <4>5. QED
        BY <2>1, <4>2, <4>4 DEF ConCho
    <3>2. QED
      BY <1>2, <2>1, <2>4, <3>1
  <2>5. QED
    BY <1>8, <2>3, <2>4 DEF LapXong
<1>9. CASE VeThu
  <2> DEFINE i == muc - 1
             sub == [kq EXCEPT !.diem = @ + dangThu[i].diem]
  <2>1. buocXep = "ve" /\ muc > 1 /\ dangThu[i] # Khong /\ bai' = bai /\ conThu' = conThu
        /\ dangThu' = dangThu /\ muc' = i /\ buocXep' = "lap"
        /\ best' = [best EXCEPT ![i] = IF TotHon(sub, @) THEN {sub} ELSE @]
    BY <1>9 DEF VeThu, varsTim
  <2>2. i \in Khung(bai) /\ i < muc
    BY <1>0, <2>1 DEF KieuXep, Khung
  <2>3. sub.khong = kq.khong /\ LaKetQua(bai, sub) /\ \A q \in best[i] : LaKetQua(bai, q)
    <3>1. LaKetQua(bai, kq)
      BY <2>1 DEF TraHopLe, HopLe
    <3>2. sub.khong = kq.khong /\ LaKetQua(bai, sub)
      BY <3>1 DEF LaKetQua, KetQua
    <3>3. QED
      BY <2>2, <3>2 DEF TotHopLe, HopLe, DangMo
  <2> HIDE DEF sub
  <2>4. ASSUME NEW j \in Khung(bai), DangMo(j)', DauKhop(f, j)' PROVE ConCho(f, j)'
    <3>1. DangMo(j) /\ j <= i /\ j < muc
      BY <1>0, <2>1, <2>4 DEF DangMo
    <3>2. DauKhop(f, j) /\ ConCho(f, j)
      BY <1>1, <2>1, <2>4, <3>1 DEF HetCho
    <3>3. CASE j # i
      <4>1. best'[j] = best[j] /\ j < muc'
        BY <1>0, <2>1, <3>1, <3>3 DEF KieuXep
      <4>2. QED
        BY <2>1, <3>2, <4>1 DEF ConCho
    <3>4. CASE j = i
      <4>1. best'[i] = IF TotHon(sub, best[i]) THEN {sub} ELSE best[i]
        BY <2>1, <2>2 DEF KieuXep
      <4>2. CASE f[bai.thuTu[i]] \in conThu[i]
        BY <2>1, <3>4, <4>2 DEF ConCho
      <4>3. CASE f[bai.thuTu[i]] = dangThu[i]
        <5>1. DauKhop(f, muc)
          <6>1. \A k \in Khung(bai) : k < muc => k < i \/ k = i
            BY <1>0, <2>2
          <6>2. QED
            BY <2>1, <3>2, <3>4, <4>3, <6>1 DEF DauKhop
        <5>2. sub.khong = <<>>
          BY <2>1, <2>3, <5>1 DEF HetCho
        <5>3. \E r \in best'[i] : r.khong = <<>>
          BY <2>3, <4>1, <5>2, TotHonDu
        <5>4. QED
          BY <3>4, <5>3 DEF ConCho
      <4>4. CASE \E r \in best[i] : r.khong = <<>>
        <5>1. \E r \in best'[i] : r.khong = <<>>
          BY <2>3, <4>1, <4>4, TotHonDu
        <5>2. QED
          BY <3>4, <5>1 DEF ConCho
      <4>5. QED
        BY <3>2, <3>4, <4>2, <4>3, <4>4 DEF ConCho
    <3>5. QED
      BY <3>3, <3>4
  <2>5. QED
    BY <1>2, <2>1, <2>4
<1>10. CASE VeBoQua
  <2> DEFINE i == muc - 1
  <2>1. buocXep = "ve" /\ muc > 1 /\ dangThu[i] = Khong /\ bai' = bai /\ conThu' = conThu
        /\ dangThu' = dangThu /\ muc' = i /\ buocXep' = "ve" /\ best' = best
    BY <1>10 DEF VeBoQua, varsTim
  <2>2. i \in Khung(bai) /\ i < muc
    BY <1>0, <2>1 DEF KieuXep, Khung
  <2>3. ~DauKhop(f, i)
    <3>1. best[i] = {} /\ conThu[i] = {} /\ DangMo(i)
      BY <2>1, <2>2 DEF BoKhiHet, DangMo
    <3>2. DauKhop(f, i) => ConCho(f, i)
      BY <2>2, <3>1 DEF HetCho
    <3>3. QED
      BY <1>c, <2>1, <2>2, <3>1, <3>2 DEF ConCho
  <2>4. ASSUME NEW j \in Khung(bai), DangMo(j)', DauKhop(f, j)' PROVE ConCho(f, j)'
    <3>1. DangMo(j) /\ j < muc'
      BY <1>0, <2>1, <2>4 DEF DangMo
    <3>2. DauKhop(f, j) /\ ConCho(f, j)
      BY <2>1, <2>4, <3>1 DEF HetCho, DauKhop
    <3>3. QED
      BY <2>1, <3>1, <3>2 DEF ConCho
  <2>5. ~DauKhop(f, muc)'
    BY <2>1, <2>3 DEF DauKhop
  <2>6. QED
    BY <2>1, <2>4, <2>5 DEF HetCho
<1>11. QED
  BY <1>3, <1>4, <1>5, <1>6, <1>7, <1>8, <1>9, <1>10 DEF NextXep

TimBatBien == XepBatBien /\ MotTot /\ XepHet

LEMMA XepHetBuoc == ASSUME TimBatBien, NextXep PROVE XepHet'
<1>0. KieuXep /\ ChonDung /\ TraHopLe /\ TotHopLe /\ MotTot /\ LaBai(bai)
  BY BaiLaBai DEF TimBatBien, XepBatBien
<1>1. nut \in Int /\ bai.gioiHan \in Int /\ muc \in Int
  BY <1>0 DEF KieuXep, LaBai
<1>2. CASE TimTiep
  <2>1. bai' = bai /\ muc = 1 /\ muc' = muc /\ buocXep' \in {"goi", "tiep"}
    BY <1>0, <1>2 DEF TimTiep, KieuXep
  <2>2. \A j \in Khung(bai) : ~(j < 1) /\ ~DangMo(j)'
    BY <1>0, <2>1, ThuTuBai DEF DangMo, Khung
  <2>3. QED
    BY <2>1, <2>2 DEF XepHet, BoKhiHet, HetCho
<1>3. CASE ~TimTiep
  <2>1. bai' = bai /\ lopCon' = lopCon /\ nut' \in {nut, nut + 1}
    <3>1. CASE GoiHet \/ GoiCat \/ GoiMon \/ LapXong \/ VeThu \/ VeBoQua \/ ThemKetQua \/ TimXong
      BY <3>1 DEF GoiHet, GoiCat, GoiMon, LapXong, VeThu, VeBoQua, ThemKetQua, TimXong, varsTim
    <3>2. ASSUME NEW l, LapTrung(l) \/ LapThu(l)
          PROVE  bai' = bai /\ lopCon' = lopCon /\ nut' \in {nut, nut + 1}
      BY <3>2 DEF LapTrung, LapThu, varsTim
    <3>3. QED
      BY <1>3, <3>1, <3>2 DEF NextXep
  <2>2. SUFFICES ASSUME nut' <= bai.gioiHan
                 PROVE  BoKhiHet' /\ \A f \in CachXep(bai, lopCon) : XepDu(bai, lopCon, f) => HetCho(f)'
    BY <2>1 DEF XepHet
  <2>3. nut <= bai.gioiHan
    BY <1>1, <2>1, <2>2
  <2>4. BoKhiHet /\ \A f \in CachXep(bai, lopCon) : XepDu(bai, lopCon, f) => HetCho(f)
    BY <2>3 DEF TimBatBien, XepHet
  <2>5. QED
    BY <1>0, <1>3, <2>3, <2>4, BoKhiHetBuoc, HetChoBuoc
<1>4. QED
  BY <1>2, <1>3

LEMMA TimBatBienLuon == SpecXep => []TimBatBien
<1>1. ASSUME InitXep PROVE MotTot /\ XepHet
  <2>1. KieuXep /\ LaBai(bai)
    BY <1>1, KieuXepDau, BaiLaBai
  <2>2. muc = 1 /\ buocXep = "goi" /\ best = [i \in DOMAIN bai.thuTu |-> {}]
    BY <1>1 DEF InitXep
  <2>3. \A j \in Khung(bai) : ~(j < 1) /\ ~DangMo(j)
    BY <2>1, <2>2, ThuTuBai DEF DangMo, Khung
  <2>4. \A j \in Khung(bai) : best[j] = {}
    BY <2>1, <2>2, ThuTuBai
  <2>5. QED
    BY <2>2, <2>3, <2>4 DEF MotTot, XepHet, BoKhiHet, HetCho
<1>2. ASSUME TimBatBien, NextXep PROVE MotTot' /\ XepHet'
  BY <1>2, MotTotBuoc, XepHetBuoc DEF TimBatBien, XepBatBien
<1>3. ASSUME TimBatBien, UNCHANGED varsXep PROVE MotTot' /\ XepHet'
  <2>1. bai' = bai /\ lopCon' = lopCon /\ nut' = nut /\ muc' = muc /\ conThu' = conThu /\ best' = best
        /\ dangThu' = dangThu /\ kq' = kq /\ buocXep' = buocXep
    BY <1>3 DEF varsXep, varsTim
  <2>2. ASSUME NEW f PROVE HetCho(f) => HetCho(f)'
    BY <2>1 DEF HetCho, DauKhop, DangMo, ConCho
  <2>3. QED
    BY <1>3, <2>1, <2>2 DEF TimBatBien, MotTot, XepHet, BoKhiHet
<1>4. QED
  BY <1>1, <1>2, <1>3, XepBatBienLuon, PTL DEF SpecXep, TimBatBien

\* A search that was not cut short leaves a subject out only when no timetable
\* of all subjects exists.
THEOREM XepDuNeuCo == SpecXep => []XepDuKhiCoThe
<1>1. ASSUME TimBatBien PROVE XepDuKhiCoThe
  <2> SUFFICES ASSUME buocXep = "ve", muc = 1, nut <= bai.gioiHan, kq.khong # <<>>,
                      NEW f \in CachXep(bai, lopCon), XepDu(bai, lopCon, f)
               PROVE  FALSE
    BY DEF XepDuKhiCoThe
  <2>1. HetCho(f)
    BY <1>1 DEF TimBatBien, XepHet
  <2>2. DauKhop(f, muc)
    <3>1. LaBai(bai)
      BY <1>1, BaiLaBai DEF TimBatBien, XepBatBien
    <3>2. \A j \in Khung(bai) : ~(j < 1)
      BY <3>1, ThuTuBai DEF Khung
    <3>3. QED
      BY <3>2 DEF DauKhop
  <2>3. QED
    BY <2>1, <2>2 DEF HetCho
<1>2. QED
  BY <1>1, TimBatBienLuon, PTL
=============================================================================
