------------------------ MODULE DangKyHocPhan_proofs ------------------------
(***************************************************************************)
(* What DangKyHocPhan guarantees for every school and every number of      *)
(* requests in flight; and, while no student has two requests in flight,   *)
(* that the checks of a request are still true when it writes, so that the *)
(* chains of queries amount to single entries in the book SoDangKy.        *)
(***************************************************************************)
EXTENDS DangKyHocPhan, FiniteSetTheorems, TLAPS

-----------------------------------------------------------------------------
(* The inductive invariant *)

BuocThem == BuocDangKy \cup BuocDoi

\* The steps of a request that has seen a free place in its class.
BuocConCho == {"dkLichSu", "dkLich", "dkGhi", "doiLich", "doiGhi"}

\* A request at step b with v in its locals has read what its next steps use.
ViecDung(b, v) ==
  /\ b # "nghi" => v.sv \in SinhVien
  /\ b \in BuocThem => v.lop \in Lop
  /\ b \in BuocHuy \cup BuocDoi => v.ma \in Ma
  /\ b \in BuocConCho => v.conCho

YeuCauDung == \A r \in YeuCau : ViecDung(buoc[r], viec[r])

\* The identity column is ahead of every row, and an id is left for each request
\* in flight that may insert one.
MaConMoi ==
  /\ \A m \in Ma : m >= maKe => dangKy[m] = Khong
  /\ maKe + Cardinality(DangThem) <= MaxMa + 1

\* What students' requests preserve whoever else changes classes and marks.
BatBienChung == TypeOK /\ YeuCauDung /\ MaConMoi /\ KhongMoCoi

\* Classes and rounds are not changed by students.
BangYen == lopHoc = LopDau /\ dots = DotDau

IInv == TypeOK /\ YeuCauDung /\ MaConMoi /\ BangYen /\ KhongMoCoi

\* The sets of steps.
LEMMA CacBuocLa ==
  /\ BuocThem \cup BuocHuy \cup {"nghi"} = CacBuoc
  /\ BuocConCho \subseteq BuocThem /\ BuocThem \cap BuocHuy = {}
BY DEF BuocThem, BuocHuy, BuocDoi, BuocDangKy, BuocConCho, CacBuoc

-----------------------------------------------------------------------------
(* Requests in flight *)

\* A request that may insert counts towards DangThem.
LEMMA DemThem ==
  ASSUME buoc \in [YeuCau -> CacBuoc], NEW r \in YeuCau, NEW b \in CacBuoc,
         buoc' = [buoc EXCEPT ![r] = b]
  PROVE  /\ Cardinality(DangThem) \in Nat
         /\ Cardinality(DangThem') \in Nat
         /\ Cardinality(DangThem') <= Cardinality(DangThem) + 1
         /\ b \notin BuocThem \/ buoc[r] \in BuocThem =>
              Cardinality(DangThem') <= Cardinality(DangThem)
         /\ buoc[r] \in BuocThem => Cardinality(DangThem) >= 1
         /\ b \notin BuocThem /\ buoc[r] \in BuocThem =>
              Cardinality(DangThem') = Cardinality(DangThem) - 1
<1>1. IsFiniteSet(DangThem) /\ Cardinality(DangThem) \in Nat
  <2>1. DangThem \in SUBSET YeuCau
    BY DEF DangThem
  <2>2. QED
    BY <2>1, HangSo, FS_Subset, FS_CardinalityType
<1>2. CASE b \in BuocThem
  <2>1. DangThem' = DangThem \cup {r}
    BY <1>2 DEF DangThem, BuocThem
  <2>2. buoc[r] \in BuocThem <=> r \in DangThem
    BY DEF DangThem, BuocThem
  <2>3. r \in DangThem => Cardinality(DangThem) >= 1
    BY <1>1, FS_EmptySet, FS_CardinalityType
  <2>4. Cardinality(DangThem') =
          IF r \in DangThem THEN Cardinality(DangThem) ELSE Cardinality(DangThem) + 1
    BY <1>1, <2>1, FS_AddElement
  <2>5. QED
    BY <1>1, <1>2, <2>2, <2>3, <2>4
<1>3. CASE b \notin BuocThem
  <2>1. DangThem' = DangThem \ {r}
    BY <1>3 DEF DangThem, BuocThem
  <2>2. buoc[r] \in BuocThem <=> r \in DangThem
    BY DEF DangThem, BuocThem
  <2>3. r \in DangThem => Cardinality(DangThem) >= 1
    BY <1>1, FS_EmptySet, FS_CardinalityType
  <2>4. Cardinality(DangThem') =
          IF r \in DangThem THEN Cardinality(DangThem) - 1 ELSE Cardinality(DangThem)
    BY <1>1, <2>1, FS_RemoveElement
  <2>5. QED
    BY <1>1, <1>3, <2>2, <2>3, <2>4
<1>4. QED
  BY <1>2, <1>3

\* What a request has read, and where it goes next, keep the invariant.
LEMMA DocGiu ==
  ASSUME BatBienChung, NEW r \in YeuCau, NEW b \in CacBuoc, NEW v \in CongViec, ViecDung(b, v),
         b \notin BuocThem \/ buoc[r] \in BuocThem \/ ConMa,
         buoc' = [buoc EXCEPT ![r] = b], viec' = [viec EXCEPT ![r] = v],
         UNCHANGED <<bang, gio>>
  PROVE  BatBienChung'
<1> USE DEF BatBienChung
<1>1. TypeOK'
  BY DEF TypeOK, bang
<1>2. YeuCauDung'
  BY DEF YeuCauDung, TypeOK
<1>4. maKe' + Cardinality(DangThem') <= MaxMa + 1
  <2>1. maKe' = maKe /\ maKe \in Nat
    BY DEF TypeOK, bang
  <2>2. /\ Cardinality(DangThem) \in Nat /\ Cardinality(DangThem') \in Nat
        /\ Cardinality(DangThem') <= Cardinality(DangThem) + 1
        /\ b \notin BuocThem \/ buoc[r] \in BuocThem =>
             Cardinality(DangThem') <= Cardinality(DangThem)
    BY DemThem DEF TypeOK
  <2>3. QED
    BY <2>1, <2>2, HangSo DEF MaConMoi, ConMa
<1>5. QED
  BY <1>1, <1>2, <1>4 DEF MaConMoi, KhongMoCoi, bang

LEMMA TiepGiu ==
  ASSUME BatBienChung, NEW r \in YeuCau, NEW b \in CacBuoc, ViecDung(b, viec[r]),
         b \notin BuocThem \/ buoc[r] \in BuocThem,
         Tiep(r, b), UNCHANGED <<bang, gio>>
  PROVE  BatBienChung'
<1>1. viec[r] \in CongViec
  BY DEF BatBienChung, TypeOK
<1>2. viec' = [viec EXCEPT ![r] = viec[r]]
  BY DEF BatBienChung, TypeOK, Tiep
<1>3. QED
  BY <1>1, <1>2, DocGiu DEF Tiep

LEMMA KhongViecDung ==
  /\ KhongViec \in CongViec /\ "nghi" \in CacBuoc /\ "nghi" \notin BuocThem
  /\ ViecDung("nghi", KhongViec)
BY HangSo DEF KhongViec, CongViec, CacBuoc, ViecDung, BuocThem, BuocHuy, BuocDoi, BuocDangKy, BuocConCho

LEMMA TraLoiGiu ==
  ASSUME BatBienChung, NEW r \in YeuCau, TraLoi(r), UNCHANGED <<bang, gio>>
  PROVE  BatBienChung'
BY KhongViecDung, DocGiu DEF TraLoi

-----------------------------------------------------------------------------
(* Type correctness *)

LEMMA BatDauGiu ==
  ASSUME BatBienChung, NEW r \in YeuCau, BatDau(r)
  PROVE  BatBienChung'
<1>0. MaxGio \in Nat
  BY HangSo
<1>1. PICK sv \in SinhVien :
        \/ \E l \in Lop : DocLop(r, sv, l)
        \/ \E m \in Ma : DocDangKyHuy(r, sv, m)
        \/ \E m \in Ma, l \in Lop : DocDangKyCu(r, sv, m, l)
  BY DEF BatDau
<1>2. ASSUME NEW l \in Lop, DocLop(r, sv, l) PROVE BatBienChung'
  <2> DEFINE v == [KhongViec EXCEPT !.sv = sv, !.lop = l, !.mon = lopHoc[l].mon,
                         !.ky = lopHoc[l].ky, !.lich = lopHoc[l].lich,
                         !.conCho = SiSo(l) < lopHoc[l].siSo, !.luc = gio]
  <2>1. lopHoc[l] \in DongLop /\ gio \in 0..MaxGio
    BY <1>2 DEF DocLop, BatBienChung, TypeOK
  <2>2. v \in CongViec
    <3> DEFINE c == SiSo(l) < lopHoc[l].siSo
    <3>1. c \in BOOLEAN
      OBVIOUS
    <3> HIDE DEF c
    <3>2. [KhongViec EXCEPT !.sv = sv, !.lop = l, !.mon = lopHoc[l].mon,
                         !.ky = lopHoc[l].ky, !.lich = lopHoc[l].lich,
                         !.conCho = c, !.luc = gio] \in CongViec
      BY <2>1, <3>1 DEF KhongViec, CongViec, DongLop
    <3>3. QED
      BY <3>2 DEF c
  <2>3. ViecDung("dkDot", v)
    BY DEF ViecDung, KhongViec, BuocThem, BuocDangKy, BuocHuy, BuocDoi, BuocConCho
  <2>4. "dkDot" \in CacBuoc
    BY DEF CacBuoc
  <2> HIDE DEF v
  <2>5. QED
    BY <1>2, <2>2, <2>3, <2>4, DocGiu DEF DocLop, v
<1>3. ASSUME NEW m \in Ma, DocDangKyHuy(r, sv, m) PROVE BatBienChung'
  <2> DEFINE v == [KhongViec EXCEPT !.sv = sv, !.ma = m, !.ky = LopCua(m).ky,
                         !.coDiem = diem[m] # Khong, !.luc = gio]
  <2>1. LopCua(m) \in DongLop /\ gio \in 0..MaxGio
    BY <1>3 DEF DocDangKyHuy, BatBienChung, TypeOK, CuaToi, LopCua, KhongMoCoi, DongDangKy
  <2>2. v \in CongViec
    BY <2>1 DEF KhongViec, CongViec, DongLop
  <2>3. ViecDung("huyDot", v)
    BY DEF ViecDung, KhongViec, BuocThem, BuocDangKy, BuocHuy, BuocDoi, BuocConCho
  <2>4. "huyDot" \in CacBuoc /\ "huyDot" \notin BuocThem
    BY DEF CacBuoc, BuocThem, BuocDangKy, BuocDoi
  <2> HIDE DEF v
  <2>5. QED
    BY <1>3, <2>2, <2>3, <2>4, DocGiu DEF DocDangKyHuy, v
<1>4. ASSUME NEW m \in Ma, NEW l \in Lop, DocDangKyCu(r, sv, m, l) PROVE BatBienChung'
  <2> DEFINE v == [KhongViec EXCEPT !.sv = sv, !.ma = m, !.cu = dangKy[m].lop, !.lop = l,
                         !.mon = LopCua(m).mon, !.ky = LopCua(m).ky,
                         !.coDiem = diem[m] # Khong]
  <2>1. LopCua(m) \in DongLop /\ dangKy[m].lop \in Lop
    BY <1>4 DEF DocDangKyCu, BatBienChung, TypeOK, CuaToi, LopCua, KhongMoCoi, DongDangKy
  <2>2. v \in CongViec
    <3> DEFINE k == LopCua(m)  cu == dangKy[m].lop  c == diem[m] # Khong
    <3>1. k.mon \in Mon /\ k.ky \in Ky /\ cu \in Lop /\ c \in BOOLEAN
      BY <2>1 DEF DongLop
    <3> HIDE DEF k, cu, c
    <3>2. [KhongViec EXCEPT !.sv = sv, !.ma = m, !.cu = cu, !.lop = l,
                         !.mon = k.mon, !.ky = k.ky, !.coDiem = c] \in CongViec
      BY <3>1, KhongViecDung DEF CongViec
    <3>3. QED
      BY <3>2 DEF k, cu, c
  <2>3. ViecDung("doiLop", v)
    BY DEF ViecDung, KhongViec, BuocThem, BuocDangKy, BuocHuy, BuocDoi, BuocConCho
  <2>4. "doiLop" \in CacBuoc
    BY DEF CacBuoc
  <2> HIDE DEF v
  <2>5. QED
    BY <1>4, <2>2, <2>3, <2>4, DocGiu DEF DocDangKyCu, v
<1>5. QED
  BY <1>1, <1>2, <1>3, <1>4

\* One query, answered either way.
LEMMA HoiGiu ==
  ASSUME BatBienChung, NEW r \in YeuCau, NEW b \in CacBuoc, Tiep(r, b) \/ TraLoi(r),
         Tiep(r, b) => ViecDung(b, viec[r]) /\ (b \notin BuocThem \/ buoc[r] \in BuocThem),
         UNCHANGED <<bang, gio>>
  PROVE  BatBienChung'
BY TiepGiu, TraLoiGiu

\* A commit that deletes rows of dangKy together with their marks.
LEMMA XoaGiu ==
  ASSUME BatBienChung, NEW r \in YeuCau, TraLoi(r),
         NEW D \in [Ma -> DongDangKy \cup {Khong}], NEW G \in [Ma -> DongDiem \cup {Khong}],
         \A m \in Ma : D[m] = dangKy[m] \/ D[m] = Khong,
         \A m \in Ma : G[m] # Khong => D[m] # Khong,
         dangKy' = D, diem' = G, UNCHANGED <<lopHoc, dots, gio, maKe>>
  PROVE  BatBienChung'
<1> USE DEF BatBienChung
<1>1. TypeOK' /\ YeuCauDung'
  BY KhongViecDung DEF TypeOK, YeuCauDung, TraLoi
<1>2. KhongMoCoi'
  BY DEF KhongMoCoi
<1>3. MaConMoi'
  <2>1. Cardinality(DangThem') <= Cardinality(DangThem)
        /\ Cardinality(DangThem) \in Nat /\ Cardinality(DangThem') \in Nat
    BY DemThem, KhongViecDung DEF TypeOK, TraLoi
  <2>2. QED
    BY <2>1, HangSo DEF MaConMoi, TypeOK
<1>4. QED
  BY <1>1, <1>2, <1>3

\* A commit that inserts a row after such deletions, which have left D and G.
ChenSauXoa(r, D, G) ==
  /\ buoc[r] \in BuocThem /\ TraLoi(r) /\ lopHoc[viec[r].lop] # Khong
  /\ D \in [Ma -> DongDangKy \cup {Khong}] /\ G \in [Ma -> DongDiem \cup {Khong}]
  /\ \A m \in Ma : D[m] = dangKy[m] \/ D[m] = Khong
  /\ \A m \in Ma : G[m] # Khong => D[m] # Khong
  /\ dangKy' = [D EXCEPT ![maKe] = [sv |-> viec[r].sv, lop |-> viec[r].lop]]
  /\ maKe' = maKe + 1 /\ diem' = G /\ UNCHANGED <<lopHoc, dots, gio>>

LEMMA ChenGiu ==
  ASSUME BatBienChung, NEW r \in YeuCau, NEW D, NEW G, ChenSauXoa(r, D, G)
  PROVE  BatBienChung' /\ maKe \in Ma
<1>0. /\ buoc[r] \in BuocThem /\ TraLoi(r) /\ lopHoc[viec[r].lop] # Khong
      /\ D \in [Ma -> DongDangKy \cup {Khong}] /\ G \in [Ma -> DongDiem \cup {Khong}]
      /\ \A m \in Ma : D[m] = dangKy[m] \/ D[m] = Khong
      /\ \A m \in Ma : G[m] # Khong => D[m] # Khong
      /\ dangKy' = [D EXCEPT ![maKe] = [sv |-> viec[r].sv, lop |-> viec[r].lop]]
      /\ maKe' = maKe + 1 /\ diem' = G /\ UNCHANGED <<lopHoc, dots, gio>>
  BY DEF ChenSauXoa
<1> DEFINE moi == [sv |-> viec[r].sv, lop |-> viec[r].lop]
<1>1. moi \in DongDangKy /\ moi # Khong /\ moi.lop = viec[r].lop
  <2>1. viec[r].sv \in SinhVien /\ viec[r].lop \in Lop
    BY <1>0 DEF BatBienChung, YeuCauDung, ViecDung, BuocThem, BuocDangKy, BuocDoi
  <2>2. moi \in DongDangKy
    BY <2>1 DEF DongDangKy
  <2>3. QED
    BY <2>2, HangSo
<1> HIDE DEF moi
<1>2. /\ maKe \in Ma /\ maKe + 1 \in 1..(MaxMa + 1)
      /\ maKe + 1 + Cardinality(DangThem') <= MaxMa + 1
  <2>1. /\ Cardinality(DangThem) \in Nat /\ Cardinality(DangThem') \in Nat
        /\ Cardinality(DangThem) >= 1
        /\ Cardinality(DangThem') = Cardinality(DangThem) - 1
    BY <1>0, DemThem, KhongViecDung DEF BatBienChung, TypeOK, TraLoi
  <2>2. QED
    BY <1>0, <2>1, HangSo DEF BatBienChung, MaConMoi, TypeOK, Ma
<1>3. TypeOK'
  BY <1>0, <1>1, <1>2, KhongViecDung DEF BatBienChung, TypeOK, TraLoi, moi
<1>4. YeuCauDung'
  BY <1>0, KhongViecDung DEF BatBienChung, TypeOK, YeuCauDung, TraLoi
<1>6. KhongMoCoi'
  BY <1>0, <1>1, <1>2 DEF BatBienChung, KhongMoCoi, moi
<1>7. MaConMoi'
  <2>1. \A m \in Ma : m >= maKe + 1 => dangKy[m] = Khong /\ m # maKe
    BY <1>0, <1>2 DEF BatBienChung, MaConMoi, Ma
  <2>2. QED
    BY <1>0, <1>2, <2>1 DEF MaConMoi
<1>8. QED
  BY <1>2, <1>3, <1>4, <1>6, <1>7 DEF BatBienChung

\* Steps with one query only.
LEMMA DocTiepGiu ==
  ASSUME BatBienChung, NEW r \in YeuCau,
         \/ DocDot(r) \/ DocMon(r) \/ DocLichSu(r) \/ DocLich(r)
         \/ DocDotHuy(r) \/ DocDotDoi(r) \/ DocLichDoi(r)
  PROVE  BatBienChung'
<1> USE DEF ViecDung, BuocThem, BuocDangKy, BuocHuy, BuocDoi, BuocConCho, CacBuoc, Hoi
<1>0. ViecDung(buoc[r], viec[r])
  BY DEF BatBienChung, YeuCauDung
<1>1. CASE DocDot(r)
  BY <1>0, <1>1, HoiGiu DEF DocDot
<1>2. CASE DocMon(r)
  BY <1>0, <1>2, HoiGiu DEF DocMon
<1>3. CASE DocLichSu(r)
  BY <1>0, <1>3, HoiGiu DEF DocLichSu
<1>4. CASE DocLich(r)
  BY <1>0, <1>4, HoiGiu DEF DocLich
<1>5. CASE DocDotHuy(r)
  BY <1>0, <1>5, HoiGiu DEF DocDotHuy
<1>6. CASE DocDotDoi(r)
  BY <1>0, <1>6, HoiGiu DEF DocDotDoi
<1>7. CASE DocLichDoi(r)
  BY <1>0, <1>7, HoiGiu DEF DocLichDoi
<1>8. QED
  BY <1>1, <1>2, <1>3, <1>4, <1>5, <1>6, <1>7

LEMMA DocLopMoiGiu ==
  ASSUME BatBienChung, NEW r \in YeuCau, DocLopMoi(r)
  PROVE  BatBienChung'
<1>1. CASE TraLoi(r)
  BY <1>1, TraLoiGiu DEF DocLopMoi
<1>2. CASE ~TraLoi(r)
  <2> DEFINE v == viec[r]
             c == SiSo(v.lop) < lopHoc[v.lop].siSo
             w == [v EXCEPT !.lich = lopHoc[v.lop].lich, !.conCho = c, !.luc = gio]
  <2>1. /\ buoc[r] = "doiLop" /\ DoiHopLe(v) /\ UNCHANGED <<bang, gio>>
        /\ buoc' = [buoc EXCEPT ![r] = "doiDot"] /\ viec' = [viec EXCEPT ![r] = w]
    BY <1>2 DEF DocLopMoi
  <2>2. v \in CongViec /\ ViecDung("doiLop", v)
    BY <2>1 DEF BatBienChung, TypeOK, YeuCauDung
  <2>3. v.lop \in Lop /\ lopHoc[v.lop] \in DongLop /\ gio \in 0..MaxGio
    BY <2>1, <2>2 DEF BatBienChung, TypeOK, ViecDung, DoiHopLe, BuocThem, BuocDoi
  <2>4. c \in BOOLEAN /\ lopHoc[v.lop].lich \in SUBSET BuoiHoc
    BY <2>3 DEF DongLop
  <2>5. w \in CongViec /\ w.sv = v.sv /\ w.lop = v.lop /\ w.ma = v.ma
    <3> HIDE DEF c, v
    <3>1. QED
      BY <2>2, <2>3, <2>4 DEF CongViec
  <2>6. ViecDung("doiDot", w)
    <3> HIDE DEF v, w
    <3>1. QED
      BY <2>2, <2>5 DEF ViecDung, BuocThem, BuocDangKy, BuocHuy, BuocDoi, BuocConCho
  <2>7. "doiDot" \in CacBuoc /\ buoc[r] \in BuocThem
    BY <2>1 DEF CacBuoc, BuocThem, BuocDoi
  <2> HIDE DEF w
  <2>8. QED
    BY <2>1, <2>5, <2>6, <2>7, DocGiu
<1>3. QED
  BY <1>1, <1>2

LEMMA GhiGiu ==
  ASSUME BatBienChung, NEW r \in YeuCau,
         \/ GhiDangKy(r) \/ GhiDangKyLoi(r) \/ GhiHuy(r) \/ GhiHuyLoi(r)
         \/ GhiDoi(r) \/ GhiDoiLoi(r)
  PROVE  BatBienChung'
<1> DEFINE D == [dangKy EXCEPT ![viec[r].ma] = Khong]
           G == [diem EXCEPT ![viec[r].ma] = Khong]
<1>1. CASE GhiDangKyLoi(r) \/ GhiHuyLoi(r) \/ GhiDoiLoi(r)
  BY <1>1, TraLoiGiu DEF GhiDangKyLoi, GhiHuyLoi, GhiDoiLoi
<1>2. CASE GhiDangKy(r)
  <2>1. /\ dangKy \in [Ma -> DongDangKy \cup {Khong}] /\ diem \in [Ma -> DongDiem \cup {Khong}]
        /\ \A m \in Ma : diem[m] # Khong => dangKy[m] # Khong
    BY DEF BatBienChung, TypeOK, KhongMoCoi
  <2>2. buoc[r] \in BuocThem /\ lopHoc[viec[r].lop] # Khong
    BY <1>2 DEF GhiDangKy, BuocThem, BuocDangKy, ChenDuoc
  <2>3. QED
    <3>1. ChenSauXoa(r, dangKy, diem)
      BY <1>2, <2>1, <2>2 DEF GhiDangKy, ChenSauXoa
    <3>2. QED
      BY <3>1, ChenGiu
<1>3. ASSUME GhiHuy(r) \/ GhiDoi(r)
      PROVE  /\ D \in [Ma -> DongDangKy \cup {Khong}] /\ G \in [Ma -> DongDiem \cup {Khong}]
             /\ \A m \in Ma : D[m] = dangKy[m] \/ D[m] = Khong
             /\ \A m \in Ma : G[m] # Khong => D[m] # Khong
  BY DEF BatBienChung, TypeOK, KhongMoCoi
<1>4. CASE GhiHuy(r)
  BY <1>3, <1>4, XoaGiu DEF GhiHuy
<1>5. CASE GhiDoi(r)
  <2>1. buoc[r] \in BuocThem /\ lopHoc[viec[r].lop] # Khong
    BY <1>5 DEF GhiDoi, BuocThem, BuocDoi, DoiDuoc, ChenDuoc
  <2>2. dangKy' = [D EXCEPT ![maKe] = [sv |-> viec[r].sv, lop |-> viec[r].lop]]
    BY <1>5 DEF GhiDoi
  <2> HIDE DEF D, G
  <2>3. diem' = G /\ maKe' = maKe + 1 /\ TraLoi(r) /\ UNCHANGED <<lopHoc, dots, gio>>
    BY <1>5 DEF GhiDoi, G
  <2>4. ChenSauXoa(r, D, G)
    BY <1>3, <1>5, <2>1, <2>2, <2>3 DEF ChenSauXoa
  <2>5. QED
    BY <2>4, ChenGiu
<1>6. QED
  BY <1>1, <1>2, <1>4, <1>5

LEMMA BuocGiu ==
  ASSUME BatBienChung, NEW r \in YeuCau, BatDau(r) \/ BuocCuaYeuCau(r)
  PROVE  BatBienChung'
BY BatDauGiu, DocTiepGiu, DocLopMoiGiu, GhiGiu DEF BuocCuaYeuCau

LEMMA KhoiDau == Init => IInv
<1> SUFFICES ASSUME Init PROVE IInv
  OBVIOUS
<1> USE DEF Init
<1>1. PICK n \in 0..MaxMa : {m \in Ma : DangKyDau[m] # Khong} = 1..n
  BY BangDau
<1>2. Cardinality(1..n) = n /\ n \in Nat /\ maKe = 1 + n
  <2>1. n \in Nat
    BY HangSo
  <2>2. Cardinality(1..n) = IF 1 > n THEN 0 ELSE n - 1 + 1
    BY <2>1, FS_Interval
  <2>3. maKe = 1 + Cardinality(1..n)
    BY <1>1
  <2>4. QED
    BY <2>1, <2>2, <2>3
<1>3. TypeOK
  <2>1. /\ lopHoc \in [Lop -> DongLop \cup {Khong}]
        /\ dangKy \in [Ma -> DongDangKy \cup {Khong}]
        /\ diem \in [Ma -> DongDiem \cup {Khong}]
    BY BangDau
  <2>2. gio \in 0..MaxGio /\ maKe \in 1..(MaxMa + 1)
    BY <1>2, HangSo
  <2>3. buoc \in [YeuCau -> CacBuoc] /\ viec \in [YeuCau -> CongViec]
    BY KhongViecDung
  <2>4. QED
    BY <2>1, <2>2, <2>3 DEF TypeOK
<1>4. YeuCauDung
  BY KhongViecDung DEF YeuCauDung
<1>5. MaConMoi
  <2>1. DangThem = {}
    BY DEF DangThem, BuocDangKy, BuocDoi
  <2>2. Cardinality(DangThem) = 0
    BY <2>1, FS_EmptySet
  <2>3. \A m \in Ma : m >= maKe => m \notin 1..n
    BY <1>2 DEF Ma
  <2>4. QED
    BY <1>1, <1>2, <2>2, <2>3, HangSo DEF MaConMoi
<1>6. BangYen /\ KhongMoCoi
  BY BangDau DEF BangYen, KhongMoCoi
<1>7. QED
  BY <1>3, <1>4, <1>5, <1>6 DEF IInv

LEMMA BuocChungGiu == BatBienChung /\ [Next]_vars => BatBienChung'
<1> SUFFICES ASSUME BatBienChung, [Next]_vars PROVE BatBienChung'
  OBVIOUS
<1>1. CASE \E r \in YeuCau : BatDau(r) \/ BuocCuaYeuCau(r)
  BY <1>1, BuocGiu
<1>2. CASE TroiGio \/ UNCHANGED vars
  <2>1. UNCHANGED <<bang, buoc, viec>> /\ gio' \in 0..MaxGio
    BY <1>2, HangSo DEF TroiGio, vars, bang, BatBienChung, TypeOK
  <2>2. DangThem' = DangThem
    BY <2>1 DEF DangThem
  <2>3. QED
    BY <2>1, <2>2 DEF BatBienChung, TypeOK, YeuCauDung, ViecDung, MaConMoi, KhongMoCoi, bang
<1>3. QED
  BY <1>1, <1>2 DEF Next

\* Students change neither classes nor rounds.
LEMMA LopYen == [Next]_vars => UNCHANGED <<lopHoc, dots>>
<1> SUFFICES ASSUME [Next]_vars PROVE UNCHANGED <<lopHoc, dots>>
  OBVIOUS
<1>1. ASSUME NEW r \in YeuCau, BatDau(r) PROVE UNCHANGED <<lopHoc, dots>>
  BY <1>1 DEF BatDau, DocLop, DocDangKyHuy, DocDangKyCu, bang
<1>2. ASSUME NEW r \in YeuCau, BuocCuaYeuCau(r) PROVE UNCHANGED <<lopHoc, dots>>
  <2>1. CASE DocDot(r) \/ DocMon(r) \/ DocLichSu(r) \/ DocLich(r) \/ DocDotHuy(r)
    BY <2>1 DEF DocDot, DocMon, DocLichSu, DocLich, DocDotHuy, bang
  <2>2. CASE DocLopMoi(r) \/ DocDotDoi(r) \/ DocLichDoi(r)
    BY <2>2 DEF DocLopMoi, DocDotDoi, DocLichDoi, bang
  <2>3. CASE GhiDangKy(r) \/ GhiHuy(r) \/ GhiDoi(r)
    BY <2>3 DEF GhiDangKy, GhiHuy, GhiDoi
  <2>4. CASE GhiDangKyLoi(r) \/ GhiHuyLoi(r) \/ GhiDoiLoi(r)
    BY <2>4 DEF GhiDangKyLoi, GhiHuyLoi, GhiDoiLoi, bang
  <2>5. QED
    BY <1>2, <2>1, <2>2, <2>3, <2>4 DEF BuocCuaYeuCau
<1>3. CASE TroiGio \/ UNCHANGED vars
  BY <1>3 DEF TroiGio, vars, bang
<1>4. QED
  BY <1>1, <1>2, <1>3 DEF Next

LEMMA MoiBuocGiu == IInv /\ [Next]_vars => IInv'
BY BuocChungGiu, LopYen DEF IInv, BatBienChung, BangYen

\* The invariant holds throughout.
LEMMA BatBien == Spec => []IInv
BY KhoiDau, MoiBuocGiu, PTL DEF Spec

\* Rows and requests keep the shapes that the code gives them.
THEOREM KieuDung == Spec => []TypeOK
<1>1. IInv => TypeOK
  BY DEF IInv
<1>2. QED
  BY <1>1, BatBien, PTL

\* No mark without its registration, no registration without its class.
THEOREM KhongBaoGioMoCoi == Spec => []KhongMoCoi
<1>1. IInv => KhongMoCoi
  BY DEF IInv
<1>2. QED
  BY <1>1, BatBien, PTL

-----------------------------------------------------------------------------
(* What commits do to the registrations *)

\* Rows only go.
ChiXoa == \A m \in Ma : dangKy'[m] = dangKy[m] \/ dangKy'[m] = Khong

\* Request r inserts the row it was about, and otherwise rows only go.
Chen(r) ==
  /\ buoc[r] \in {"dkGhi", "doiGhi"} /\ TraLoi(r)
  /\ ChenDuoc(viec[r].sv, viec[r].lop)
  /\ maKe \in Ma /\ dangKy'[maKe] = [sv |-> viec[r].sv, lop |-> viec[r].lop]
  /\ \A m \in Ma \ {maKe} : dangKy'[m] = dangKy[m] \/ dangKy'[m] = Khong
  /\ UNCHANGED <<lopHoc, dots, gio>>

\* Only the commits of DangKy and DoiLop insert.
LEMMA GhiLaChen ==
  ASSUME IInv, NEW r \in YeuCau, GhiDangKy(r) \/ GhiDoi(r)
  PROVE  Chen(r)
<1>1. maKe \in Ma
  <2>1. buoc[r] \in BuocThem /\ TraLoi(r)
    BY DEF GhiDangKy, GhiDoi, BuocThem, BuocDangKy, BuocDoi
  <2>2. Cardinality(DangThem) \in Nat /\ Cardinality(DangThem) >= 1
    BY <2>1, DemThem, KhongViecDung DEF IInv, TypeOK, TraLoi
  <2>3. QED
    BY <2>2, HangSo DEF IInv, MaConMoi, TypeOK, Ma
<1>2. dangKy \in [Ma -> DongDangKy \cup {Khong}]
  BY DEF IInv, TypeOK
<1>3. CASE GhiDangKy(r)
  BY <1>1, <1>2, <1>3 DEF GhiDangKy, Chen
<1>4. CASE GhiDoi(r)
  BY <1>1, <1>2, <1>4 DEF GhiDoi, Chen, DoiDuoc
<1>5. QED
  BY <1>3, <1>4

\* The other steps of a request leave its place or give it up.
LEMMA KhongGhiLaChiXoa ==
  ASSUME IInv, NEW r \in YeuCau, BatDau(r) \/ BuocCuaYeuCau(r),
         ~GhiDangKy(r), ~GhiDoi(r)
  PROVE  ChiXoa
<1>1. CASE GhiHuy(r)
  BY <1>1 DEF GhiHuy, ChiXoa, IInv, TypeOK
<1>2. CASE ~GhiHuy(r)
  <2>1. dangKy' = dangKy
    BY <1>2 DEF BatDau, DocLop, DocDangKyHuy, DocDangKyCu, BuocCuaYeuCau, DocDot, DocMon,
         DocLichSu, DocLich, GhiDangKyLoi, DocDotHuy, GhiHuyLoi, DocLopMoi, DocDotDoi,
         DocLichDoi, GhiDoiLoi, bang
  <2>2. QED
    BY <2>1 DEF ChiXoa
<1>3. QED
  BY <1>1, <1>2

LEMMA DoiBang ==
  ASSUME IInv, [Next]_vars
  PROVE  ChiXoa \/ \E r \in YeuCau : Chen(r)
<1>1. CASE \E r \in YeuCau : BatDau(r) \/ BuocCuaYeuCau(r)
  BY <1>1, GhiLaChen, KhongGhiLaChiXoa
<1>2. CASE TroiGio \/ UNCHANGED vars
  BY <1>2 DEF TroiGio, vars, bang, ChiXoa
<1>3. QED
  BY <1>1, <1>2 DEF Next

-----------------------------------------------------------------------------
(* One row per student and class *)

\* Whatever was read before, the unique index keeps a student from being twice
\* in a class.
THEOREM KhongBaoGioTrung == Spec => []KhongDangKyTrung
<1>1. Init => KhongDangKyTrung
  BY BangDau DEF Init, KhongDangKyTrung
<1>2. IInv /\ KhongDangKyTrung /\ [Next]_vars => KhongDangKyTrung'
  <2> SUFFICES ASSUME IInv, KhongDangKyTrung, [Next]_vars PROVE KhongDangKyTrung'
    OBVIOUS
  <2>1. CASE ChiXoa
    BY <2>1 DEF ChiXoa, KhongDangKyTrung
  <2>2. ASSUME NEW r \in YeuCau, Chen(r) PROVE KhongDangKyTrung'
    <3> DEFINE moi == [sv |-> viec[r].sv, lop |-> viec[r].lop]
    <3>1. \A m \in Ma : dangKy[m] # Khong => dangKy[m] # moi
      BY <2>2 DEF Chen, ChenDuoc, TrongLop
    <3> HIDE DEF moi
    <3>2. dangKy'[maKe] = moi /\ \A m \in Ma \ {maKe} : dangKy'[m] = dangKy[m] \/ dangKy'[m] = Khong
      BY <2>2 DEF Chen, moi
    <3>3. QED
      BY <3>1, <3>2 DEF KhongDangKyTrung
  <2>3. QED
    BY <2>1, <2>2, DoiBang
<1>3. QED
  BY <1>1, <1>2, BatBien, PTL DEF Spec

-----------------------------------------------------------------------------
(* Overbooking is bounded by the requests in flight *)

\* The requests that have read a free place in class l.
GiuCho(l) == {r \in YeuCau : viec[r].conCho /\ viec[r].lop = l}

\* Every request that was promised a place is counted beside those who have one.
DemCho ==
  \A l \in Lop : lopHoc[l] # Khong =>
    SiSo(l) + Cardinality(GiuCho(l)) <= lopHoc[l].siSo + Cardinality(YeuCau) - 1

LEMMA HuuHan ==
  /\ Cardinality(YeuCau) \in Nat /\ Cardinality(YeuCau) >= 1
  /\ \A S \in SUBSET YeuCau :
       IsFiniteSet(S) /\ Cardinality(S) \in Nat /\ Cardinality(S) <= Cardinality(YeuCau)
  /\ \A S \in SUBSET Ma : IsFiniteSet(S) /\ Cardinality(S) \in Nat
<1>1. IsFiniteSet(Ma)
  BY HangSo, FS_Interval DEF Ma
<1>2. Cardinality(YeuCau) # 0
  BY HangSo, FS_EmptySet
<1>3. QED
  BY <1>1, <1>2, HangSo, FS_Subset, FS_CardinalityType

LEMMA ItDi ==
  ASSUME NEW S, NEW T, IsFiniteSet(S), T \subseteq S
  PROVE  Cardinality(T) <= Cardinality(S) /\ Cardinality(T) \in Nat /\ Cardinality(S) \in Nat
BY FS_Subset, FS_CardinalityType

\* The count of class l does not grow when nobody enters and nobody is promised.
LEMMA KhongTang ==
  ASSUME NEW l \in Lop, TrongLop(l)' \subseteq TrongLop(l), GiuCho(l)' \subseteq GiuCho(l)
  PROVE  SiSo(l)' + Cardinality(GiuCho(l)') <= SiSo(l) + Cardinality(GiuCho(l))
<1>1. TrongLop(l) \in SUBSET Ma /\ GiuCho(l) \in SUBSET YeuCau
  BY DEF TrongLop, GiuCho
<1>2. IsFiniteSet(TrongLop(l)) /\ IsFiniteSet(GiuCho(l))
  BY <1>1, HuuHan
<1>3. Cardinality(TrongLop(l)') <= Cardinality(TrongLop(l))
      /\ Cardinality(TrongLop(l)') \in Nat /\ Cardinality(TrongLop(l)) \in Nat
  BY <1>2, ItDi
<1>4. Cardinality(GiuCho(l)') <= Cardinality(GiuCho(l))
      /\ Cardinality(GiuCho(l)') \in Nat /\ Cardinality(GiuCho(l)) \in Nat
  BY <1>2, ItDi
<1>5. QED
  BY <1>3, <1>4 DEF SiSo

\* A request reads class k and keeps what it read, or promises nobody anything.
LEMMA DocCho ==
  ASSUME IInv, DemCho, NEW r \in YeuCau, UNCHANGED <<dangKy, lopHoc>>,
         NEW v \in CongViec, viec' = [viec EXCEPT ![r] = v],
         v.conCho => v.lop \in Lop /\ SiSo(v.lop) < lopHoc[v.lop].siSo
  PROVE  DemCho'
<1> SUFFICES ASSUME NEW l \in Lop, lopHoc[l] # Khong
             PROVE  SiSo(l)' + Cardinality(GiuCho(l)')
                      <= lopHoc[l].siSo + Cardinality(YeuCau) - 1
  BY DEF DemCho
<1>1. /\ TrongLop(l)' = TrongLop(l) /\ SiSo(l)' = SiSo(l) /\ SiSo(l) \in Nat
      /\ lopHoc[l].siSo \in Nat
  <2>1. TrongLop(l) \in SUBSET Ma
    BY DEF TrongLop
  <2>2. QED
    BY <2>1, HuuHan DEF TrongLop, SiSo, IInv, TypeOK, DongLop
<1>2. /\ Cardinality(GiuCho(l)') \in Nat /\ Cardinality(GiuCho(l)) \in Nat
      /\ Cardinality(GiuCho(l)') <= Cardinality(YeuCau) /\ Cardinality(YeuCau) \in Nat
  <2>1. GiuCho(l)' \in SUBSET YeuCau /\ GiuCho(l) \in SUBSET YeuCau
    BY DEF GiuCho
  <2>2. QED
    BY <2>1, HuuHan
<1>3. CASE v.conCho /\ v.lop = l
  BY <1>1, <1>2, <1>3
<1>4. CASE ~(v.conCho /\ v.lop = l)
  <2>1. GiuCho(l)' \subseteq GiuCho(l)
    BY <1>4 DEF GiuCho, IInv, TypeOK
  <2>2. SiSo(l)' + Cardinality(GiuCho(l)') <= SiSo(l) + Cardinality(GiuCho(l))
    BY <1>1, <2>1, KhongTang
  <2>3. QED
    BY <1>1, <1>2, <2>2 DEF DemCho
<1>5. QED
  BY <1>3, <1>4

\* Steps that promise nobody anything and let nobody in.
LEMMA ThoiCho ==
  ASSUME IInv, DemCho, NEW r \in YeuCau, Tiep(r, buoc'[r]) \/ TraLoi(r), ChiXoa,
         UNCHANGED lopHoc
  PROVE  DemCho'
<1> SUFFICES ASSUME NEW l \in Lop, lopHoc[l] # Khong
             PROVE  SiSo(l)' + Cardinality(GiuCho(l)')
                      <= lopHoc[l].siSo + Cardinality(YeuCau) - 1
  BY DEF DemCho
<1>1. TrongLop(l)' \subseteq TrongLop(l)
  BY DEF ChiXoa, TrongLop
<1>2. GiuCho(l)' \subseteq GiuCho(l)
  BY DEF GiuCho, Tiep, TraLoi, KhongViec, IInv, TypeOK
<1>3. /\ SiSo(l) \in Nat /\ SiSo(l)' \in Nat /\ lopHoc[l].siSo \in Nat
      /\ Cardinality(GiuCho(l)') \in Nat /\ Cardinality(GiuCho(l)) \in Nat
      /\ Cardinality(YeuCau) \in Nat
  <2>1. /\ GiuCho(l)' \in SUBSET YeuCau /\ GiuCho(l) \in SUBSET YeuCau
        /\ TrongLop(l) \in SUBSET Ma /\ TrongLop(l)' \in SUBSET Ma
    BY DEF GiuCho, TrongLop
  <2>2. QED
    BY <2>1, HuuHan DEF SiSo, IInv, TypeOK, DongLop
<1>4. QED
  BY <1>1, <1>2, <1>3, KhongTang DEF DemCho

\* The request that enters turns its promise into a place.
LEMMA ChenCho ==
  ASSUME IInv, DemCho, NEW r \in YeuCau, Chen(r)
  PROVE  DemCho'
<1> SUFFICES ASSUME NEW l \in Lop, lopHoc[l] # Khong
             PROVE  SiSo(l)' + Cardinality(GiuCho(l)')
                      <= lopHoc[l].siSo + Cardinality(YeuCau) - 1
  BY DEF DemCho, Chen
<1>1. /\ TrongLop(l) \in SUBSET Ma /\ TrongLop(l)' \in SUBSET Ma
      /\ GiuCho(l)' \in SUBSET YeuCau /\ GiuCho(l) \in SUBSET YeuCau
  BY DEF TrongLop, GiuCho
<1>2. /\ IsFiniteSet(TrongLop(l)) /\ Cardinality(TrongLop(l)) \in Nat
      /\ Cardinality(TrongLop(l)') \in Nat
      /\ IsFiniteSet(GiuCho(l)) /\ Cardinality(GiuCho(l)) \in Nat
      /\ Cardinality(GiuCho(l)') \in Nat /\ Cardinality(YeuCau) \in Nat
  BY <1>1, HuuHan
<1>3. viec[r].conCho /\ viec[r].lop \in Lop
  BY DEF Chen, IInv, YeuCauDung, ViecDung, BuocConCho, BuocThem, BuocDangKy, BuocDoi
<1>4. GiuCho(l)' \subseteq GiuCho(l) \ {r}
  BY DEF GiuCho, Chen, TraLoi, KhongViec, IInv, TypeOK
<1>5. lopHoc[l].siSo \in Nat
  BY DEF IInv, TypeOK, DongLop
<1>6. CASE viec[r].lop # l
  <2>1. TrongLop(l)' \subseteq TrongLop(l) /\ GiuCho(l)' \subseteq GiuCho(l)
    BY <1>4, <1>6 DEF TrongLop, Chen
  <2>2. QED
    BY <1>2, <1>5, <2>1, KhongTang DEF DemCho, SiSo
<1>7. CASE viec[r].lop = l
  <2>1. TrongLop(l)' \subseteq TrongLop(l) \cup {maKe}
    BY DEF TrongLop, Chen
  <2>2. /\ IsFiniteSet(TrongLop(l) \cup {maKe})
        /\ Cardinality(TrongLop(l) \cup {maKe}) <= Cardinality(TrongLop(l)) + 1
    <3>1. IsFiniteSet(TrongLop(l) \cup {maKe}) /\ Cardinality(TrongLop(l) \cup {maKe}) =
            IF maKe \in TrongLop(l) THEN Cardinality(TrongLop(l)) ELSE Cardinality(TrongLop(l)) + 1
      BY <1>2, FS_AddElement
    <3>2. QED
      BY <1>2, <3>1
  <2>3. Cardinality(TrongLop(l)') <= Cardinality(TrongLop(l) \cup {maKe})
        /\ Cardinality(TrongLop(l) \cup {maKe}) \in Nat
    BY <2>1, <2>2, ItDi
  <2>4. r \in GiuCho(l)
    BY <1>3, <1>7 DEF GiuCho
  <2>5. /\ IsFiniteSet(GiuCho(l) \ {r})
        /\ Cardinality(GiuCho(l) \ {r}) = Cardinality(GiuCho(l)) - 1
    BY <1>2, <2>4, FS_RemoveElement
  <2>6. Cardinality(GiuCho(l)') <= Cardinality(GiuCho(l) \ {r})
    BY <1>4, <2>5, ItDi
  <2>7. SiSo(l) + Cardinality(GiuCho(l)) <= lopHoc[l].siSo + Cardinality(YeuCau) - 1
    BY DEF DemCho
  <2>8. QED
    BY <1>2, <1>5, <2>2, <2>3, <2>5, <2>6, <2>7 DEF SiSo
<1>8. QED
  BY <1>6, <1>7

LEMMA DocDem ==
  ASSUME IInv, DemCho, NEW r \in YeuCau,
         \/ \E sv \in SinhVien :
              \/ \E l \in Lop : DocLop(r, sv, l)
              \/ \E m \in Ma : DocDangKyHuy(r, sv, m)
              \/ \E m \in Ma, l \in Lop : DocDangKyCu(r, sv, m, l)
         \/ DocLopMoi(r) /\ ~TraLoi(r)
  PROVE  DemCho'
<1>1. IInv'
  <2>1. BatDau(r) \/ BuocCuaYeuCau(r)
    BY DEF BatDau, BuocCuaYeuCau
  <2>2. QED
    BY <2>1, MoiBuocGiu DEF Next
<1>2. viec' = [viec EXCEPT ![r] = viec'[r]] /\ viec'[r] \in CongViec
  BY <1>1 DEF IInv, TypeOK, DocLop, DocDangKyHuy, DocDangKyCu, DocLopMoi
<1>3. UNCHANGED <<dangKy, lopHoc>>
  BY DEF DocLop, DocDangKyHuy, DocDangKyCu, DocLopMoi, bang
<1> DEFINE ThayCho(w) == w.conCho => w.lop \in Lop /\ SiSo(w.lop) < lopHoc[w.lop].siSo
<1>4. ThayCho(viec'[r])
  <2>1. ASSUME NEW sv \in SinhVien, NEW l \in Lop, DocLop(r, sv, l) PROVE ThayCho(viec'[r])
    <3>1. viec'[r].conCho = (SiSo(l) < lopHoc[l].siSo) /\ viec'[r].lop = l
      BY <2>1 DEF DocLop, KhongViec, IInv, TypeOK
    <3>2. QED
      BY <3>1
  <2>2. ASSUME NEW sv \in SinhVien, NEW m \in Ma,
               DocDangKyHuy(r, sv, m) \/ \E l \in Lop : DocDangKyCu(r, sv, m, l)
        PROVE  ThayCho(viec'[r])
    <3>1. CASE DocDangKyHuy(r, sv, m)
      <4>1. viec'[r] = [KhongViec EXCEPT !.sv = sv, !.ma = m, !.ky = LopCua(m).ky,
                                         !.coDiem = diem[m] # Khong, !.luc = gio]
        BY <3>1 DEF DocDangKyHuy, IInv, TypeOK
      <4>2. viec'[r].conCho = FALSE
        BY <4>1 DEF KhongViec
      <4>3. QED
        BY <4>2
    <3>2. ASSUME NEW l \in Lop, DocDangKyCu(r, sv, m, l) PROVE ThayCho(viec'[r])
      <4>1. viec'[r] = [KhongViec EXCEPT !.sv = sv, !.ma = m, !.cu = dangKy[m].lop, !.lop = l,
                                         !.mon = LopCua(m).mon, !.ky = LopCua(m).ky,
                                         !.coDiem = diem[m] # Khong]
        BY <3>2 DEF DocDangKyCu, IInv, TypeOK
      <4>2. viec'[r].conCho = FALSE
        BY <4>1 DEF KhongViec
      <4>3. QED
        BY <4>2
    <3>3. QED
      BY <2>2, <3>1, <3>2
  <2>3. CASE DocLopMoi(r) /\ ~TraLoi(r)
    <3> DEFINE c == SiSo(viec[r].lop) < lopHoc[viec[r].lop].siSo
    <3>1. viec[r].lop \in Lop /\ viec[r] \in CongViec
      BY <2>3 DEF DocLopMoi, IInv, TypeOK, YeuCauDung, ViecDung, BuocThem, BuocDoi
    <3>2. viec'[r] = [viec[r] EXCEPT !.lich = lopHoc[viec[r].lop].lich, !.conCho = c, !.luc = gio]
      BY <2>3 DEF DocLopMoi, IInv, TypeOK
    <3> HIDE DEF c
    <3>3. viec'[r].conCho = c /\ viec'[r].lop = viec[r].lop
      BY <3>1, <3>2 DEF CongViec
    <3>4. QED
      BY <3>1, <3>3 DEF c
  <2> HIDE DEF ThayCho
  <2>4. QED
    BY <2>1, <2>2, <2>3
<1>5. QED
  BY <1>2, <1>3, <1>4, DocCho

\* Every place promised is accounted for throughout.
LEMMA DemChoLuonDung == Spec => []DemCho
<1>1. Init => DemCho
  <2> SUFFICES ASSUME Init, NEW l \in Lop, lopHoc[l] # Khong
               PROVE  SiSo(l) + Cardinality(GiuCho(l))
                        <= lopHoc[l].siSo + Cardinality(YeuCau) - 1
    BY DEF DemCho
  <2>1. GiuCho(l) = {}
    BY DEF Init, GiuCho, KhongViec
  <2>2. Cardinality(GiuCho(l)) = 0
    BY <2>1, FS_EmptySet
  <2>3. TrongLop(l) = {m \in Ma : DangKyDau[m] # Khong /\ DangKyDau[m].lop = l}
        /\ lopHoc = LopDau /\ TrongLop(l) \in SUBSET Ma
    BY DEF Init, TrongLop
  <2>4. SiSo(l) <= lopHoc[l].siSo
    BY <2>3, BangDau DEF SiSo
  <2>5. SiSo(l) \in Nat /\ lopHoc[l].siSo \in Nat
    BY <2>3, HuuHan, KhoiDau DEF SiSo, IInv, TypeOK, DongLop
  <2>6. QED
    BY <2>2, <2>4, <2>5, HuuHan
<1>2. IInv /\ DemCho /\ [Next]_vars => DemCho'
  <2> SUFFICES ASSUME IInv, DemCho, [Next]_vars PROVE DemCho'
    OBVIOUS
  <2>1. ASSUME NEW r \in YeuCau, BatDau(r) \/ BuocCuaYeuCau(r) PROVE DemCho'
    <3>1. CASE BatDau(r) \/ (DocLopMoi(r) /\ ~TraLoi(r))
      BY <3>1, DocDem DEF BatDau
    <3>2. CASE GhiDangKy(r) \/ GhiDoi(r)
      BY <3>2, GhiLaChen, ChenCho
    <3>3. CASE BuocCuaYeuCau(r) /\ ~GhiDangKy(r) /\ ~GhiDoi(r)
               /\ ~(DocLopMoi(r) /\ ~TraLoi(r))
      <4>1. ChiXoa
        BY <3>3, KhongGhiLaChiXoa
      <4>2. UNCHANGED lopHoc /\ (Tiep(r, buoc'[r]) \/ TraLoi(r))
        BY <3>3 DEF BuocCuaYeuCau, DocDot, DocMon, DocLichSu, DocLich, GhiDangKyLoi, DocDotHuy,
             GhiHuy, GhiHuyLoi, DocLopMoi, DocDotDoi, DocLichDoi, GhiDoiLoi, bang, Hoi, Tiep,
             IInv, TypeOK
      <4>3. QED
        BY <4>1, <4>2, ThoiCho
    <3>4. QED
      BY <2>1, <3>1, <3>2, <3>3
  <2>2. CASE TroiGio \/ UNCHANGED vars
    BY <2>2 DEF TroiGio, vars, bang, DemCho, SiSo, TrongLop, GiuCho
  <2>3. QED
    BY <2>1, <2>2 DEF Next
<1>3. QED
  BY <1>1, <1>2, BatBien, PTL DEF Spec

\* A class is overbooked by less than the number of requests served at one time.
THEOREM VuotCoHan == Spec => []VuotSiSoCoHan
<1>1. IInv /\ DemCho => VuotSiSoCoHan
  <2> SUFFICES ASSUME IInv, DemCho, NEW l \in Lop, lopHoc[l] # Khong
               PROVE  SiSo(l) <= lopHoc[l].siSo + Cardinality(YeuCau) - 1
    BY DEF VuotSiSoCoHan
  <2>1. SiSo(l) \in Nat /\ Cardinality(GiuCho(l)) \in Nat /\ lopHoc[l].siSo \in Nat
    <3>1. GiuCho(l) \in SUBSET YeuCau /\ TrongLop(l) \in SUBSET Ma
      BY DEF GiuCho, TrongLop
    <3>2. QED
      BY <3>1, HuuHan DEF SiSo, IInv, TypeOK, DongLop
  <2>2. QED
    BY <2>1, HuuHan DEF DemCho
<1>2. QED
  BY <1>1, BatBien, DemChoLuonDung, PTL

-----------------------------------------------------------------------------
(* Registration only while a round is open *)

\* The steps that come after a round was found open.
BuocTrongDot == {"dkMon", "dkLichSu", "dkLich", "dkGhi", "doiLich", "doiGhi"}

\* A request that may insert keeps the term of its class, and the moment at which
\* it found a round of that term open is not ahead of the clock.
DotDung(b, v) ==
  /\ b \in BuocThem => LopDau[v.lop] # Khong /\ LopDau[v.lop].ky = v.ky
  /\ b \in BuocTrongDot => MoDangKy(v.ky, HoSo[v.sv], DotDau, v.luc)

YeuCauTrongDot ==
  \A r \in YeuCau : DotDung(buoc[r], viec[r]) /\ viec[r].luc <= gio

LEMMA KhongViecTrongDot ==
  DotDung("nghi", KhongViec) /\ KhongViec.luc = 0
BY DEF DotDung, KhongViec, BuocThem, BuocDangKy, BuocDoi, BuocTrongDot

\* The first query of a request: no round has been asked for yet.
LEMMA BatDauTrongDot ==
  ASSUME IInv, DoiCungKy, NEW r \in YeuCau, BatDau(r)
  PROVE  /\ buoc' = [buoc EXCEPT ![r] = buoc'[r]] /\ viec' = [viec EXCEPT ![r] = viec'[r]]
         /\ DotDung(buoc'[r], viec'[r]) /\ viec'[r].luc <= gio
<1>0. gio \in Nat /\ gio >= 0 /\ lopHoc = LopDau
  BY HangSo DEF IInv, TypeOK, BangYen
<1>1. PICK sv \in SinhVien :
        \/ \E l \in Lop : DocLop(r, sv, l)
        \/ \E m \in Ma : DocDangKyHuy(r, sv, m)
        \/ \E m \in Ma, l \in Lop : DocDangKyCu(r, sv, m, l)
  BY DEF BatDau
<1>2. buoc' = [buoc EXCEPT ![r] = buoc'[r]] /\ viec' = [viec EXCEPT ![r] = viec'[r]]
  BY <1>1 DEF DocLop, DocDangKyHuy, DocDangKyCu, IInv, TypeOK
<1>3. ASSUME NEW l \in Lop, DocLop(r, sv, l)
      PROVE  DotDung(buoc'[r], viec'[r]) /\ viec'[r].luc <= gio
  <2>1. /\ buoc'[r] = "dkDot" /\ lopHoc[l] # Khong
        /\ viec'[r] = [KhongViec EXCEPT !.sv = sv, !.lop = l, !.mon = lopHoc[l].mon,
                         !.ky = lopHoc[l].ky, !.lich = lopHoc[l].lich,
                         !.conCho = SiSo(l) < lopHoc[l].siSo, !.luc = gio]
    BY <1>3 DEF DocLop, IInv, TypeOK
  <2>2. viec'[r].lop = l /\ viec'[r].ky = lopHoc[l].ky /\ viec'[r].luc = gio
    BY <2>1 DEF KhongViec
  <2>3. QED
    BY <1>0, <2>1, <2>2 DEF DotDung, BuocTrongDot
<1>4. ASSUME NEW m \in Ma, DocDangKyHuy(r, sv, m)
      PROVE  DotDung(buoc'[r], viec'[r]) /\ viec'[r].luc <= gio
  <2>1. /\ buoc'[r] = "huyDot"
        /\ viec'[r] = [KhongViec EXCEPT !.sv = sv, !.ma = m, !.ky = LopCua(m).ky,
                                        !.coDiem = diem[m] # Khong, !.luc = gio]
    BY <1>4 DEF DocDangKyHuy, IInv, TypeOK
  <2>2. viec'[r].luc = gio
    BY <2>1 DEF KhongViec
  <2>3. QED
    BY <1>0, <2>1, <2>2 DEF DotDung, BuocTrongDot, BuocThem, BuocDangKy, BuocDoi
<1>5. ASSUME NEW m \in Ma, NEW l \in Lop, DocDangKyCu(r, sv, m, l)
      PROVE  DotDung(buoc'[r], viec'[r]) /\ viec'[r].luc <= gio
  <2>1. /\ buoc'[r] = "doiLop" /\ lopHoc[l] # Khong /\ lopHoc[l].ky = LopCua(m).ky
        /\ viec'[r] = [KhongViec EXCEPT !.sv = sv, !.ma = m, !.cu = dangKy[m].lop, !.lop = l,
                         !.mon = LopCua(m).mon, !.ky = LopCua(m).ky,
                         !.coDiem = diem[m] # Khong]
    BY <1>5, DoiCungKy DEF DocDangKyCu, IInv, TypeOK
  <2>2. viec'[r].lop = l /\ viec'[r].ky = LopCua(m).ky /\ viec'[r].luc = 0
    BY <2>1 DEF KhongViec
  <2>3. QED
    BY <1>0, <2>1, <2>2 DEF DotDung, BuocTrongDot
<1>6. QED
  BY <1>1, <1>2, <1>3, <1>4, <1>5

\* The later queries: the round is asked for once, for the locals as they are.
LEMMA DocTrongDot ==
  ASSUME IInv, YeuCauTrongDot, NEW r \in YeuCau, BuocCuaYeuCau(r), ~TraLoi(r)
  PROVE  /\ buoc' = [buoc EXCEPT ![r] = buoc'[r]] /\ viec' = [viec EXCEPT ![r] = viec'[r]]
         /\ DotDung(buoc'[r], viec'[r]) /\ viec'[r].luc <= gio
<1>0. /\ DotDung(buoc[r], viec[r]) /\ viec[r].luc <= gio /\ viec[r] \in CongViec
      /\ dots = DotDau /\ gio \in 0..MaxGio /\ gio \in Nat /\ gio <= gio
  BY HangSo DEF YeuCauTrongDot, IInv, TypeOK, BangYen
<1>1. CASE DocLopMoi(r)
  <2>1. /\ buoc[r] = "doiLop" /\ buoc' = [buoc EXCEPT ![r] = "doiDot"]
        /\ viec' = [viec EXCEPT ![r] =
             [viec[r] EXCEPT !.lich = lopHoc[viec[r].lop].lich,
                             !.conCho = SiSo(viec[r].lop) < lopHoc[viec[r].lop].siSo,
                             !.luc = gio]]
    BY <1>1 DEF DocLopMoi
  <2>2. buoc'[r] = "doiDot" /\ viec'[r] =
             [viec[r] EXCEPT !.lich = lopHoc[viec[r].lop].lich,
                             !.conCho = SiSo(viec[r].lop) < lopHoc[viec[r].lop].siSo,
                             !.luc = gio]
    BY <2>1 DEF IInv, TypeOK
  <2>3. viec'[r].lop = viec[r].lop /\ viec'[r].ky = viec[r].ky /\ viec'[r].luc = gio
    BY <1>0, <2>2 DEF CongViec
  <2>4. QED
    BY <1>0, <2>1, <2>2, <2>3 DEF DotDung, BuocTrongDot, BuocThem, BuocDoi, BuocDangKy
<1>2. ASSUME NEW b \in CacBuoc, Tiep(r, b), b \in BuocThem => buoc[r] \in BuocThem,
             b \in BuocTrongDot => buoc[r] \in BuocTrongDot
                                   \/ MoDangKy(viec[r].ky, HoSo[viec[r].sv], dots, viec[r].luc)
      PROVE  /\ buoc' = [buoc EXCEPT ![r] = buoc'[r]] /\ viec' = [viec EXCEPT ![r] = viec'[r]]
             /\ DotDung(buoc'[r], viec'[r]) /\ viec'[r].luc <= gio
  <2>1. buoc' = [buoc EXCEPT ![r] = b] /\ viec' = viec /\ buoc'[r] = b
    BY <1>2 DEF Tiep, IInv, TypeOK
  <2>2. viec' = [viec EXCEPT ![r] = viec'[r]]
    BY <2>1 DEF IInv, TypeOK
  <2>3. QED
    BY <1>0, <1>2, <2>1, <2>2 DEF DotDung
<1>3. CASE DocDot(r) \/ DocDotDoi(r)
  BY <1>2, <1>3 DEF DocDot, DocDotDoi, Hoi, CacBuoc, BuocThem, BuocDangKy, BuocDoi
<1>4. CASE DocMon(r) \/ DocLichSu(r) \/ DocLich(r) \/ DocLichDoi(r)
  BY <1>2, <1>4 DEF DocMon, DocLichSu, DocLich, DocLichDoi, Hoi, CacBuoc, BuocThem,
     BuocDangKy, BuocDoi, BuocTrongDot
<1>5. CASE DocDotHuy(r)
  BY <1>2, <1>5 DEF DocDotHuy, Hoi, CacBuoc, BuocThem, BuocDangKy, BuocDoi, BuocTrongDot
<1>6. QED
  BY <1>1, <1>3, <1>4, <1>5 DEF BuocCuaYeuCau, GhiDangKy, GhiDangKyLoi, GhiHuy, GhiHuyLoi,
     GhiDoi, GhiDoiLoi

\* Students enter a class only if a round of its term was open to them since
\* their request came; clients ask DoiLop for classes of the same term.
THEOREM ChiTrongDot == DoiCungKy => (Spec => DangKyTrongDot)
<1> SUFFICES ASSUME DoiCungKy PROVE Spec => DangKyTrongDot
  OBVIOUS
<1>1. Init => YeuCauTrongDot
  <2>1. Init => \A r \in YeuCau : buoc[r] = "nghi" /\ viec[r] = KhongViec /\ 0 <= gio
    BY DEF Init
  <2>2. QED
    BY <2>1, KhongViecTrongDot DEF YeuCauTrongDot
<1>2. IInv /\ YeuCauTrongDot /\ [Next]_vars => YeuCauTrongDot'
  <2> SUFFICES ASSUME IInv, YeuCauTrongDot, [Next]_vars PROVE YeuCauTrongDot'
    OBVIOUS
  <2>1. ASSUME NEW r \in YeuCau, BatDau(r) \/ BuocCuaYeuCau(r) PROVE YeuCauTrongDot'
    <3>1. gio' = gio /\ gio \in Nat
      <4>1. gio \in Nat
        BY HangSo DEF IInv, TypeOK
      <4>2. CASE BatDau(r)
        BY <4>1, <4>2 DEF BatDau, DocLop, DocDangKyHuy, DocDangKyCu
      <4>3. CASE BuocCuaYeuCau(r)
        BY <4>1, <4>3 DEF BuocCuaYeuCau, DocDot, DocMon, DocLichSu, DocLich, GhiDangKy,
           GhiDangKyLoi, DocDotHuy, GhiHuy, GhiHuyLoi, DocLopMoi, DocDotDoi, DocLichDoi,
           GhiDoi, GhiDoiLoi
      <4>4. QED
        BY <2>1, <4>2, <4>3
    <3>2. CASE TraLoi(r)
      BY <3>1, <3>2, KhongViecTrongDot DEF TraLoi, YeuCauTrongDot, IInv, TypeOK
    <3>3. CASE ~TraLoi(r)
      <4>1. /\ buoc' = [buoc EXCEPT ![r] = buoc'[r]] /\ viec' = [viec EXCEPT ![r] = viec'[r]]
            /\ DotDung(buoc'[r], viec'[r]) /\ viec'[r].luc <= gio
        BY <2>1, <3>3, BatDauTrongDot, DocTrongDot
      <4>2. \A q \in YeuCau \ {r} : buoc'[q] = buoc[q] /\ viec'[q] = viec[q]
        BY <4>1 DEF IInv, TypeOK
      <4>3. QED
        BY <3>1, <4>1, <4>2 DEF YeuCauTrongDot
    <3>4. QED
      BY <3>2, <3>3
  <2>2. CASE TroiGio \/ UNCHANGED vars
    <3>1. buoc' = buoc /\ viec' = viec /\ gio <= gio' /\ gio \in Nat /\ gio' \in Nat
          /\ \A r \in YeuCau : viec[r].luc \in Nat
      BY <2>2, HangSo DEF TroiGio, vars, IInv, TypeOK, CongViec
    <3>2. QED
      BY <3>1 DEF YeuCauTrongDot
  <2>3. QED
    BY <2>1, <2>2 DEF Next
<1>3. IInv /\ YeuCauTrongDot /\ [Next]_vars =>
        [\A m \in DongMoi :
           LET hs == HoSo[dangKy'[m].sv]  ky == lopHoc[dangKy'[m].lop].ky
           IN  \E r \in DangXuLy :
                 /\ viec[r].sv = dangKy'[m].sv /\ viec[r].lop = dangKy'[m].lop
                 /\ \E t \in viec[r].luc..gio : MoDangKy(ky, hs, dots, t)]_vars
  <2> SUFFICES ASSUME IInv, YeuCauTrongDot, [Next]_vars, NEW m \in DongMoi
               PROVE  \E r \in DangXuLy :
                        /\ viec[r].sv = dangKy'[m].sv /\ viec[r].lop = dangKy'[m].lop
                        /\ \E t \in viec[r].luc..gio :
                             MoDangKy(lopHoc[dangKy'[m].lop].ky, HoSo[dangKy'[m].sv], dots, t)
    OBVIOUS
  <2>1. m \in Ma /\ dangKy[m] = Khong /\ dangKy'[m] # Khong
    BY DEF DongMoi
  <2>2. PICK r \in YeuCau : Chen(r)
    BY <2>1, DoiBang DEF ChiXoa
  <2>3. dangKy'[m] = [sv |-> viec[r].sv, lop |-> viec[r].lop]
    BY <2>1, <2>2 DEF Chen
  <2>4. /\ LopDau[viec[r].lop].ky = viec[r].ky
        /\ MoDangKy(viec[r].ky, HoSo[viec[r].sv], DotDau, viec[r].luc)
        /\ viec[r].luc <= gio
    BY <2>2 DEF Chen, YeuCauTrongDot, DotDung, BuocThem, BuocDangKy, BuocDoi, BuocTrongDot
  <2>5. viec[r].luc \in viec[r].luc..gio
    BY <2>4, HangSo DEF IInv, TypeOK, CongViec
  <2>6. r \in DangXuLy /\ lopHoc = LopDau /\ dots = DotDau
    BY <2>2 DEF Chen, DangXuLy, IInv, BangYen
  <2>7. QED
    BY <2>3, <2>4, <2>5, <2>6
<1>4. QED
  BY <1>1, <1>2, <1>3, BatBien, PTL DEF Spec, DangKyTrongDot

-----------------------------------------------------------------------------
(* What a request knows of the rows of its student *)

MoiSVMot == \A r, q \in DangXuLy : viec[r].sv = viec[q].sv => r = q

\* A request at step b, with v in its locals, has read its classes as they are;
\* and what it has found of its student's registrations is so still.
BietVe(b, v) ==
  /\ b \in BuocDangKy =>
       /\ lopHoc[v.lop] # Khong /\ v.cu = Khong
       /\ v.mon = lopHoc[v.lop].mon /\ v.ky = lopHoc[v.lop].ky /\ v.lich = lopHoc[v.lop].lich
  /\ b \in {"dkLichSu", "dkLich", "dkGhi"} => ChuaCoMon(v.sv, v.ky, v.mon)
  /\ b \in BuocHuy \cup BuocDoi => v.ma \in Ma /\ CuaToi(v.sv, v.ma)
  /\ b \in BuocDoi =>
       /\ lopHoc[v.lop] # Khong /\ lopHoc[v.lop].ky = v.ky
       /\ dangKy[v.ma].lop = v.cu /\ lopHoc[v.cu].ky = v.ky /\ lopHoc[v.cu].mon = v.mon
  /\ b \in BuocDoi \ {"doiLop"} =>
       v.lop # v.cu /\ lopHoc[v.lop].mon = v.mon /\ v.lich = lopHoc[v.lop].lich
  /\ b \in {"dkGhi", "doiGhi"} => KhongTrung(v)

DaBiet == \A r \in YeuCau : BietVe(buoc[r], viec[r])

\* The invariant that is inductive under one request per student.
TuanTu == IInv /\ MoiSVMot /\ DaBiet /\ MotLopMotMon /\ KhongTrungLich

\* A step that leaves the rows of student sv alone.
GiuDong(sv) == \A m \in Ma : CuaToi(sv, m) \/ CuaToi(sv, m)' => dangKy'[m] = dangKy[m]

LEMMA DongGiuNguyen ==
  ASSUME NEW sv, GiuDong(sv), lopHoc' = lopHoc, NEW ky, NEW mon, NEW tru
  PROVE  /\ ChuaCoMon(sv, ky, mon)' <=> ChuaCoMon(sv, ky, mon)
         /\ LichDaDangKy(sv, ky, tru)' = LichDaDangKy(sv, ky, tru)
<1>1. CuaSinhVien(sv)' = CuaSinhVien(sv)
  BY DEF CuaSinhVien, GiuDong, CuaToi
<1>2. \A m \in CuaSinhVien(sv) : dangKy'[m] = dangKy[m] /\ LopCua(m)' = LopCua(m)
  BY DEF CuaSinhVien, GiuDong, CuaToi, LopCua
<1>3. ChuaCoMon(sv, ky, mon)' <=> ChuaCoMon(sv, ky, mon)
  BY <1>1, <1>2 DEF ChuaCoMon
<1>4. {n \in CuaSinhVien(sv) : LopCua(n).ky = ky /\ dangKy[n].lop # tru}'
        = {n \in CuaSinhVien(sv) : LopCua(n).ky = ky /\ dangKy[n].lop # tru}
  BY <1>1, <1>2
<1>5. LichDaDangKy(sv, ky, tru)' = LichDaDangKy(sv, ky, tru)
  BY <1>2, <1>4 DEF LichDaDangKy
<1>6. QED
  BY <1>3, <1>5

\* Steps of others change nothing of what a request knows.
LEMMA VanBiet ==
  ASSUME NEW b, NEW v, BietVe(b, v), GiuDong(v.sv), lopHoc' = lopHoc
  PROVE  BietVe(b, v)'
<1>1. b \in {"dkLichSu", "dkLich", "dkGhi"} => ChuaCoMon(v.sv, v.ky, v.mon)'
  BY DongGiuNguyen DEF BietVe
<1>2. b \in {"dkGhi", "doiGhi"} => KhongTrung(v)'
  BY DongGiuNguyen DEF BietVe, KhongTrung
<1>3. b \in BuocHuy \cup BuocDoi => v.ma \in Ma /\ CuaToi(v.sv, v.ma)' /\ dangKy'[v.ma] = dangKy[v.ma]
  BY DEF BietVe, GiuDong, CuaToi
<1>4. QED
  BY <1>1, <1>2, <1>3 DEF BietVe

\* Without a change of the tables every student keeps his rows.
LEMMA BangNguyen == ASSUME UNCHANGED bang, NEW sv PROVE GiuDong(sv) /\ lopHoc' = lopHoc
BY DEF bang, GiuDong

\* A request that has ended knows nothing.
LEMMA NghiBiet == ASSUME NEW v PROVE BietVe("nghi", v) /\ BietVe("nghi", v)'
BY DEF BietVe, BuocDangKy, BuocHuy, BuocDoi

-----------------------------------------------------------------------------
(* Queries *)

\* Slot r goes to step b with v in its locals, which it knows to be right.
Doc(r, b, v) ==
  /\ b # "nghi" /\ BietVe(b, v) /\ UNCHANGED bang
  /\ buoc' = [buoc EXCEPT ![r] = b] /\ viec' = [viec EXCEPT ![r] = v]

LEMMA DocTuan ==
  ASSUME TuanTu, NEW r \in YeuCau, NEW b, NEW v, Doc(r, b, v),
         \A q \in DangXuLy \ {r} : viec[q].sv # v.sv
  PROVE  MoiSVMot' /\ DaBiet'
<1>1. buoc \in [YeuCau -> CacBuoc] /\ viec \in [YeuCau -> CongViec]
  BY DEF TuanTu, IInv, TypeOK
<1>2. /\ buoc'[r] = b /\ viec'[r] = v
      /\ \A q \in YeuCau \ {r} : buoc'[q] = buoc[q] /\ viec'[q] = viec[q]
  BY <1>1 DEF Doc
<1>3. MoiSVMot'
  BY <1>2 DEF TuanTu, MoiSVMot, DangXuLy
<1>4. ASSUME NEW q \in YeuCau PROVE BietVe(buoc[q], viec[q])'
  <2>1. CASE q = r
    <3>1. BietVe(b, v)'
      BY BangNguyen, VanBiet DEF Doc
    <3>2. QED
      BY <1>2, <2>1, <3>1
  <2>2. CASE q # r
    <3>1. PICK c, w : c = buoc[q] /\ w = viec[q]
      OBVIOUS
    <3>2. BietVe(c, w)
      BY <3>1 DEF TuanTu, DaBiet
    <3>3. BietVe(c, w)'
      BY <3>2, BangNguyen, VanBiet DEF Doc
    <3>4. QED
      BY <1>2, <2>2, <3>1, <3>3
  <2>3. QED
    BY <2>1, <2>2
<1>5. QED
  BY <1>3, <1>4 DEF DaBiet

\* A request that returns, whatever it wrote to the rows of its own student.
LEMMA TraLoiTuan ==
  ASSUME TuanTu, NEW r \in DangXuLy, TraLoi(r), lopHoc' = lopHoc,
         \A sv : sv # viec[r].sv => GiuDong(sv)
  PROVE  MoiSVMot' /\ DaBiet'
<1>1. buoc \in [YeuCau -> CacBuoc] /\ viec \in [YeuCau -> CongViec]
  BY DEF TuanTu, IInv, TypeOK
<1>2. /\ buoc'[r] = "nghi"
      /\ \A q \in YeuCau \ {r} : buoc'[q] = buoc[q] /\ viec'[q] = viec[q]
  BY <1>1 DEF TraLoi, DangXuLy
<1>3. MoiSVMot'
  BY <1>2 DEF TuanTu, MoiSVMot, DangXuLy
<1>4. ASSUME NEW q \in YeuCau PROVE BietVe(buoc[q], viec[q])'
  <2>1. CASE buoc'[q] = "nghi"
    <3>1. PICK w : w = viec'[q]
      OBVIOUS
    <3>2. BietVe("nghi", w)'
      BY NghiBiet
    <3>3. QED
      BY <2>1, <3>1, <3>2
  <2>2. CASE buoc'[q] # "nghi"
    <3>1. PICK c, w : c = buoc[q] /\ w = viec[q]
      OBVIOUS
    <3>2. BietVe(c, w) /\ q # r /\ q \in DangXuLy
      BY <1>2, <2>2, <3>1 DEF TuanTu, DaBiet, DangXuLy
    <3>3. GiuDong(w.sv)
      BY <3>1, <3>2 DEF TuanTu, MoiSVMot
    <3>4. BietVe(c, w)'
      BY <3>2, <3>3, VanBiet
    <3>5. QED
      BY <1>2, <3>1, <3>2, <3>4
  <2>3. QED
    BY <2>1, <2>2
<1>5. QED
  BY <1>3, <1>4 DEF DaBiet

\* The first query: the class, or the registration with its class.
LEMMA BatDauBiet ==
  ASSUME MoiSVMotYeuCau, DoiCungKy, TuanTu, NEW r \in YeuCau, BatDau(r)
  PROVE  \E b, v : Doc(r, b, v) /\ \A q \in DangXuLy \ {r} : viec[q].sv # v.sv
<1>1. PICK sv \in SinhVien :
        \/ \E l \in Lop : DocLop(r, sv, l)
        \/ \E m \in Ma : DocDangKyHuy(r, sv, m)
        \/ \E m \in Ma, l \in Lop : DocDangKyCu(r, sv, m, l)
  BY DEF BatDau
<1>2. \A q \in DangXuLy \ {r} : viec[q].sv # sv
  BY <1>1, MoiSVMotYeuCau DEF DocLop, DocDangKyHuy, DocDangKyCu, Ranh
<1>3. ASSUME NEW l \in Lop, DocLop(r, sv, l)
      PROVE  \E b, v : Doc(r, b, v) /\ v.sv = sv
  <2>1. PICK v : v = [KhongViec EXCEPT !.sv = sv, !.lop = l, !.mon = lopHoc[l].mon,
                         !.ky = lopHoc[l].ky, !.lich = lopHoc[l].lich,
                         !.conCho = SiSo(l) < lopHoc[l].siSo, !.luc = gio]
    OBVIOUS
  <2>2. /\ v.sv = sv /\ v.lop = l /\ v.cu = Khong /\ v.mon = lopHoc[l].mon
        /\ v.ky = lopHoc[l].ky /\ v.lich = lopHoc[l].lich
    BY <2>1 DEF KhongViec
  <2>3. BietVe("dkDot", v)
    BY <1>3, <2>2 DEF DocLop, BietVe, BuocDangKy, BuocHuy, BuocDoi
  <2>4. Doc(r, "dkDot", v)
    BY <1>3, <2>1, <2>3 DEF DocLop, Doc, bang
  <2>5. QED
    BY <2>2, <2>4
<1>4. ASSUME NEW m \in Ma, DocDangKyHuy(r, sv, m)
      PROVE  \E b, v : Doc(r, b, v) /\ v.sv = sv
  <2>1. PICK v : v = [KhongViec EXCEPT !.sv = sv, !.ma = m, !.ky = LopCua(m).ky,
                                       !.coDiem = diem[m] # Khong, !.luc = gio]
    OBVIOUS
  <2>2. v.sv = sv /\ v.ma = m
    BY <2>1 DEF KhongViec
  <2>3. BietVe("huyDot", v)
    BY <1>4, <2>2 DEF DocDangKyHuy, BietVe, BuocDangKy, BuocHuy, BuocDoi
  <2>4. Doc(r, "huyDot", v)
    BY <1>4, <2>1, <2>3 DEF DocDangKyHuy, Doc, bang
  <2>5. QED
    BY <2>2, <2>4
<1>5. ASSUME NEW m \in Ma, NEW l \in Lop, DocDangKyCu(r, sv, m, l)
      PROVE  \E b, v : Doc(r, b, v) /\ v.sv = sv
  <2>1. PICK v : v = [KhongViec EXCEPT !.sv = sv, !.ma = m, !.cu = dangKy[m].lop, !.lop = l,
                         !.mon = LopCua(m).mon, !.ky = LopCua(m).ky,
                         !.coDiem = diem[m] # Khong]
    OBVIOUS
  <2>2. /\ v.sv = sv /\ v.ma = m /\ v.cu = dangKy[m].lop /\ v.lop = l
        /\ v.mon = LopCua(m).mon /\ v.ky = LopCua(m).ky
    BY <2>1 DEF KhongViec
  <2>3. lopHoc[l] # Khong /\ lopHoc[l].ky = LopCua(m).ky /\ CuaToi(sv, m)
    BY <1>5, DoiCungKy DEF DocDangKyCu
  <2>4. BietVe("doiLop", v)
    BY <2>2, <2>3 DEF BietVe, BuocDangKy, BuocHuy, BuocDoi, LopCua
  <2>5. Doc(r, "doiLop", v)
    BY <1>5, <2>1, <2>4 DEF DocDangKyCu, Doc, bang
  <2>6. QED
    BY <2>2, <2>5
<1>6. PICK b, v : Doc(r, b, v) /\ v.sv = sv
  BY <1>1, <1>3, <1>4, <1>5
<1>7. QED
  BY <1>2, <1>6

\* The later ones: each finds out one thing more, for the locals as they are.
LEMMA DocBiet ==
  ASSUME TuanTu, NEW r \in YeuCau, BuocCuaYeuCau(r), ~TraLoi(r)
  PROVE  r \in DangXuLy /\ \E b, v : Doc(r, b, v) /\ v.sv = viec[r].sv
<1>0. BietVe(buoc[r], viec[r]) /\ viec \in [YeuCau -> CongViec] /\ buoc \in [YeuCau -> CacBuoc]
  BY DEF TuanTu, DaBiet, IInv, TypeOK
<1>1. CASE DocLopMoi(r)
  <2>1. PICK v : v = [viec[r] EXCEPT !.lich = lopHoc[viec[r].lop].lich,
                          !.conCho = SiSo(viec[r].lop) < lopHoc[viec[r].lop].siSo, !.luc = gio]
    OBVIOUS
  <2>2. /\ v.sv = viec[r].sv /\ v.ma = viec[r].ma /\ v.cu = viec[r].cu /\ v.lop = viec[r].lop
        /\ v.mon = viec[r].mon /\ v.ky = viec[r].ky /\ v.lich = lopHoc[v.lop].lich
    BY <1>0, <2>1 DEF CongViec
  <2>3. /\ buoc[r] = "doiLop" /\ DoiHopLe(viec[r]) /\ UNCHANGED bang
        /\ buoc' = [buoc EXCEPT ![r] = "doiDot"] /\ viec' = [viec EXCEPT ![r] = v]
    BY <1>1, <2>1 DEF DocLopMoi, bang
  <2>4. BietVe("doiDot", v)
    BY <1>0, <2>2, <2>3 DEF BietVe, DoiHopLe, BuocDangKy, BuocHuy, BuocDoi
  <2>5. QED
    BY <2>2, <2>3, <2>4 DEF Doc, DangXuLy
<1>2. ASSUME NEW b, b # "nghi", buoc[r] # "nghi", Tiep(r, b), BietVe(b, viec[r]), UNCHANGED bang
      PROVE  r \in DangXuLy /\ \E c, v : Doc(r, c, v) /\ v.sv = viec[r].sv
  <2>1. viec' = [viec EXCEPT ![r] = viec[r]]
    BY <1>0, <1>2 DEF Tiep
  <2>2. QED
    BY <1>2, <2>1 DEF Doc, Tiep, DangXuLy
<1>3. CASE DocDot(r) \/ DocMon(r) \/ DocLichSu(r) \/ DocLich(r)
  <2>1. \E b \in {"dkMon", "dkLichSu", "dkLich", "dkGhi"} :
          /\ Tiep(r, b) /\ buoc[r] # "nghi" /\ UNCHANGED bang
          /\ BietVe(b, viec[r])
    BY <1>0, <1>3 DEF DocDot, DocMon, DocLichSu, DocLich, Hoi, BietVe, BuocDangKy, BuocHuy, BuocDoi, bang
  <2>2. QED
    BY <1>2, <2>1
<1>4. CASE DocDotHuy(r) \/ DocDotDoi(r) \/ DocLichDoi(r)
  <2>1. \E b \in {"huyGhi", "doiLich", "doiGhi"} :
          /\ Tiep(r, b) /\ buoc[r] # "nghi" /\ UNCHANGED bang
          /\ BietVe(b, viec[r])
    BY <1>0, <1>4 DEF DocDotHuy, DocDotDoi, DocLichDoi, Hoi, BietVe, BuocDangKy, BuocHuy, BuocDoi, bang
  <2>2. QED
    BY <1>2, <2>1
<1>5. QED
  BY <1>1, <1>3, <1>4 DEF BuocCuaYeuCau, GhiDangKy, GhiDangKyLoi, GhiHuy, GhiHuyLoi,
     GhiDoi, GhiDoiLoi

-----------------------------------------------------------------------------
(* Commits *)

\* Class l may stand beside class k in a student's term.
HopNhau(l, k) ==
  lopHoc[k].ky = lopHoc[l].ky =>
    lopHoc[k].mon # lopHoc[l].mon /\ ~TrungNhau(lopHoc[l].lich, lopHoc[k].lich)

LEMMA DoiXung == ASSUME NEW A, NEW B PROVE TrungNhau(A, B) <=> TrungNhau(B, A)
BY DEF TrungNhau, BuoiTrungNhau

LEMMA ThuocLich ==
  ASSUME NEW v, KhongTrung(v), NEW m \in CuaSinhVien(v.sv), LopCua(m).ky = v.ky,
         dangKy[m].lop # v.cu
  PROVE  ~TrungNhau(v.lich, LopCua(m).lich)
<1>1. LopCua(m).lich \subseteq LichDaDangKy(v.sv, v.ky, v.cu)
  BY DEF LichDaDangKy
<1>2. QED
  BY <1>1 DEF KhongTrung, TrungNhau

\* What is about to be written fits all that the student keeps.
LEMMA DangKyHop ==
  ASSUME TuanTu, NEW r \in YeuCau, GhiDangKy(r), NEW m \in Ma, CuaToi(viec[r].sv, m)
  PROVE  HopNhau(viec[r].lop, dangKy[m].lop)
<1>1. PICK v : v = viec[r]
  OBVIOUS
<1>2. BietVe("dkGhi", v)
  BY <1>1 DEF TuanTu, DaBiet, GhiDangKy
<1>3. /\ ChuaCoMon(v.sv, v.ky, v.mon) /\ KhongTrung(v) /\ v.cu = Khong
      /\ v.mon = lopHoc[v.lop].mon /\ v.ky = lopHoc[v.lop].ky /\ v.lich = lopHoc[v.lop].lich
  BY <1>2 DEF BietVe, BuocDangKy
<1>4. m \in CuaSinhVien(v.sv) /\ dangKy[m].lop # Khong
  BY <1>1, HangSo DEF CuaToi, CuaSinhVien, TuanTu, IInv, TypeOK, DongDangKy
<1>5. ~(LopCua(m).ky = v.ky /\ LopCua(m).mon = v.mon)
  BY <1>3, <1>4 DEF ChuaCoMon
<1>6. LopCua(m).ky = v.ky => ~TrungNhau(v.lich, LopCua(m).lich)
  BY <1>3, <1>4, ThuocLich
<1>7. QED
  BY <1>1, <1>3, <1>5, <1>6 DEF HopNhau, LopCua

LEMMA DoiHop ==
  ASSUME TuanTu, NEW r \in YeuCau, GhiDoi(r), NEW m \in Ma, CuaToi(viec[r].sv, m),
         m # viec[r].ma
  PROVE  HopNhau(viec[r].lop, dangKy[m].lop)
<1>1. PICK v : v = viec[r]
  OBVIOUS
<1>2. BietVe("doiGhi", v)
  BY <1>1 DEF TuanTu, DaBiet, GhiDoi
<1>3. /\ KhongTrung(v) /\ v.ma \in Ma /\ CuaToi(v.sv, v.ma) /\ dangKy[v.ma].lop = v.cu
      /\ lopHoc[v.lop].mon = lopHoc[v.cu].mon /\ lopHoc[v.lop].ky = lopHoc[v.cu].ky
      /\ lopHoc[v.lop].ky = v.ky /\ v.lich = lopHoc[v.lop].lich
  BY <1>2 DEF BietVe, BuocDoi
<1>4. m \in CuaSinhVien(v.sv) /\ dangKy[m].sv = dangKy[v.ma].sv
  BY <1>1, <1>3 DEF CuaToi, CuaSinhVien
<1>5. ~(LopCua(m).mon = lopHoc[v.cu].mon /\ LopCua(m).ky = lopHoc[v.cu].ky)
  <2>1. dangKy[m] # Khong /\ dangKy[v.ma] # Khong /\ m # v.ma
    BY <1>1, <1>3 DEF CuaToi
  <2>2. ~(LopCua(m).mon = LopCua(v.ma).mon /\ LopCua(m).ky = LopCua(v.ma).ky)
    BY <1>3, <1>4, <2>1 DEF TuanTu, MotLopMotMon
  <2>3. LopCua(v.ma) = lopHoc[v.cu]
    BY <1>3 DEF LopCua
  <2>4. QED
    BY <2>2, <2>3
<1>6. LopCua(m).ky = v.ky => dangKy[m].lop # v.cu \/ LopCua(m).mon # lopHoc[v.cu].mon
  BY <1>3, <1>5
<1>7. dangKy[m].lop = v.cu => LopCua(m) = lopHoc[v.cu]
  BY DEF LopCua
<1>8. LopCua(m).ky = v.ky => ~TrungNhau(v.lich, LopCua(m).lich)
  BY <1>3, <1>4, <1>5, <1>7, ThuocLich
<1>9. QED
  BY <1>1, <1>3, <1>5, <1>8 DEF HopNhau, LopCua

\* A row comes, fitting those of its student that stay; others may go.
LEMMA ThemDong ==
  ASSUME MotLopMotMon, KhongTrungLich, UNCHANGED lopHoc, NEW sv, NEW l, NEW x \in Ma,
         dangKy'[x] = [sv |-> sv, lop |-> l],
         \A m \in Ma \ {x} : dangKy'[m] = dangKy[m] \/ dangKy'[m] = Khong,
         \A m \in Ma \ {x} : dangKy'[m] # Khong /\ CuaToi(sv, m) => HopNhau(l, dangKy[m].lop)
  PROVE  MotLopMotMon' /\ KhongTrungLich'
<1>1. ASSUME NEW m \in Ma, NEW n \in Ma, m # n, dangKy'[m] # Khong, dangKy'[n] # Khong,
             dangKy'[m].sv = dangKy'[n].sv
      PROVE  HopNhau(dangKy'[m].lop, dangKy'[n].lop)
  <2>1. CASE m = x
    <3>1. dangKy'[n] = dangKy[n] /\ CuaToi(sv, n) /\ dangKy'[m].lop = l
      BY <1>1, <2>1 DEF CuaToi
    <3>2. QED
      BY <1>1, <2>1, <3>1
  <2>2. CASE n = x
    <3>1. dangKy'[m] = dangKy[m] /\ CuaToi(sv, m) /\ dangKy'[n].lop = l
      BY <1>1, <2>2 DEF CuaToi
    <3>2. HopNhau(l, dangKy[m].lop)
      BY <1>1, <2>2, <3>1
    <3>3. QED
      BY <3>1, <3>2, DoiXung DEF HopNhau
  <2>3. CASE m # x /\ n # x
    <3>1. dangKy'[m] = dangKy[m] /\ dangKy'[n] = dangKy[n]
      BY <1>1, <2>3
    <3>2. QED
      BY <1>1, <3>1 DEF MotLopMotMon, KhongTrungLich, HopNhau, LopCua
  <2>4. QED
    BY <2>1, <2>2, <2>3
<1>2. QED
  BY <1>1 DEF MotLopMotMon, KhongTrungLich, HopNhau, LopCua

\* Rows that only go leave the rest as it was.
LEMMA BotDong ==
  ASSUME MotLopMotMon, KhongTrungLich, UNCHANGED lopHoc, ChiXoa
  PROVE  MotLopMotMon' /\ KhongTrungLich'
BY DEF ChiXoa, MotLopMotMon, KhongTrungLich, LopCua

\* The row that a commit inserts has a new id.
LEMMA MaMoi ==
  ASSUME TuanTu, NEW r \in YeuCau, GhiDangKy(r) \/ GhiDoi(r)
  PROVE  /\ maKe \in Ma /\ dangKy[maKe] = Khong
         /\ dangKy'[maKe] = [sv |-> viec[r].sv, lop |-> viec[r].lop]
         /\ [sv |-> viec[r].sv, lop |-> viec[r].lop] # Khong
         /\ GhiDangKy(r) => \A m \in Ma \ {maKe} : dangKy'[m] = dangKy[m]
         /\ GhiDoi(r) =>
              /\ viec[r].ma \in Ma \ {maKe} /\ dangKy'[viec[r].ma] = Khong
              /\ CuaToi(viec[r].sv, viec[r].ma)
              /\ \A m \in Ma \ {maKe, viec[r].ma} : dangKy'[m] = dangKy[m]
<1>1. IInv /\ Chen(r) /\ dangKy \in [Ma -> DongDangKy \cup {Khong}] /\ maKe \in Ma
  BY GhiLaChen DEF TuanTu, IInv, TypeOK, Chen
<1>2. dangKy[maKe] = Khong
  BY <1>1 DEF IInv, MaConMoi, Ma
<1>3. dangKy'[maKe] = [sv |-> viec[r].sv, lop |-> viec[r].lop]
  BY <1>1 DEF Chen
<1>4. [sv |-> viec[r].sv, lop |-> viec[r].lop] # Khong
  <2>1. viec[r].sv \in SinhVien /\ viec[r].lop \in Lop
    BY <1>1 DEF IInv, YeuCauDung, ViecDung, BuocThem, BuocDangKy, BuocDoi, GhiDangKy, GhiDoi
  <2>2. [sv |-> viec[r].sv, lop |-> viec[r].lop] \in DongDangKy
    BY <2>1 DEF DongDangKy
  <2>3. QED
    BY <2>2, HangSo
<1>5. GhiDangKy(r) => \A m \in Ma \ {maKe} : dangKy'[m] = dangKy[m]
  BY <1>1 DEF GhiDangKy
<1>6. ASSUME GhiDoi(r)
      PROVE  /\ viec[r].ma \in Ma \ {maKe} /\ dangKy'[viec[r].ma] = Khong
             /\ CuaToi(viec[r].sv, viec[r].ma)
             /\ \A m \in Ma \ {maKe, viec[r].ma} : dangKy'[m] = dangKy[m]
  <2>1. viec[r].ma \in Ma /\ CuaToi(viec[r].sv, viec[r].ma)
    BY <1>6 DEF GhiDoi, TuanTu, DaBiet, BietVe, BuocDoi
  <2>2. viec[r].ma # maKe
    BY <1>2, <2>1 DEF CuaToi
  <2>3. QED
    BY <1>1, <1>6, <2>1, <2>2 DEF GhiDoi
<1>7. QED
  BY <1>1, <1>2, <1>3, <1>4, <1>5, <1>6

LEMMA GhiTuan ==
  ASSUME TuanTu, NEW r \in YeuCau, GhiDangKy(r) \/ GhiDoi(r)
  PROVE  MoiSVMot' /\ DaBiet' /\ MotLopMotMon' /\ KhongTrungLich'
<1>1. r \in DangXuLy /\ TraLoi(r) /\ UNCHANGED lopHoc
  BY DEF GhiDangKy, GhiDoi, DangXuLy
<1>2. ASSUME NEW sv, sv # viec[r].sv PROVE GiuDong(sv)
  <2> SUFFICES ASSUME NEW m \in Ma, CuaToi(sv, m) \/ CuaToi(sv, m)' PROVE dangKy'[m] = dangKy[m]
    BY DEF GiuDong
  <2>1. m # maKe
    <3>1. dangKy[maKe] = Khong /\ dangKy'[maKe] = [sv |-> viec[r].sv, lop |-> viec[r].lop]
      BY MaMoi
    <3>2. dangKy'[maKe].sv = viec[r].sv
      BY <3>1
    <3>3. QED
      BY <1>2, <3>1, <3>2 DEF CuaToi
  <2>2. CASE GhiDangKy(r)
    BY <2>1, <2>2, MaMoi
  <2>3. CASE GhiDoi(r)
    <3>1. m # viec[r].ma
      BY <1>2, <2>3, MaMoi DEF CuaToi
    <3>2. QED
      BY <2>1, <2>3, <3>1, MaMoi
  <2>4. QED
    BY <2>2, <2>3
<1>3. \A m \in Ma \ {maKe} : dangKy'[m] = dangKy[m] \/ dangKy'[m] = Khong
  BY MaMoi
<1>4. ASSUME NEW m \in Ma \ {maKe}, dangKy'[m] # Khong, CuaToi(viec[r].sv, m)
      PROVE  HopNhau(viec[r].lop, dangKy[m].lop)
  <2>1. CASE GhiDangKy(r)
    BY <1>4, <2>1, DangKyHop
  <2>2. CASE GhiDoi(r)
    <3>1. m # viec[r].ma
      BY <1>4, <2>2, MaMoi
    <3>2. QED
      BY <1>4, <2>2, <3>1, DoiHop
  <2>3. QED
    BY <2>1, <2>2
<1>5. MotLopMotMon /\ KhongTrungLich
  BY DEF TuanTu
<1>6. QED
  <2>1. MotLopMotMon' /\ KhongTrungLich'
    BY <1>1, <1>3, <1>4, <1>5, MaMoi, ThemDong
  <2>2. QED
    BY <1>1, <1>2, <2>1, TraLoiTuan

LEMMA XoaTuan ==
  ASSUME TuanTu, NEW r \in YeuCau, GhiHuy(r)
  PROVE  /\ CuaToi(viec[r].sv, viec[r].ma) /\ viec[r].ma \in Ma
         /\ MoiSVMot' /\ DaBiet' /\ MotLopMotMon' /\ KhongTrungLich'
<1>1. r \in DangXuLy /\ TraLoi(r) /\ UNCHANGED lopHoc
  BY DEF GhiHuy, DangXuLy
<1>2. CuaToi(viec[r].sv, viec[r].ma) /\ viec[r].ma \in Ma
  BY DEF GhiHuy, TuanTu, DaBiet, BietVe, BuocHuy
<1>3. /\ dangKy'[viec[r].ma] = Khong
      /\ \A m \in Ma \ {viec[r].ma} : dangKy'[m] = dangKy[m]
  BY <1>2 DEF GhiHuy, TuanTu, IInv, TypeOK
<1>4. ASSUME NEW sv, sv # viec[r].sv PROVE GiuDong(sv)
  BY <1>2, <1>3, <1>4 DEF GiuDong, CuaToi
<1>5. MotLopMotMon' /\ KhongTrungLich'
  BY <1>1, <1>3, BotDong DEF ChiXoa, TuanTu
<1>6. QED
  BY <1>1, <1>2, <1>4, <1>5, TraLoiTuan

-----------------------------------------------------------------------------
(* One class of a subject, and no clash *)

LEMMA TuanTuGiu ==
  ASSUME MoiSVMotYeuCau, DoiCungKy, TuanTu, [Next]_vars
  PROVE  TuanTu'
<1>1. IInv'
  BY MoiBuocGiu DEF TuanTu
<1>2. MotLopMotMon /\ KhongTrungLich
  BY DEF TuanTu
<1>3. UNCHANGED bang => MotLopMotMon' /\ KhongTrungLich'
  BY <1>2, BotDong DEF ChiXoa, bang
<1>4. ASSUME NEW r \in YeuCau, BatDau(r) PROVE TuanTu'
  <2>1. PICK b, v : Doc(r, b, v) /\ \A q \in DangXuLy \ {r} : viec[q].sv # v.sv
    BY <1>4, BatDauBiet
  <2>2. MoiSVMot' /\ DaBiet'
    BY <2>1, DocTuan
  <2>3. QED
    BY <1>1, <1>3, <2>1, <2>2 DEF TuanTu, Doc
<1>5. ASSUME NEW r \in YeuCau, BuocCuaYeuCau(r) PROVE TuanTu'
  <2>1. CASE GhiDangKy(r) \/ GhiDoi(r)
    BY <1>1, <2>1, GhiTuan DEF TuanTu
  <2>2. CASE GhiHuy(r)
    BY <1>1, <2>2, XoaTuan DEF TuanTu
  <2>3. CASE ~TraLoi(r)
    <3>1. PICK b, v : r \in DangXuLy /\ Doc(r, b, v) /\ v.sv = viec[r].sv
      BY <1>5, <2>3, DocBiet
    <3>2. \A q \in DangXuLy \ {r} : viec[q].sv # v.sv
      BY <3>1 DEF TuanTu, MoiSVMot
    <3>3. MoiSVMot' /\ DaBiet'
      BY <3>1, <3>2, DocTuan
    <3>4. QED
      BY <1>1, <1>3, <3>1, <3>3 DEF TuanTu, Doc
  <2>4. CASE TraLoi(r) /\ ~GhiDangKy(r) /\ ~GhiDoi(r) /\ ~GhiHuy(r)
    <3>1. r \in DangXuLy /\ UNCHANGED bang
      BY <1>5, <2>4 DEF BuocCuaYeuCau, DocDot, DocMon, DocLichSu, DocLich, GhiDangKyLoi,
         DocDotHuy, GhiHuyLoi, DocLopMoi, DocDotDoi, DocLichDoi, GhiDoiLoi, DangXuLy, bang
    <3>2. MoiSVMot' /\ DaBiet'
      BY <2>4, <3>1, BangNguyen, TraLoiTuan
    <3>3. QED
      BY <1>1, <1>3, <3>1, <3>2 DEF TuanTu
  <2>5. QED
    BY <2>1, <2>2, <2>3, <2>4
<1>6. CASE TroiGio \/ UNCHANGED vars
  <2>1. UNCHANGED <<bang, buoc, viec>>
    BY <1>6 DEF TroiGio, vars, bang
  <2>2. MoiSVMot'
    BY <2>1 DEF TuanTu, MoiSVMot, DangXuLy
  <2>3. ASSUME NEW q \in YeuCau PROVE BietVe(buoc[q], viec[q])'
    <3>1. PICK c, w : c = buoc[q] /\ w = viec[q]
      OBVIOUS
    <3>2. BietVe(c, w)
      BY <3>1 DEF TuanTu, DaBiet
    <3>3. BietVe(c, w)'
      BY <2>1, <3>2, BangNguyen, VanBiet
    <3>4. QED
      BY <2>1, <3>1, <3>3
  <2>4. QED
    BY <1>1, <1>3, <2>1, <2>2, <2>3 DEF TuanTu, DaBiet
<1>7. QED
  BY <1>4, <1>5, <1>6 DEF Next

\* The tables at the start hold no two classes that do not go together.
LEMMA TuanTuDau == Init /\ MotLopMotMon /\ KhongTrungLich => TuanTu
<1> SUFFICES ASSUME Init, MotLopMotMon, KhongTrungLich PROVE TuanTu
  OBVIOUS
<1>1. \A r \in YeuCau : buoc[r] = "nghi"
  BY DEF Init
<1>2. MoiSVMot /\ DaBiet
  BY <1>1, NghiBiet DEF MoiSVMot, DangXuLy, DaBiet
<1>3. QED
  BY <1>2, KhoiDau DEF TuanTu

\* While no student has two requests in flight and clients swap within a term, a
\* student who had one class of each subject keeps to one, whatever the requests
\* of the others do between the check of DocMon and the commit.
THEOREM GiuMotLopMotMon ==
  MoiSVMotYeuCau /\ DoiCungKy =>
    (Spec /\ MotLopMotMon /\ KhongTrungLich => []MotLopMotMon)
<1> SUFFICES ASSUME MoiSVMotYeuCau, DoiCungKy
             PROVE  Spec /\ MotLopMotMon /\ KhongTrungLich => []MotLopMotMon
  OBVIOUS
<1>1. TuanTu /\ [Next]_vars => TuanTu'
  BY TuanTuGiu
<1>2. TuanTu => MotLopMotMon
  BY DEF TuanTu
<1>3. QED
  BY <1>1, <1>2, TuanTuDau, PTL DEF Spec

\* Nor does a student come to have two classes of a term that meet at one time.
THEOREM GiuKhongTrungLich ==
  MoiSVMotYeuCau /\ DoiCungKy =>
    (Spec /\ MotLopMotMon /\ KhongTrungLich => []KhongTrungLich)
<1> SUFFICES ASSUME MoiSVMotYeuCau, DoiCungKy
             PROVE  Spec /\ MotLopMotMon /\ KhongTrungLich => []KhongTrungLich
  OBVIOUS
<1>1. TuanTu /\ [Next]_vars => TuanTu'
  BY TuanTuGiu
<1>2. TuanTu => KhongTrungLich
  BY DEF TuanTu
<1>3. QED
  BY <1>1, <1>2, TuanTuDau, PTL DEF Spec

-----------------------------------------------------------------------------
(* The book *)

\* The pairs of student and class in the table.
SoHienTai == {<<dangKy[m].sv, dangKy[m].lop>> : m \in {n \in Ma : dangKy[n] # Khong}}

LEMMA TrongSo ==
  ASSUME dangKy \in [Ma -> DongDangKy \cup {Khong}], NEW sv, NEW l
  PROVE  <<sv, l>> \in SoHienTai <=> \E m \in Ma : dangKy[m] # Khong /\ dangKy[m] = [sv |-> sv, lop |-> l]
<1>1. \A m \in Ma : dangKy[m] # Khong =>
        (<<dangKy[m].sv, dangKy[m].lop>> = <<sv, l>> <=> dangKy[m] = [sv |-> sv, lop |-> l])
  BY DEF DongDangKy
<1>2. QED
  BY <1>1 DEF SoHienTai

\* The rules are the same ones.
LEMMA CungQuyTac == ASSUME NEW A, NEW B PROVE So!TrungNhau(A, B) <=> TrungNhau(A, B)
BY DEF So!TrungNhau, TrungNhau, So!BuoiTrungNhau, BuoiTrungNhau

LEMMA CungDem ==
  ASSUME NEW l, NEW S
  PROVE  So!SoNguoi(l, S) = Cardinality({sv \in SinhVien : <<sv, l>> \in S})
<1>1. PICK T : T = {sv \in SinhVien : <<sv, l>> \in S}
  OBVIOUS
<1>2. So!SoNguoi(l, S) = So!Tap!Cardinality(T)
  BY <1>1 DEF So!SoNguoi
<1>3. So!Tap!Cardinality(T) = Cardinality(T)
  BY DEF So!Tap!Cardinality, Cardinality
<1>4. QED
  BY <1>1, <1>2, <1>3

\* A class has no more students in the book than rows in the table.
LEMMA SiSoTrongSo ==
  ASSUME dangKy \in [Ma -> DongDangKy \cup {Khong}], NEW l, NEW S \in SUBSET SoHienTai
  PROVE  LET T == {sv \in SinhVien : <<sv, l>> \in S}
         IN  Cardinality(T) \in Nat /\ Cardinality(T) <= SiSo(l) /\ SiSo(l) \in Nat
<1> DEFINE T == {sv \in SinhVien : <<sv, l>> \in SoHienTai}
           U == {sv \in SinhVien : <<sv, l>> \in S}
           f == [m \in TrongLop(l) |-> dangKy[m].sv]
<1>1. TrongLop(l) \in SUBSET Ma /\ IsFiniteSet(TrongLop(l)) /\ SiSo(l) \in Nat
  <2>1. TrongLop(l) \in SUBSET Ma
    BY DEF TrongLop
  <2>2. QED
    BY <2>1, HuuHan DEF SiSo
<1>2. f \in [TrongLop(l) -> T]
  <2> SUFFICES ASSUME NEW m \in TrongLop(l) PROVE dangKy[m].sv \in T
    OBVIOUS
  <2>1. m \in Ma /\ dangKy[m] # Khong /\ dangKy[m].lop = l /\ dangKy[m] \in DongDangKy
    BY DEF TrongLop
  <2>2. <<dangKy[m].sv, l>> \in SoHienTai /\ dangKy[m].sv \in SinhVien
    BY <2>1 DEF SoHienTai, DongDangKy
  <2>3. QED
    BY <2>2
<1>3. \A sv \in T : \E m \in TrongLop(l) : f[m] = sv
  <2> SUFFICES ASSUME NEW sv \in T PROVE \E m \in TrongLop(l) : f[m] = sv
    OBVIOUS
  <2>1. PICK m \in Ma : dangKy[m] # Khong /\ dangKy[m] = [sv |-> sv, lop |-> l]
    BY TrongSo
  <2>2. m \in TrongLop(l) /\ dangKy[m].sv = sv
    BY <2>1 DEF TrongLop
  <2>3. QED
    BY <2>2
<1>4. f \in Surjection(TrongLop(l), T)
  BY <1>2, <1>3 DEF Surjection
<1>5. IsFiniteSet(T) /\ Cardinality(T) <= SiSo(l)
  <2> HIDE DEF f, T
  <2>1. QED
    BY <1>1, <1>4, FS_Surjection DEF SiSo
<1>6. U \subseteq T
  OBVIOUS
<1>7. Cardinality(U) <= Cardinality(T) /\ Cardinality(U) \in Nat /\ Cardinality(T) \in Nat
  <2> HIDE DEF T, U
  <2>1. QED
    BY <1>5, <1>6, ItDi
<1>8. QED
  BY <1>1, <1>5, <1>7

\* A request that writes saw a free place, which is still promised to it.
LEMMA ConChoKhiGhi ==
  ASSUME IInv, DemCho, NEW r \in YeuCau, GhiDangKy(r) \/ GhiDoi(r)
  PROVE  /\ viec[r].lop \in Lop /\ LopDau[viec[r].lop] # Khong
         /\ SiSo(viec[r].lop) < LopDau[viec[r].lop].siSo + (Cardinality(YeuCau) - 1)
         /\ LopDau[viec[r].lop].siSo \in Nat /\ Cardinality(YeuCau) \in Nat
<1>1. PICK l : l = viec[r].lop
  OBVIOUS
<1>2. l \in Lop /\ lopHoc[l] # Khong /\ lopHoc = LopDau /\ r \in GiuCho(l)
  BY <1>1 DEF GhiDangKy, GhiDoi, DoiDuoc, ChenDuoc, IInv, YeuCauDung, ViecDung, BuocThem,
     BuocDangKy, BuocDoi, BuocConCho, BangYen, GiuCho
<1>3. GiuCho(l) \in SUBSET YeuCau /\ TrongLop(l) \in SUBSET Ma
  BY DEF GiuCho, TrongLop
<1>4. /\ IsFiniteSet(GiuCho(l)) /\ Cardinality(GiuCho(l)) \in Nat /\ SiSo(l) \in Nat
      /\ Cardinality(YeuCau) \in Nat
  BY <1>3, HuuHan DEF SiSo
<1>5. Cardinality(GiuCho(l)) >= 1
  BY <1>2, <1>4, FS_EmptySet
<1>6. lopHoc[l].siSo \in Nat
  BY <1>2 DEF IInv, TypeOK, DongLop
<1>7. SiSo(l) + Cardinality(GiuCho(l)) <= lopHoc[l].siSo + Cardinality(YeuCau) - 1
  BY <1>2 DEF DemCho
<1>8. QED
  BY <1>1, <1>2, <1>4, <1>5, <1>6, <1>7

\* What is written suits the student, by the book without the pair that goes.
LEMMA HopVoiSo ==
  ASSUME TuanTu, DemCho, NEW r \in YeuCau, NEW S \in SUBSET SoHienTai,
         \/ GhiDangKy(r)
         \/ GhiDoi(r) /\ <<viec[r].sv, viec[r].cu>> \notin S
  PROVE  So!HopVoi(viec[r].sv, viec[r].lop, S)
<1>0. /\ lopHoc = LopDau /\ dangKy \in [Ma -> DongDangKy \cup {Khong}] /\ IInv
      /\ GhiDoi(r) => dangKy[viec[r].ma].lop = viec[r].cu /\ CuaToi(viec[r].sv, viec[r].ma)
  BY DEF TuanTu, IInv, BangYen, TypeOK, DaBiet, BietVe, BuocDoi, GhiDoi
<1>1. PICK sv, l : sv = viec[r].sv /\ l = viec[r].lop
  OBVIOUS
<1>2. ASSUME NEW k \in So!CuaSV(sv, S)
      PROVE  LopDau[k].ky = LopDau[l].ky =>
               LopDau[k].mon # LopDau[l].mon /\ ~So!TrungNhau(LopDau[l].lich, LopDau[k].lich)
  <2>1. <<sv, k>> \in S /\ <<sv, k>> \in SoHienTai
    BY DEF So!CuaSV
  <2>2. PICK m \in Ma : dangKy[m] # Khong /\ dangKy[m] = [sv |-> sv, lop |-> k]
    BY <1>0, <2>1, TrongSo
  <2>3. CuaToi(sv, m) /\ dangKy[m].lop = k
    BY <2>2 DEF CuaToi
  <2>4. GhiDoi(r) => m # viec[r].ma \/ <<viec[r].sv, viec[r].cu>> = <<sv, k>>
    BY <1>0, <1>1, <2>3
  <2>5. HopNhau(l, k)
    <3>1. CASE GhiDangKy(r)
      BY <1>1, <2>3, <3>1, DangKyHop
    <3>2. CASE GhiDoi(r) /\ <<viec[r].sv, viec[r].cu>> \notin S
      BY <1>1, <2>1, <2>3, <2>4, <3>2, DoiHop
    <3>3. QED
      BY <3>1, <3>2
  <2>6. QED
    BY <1>0, <2>5, CungQuyTac DEF HopNhau
<1>3. Cardinality({sv2 \in SinhVien : <<sv2, l>> \in S}) < LopDau[l].siSo + (Cardinality(YeuCau) - 1)
  <2> DEFINE T == {sv2 \in SinhVien : <<sv2, l>> \in S}
  <2>1. Cardinality(T) \in Nat /\ Cardinality(T) <= SiSo(l) /\ SiSo(l) \in Nat
    BY <1>0, SiSoTrongSo
  <2>2. /\ SiSo(l) < LopDau[l].siSo + (Cardinality(YeuCau) - 1)
        /\ LopDau[l].siSo \in Nat /\ Cardinality(YeuCau) \in Nat
    BY <1>0, <1>1, ConChoKhiGhi
  <2> HIDE DEF T
  <2>3. Cardinality(T) < LopDau[l].siSo + (Cardinality(YeuCau) - 1)
    BY <2>1, <2>2
  <2>4. QED
    BY <2>3 DEF T
<1>4. So!HopVoi(sv, l, S)
  BY <1>2, <1>3, CungDem DEF So!HopVoi
<1>5. QED
  BY <1>1, <1>4

\* The commit of DangKy is an entry.
LEMMA DangKyLaVao ==
  ASSUME TuanTu, DemCho, NEW r \in YeuCau, GhiDangKy(r)
  PROVE  So!Next
<1>1. PICK sv, l : sv = viec[r].sv /\ l = viec[r].lop
  OBVIOUS
<1>2. /\ lopHoc = LopDau /\ dangKy \in [Ma -> DongDangKy \cup {Khong}] /\ IInv
      /\ sv \in SinhVien /\ l \in Lop /\ LopDau[l] # Khong
  BY <1>1, ConChoKhiGhi DEF TuanTu, IInv, BangYen, TypeOK, YeuCauDung, ViecDung, GhiDangKy
<1>3. /\ maKe \in Ma /\ dangKy[maKe] = Khong /\ dangKy'[maKe] = [sv |-> sv, lop |-> l]
      /\ [sv |-> sv, lop |-> l] # Khong
      /\ \A m \in Ma \ {maKe} : dangKy'[m] = dangKy[m]
  BY <1>1, MaMoi
<1>4. <<sv, l>> \notin SoHienTai
  <2>1. \A m \in Ma : ~(dangKy[m] # Khong /\ dangKy[m] = [sv |-> sv, lop |-> l])
    BY <1>1 DEF GhiDangKy, ChenDuoc, TrongLop
  <2>2. QED
    BY <1>2, <2>1, TrongSo
<1>5. SoHienTai' = SoHienTai \cup {<<sv, l>>}
  <2>1. \A m \in Ma \ {maKe} : <<dangKy'[m].sv, dangKy'[m].lop>> = <<dangKy[m].sv, dangKy[m].lop>>
    BY <1>3
  <2>2. <<dangKy'[maKe].sv, dangKy'[maKe].lop>> = <<sv, l>> /\ dangKy'[maKe] # Khong
    BY <1>3
  <2>3. QED
    BY <1>3, <2>1, <2>2 DEF SoHienTai
<1>6. So!HopVoi(sv, l, SoHienTai)
  BY <1>1, HopVoiSo
<1>7. So!Vao(sv, l)
  BY <1>2, <1>4, <1>5, <1>6 DEF So!Vao, SoHienTai
<1>8. QED
  BY <1>2, <1>7 DEF So!Next

LEMMA MotDong ==
  ASSUME KhongDangKyTrung, dangKy \in [Ma -> DongDangKy \cup {Khong}], NEW m \in Ma,
         NEW sv, NEW l, dangKy[m] # Khong, dangKy[m] = [sv |-> sv, lop |-> l],
         NEW n \in Ma \ {m}, dangKy[n] # Khong
  PROVE  <<dangKy[n].sv, dangKy[n].lop>> # <<sv, l>>
<1> SUFFICES ASSUME dangKy[n].sv = sv, dangKy[n].lop = l PROVE FALSE
  OBVIOUS
<1>1. dangKy[n] = [sv |-> sv, lop |-> l]
  BY DEF DongDangKy
<1>2. QED
  BY <1>1 DEF KhongDangKyTrung

\* The commit of HuyDangKy is a withdrawal: no other row has the same pair.
LEMMA HuyLaRa ==
  ASSUME TuanTu, KhongDangKyTrung, NEW r \in YeuCau, GhiHuy(r)
  PROVE  So!Next
<1>1. PICK m \in Ma : m = viec[r].ma
  BY XoaTuan
<1>2. /\ CuaToi(viec[r].sv, m) /\ dangKy \in [Ma -> DongDangKy \cup {Khong}]
      /\ dangKy' = [dangKy EXCEPT ![m] = Khong]
  BY <1>1, XoaTuan DEF GhiHuy, TuanTu, IInv, TypeOK
<1>3. PICK sv \in SinhVien, l \in Lop : dangKy[m] # Khong /\ dangKy[m] = [sv |-> sv, lop |-> l]
  BY <1>2 DEF CuaToi, DongDangKy
<1>4. /\ dangKy'[m] = Khong /\ \A n \in Ma \ {m} : dangKy'[n] = dangKy[n]
      /\ dangKy' \in [Ma -> DongDangKy \cup {Khong}]
  BY <1>2
<1>5. <<sv, l>> \in SoHienTai
  BY <1>2, <1>3, TrongSo
<1>6. \A n \in Ma \ {m} : dangKy[n] # Khong => <<dangKy[n].sv, dangKy[n].lop>> # <<sv, l>>
  BY <1>2, <1>3, MotDong
<1>7. SoHienTai' = SoHienTai \ {<<sv, l>>}
  <2>1. <<dangKy[m].sv, dangKy[m].lop>> = <<sv, l>>
    BY <1>3
  <2>2. QED
    BY <1>3, <1>4, <1>6, <2>1 DEF SoHienTai
<1>8. So!Ra(sv, l)
  BY <1>5, <1>7 DEF So!Ra, SoHienTai
<1>9. QED
  BY <1>3, <1>8 DEF So!Next

\* The commit of DoiLop is one change of class.
LEMMA DoiLaDoi ==
  ASSUME TuanTu, DemCho, KhongDangKyTrung, NEW r \in YeuCau, GhiDoi(r)
  PROVE  So!Next
<1>1. PICK sv, l, m, k : sv = viec[r].sv /\ l = viec[r].lop /\ m = viec[r].ma /\ k = viec[r].cu
  OBVIOUS
<1>2. /\ lopHoc = LopDau /\ dangKy \in [Ma -> DongDangKy \cup {Khong}] /\ IInv
      /\ sv \in SinhVien /\ l \in Lop /\ LopDau[l] # Khong
  BY <1>1, ConChoKhiGhi DEF TuanTu, IInv, BangYen, TypeOK, YeuCauDung, ViecDung, GhiDoi
<1>3. /\ maKe \in Ma /\ dangKy[maKe] = Khong /\ dangKy'[maKe] = [sv |-> sv, lop |-> l]
      /\ [sv |-> sv, lop |-> l] # Khong
      /\ m \in Ma \ {maKe} /\ dangKy'[m] = Khong /\ CuaToi(sv, m)
      /\ \A n \in Ma \ {maKe, m} : dangKy'[n] = dangKy[n]
  BY <1>1, MaMoi
<1>4. dangKy[m].lop = k /\ lopHoc[k].mon = viec[r].mon /\ lopHoc[l].mon = viec[r].mon
  BY <1>1 DEF GhiDoi, TuanTu, DaBiet, BietVe, BuocDoi
<1>5. dangKy[m] # Khong /\ dangKy[m] = [sv |-> sv, lop |-> k] /\ k \in Lop
  BY <1>2, <1>3, <1>4 DEF CuaToi, DongDangKy
<1>6. <<sv, l>> \notin SoHienTai
  <2>1. \A n \in Ma : ~(dangKy[n] # Khong /\ dangKy[n] = [sv |-> sv, lop |-> l])
    BY <1>1 DEF GhiDoi, DoiDuoc, ChenDuoc, TrongLop
  <2>2. QED
    BY <1>2, <2>1, TrongSo
<1>7. <<sv, k>> \in SoHienTai
  BY <1>2, <1>3, <1>5, TrongSo
<1>8. SoHienTai' = (SoHienTai \ {<<sv, k>>}) \cup {<<sv, l>>}
  <2>1. \A n \in Ma \ {m} : dangKy[n] # Khong => <<dangKy[n].sv, dangKy[n].lop>> # <<sv, k>>
    BY <1>2, <1>3, <1>5, MotDong
  <2>2. \A n \in Ma \ {maKe, m} : <<dangKy'[n].sv, dangKy'[n].lop>> = <<dangKy[n].sv, dangKy[n].lop>>
    BY <1>3
  <2>3. /\ <<dangKy'[maKe].sv, dangKy'[maKe].lop>> = <<sv, l>> /\ dangKy'[maKe] # Khong
        /\ <<dangKy[m].sv, dangKy[m].lop>> = <<sv, k>>
    BY <1>3, <1>5
  <2>4. ASSUME NEW x \in SoHienTai' PROVE x \in (SoHienTai \ {<<sv, k>>}) \cup {<<sv, l>>}
    <3>1. PICK n \in Ma : dangKy'[n] # Khong /\ x = <<dangKy'[n].sv, dangKy'[n].lop>>
      BY DEF SoHienTai
    <3>2. CASE n = maKe
      BY <2>3, <3>1, <3>2
    <3>3. CASE n # maKe
      <4>1. n \in Ma \ {maKe, m} /\ dangKy[n] # Khong /\ x = <<dangKy[n].sv, dangKy[n].lop>>
        BY <1>3, <2>2, <3>1, <3>3
      <4>2. QED
        BY <2>1, <4>1 DEF SoHienTai
    <3>4. QED
      BY <3>2, <3>3
  <2>5. ASSUME NEW x \in SoHienTai \ {<<sv, k>>} PROVE x \in SoHienTai'
    <3>1. PICK n \in Ma : dangKy[n] # Khong /\ x = <<dangKy[n].sv, dangKy[n].lop>>
      BY DEF SoHienTai
    <3>2. n \in Ma \ {maKe, m}
      BY <1>3, <2>3, <2>5, <3>1
    <3>3. dangKy'[n] # Khong /\ x = <<dangKy'[n].sv, dangKy'[n].lop>>
      BY <1>3, <3>1, <3>2
    <3>4. QED
      BY <3>2, <3>3 DEF SoHienTai
  <2>6. <<sv, l>> \in SoHienTai'
    BY <1>3, <2>3 DEF SoHienTai
  <2>7. QED
    BY <2>4, <2>5, <2>6
<1>9. So!HopVoi(sv, l, SoHienTai \ {<<sv, k>>})
  <2>1. PICK S \in SUBSET SoHienTai : S = SoHienTai \ {<<sv, k>>}
    OBVIOUS
  <2>2. So!HopVoi(sv, l, S)
    BY <1>1, <2>1, HopVoiSo
  <2>3. QED
    BY <2>1, <2>2
<1>10. So!Doi(sv, k, l)
  BY <1>2, <1>4, <1>6, <1>7, <1>8, <1>9 DEF So!Doi, SoHienTai
<1>11. QED
  BY <1>2, <1>5, <1>10 DEF So!Next

\* While no student has two requests in flight and clients swap within a term,
\* what students see is a book in which each entry, withdrawal and change of
\* class happens at once and suits the student at that moment.
THEOREM LaSoDangKy ==
  MoiSVMotYeuCau /\ DoiCungKy =>
    (Spec /\ MotLopMotMon /\ KhongTrungLich => ThucThiSo)
<1> SUFFICES ASSUME MoiSVMotYeuCau, DoiCungKy
             PROVE  Spec /\ MotLopMotMon /\ KhongTrungLich => ThucThiSo
  OBVIOUS
<1>1. Init => So!Init
  BY DEF Init, So!Init
<1>2. TuanTu /\ DemCho /\ KhongDangKyTrung /\ [Next]_vars => So!Next \/ UNCHANGED SoHienTai
  <2> SUFFICES ASSUME TuanTu, DemCho, KhongDangKyTrung, [Next]_vars
               PROVE  So!Next \/ UNCHANGED SoHienTai
    OBVIOUS
  <2>1. CASE \E r \in YeuCau : GhiDangKy(r) \/ GhiHuy(r) \/ GhiDoi(r)
    BY <2>1, DangKyLaVao, HuyLaRa, DoiLaDoi
  <2>2. CASE ~\E r \in YeuCau : GhiDangKy(r) \/ GhiHuy(r) \/ GhiDoi(r)
    <3>1. dangKy' = dangKy
      <4>1. CASE TroiGio \/ UNCHANGED vars
        BY <4>1 DEF TroiGio, vars, bang
      <4>2. ASSUME NEW r \in YeuCau, BatDau(r) PROVE dangKy' = dangKy
        BY <4>2 DEF BatDau, DocLop, DocDangKyHuy, DocDangKyCu, bang
      <4>3. ASSUME NEW r \in YeuCau, BuocCuaYeuCau(r) PROVE dangKy' = dangKy
        <5>1. CASE DocDot(r) \/ DocMon(r) \/ DocLichSu(r) \/ DocLich(r) \/ GhiDangKyLoi(r)
          BY <5>1 DEF DocDot, DocMon, DocLichSu, DocLich, GhiDangKyLoi, bang
        <5>2. CASE DocDotHuy(r) \/ GhiHuyLoi(r) \/ GhiDoiLoi(r)
          BY <5>2 DEF DocDotHuy, GhiHuyLoi, GhiDoiLoi, bang
        <5>3. CASE DocLopMoi(r) \/ DocDotDoi(r) \/ DocLichDoi(r)
          BY <5>3 DEF DocLopMoi, DocDotDoi, DocLichDoi, bang
        <5>4. QED
          BY <2>2, <4>3, <5>1, <5>2, <5>3 DEF BuocCuaYeuCau
      <4>4. QED
        BY <4>1, <4>2, <4>3 DEF Next
    <3>2. QED
      BY <3>1 DEF SoHienTai
  <2>3. QED
    BY <2>1, <2>2
<1>3. TuanTu /\ [Next]_vars => TuanTu'
  BY TuanTuGiu
<1>4. TuanTu /\ DemCho /\ KhongDangKyTrung /\ [Next]_vars =>
        [So!Next]_{<<dangKy[m].sv, dangKy[m].lop>> : m \in {n \in Ma : dangKy[n] # Khong}}
  BY <1>2 DEF SoHienTai
<1>5. QED
  BY <1>1, <1>3, <1>4, TuanTuDau, DemChoLuonDung, KhongBaoGioTrung, PTL DEF Spec, ThucThiSo, So!Spec
-----------------------------------------------------------------------------
(* Prerequisites stay passed *)

DatTienQuyet(sv, mon) ==
  LET z  == ZTotNhat(diem, sv)
      tq == MonHoc[mon].tienQuyet
  IN  tq # Khong => z[tq] # Khong /\ z[tq] >= DiemDat

\* The marks, and the registrations they belong to, are those of the start.
DiemYen ==
  diem = DiemDau /\ \A m \in Ma : DiemDau[m] # Khong => dangKy[m] = DangKyDau[m]

\* A request at step b with v in its locals knows its subject; before a deletion
\* it has found a round of the term of the row it deletes, if that is still there.
NhoMon(b, v) ==
  /\ b \in BuocDangKy => v.mon = LopDau[v.lop].mon
  /\ b \in {"dkLich", "dkGhi"} => DatTienQuyet(v.sv, v.mon)
  /\ b \in BuocHuy \cup BuocDoi => v.ma < maKe
  /\ b \in BuocHuy \cup BuocDoi /\ dangKy[v.ma] # Khong =>
       dangKy[v.ma].sv = v.sv /\ LopDau[dangKy[v.ma].lop].ky = v.ky
  /\ b \in BuocDoi /\ dangKy[v.ma] # Khong => LopDau[dangKy[v.ma].lop].mon = v.mon
  /\ b \in BuocDoi \ {"doiLop"} => LopDau[v.lop].mon = v.mon
  /\ b \in {"huyGhi", "doiLich", "doiGhi"} => \E d \in DotDau : d.ky = v.ky

YeuCauNhoMon == \A r \in YeuCau : NhoMon(buoc[r], viec[r])

GiuTienQuyet == IInv /\ DiemYen /\ YeuCauNhoMon /\ TienQuyetConDat

LEMMA DiemYenGiuZ ==
  ASSUME IInv, IInv', DiemYen, DiemYen', NEW sv
  PROVE  ZTotNhat(diem, sv)' = ZTotNhat(diem, sv)
<1> DEFINE Co(mon) == {n \in CuaSinhVien(sv) : LopCua(n).mon = mon /\ diem[n] # Khong}
<1>1. diem' = diem /\ lopHoc' = lopHoc
  BY DEF DiemYen, IInv, BangYen
<1>2. \A n \in Ma : diem[n] # Khong => dangKy'[n] = dangKy[n]
  BY DEF DiemYen
<1>3. \A mon : Co(mon)' = Co(mon)
  BY <1>1, <1>2 DEF CuaSinhVien, LopCua
<1>4. \A mon : {diem[m].z : m \in Co(mon)}' = {diem[m].z : m \in Co(mon)}
  BY <1>1, <1>3
<1>5. QED
  BY <1>4 DEF ZTotNhat
LEMMA DatGiu ==
  ASSUME IInv, IInv', DiemYen, DiemYen', NEW sv, NEW mon
  PROVE  DatTienQuyet(sv, mon)' <=> DatTienQuyet(sv, mon)
BY DiemYenGiuZ DEF DatTienQuyet

LEMMA TienQuyetLa ==
  LET moiLop == \A m \in Ma : dangKy[m] # Khong =>
                  DatTienQuyet(dangKy[m].sv, LopDau[dangKy[m].lop].mon)
  IN  /\ IInv => (TienQuyetConDat <=> moiLop)
      /\ IInv' => (TienQuyetConDat' <=> moiLop')
BY DEF TienQuyetConDat, DatTienQuyet, LopCua, IInv, BangYen

\* What a request remembers stays so while rows only go and ids only grow.
LEMMA NhoGiu ==
  ASSUME IInv, IInv', DiemYen, DiemYen', NEW b, NEW v, NhoMon(b, v),
         b \in BuocHuy \cup BuocDoi =>
           (v.ma < maKe => v.ma < maKe') /\ dangKy'[v.ma] \in {dangKy[v.ma], Khong}
  PROVE  NhoMon(b, v)'
<1>1. b \in {"dkLich", "dkGhi"} => DatTienQuyet(v.sv, v.mon)'
  BY DatGiu DEF NhoMon
<1>2. QED
  BY <1>1 DEF NhoMon

LEMMA NghiKhongNho == ASSUME NEW v PROVE NhoMon("nghi", v) /\ NhoMon("nghi", v)'
BY DEF NhoMon, BuocDangKy, BuocHuy, BuocDoi

\* Slot r goes on to step b with v in its locals and changes no table.
DocNho(r, b, v) ==
  /\ NhoMon(b, v) /\ UNCHANGED bang
  /\ buoc' = [buoc EXCEPT ![r] = b] /\ viec' = [viec EXCEPT ![r] = v]

LEMMA BatDauNho ==
  ASSUME GiuTienQuyet, NEW r \in YeuCau, BatDau(r)
  PROVE  \E b, v : DocNho(r, b, v)
<1>0. lopHoc = LopDau /\ \A m \in Ma : dangKy[m] # Khong => m < maKe
  BY HangSo DEF GiuTienQuyet, IInv, BangYen, MaConMoi, TypeOK, Ma
<1>1. PICK sv \in SinhVien :
        \/ \E l \in Lop : DocLop(r, sv, l)
        \/ \E m \in Ma : DocDangKyHuy(r, sv, m)
        \/ \E m \in Ma, l \in Lop : DocDangKyCu(r, sv, m, l)
  BY DEF BatDau
<1>2. ASSUME NEW l \in Lop, DocLop(r, sv, l) PROVE \E b, v : DocNho(r, b, v)
  <2>1. PICK v : v = [KhongViec EXCEPT !.sv = sv, !.lop = l, !.mon = lopHoc[l].mon,
                         !.ky = lopHoc[l].ky, !.lich = lopHoc[l].lich,
                         !.conCho = SiSo(l) < lopHoc[l].siSo, !.luc = gio]
    OBVIOUS
  <2>2. v.lop = l /\ v.mon = lopHoc[l].mon
    BY <2>1 DEF KhongViec
  <2>3. NhoMon("dkDot", v)
    BY <1>0, <2>2 DEF NhoMon, BuocDangKy, BuocHuy, BuocDoi
  <2>4. DocNho(r, "dkDot", v)
    BY <1>2, <2>1, <2>3 DEF DocLop, DocNho, bang
  <2>5. QED
    BY <2>4
<1>3. ASSUME NEW m \in Ma, DocDangKyHuy(r, sv, m) PROVE \E b, v : DocNho(r, b, v)
  <2>1. PICK v : v = [KhongViec EXCEPT !.sv = sv, !.ma = m, !.ky = LopCua(m).ky,
                                       !.coDiem = diem[m] # Khong, !.luc = gio]
    OBVIOUS
  <2>2. v.sv = sv /\ v.ma = m /\ v.ky = LopCua(m).ky
    BY <2>1 DEF KhongViec
  <2>3. NhoMon("huyDot", v)
    BY <1>0, <1>3, <2>2 DEF DocDangKyHuy, CuaToi, LopCua, NhoMon, BuocDangKy, BuocHuy, BuocDoi
  <2>4. DocNho(r, "huyDot", v)
    BY <1>3, <2>1, <2>3 DEF DocDangKyHuy, DocNho, bang
  <2>5. QED
    BY <2>4
<1>4. ASSUME NEW m \in Ma, NEW l \in Lop, DocDangKyCu(r, sv, m, l)
      PROVE  \E b, v : DocNho(r, b, v)
  <2>1. PICK v : v = [KhongViec EXCEPT !.sv = sv, !.ma = m, !.cu = dangKy[m].lop, !.lop = l,
                         !.mon = LopCua(m).mon, !.ky = LopCua(m).ky,
                         !.coDiem = diem[m] # Khong]
    OBVIOUS
  <2>2. v.sv = sv /\ v.ma = m /\ v.mon = LopCua(m).mon /\ v.ky = LopCua(m).ky
    BY <2>1 DEF KhongViec
  <2>3. NhoMon("doiLop", v)
    BY <1>0, <1>4, <2>2 DEF DocDangKyCu, CuaToi, LopCua, NhoMon, BuocDangKy, BuocHuy, BuocDoi
  <2>4. DocNho(r, "doiLop", v)
    BY <1>4, <2>1, <2>3 DEF DocDangKyCu, DocNho, bang
  <2>5. QED
    BY <2>4
<1>5. QED
  BY <1>1, <1>2, <1>3, <1>4

\* A round found open, for registration or for withdrawal, is of that term.
LEMMA DotCuaKy ==
  ASSUME NEW ky, NEW hs, NEW t, MoDangKy(ky, hs, DotDau, t) \/ MoRut(ky, hs, DotDau, t)
  PROVE  \E d \in DotDau : d.ky = ky
BY DEF MoDangKy, MoRut, DotDangMo

LEMMA BuocDocNho ==
  ASSUME GiuTienQuyet, NEW r \in YeuCau, BuocCuaYeuCau(r), ~TraLoi(r)
  PROVE  \E b, v : DocNho(r, b, v)
<1>0. /\ NhoMon(buoc[r], viec[r]) /\ lopHoc = LopDau /\ dots = DotDau
      /\ viec \in [YeuCau -> CongViec] /\ buoc \in [YeuCau -> CacBuoc]
  BY DEF GiuTienQuyet, YeuCauNhoMon, IInv, BangYen, TypeOK
<1>1. CASE DocLopMoi(r)
  <2>1. PICK v : v = [viec[r] EXCEPT !.lich = lopHoc[viec[r].lop].lich,
                          !.conCho = SiSo(viec[r].lop) < lopHoc[viec[r].lop].siSo, !.luc = gio]
    OBVIOUS
  <2>2. /\ v.sv = viec[r].sv /\ v.ma = viec[r].ma /\ v.lop = viec[r].lop
        /\ v.mon = viec[r].mon /\ v.ky = viec[r].ky
    BY <1>0, <2>1 DEF CongViec
  <2>3. /\ buoc[r] = "doiLop" /\ DoiHopLe(viec[r]) /\ UNCHANGED bang
        /\ buoc' = [buoc EXCEPT ![r] = "doiDot"] /\ viec' = [viec EXCEPT ![r] = v]
    BY <1>1, <2>1 DEF DocLopMoi, bang
  <2>4. NhoMon("doiDot", v)
    BY <1>0, <2>2, <2>3 DEF NhoMon, DoiHopLe, BuocDangKy, BuocHuy, BuocDoi
  <2>5. QED
    BY <2>3, <2>4 DEF DocNho
<1>2. ASSUME NEW b, Tiep(r, b), NhoMon(b, viec[r]), UNCHANGED bang
      PROVE  \E c, v : DocNho(r, c, v)
  <2>1. viec' = [viec EXCEPT ![r] = viec[r]]
    BY <1>0, <1>2 DEF Tiep
  <2>2. QED
    BY <1>2, <2>1 DEF DocNho, Tiep
<1>3. CASE DocDot(r) \/ DocMon(r) \/ DocLich(r)
  <2>1. \E b \in {"dkMon", "dkLichSu", "dkGhi"} :
          Tiep(r, b) /\ UNCHANGED bang /\ NhoMon(b, viec[r])
    BY <1>0, <1>3 DEF DocDot, DocMon, DocLich, Hoi, NhoMon, BuocDangKy, BuocHuy, BuocDoi, bang
  <2>2. QED
    BY <1>2, <2>1
<1>4. CASE DocLichSu(r)
  <2>1. /\ buoc[r] = "dkLichSu" /\ DuDieuKien(viec[r].sv, viec[r].mon, viec[r].ky)
        /\ Tiep(r, "dkLich") /\ UNCHANGED bang
    BY <1>4 DEF DocLichSu, Hoi, bang
  <2>2. DatTienQuyet(viec[r].sv, viec[r].mon)
    BY <2>1 DEF DuDieuKien, DatTienQuyet
  <2>3. NhoMon("dkLich", viec[r])
    BY <1>0, <2>1, <2>2 DEF NhoMon, BuocDangKy, BuocHuy, BuocDoi
  <2>4. QED
    BY <1>2, <2>1, <2>3
<1>5. CASE DocDotHuy(r) \/ DocDotDoi(r)
  <2>1. \E b \in {"huyGhi", "doiLich"} :
          /\ Tiep(r, b) /\ UNCHANGED bang
          /\ b = "huyGhi" => buoc[r] = "huyDot"
          /\ b = "doiLich" => buoc[r] = "doiDot"
          /\ \/ MoDangKy(viec[r].ky, HoSo[viec[r].sv], DotDau, viec[r].luc)
             \/ MoRut(viec[r].ky, HoSo[viec[r].sv], DotDau, viec[r].luc)
    BY <1>0, <1>5 DEF DocDotHuy, DocDotDoi, Hoi, bang
  <2>2. PICK b \in {"huyGhi", "doiLich"} :
          /\ Tiep(r, b) /\ UNCHANGED bang
          /\ b = "huyGhi" => buoc[r] = "huyDot"
          /\ b = "doiLich" => buoc[r] = "doiDot"
          /\ \E d \in DotDau : d.ky = viec[r].ky
    BY <2>1, DotCuaKy
  <2>3. NhoMon(b, viec[r])
    BY <1>0, <2>2 DEF NhoMon, BuocDangKy, BuocHuy, BuocDoi
  <2>4. QED
    BY <1>2, <2>2, <2>3
<1>6. CASE DocLichDoi(r)
  <2>1. buoc[r] = "doiLich" /\ Tiep(r, "doiGhi") /\ UNCHANGED bang
    BY <1>6 DEF DocLichDoi, Hoi, bang
  <2>2. NhoMon("doiGhi", viec[r])
    BY <1>0, <2>1 DEF NhoMon, BuocDangKy, BuocHuy, BuocDoi
  <2>3. QED
    BY <1>2, <2>1, <2>2
<1>7. QED
  BY <1>1, <1>3, <1>4, <1>5, <1>6 DEF BuocCuaYeuCau, GhiDangKy, GhiDangKyLoi, GhiHuy, GhiHuyLoi,
     GhiDoi, GhiDoiLoi
\* No commit touches a mark, or the registration of one: rows with a mark are of
\* terms without a round.
LEMMA GhiGiuDiem ==
  ASSUME ChamSauDot, GiuTienQuyet, [Next]_vars
  PROVE  DiemYen'
<1>0. /\ lopHoc = LopDau /\ diem = DiemDau /\ dangKy \in [Ma -> DongDangKy \cup {Khong}]
      /\ \A m \in Ma : diem[m] # Khong => dangKy[m] # Khong /\ dangKy[m] = DangKyDau[m]
      /\ \A m \in Ma : m >= maKe => diem[m] = Khong
      /\ diem \in [Ma -> DongDiem \cup {Khong}]
  BY DEF GiuTienQuyet, DiemYen, IInv, BangYen, TypeOK, KhongMoCoi, MaConMoi
<1>1. ASSUME NEW r \in YeuCau, GhiHuy(r) \/ GhiDoi(r)
      PROVE  viec[r].ma \in Ma /\ diem[viec[r].ma] = Khong
  <2>1. /\ dangKy[viec[r].ma] # Khong /\ viec[r].ma \in Ma
        /\ NhoMon(buoc[r], viec[r]) /\ buoc[r] \in {"huyGhi", "doiGhi"}
    BY <1>1 DEF GhiHuy, GhiDoi, DoiDuoc, XoaDuoc, GiuTienQuyet, IInv, YeuCauDung, ViecDung,
       BuocHuy, BuocDoi, YeuCauNhoMon
  <2>2. /\ LopDau[dangKy[viec[r].ma].lop].ky = viec[r].ky
        /\ \E d \in DotDau : d.ky = viec[r].ky
    BY <2>1 DEF NhoMon, BuocHuy, BuocDoi
  <2>3. QED
    BY <1>0, <2>1, <2>2, ChamSauDot DEF ChamSauDot
<1>2. ASSUME NEW r \in YeuCau, GhiHuy(r) PROVE DiemYen'
  <2>1. diem' = diem
    BY <1>0, <1>1, <1>2 DEF GhiHuy
  <2>2. \A m \in Ma : m # viec[r].ma => dangKy'[m] = dangKy[m]
    BY <1>0, <1>2 DEF GhiHuy
  <2>3. QED
    BY <1>0, <1>1, <1>2, <2>1, <2>2 DEF DiemYen
<1>3. ASSUME NEW r \in YeuCau, GhiDoi(r) PROVE DiemYen'
  <2>1. diem' = diem
    BY <1>0, <1>1, <1>3 DEF GhiDoi
  <2>2. \A m \in Ma : m # viec[r].ma /\ m # maKe => dangKy'[m] = dangKy[m]
    BY <1>0, <1>3 DEF GhiDoi
  <2>3. maKe \in Nat
    BY DEF GiuTienQuyet, IInv, TypeOK
  <2>4. \A m \in Ma : diem[m] # Khong => m # viec[r].ma /\ m # maKe
    BY <1>0, <1>1, <1>3, <2>3
  <2>5. QED
    BY <1>0, <2>1, <2>2, <2>4 DEF DiemYen
<1>4. ASSUME NEW r \in YeuCau, GhiDangKy(r) PROVE DiemYen'
  <2>1. diem' = diem /\ \A m \in Ma : m # maKe => dangKy'[m] = dangKy[m]
    BY <1>0, <1>4 DEF GhiDangKy
  <2>2. maKe \in Nat
    BY DEF GiuTienQuyet, IInv, TypeOK
  <2>3. \A m \in Ma : diem[m] # Khong => m # maKe
    BY <1>0, <2>2
  <2>4. QED
    BY <1>0, <2>1, <2>3 DEF DiemYen
<1>5. CASE UNCHANGED bang
  BY <1>0, <1>5 DEF DiemYen, bang
<1>6. ASSUME NEW r \in YeuCau, BatDau(r) \/ BuocCuaYeuCau(r),
             ~GhiHuy(r), ~GhiDoi(r), ~GhiDangKy(r)
      PROVE  UNCHANGED bang
  BY <1>6 DEF BatDau, DocLop, DocDangKyHuy, DocDangKyCu, BuocCuaYeuCau, DocDot, DocMon,
     DocLichSu, DocLich, GhiDangKyLoi, DocDotHuy, GhiHuyLoi, DocLopMoi, DocDotDoi,
     DocLichDoi, GhiDoiLoi, bang
<1>7. QED
  BY <1>2, <1>3, <1>4, <1>5, <1>6 DEF Next, TroiGio, vars, bang

LEMMA TienQuyetBuoc == ChamSauDot /\ GiuTienQuyet /\ [Next]_vars => GiuTienQuyet'
<1> SUFFICES ASSUME ChamSauDot, GiuTienQuyet, [Next]_vars PROVE GiuTienQuyet'
  OBVIOUS
<1>0. /\ IInv /\ IInv' /\ DiemYen /\ DiemYen' /\ YeuCauNhoMon
      /\ buoc \in [YeuCau -> CacBuoc] /\ viec \in [YeuCau -> CongViec]
      /\ lopHoc = LopDau /\ lopHoc' = LopDau
  BY MoiBuocGiu, GhiGiuDiem DEF GiuTienQuyet, IInv, TypeOK, BangYen
<1>1. /\ \A m \in Ma : dangKy[m] # Khong => m < maKe
      /\ maKe \in Nat /\ maKe' \in Nat
  BY <1>0, HangSo DEF IInv, MaConMoi, TypeOK, Ma
<1>2. \A m \in Ma : dangKy[m] # Khong => DatTienQuyet(dangKy[m].sv, LopDau[dangKy[m].lop].mon)
  BY <1>0, TienQuyetLa DEF GiuTienQuyet
<1>3. \A q \in YeuCau : NhoMon(buoc[q], viec[q])
                        /\ (buoc[q] \in BuocHuy \cup BuocDoi => viec[q].ma \in Ma)
  BY <1>0 DEF YeuCauNhoMon, IInv, YeuCauDung, ViecDung
<1>4. ASSUME maKe' >= maKe, \A m \in Ma : m < maKe => dangKy'[m] \in {dangKy[m], Khong},
             NEW q \in YeuCau, buoc'[q] = buoc[q], viec'[q] = viec[q]
      PROVE  NhoMon(buoc[q], viec[q])'
  <2>1. PICK b, v : b = buoc[q] /\ v = viec[q]
    OBVIOUS
  <2>2. /\ NhoMon(b, v)
        /\ b \in BuocHuy \cup BuocDoi => v.ma \in Ma /\ v.ma < maKe
    BY <1>3, <2>1 DEF NhoMon
  <2>3. v.ma \in Ma => v.ma \in Nat
    BY HangSo DEF Ma
  <2>4. NhoMon(b, v)'
    BY <1>0, <1>1, <1>4, <2>2, <2>3, NhoGiu
  <2>5. QED
    BY <1>4, <2>1, <2>4
<1>5. ASSUME NEW r \in YeuCau, TraLoi(r), maKe' >= maKe,
             \A m \in Ma : m < maKe => dangKy'[m] \in {dangKy[m], Khong}
      PROVE  YeuCauNhoMon'
  <2>1. /\ buoc'[r] = "nghi"
        /\ \A q \in YeuCau \ {r} : buoc'[q] = buoc[q] /\ viec'[q] = viec[q]
    BY <1>0, <1>5 DEF TraLoi
  <2>2. NhoMon(buoc[r], viec[r])'
    <3>1. PICK w : w = viec'[r]
      OBVIOUS
    <3>2. NhoMon("nghi", w)'
      BY NghiKhongNho
    <3>3. QED
      BY <2>1, <3>1, <3>2
  <2>3. QED
    BY <1>4, <1>5, <2>1, <2>2 DEF YeuCauNhoMon
<1>6. ASSUME \A m \in Ma : dangKy'[m] # Khong =>
               DatTienQuyet(dangKy'[m].sv, LopDau[dangKy'[m].lop].mon)
      PROVE  TienQuyetConDat'
  <2>1. ASSUME NEW m \in Ma, dangKy'[m] # Khong
        PROVE  DatTienQuyet(dangKy[m].sv, LopDau[dangKy[m].lop].mon)'
    <3>1. PICK sv, mon : sv = dangKy'[m].sv /\ mon = LopDau[dangKy'[m].lop].mon
      OBVIOUS
    <3>2. DatTienQuyet(sv, mon)'
      BY <1>0, <1>6, <2>1, <3>1, DatGiu
    <3>3. QED
      BY <3>1, <3>2
  <2>2. QED
    BY <1>0, <2>1, TienQuyetLa
<1>7. CASE UNCHANGED <<bang, buoc, viec>>
  <2>1. \A m \in Ma : dangKy'[m] = dangKy[m]
    BY <1>7 DEF bang
  <2>2. YeuCauNhoMon'
    BY <1>1, <1>4, <1>7, <2>1 DEF YeuCauNhoMon, bang
  <2>3. QED
    BY <1>0, <1>2, <1>6, <2>1, <2>2 DEF GiuTienQuyet
<1>8. ASSUME NEW r \in YeuCau, NEW b, NEW v, DocNho(r, b, v) PROVE GiuTienQuyet'
  <2>1. /\ maKe' >= maKe /\ \A m \in Ma : dangKy'[m] = dangKy[m]
        /\ NhoMon(b, v) /\ buoc'[r] = b /\ viec'[r] = v
        /\ \A q \in YeuCau \ {r} : buoc'[q] = buoc[q] /\ viec'[q] = viec[q]
    BY <1>0, <1>1, <1>8 DEF DocNho, bang
  <2>2. NhoMon(b, v)'
    BY <1>0, <1>8, <2>1, NhoGiu DEF DocNho, bang
  <2>3. YeuCauNhoMon'
    BY <1>4, <2>1, <2>2 DEF YeuCauNhoMon
  <2>4. QED
    BY <1>0, <1>2, <1>6, <2>1, <2>3 DEF GiuTienQuyet
<1>9. ASSUME NEW r \in YeuCau, TraLoi(r), UNCHANGED bang PROVE GiuTienQuyet'
  <2>1. maKe' >= maKe /\ \A m \in Ma : dangKy'[m] = dangKy[m]
    BY <1>1, <1>9 DEF bang
  <2>2. QED
    BY <1>0, <1>2, <1>5, <1>6, <1>9, <2>1 DEF GiuTienQuyet
<1>10. ASSUME NEW r \in YeuCau, GhiHuy(r) PROVE GiuTienQuyet'
  <2>1. /\ TraLoi(r) /\ maKe' >= maKe
        /\ \A m \in Ma : dangKy'[m] \in {dangKy[m], Khong}
    BY <1>0, <1>1, <1>10 DEF GhiHuy, IInv, TypeOK
  <2>2. QED
    BY <1>0, <1>2, <1>5, <1>6, <2>1 DEF GiuTienQuyet
<1>11. ASSUME NEW r \in YeuCau, GhiDangKy(r) \/ GhiDoi(r) PROVE GiuTienQuyet'
  <2>1. /\ Chen(r) /\ maKe' >= maKe /\ \A m \in Ma : m < maKe => m # maKe
    BY <1>0, <1>1, <1>11, HangSo, GhiLaChen DEF GhiDangKy, GhiDoi, Ma
  <2>2. DatTienQuyet(viec[r].sv, LopDau[viec[r].lop].mon)
    <3>1. CASE GhiDangKy(r)
      BY <1>3, <3>1 DEF GhiDangKy, NhoMon, BuocDangKy
    <3>2. CASE GhiDoi(r)
      <4>1. /\ buoc[r] = "doiGhi" /\ dangKy[viec[r].ma] # Khong /\ viec[r].ma \in Ma
            /\ NhoMon(buoc[r], viec[r])
        BY <1>3, <3>2 DEF GhiDoi, DoiDuoc, XoaDuoc, BuocDoi
      <4>2. /\ dangKy[viec[r].ma].sv = viec[r].sv
            /\ LopDau[dangKy[viec[r].ma].lop].mon = viec[r].mon
            /\ LopDau[viec[r].lop].mon = viec[r].mon
        BY <4>1 DEF NhoMon, BuocDoi
      <4>3. QED
        BY <1>2, <4>1, <4>2
    <3>3. QED
      BY <1>11, <3>1, <3>2
  <2>3. \A m \in Ma : dangKy'[m] # Khong =>
          DatTienQuyet(dangKy'[m].sv, LopDau[dangKy'[m].lop].mon)
    BY <1>2, <2>1, <2>2 DEF Chen
  <2>4. TraLoi(r) /\ \A m \in Ma : m < maKe => dangKy'[m] \in {dangKy[m], Khong}
    BY <2>1 DEF Chen
  <2>5. QED
    BY <1>0, <1>5, <1>6, <2>1, <2>3, <2>4 DEF GiuTienQuyet
<1>12. ASSUME NEW r \in YeuCau, BatDau(r) \/ BuocCuaYeuCau(r) PROVE GiuTienQuyet'
  <2>1. CASE BatDau(r)
    BY <1>8, <2>1, BatDauNho
  <2>2. CASE BuocCuaYeuCau(r) /\ ~TraLoi(r)
    BY <1>8, <2>2, BuocDocNho
  <2>3. CASE BuocCuaYeuCau(r) /\ TraLoi(r) /\ ~GhiHuy(r) /\ ~GhiDangKy(r) /\ ~GhiDoi(r)
    BY <1>9, <2>3 DEF BuocCuaYeuCau, DocDot, DocMon, DocLichSu, DocLich, GhiDangKyLoi,
       DocDotHuy, GhiHuyLoi, DocLopMoi, DocDotDoi, DocLichDoi, GhiDoiLoi, bang
  <2>4. QED
    BY <1>10, <1>11, <1>12, <2>1, <2>2, <2>3
<1>13. CASE TroiGio \/ UNCHANGED vars
  BY <1>7, <1>13 DEF TroiGio, vars, bang
<1>14. QED
  BY <1>12, <1>13 DEF Next

\* As long as registration for a term is over before the term is graded, a student
\* in a class keeps a passing mark of its prerequisite, although cancelling and
\* swapping delete marks for good and although the prerequisite is looked at long
\* before the class is entered; two requests of one student change nothing.
THEOREM TienQuyetLuonDat == ChamSauDot => (Spec /\ TienQuyetConDat => []TienQuyetConDat)
<1> SUFFICES ASSUME ChamSauDot PROVE Spec /\ TienQuyetConDat => []TienQuyetConDat
  OBVIOUS
<1>1. Init /\ TienQuyetConDat => GiuTienQuyet
  <2> SUFFICES ASSUME Init, TienQuyetConDat PROVE GiuTienQuyet
    OBVIOUS
  <2>1. IInv /\ DiemYen
    BY KhoiDau, BangDau DEF Init, DiemYen
  <2>2. \A r \in YeuCau : buoc[r] = "nghi"
    BY DEF Init
  <2>3. YeuCauNhoMon
    BY <2>2, NghiKhongNho DEF YeuCauNhoMon
  <2>4. QED
    BY <2>1, <2>3 DEF GiuTienQuyet
<1>2. GiuTienQuyet /\ [Next]_vars => GiuTienQuyet'
  BY TienQuyetBuoc
<1>3. GiuTienQuyet => TienQuyetConDat
  BY DEF GiuTienQuyet
<1>4. QED
  BY <1>1, <1>2, <1>3, PTL DEF Spec
=============================================================================
