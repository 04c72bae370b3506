------------------------ MODULE LopHocTrongKy_proofs ------------------------
(***************************************************************************)
(* What LopHocTrongKy guarantees for every school, every number of         *)
(* administrators and of students' requests, and every set of forms.  The  *)
(* last section is about registration rounds (CacDot), kept alike.         *)
(***************************************************************************)
EXTENDS LopHocTrongKy, CacDot, DangKyHocPhan_proofs

-----------------------------------------------------------------------------
(* The inductive invariant *)

BuocTao == {"taoTen", "taoGV", "taoGhi"}
BuocSua == {"suaPhong", "suaTen", "suaGV", "suaGhi"}
CacBuocA == {"nghi", "taoPhanCong", "xoaGhi", "huyLopGhi"} \cup BuocTao \cup BuocSua

Don == [mon : Mon, ky : Ky, ten : TenLop, siSo : Int, lich : SUBSET BuoiHoc,
        gv : GiangVien \cup {Khong}]

CongViecA ==
  [lop : Lop \cup {Khong}, q : Don \cup {Khong}, siSo : Nat, ten : TenLop \cup {Khong},
   gv : SUBSET GiangVien, con : BOOLEAN, dk : SUBSET Ma, coDiem : SUBSET Ma]

\* Administrators' tables and requests have the columns' types.
KieuA ==
  /\ tenLop \in [Lop -> TenLop \cup {Khong}]
  /\ phanCong \in [Lop -> SUBSET GiangVien]
  /\ chuaCap \in SUBSET Lop
  /\ buocA \in [QuanTri -> CacBuocA]
  /\ viecA \in [QuanTri -> CongViecA]

\* q, or what Update makes of it, says what form the sender filled in.
TuDon(q) ==
  /\ YeuCauHopLe(q)
  /\ \E p \in YeuCauLop : q.ten = p.ten /\ q.siSo = p.siSo /\ q.lich = p.lich

\* A slot at step b with v in its locals: which class it is at and by what form.
ViecDungA(b, v) ==
  /\ b = "nghi" => v = KhongViecA
  /\ b \in BuocTao => v.lop = Khong
  /\ b \notin BuocTao \cup {"nghi"} => v.lop \in Lop \ chuaCap
  /\ b \in BuocTao \cup BuocSua => v.q \in Don /\ TuDon(v.q)
  /\ b = "taoPhanCong" => v.q \in Don /\ v.q.gv # Khong

\* As long as the schedule rows it has read are there, the class is as it was read.
LopNhuDoc(b, v) ==
  b \in BuocSua /\ v.con =>
    /\ lopHoc[v.lop] # Khong
    /\ lopHoc[v.lop].siSo = v.siSo /\ tenLop[v.lop] = v.ten
    /\ lopHoc[v.lop].ky = v.q.ky

\* Ids not given out are of no class, and a class that is gone has no name and
\* no teachers.
DauVet ==
  /\ \A l \in chuaCap : lopHoc[l] = Khong
  /\ \A l \in Lop : lopHoc[l] = Khong => phanCong[l] = {} /\ tenLop[l] = Khong

BatBienA ==
  /\ BatBienChung /\ KieuA /\ DauVet /\ LopNguyenVen
  /\ \A a \in QuanTri : ViecDungA(buocA[a], viecA[a]) /\ LopNhuDoc(buocA[a], viecA[a])

-----------------------------------------------------------------------------
(* What administrators who are at one class at a time know *)

DangLam == {a \in QuanTri : buocA[a] # "nghi"}

\* Whoever is at work beside another is at the same class, which exists.
MoiLopMotLuc ==
  \A a, e \in DangLam : a # e => viecA[a].lop # Khong /\ viecA[e].lop = viecA[a].lop

\* Rooms looked up are still free, but for those of the class itself.
PhongConTrong(b, v) ==
  b \in BuocTao \cup {"suaTen", "suaGV", "suaGhi"} => PhongTrong(v.q.ky, v.q.lich, v.lop)

\* Nobody edits a class before its creation is finished.
TaoXong ==
  \A a, e \in QuanTri :
    buocA[a] = "taoPhanCong" /\ buocA[e] \in BuocSua => viecA[e].lop # viecA[a].lop

\* A teacher looked up is still free; the teachers of a class being edited are
\* those read.
GiangVienConRanh(b, v) ==
  /\ b \in {"taoGhi", "suaGhi"} => GiangVienRanh(v.q.gv, v.q.ky, v.q.lich, v.lop)
  /\ b = "taoPhanCong" /\ lopHoc[v.lop] # Khong =>
       GiangVienRanh(v.q.gv, lopHoc[v.lop].ky, lopHoc[v.lop].lich, v.lop)
  /\ b \in BuocSua /\ v.con => phanCong[v.lop] = v.gv

LanLuot ==
  /\ BatBienA /\ MoiLopMotLuc /\ PhongKhongTrung
  /\ \A a \in QuanTri : PhongConTrong(buocA[a], viecA[a])

LanLuotGV ==
  /\ LanLuot /\ TaoXong /\ GiangVienKhongTrung
  /\ \A a \in QuanTri : GiangVienConRanh(buocA[a], viecA[a])

-----------------------------------------------------------------------------
(* Slots *)

LEMMA KhongViecADung ==
  /\ KhongViecA \in CongViecA /\ KhongViecA.lop = Khong /\ KhongViecA.con
  /\ "nghi" \in CacBuocA /\ "nghi" \notin BuocTao \cup BuocSua
  /\ ViecDungA("nghi", KhongViecA) /\ LopNhuDoc("nghi", KhongViecA)
BY DEF KhongViecA, CongViecA, CacBuocA, BuocTao, BuocSua, ViecDungA, LopNhuDoc

\* Slot a moves on to step b with v; the other slots stay as they are.
DenBuoc(a, b, v) ==
  /\ b \in CacBuocA /\ v \in CongViecA
  /\ buocA' = [buocA EXCEPT ![a] = b] /\ viecA' = [viecA EXCEPT ![a] = v]

\* A slot moves on and no table changes.
LEMMA DocGiuA ==
  ASSUME BatBienA, NEW a \in QuanTri, NEW b \in CacBuocA, NEW v \in CongViecA,
         ViecDungA(b, v), LopNhuDoc(b, v),
         buocA' = [buocA EXCEPT ![a] = b], viecA' = [viecA EXCEPT ![a] = v],
         UNCHANGED <<vars, bangA>>
  PROVE  BatBienA'
<1>0. UNCHANGED <<lopHoc, tenLop, phanCong, chuaCap>>
  BY DEF vars, bangA
<1>1. BatBienChung'
  BY BuocChungGiu DEF BatBienA
<1>2. KieuA' /\ DauVet' /\ LopNguyenVen'
  BY <1>0 DEF BatBienA, KieuA, DauVet, LopNguyenVen
<1>3. ASSUME NEW e \in QuanTri PROVE (ViecDungA(buocA[e], viecA[e]) /\ LopNhuDoc(buocA[e], viecA[e]))'
  <2>1. PICK c, w : /\ c = buocA'[e] /\ w = viecA'[e]
                    /\ ViecDungA(c, w) /\ LopNhuDoc(c, w)
    BY DEF BatBienA, KieuA
  <2>2. ViecDungA(c, w)' /\ LopNhuDoc(c, w)'
    BY <1>0, <2>1 DEF ViecDungA, LopNhuDoc
  <2>3. QED
    BY <2>1, <2>2
<1>4. QED
  BY <1>1, <1>2, <1>3 DEF BatBienA

LEMMA XongGiuA ==
  ASSUME BatBienA, NEW a \in QuanTri, XongA(a), UNCHANGED <<vars, bangA>>
  PROVE  BatBienA'
BY KhongViecADung, DocGiuA DEF XongA

\* A free slot takes a request: where it is then, and what it knows.
DocLa(a, b, v) ==
  /\ DenBuoc(a, b, v) /\ UNCHANGED <<vars, bangA>>
  /\ RanhA(a, v.lop) /\ b # "taoPhanCong"
  /\ ViecDungA(b, v) /\ LopNhuDoc(b, v)
  /\ PhongConTrong(b, v) /\ GiangVienConRanh(b, v)
  /\ b \in BuocSua /\ TaoXongMoiSua =>
       \A e \in QuanTri : buocA[e] = "taoPhanCong" => viecA[e].lop # v.lop

LEMMA BatDauLa ==
  ASSUME BatBienA, NEW a \in QuanTri,
         \/ \E q \in YeuCauLop : KiemPhongTao(a, q)
         \/ \E l \in Lop, q \in YeuCauLop : DocLopSua(a, l, q)
         \/ \E l \in Lop : DocLopXoa(a, l) \/ DocLopHuy(a, l)
  PROVE  \E b, v : DocLa(a, b, v)
<1>0. /\ lopHoc \in [Lop -> DongLop \cup {Khong}] /\ viecA \in [QuanTri -> CongViecA]
      /\ tenLop \in [Lop -> TenLop \cup {Khong}] /\ phanCong \in [Lop -> SUBSET GiangVien]
  BY DEF BatBienA, BatBienChung, TypeOK, KieuA
<1>1. ASSUME NEW q \in YeuCauLop, KiemPhongTao(a, q) PROVE \E b, v : DocLa(a, b, v)
  <2>1. PICK v : v = [KhongViecA EXCEPT !.q = q]
    OBVIOUS
  <2>2. viecA' = [viecA EXCEPT ![a] = v]
    <3>1. viecA[a] = KhongViecA
      BY <1>1 DEF KiemPhongTao, RanhA, BatBienA, ViecDungA
    <3>2. QED
      BY <1>1, <2>1, <3>1 DEF KiemPhongTao
  <2>3. v \in CongViecA /\ v.lop = Khong /\ v.q = q /\ q \in Don
    <3>1. q \in Don
      BY HangSoLop DEF Don
    <3>2. v.lop = Khong /\ v.q = q
      BY <2>1 DEF KhongViecA
    <3>3. v \in CongViecA
      BY <2>1, <3>1 DEF KhongViecA, CongViecA
    <3>4. QED
      BY <3>1, <3>2, <3>3
  <2>4. ViecDungA("taoTen", v) /\ LopNhuDoc("taoTen", v) /\ "taoTen" \in CacBuocA
    BY <1>1, <2>3 DEF KiemPhongTao, ViecDungA, LopNhuDoc, TuDon, BuocTao, BuocSua, CacBuocA
  <2>5. PhongConTrong("taoTen", v) /\ GiangVienConRanh("taoTen", v) /\ "taoTen" \notin BuocSua
    BY <1>1, <2>3 DEF KiemPhongTao, PhongConTrong, GiangVienConRanh, BuocSua
  <2>6. DocLa(a, "taoTen", v)
    BY <1>1, <2>2, <2>3, <2>4, <2>5 DEF KiemPhongTao, DocLa, DenBuoc
  <2>7. QED
    BY <2>6
<1>2. ASSUME NEW l \in Lop, NEW q \in YeuCauLop, DocLopSua(a, l, q) PROVE \E b, v : DocLa(a, b, v)
  <2>1. PICK p : p = [q EXCEPT !.mon = lopHoc[l].mon, !.ky = lopHoc[l].ky]
    OBVIOUS
  <2>2. PICK v : v = [KhongViecA EXCEPT !.lop = l, !.siSo = lopHoc[l].siSo, !.ten = tenLop[l],
                                        !.gv = phanCong[l], !.q = p]
    OBVIOUS
  <2>3. /\ l \notin chuaCap /\ lopHoc[l] \in DongLop /\ lopHoc[l] # Khong /\ q \in Don
        /\ YeuCauHopLe(q)
    BY <1>0, <1>2, HangSoLop DEF DocLopSua, BatBienA, DauVet, Don
  <2>4. p \in Don /\ p.ky = lopHoc[l].ky /\ p.ten = q.ten /\ p.siSo = q.siSo /\ p.lich = q.lich
    BY <2>1, <2>3 DEF Don, DongLop
  <2>5. /\ v.lop = l /\ v.siSo = lopHoc[l].siSo /\ v.ten = tenLop[l] /\ v.q = p
        /\ v.gv = phanCong[l]
    BY <2>2 DEF KhongViecA
  <2>6. v \in CongViecA
    BY <1>0, <2>2, <2>3, <2>4 DEF KhongViecA, CongViecA, DongLop
  <2>7. TuDon(p)
    BY <2>3, <2>4 DEF TuDon, YeuCauHopLe
  <2>8. ViecDungA("suaPhong", v) /\ LopNhuDoc("suaPhong", v) /\ "suaPhong" \in CacBuocA
    BY <2>3, <2>4, <2>5, <2>7 DEF ViecDungA, LopNhuDoc, BuocTao, BuocSua, CacBuocA
  <2>9. PhongConTrong("suaPhong", v) /\ GiangVienConRanh("suaPhong", v)
    BY <2>5 DEF PhongConTrong, GiangVienConRanh, BuocTao
  <2>10. /\ buocA' = [buocA EXCEPT ![a] = "suaPhong"] /\ viecA' = [viecA EXCEPT ![a] = v]
         /\ UNCHANGED <<vars, bangA>> /\ RanhA(a, v.lop)
         /\ TaoXongMoiSua => \A e \in QuanTri : buocA[e] = "taoPhanCong" => viecA[e].lop # v.lop
    BY <1>2, <2>1, <2>2, <2>5 DEF DocLopSua
  <2>11. DocLa(a, "suaPhong", v)
    BY <2>6, <2>8, <2>9, <2>10 DEF DocLa, DenBuoc
  <2>12. QED
    BY <2>11
<1>3. ASSUME NEW l \in Lop, DocLopXoa(a, l) \/ DocLopHuy(a, l) PROVE \E b, v : DocLa(a, b, v)
  <2>1. lopHoc[l] # Khong /\ l \notin chuaCap /\ UNCHANGED <<vars, bangA>> /\ RanhA(a, l)
    BY <1>3 DEF DocLopXoa, DocLopHuy, BatBienA, DauVet
  <2>2. ASSUME NEW b \in {"xoaGhi", "huyLopGhi"}, NEW v \in CongViecA, v.lop = l,
               buocA' = [buocA EXCEPT ![a] = b], viecA' = [viecA EXCEPT ![a] = v]
        PROVE  DocLa(a, b, v)
    <3>1. ViecDungA(b, v) /\ LopNhuDoc(b, v) /\ b \in CacBuocA /\ b \notin BuocSua
      BY <2>1, <2>2 DEF ViecDungA, LopNhuDoc, BuocTao, BuocSua, CacBuocA
    <3>2. PhongConTrong(b, v) /\ GiangVienConRanh(b, v)
      BY <2>2 DEF PhongConTrong, GiangVienConRanh, BuocTao, BuocSua
    <3>3. QED
      BY <2>1, <2>2, <3>1, <3>2 DEF DocLa, DenBuoc
  <2>3. CASE DocLopXoa(a, l)
    <3>1. PICK v : v = [KhongViecA EXCEPT !.lop = l]
      OBVIOUS
    <3>2. v \in CongViecA /\ v.lop = l
      BY <3>1 DEF KhongViecA, CongViecA
    <3>3. DocLa(a, "xoaGhi", v)
      BY <2>2, <2>3, <3>1, <3>2 DEF DocLopXoa
    <3>4. QED
      BY <3>3
  <2>4. CASE DocLopHuy(a, l)
    <3>1. PICK T, U : T = TrongLop(l) /\ U = {m \in TrongLop(l) : diem[m] # Khong}
      OBVIOUS
    <3>2. PICK v : v = [KhongViecA EXCEPT !.lop = l, !.dk = T, !.coDiem = U]
      OBVIOUS
    <3>3. T \in SUBSET Ma /\ U \in SUBSET Ma
      BY <3>1 DEF TrongLop
    <3>4. v \in CongViecA /\ v.lop = l
      BY <3>2, <3>3 DEF KhongViecA, CongViecA
    <3>5. DocLa(a, "huyLopGhi", v)
      BY <2>2, <2>4, <3>1, <3>2, <3>4 DEF DocLopHuy
    <3>6. QED
      BY <3>5
  <2>5. QED
    BY <1>3, <2>3, <2>4
<1>4. QED
  BY <1>1, <1>2, <1>3

\* A check, passed: slot a goes on and knows what it has looked up.
KiemLa(a, b) ==
  /\ buocA' = [buocA EXCEPT ![a] = b] /\ UNCHANGED viecA
  /\ \/ buocA[a] \in BuocTao /\ b \in BuocTao
     \/ buocA[a] \in BuocSua /\ b \in BuocSua
  /\ PhongConTrong(buocA[a], viecA[a]) => PhongConTrong(b, viecA[a])
  /\ GiangVienConRanh(buocA[a], viecA[a]) => GiangVienConRanh(b, viecA[a])

LEMMA KiemTraLa ==
  ASSUME NEW a \in QuanTri, ViecDungA(buocA[a], viecA[a]),
         \/ KiemTenTao(a) \/ KiemGVTao(a)
         \/ KiemPhongSua(a) \/ KiemTenSua(a) \/ KiemGVSua(a)
  PROVE  UNCHANGED <<vars, bangA>> /\ (XongA(a) \/ \E b : KiemLa(a, b))
<1> USE DEF PhongConTrong, GiangVienConRanh, BuocTao, BuocSua
<1>1. UNCHANGED <<vars, bangA>>
  BY DEF KiemTenTao, KiemGVTao, KiemPhongSua, KiemTenSua, KiemGVSua
<1>2. CASE KiemTenTao(a)
  <2>1. XongA(a) \/ KiemLa(a, "taoGV")
    BY <1>2 DEF KiemTenTao, HoiA, KiemLa
  <2>2. QED
    BY <1>1, <2>1
<1>3. CASE KiemGVTao(a)
  <2>1. XongA(a) \/ KiemLa(a, "taoGhi")
    <3>1. CASE XongA(a)
      BY <3>1
    <3>2. CASE ~XongA(a)
      <4>1. PICK v : v = viecA[a]
        OBVIOUS
      <4>2. /\ buocA[a] = "taoGV" /\ buocA' = [buocA EXCEPT ![a] = "taoGhi"] /\ UNCHANGED viecA
            /\ GiangVienRanh(v.q.gv, v.q.ky, v.q.lich, Khong)
        BY <1>3, <3>2, <4>1 DEF KiemGVTao, HoiA
      <4>3. v.lop = Khong
        BY <4>1, <4>2 DEF ViecDungA
      <4>4. QED
        BY <4>1, <4>2, <4>3 DEF KiemLa
    <3>3. QED
      BY <3>1, <3>2
  <2>2. QED
    BY <1>1, <2>1
<1>4. CASE KiemPhongSua(a)
  <2>1. XongA(a) \/ KiemLa(a, "suaTen")
    BY <1>4 DEF KiemPhongSua, HoiA, KiemLa
  <2>2. QED
    BY <1>1, <2>1
<1>5. CASE KiemTenSua(a)
  <2>1. XongA(a) \/ KiemLa(a, "suaGV")
    BY <1>5 DEF KiemTenSua, HoiA, KiemLa
  <2>2. QED
    BY <1>1, <2>1
<1>6. CASE KiemGVSua(a)
  <2>1. XongA(a) \/ KiemLa(a, "suaGhi")
    BY <1>6 DEF KiemGVSua, HoiA, KiemLa
  <2>2. QED
    BY <1>1, <2>1
<1>7. QED
  BY <1>2, <1>3, <1>4, <1>5, <1>6

-----------------------------------------------------------------------------
(* Writes *)

\* Students' requests and tables stand a write by an administrator that leaves no
\* registration without its class and no mark without its registration.
LEMMA ChungGiu ==
  ASSUME BatBienChung,
         lopHoc' \in [Lop -> DongLop \cup {Khong}],
         dangKy' \in [Ma -> DongDangKy \cup {Khong}],
         diem' \in [Ma -> DongDiem \cup {Khong}],
         UNCHANGED <<dots, gio, maKe, buoc, viec>>,
         \A m \in Ma : dangKy'[m] = dangKy[m] \/ dangKy'[m] = Khong,
         \A m \in Ma : diem'[m] # Khong => dangKy'[m] # Khong,
         \A m \in Ma : dangKy'[m] # Khong => lopHoc'[dangKy'[m].lop] # Khong
  PROVE  BatBienChung'
<1>1. TypeOK' /\ KhongMoCoi'
  BY DEF BatBienChung, TypeOK, KhongMoCoi
<1>2. YeuCauDung'
  BY DEF BatBienChung, YeuCauDung, ViecDung
<1>3. MaConMoi'
  <2>1. DangThem' = DangThem
    BY DEF DangThem
  <2>2. QED
    BY <2>1 DEF BatBienChung, MaConMoi
<1>4. QED
  BY <1>1, <1>2, <1>3 DEF BatBienChung

\* Slot a writes class l: the other classes stay, and the locals of the other
\* slots too but for the schedule rows of class l, which are new or gone.
ChiLop(l) ==
  \A k \in Lop \ {l} : lopHoc'[k] = lopHoc[k] /\ tenLop'[k] = tenLop[k] /\ phanCong'[k] = phanCong[k]

LEMMA ThayLichGiu ==
  ASSUME BatBienA, NEW a \in QuanTri, NEW l \in Lop, XongThayLich(a, l), ChiLop(l),
         UNCHANGED chuaCap
  PROVE  /\ buocA' \in [QuanTri -> CacBuocA] /\ viecA' \in [QuanTri -> CongViecA]
         /\ \A e \in QuanTri : ViecDungA(buocA[e], viecA[e])' /\ LopNhuDoc(buocA[e], viecA[e])'
<1>0. buocA \in [QuanTri -> CacBuocA] /\ viecA \in [QuanTri -> CongViecA]
  BY DEF BatBienA, KieuA
<1>1. ASSUME NEW e \in QuanTri
      PROVE  /\ buocA'[e] \in CacBuocA /\ viecA'[e] \in CongViecA
             /\ ViecDungA(buocA[e], viecA[e])' /\ LopNhuDoc(buocA[e], viecA[e])'
  <2>1. PICK c, w : /\ c = buocA[e] /\ w = viecA[e] /\ c \in CacBuocA /\ w \in CongViecA
                    /\ ViecDungA(c, w) /\ LopNhuDoc(c, w)
    BY <1>0 DEF BatBienA
  <2>2. CASE e = a
    <3>1. buocA'[e] = "nghi" /\ viecA'[e] = KhongViecA
      BY <1>0, <2>2 DEF XongThayLich
    <3>2. ViecDungA("nghi", KhongViecA)' /\ LopNhuDoc("nghi", KhongViecA)'
      BY KhongViecADung DEF ViecDungA, LopNhuDoc, BuocTao, BuocSua
    <3>3. QED
      BY <3>1, <3>2, KhongViecADung
  <2>3. CASE e # a /\ w.lop = l
    <3>1. PICK u : u = [w EXCEPT !.con = FALSE]
      OBVIOUS
    <3>2. buocA'[e] = c /\ viecA'[e] = u
      BY <1>0, <2>1, <2>3, <3>1 DEF XongThayLich
    <3>3. u \in CongViecA /\ u.lop = w.lop /\ u.q = w.q /\ ~u.con
      BY <2>1, <3>1 DEF CongViecA
    <3>4. c # "nghi"
      BY <2>1, <2>3, KhongViecADung, HangSo DEF ViecDungA
    <3>5. ViecDungA(c, u)' /\ LopNhuDoc(c, u)'
      BY <2>1, <3>3, <3>4 DEF ViecDungA, LopNhuDoc
    <3>6. QED
      BY <2>1, <3>2, <3>3, <3>5
  <2>4. CASE e # a /\ w.lop # l
    <3>1. buocA'[e] = c /\ viecA'[e] = w
      BY <1>0, <2>1, <2>4 DEF XongThayLich
    <3>2. ViecDungA(c, w)'
      BY <2>1 DEF ViecDungA
    <3>3. LopNhuDoc(c, w)'
      <4>1. SUFFICES ASSUME c \in BuocSua, w.con
                     PROVE  /\ lopHoc'[w.lop] # Khong
                            /\ lopHoc'[w.lop].siSo = w.siSo /\ tenLop'[w.lop] = w.ten
                            /\ lopHoc'[w.lop].ky = w.q.ky
        BY DEF LopNhuDoc
      <4>2. w.lop \in Lop \ {l}
        BY <2>1, <2>4, <4>1 DEF ViecDungA, BuocTao, BuocSua
      <4>3. QED
        BY <2>1, <4>1, <4>2 DEF ChiLop, LopNhuDoc
    <3>4. QED
      BY <2>1, <3>1, <3>2, <3>3
  <2>5. QED
    BY <2>1, <2>2, <2>3, <2>4
<1>2. QED
  BY <1>0, <1>1 DEF XongThayLich

\* Class l becomes what form q says, as a whole; the teachers that were not read stay.
ThanhDon(a, l, q) ==
  /\ q \in Don /\ TuDon(q) /\ l \in Lop \ chuaCap /\ ChiLop(l)
  /\ lopHoc' \in [Lop -> DongLop \cup {Khong}] /\ tenLop' \in [Lop -> TenLop \cup {Khong}]
  /\ phanCong' \in [Lop -> SUBSET GiangVien]
  /\ lopHoc'[l] # Khong /\ lopHoc'[l].ky = q.ky
  /\ lopHoc'[l].siSo = q.siSo /\ lopHoc'[l].lich = q.lich /\ tenLop'[l] = q.ten
  /\ phanCong'[l] = (phanCong[l] \ viecA[a].gv) \cup ({q.gv} \ {Khong})
  /\ XongThayLich(a, l)
  /\ UNCHANGED <<dangKy, diem, dots, gio, maKe, buoc, viec, chuaCap>>

LEMMA SuaThanhDon ==
  ASSUME BatBienA, NEW a \in QuanTri, GhiSua(a), SuaDuoc(viecA[a])
  PROVE  ThanhDon(a, viecA[a].lop, viecA[a].q)
<1>1. PICK v, q, l : v = viecA[a] /\ q = v.q /\ l = v.lop
  OBVIOUS
<1>2. /\ lopHoc \in [Lop -> DongLop \cup {Khong}] /\ tenLop \in [Lop -> TenLop \cup {Khong}]
      /\ phanCong \in [Lop -> SUBSET GiangVien] /\ v \in CongViecA
  BY <1>1 DEF BatBienA, BatBienChung, TypeOK, KieuA
<1>3. ViecDungA("suaGhi", v) /\ LopNhuDoc("suaGhi", v) /\ v.con
  BY <1>1 DEF BatBienA, GhiSua, SuaDuoc
<1>4. /\ q \in Don /\ TuDon(q) /\ l \in Lop \ chuaCap /\ lopHoc[l] # Khong /\ lopHoc[l].ky = q.ky
      /\ lopHoc[l].siSo = v.siSo /\ tenLop[l] = v.ten
  BY <1>1, <1>3 DEF ViecDungA, LopNhuDoc, BuocTao, BuocSua
<1>5. PICK cot : cot = GhiCot([siSo |-> v.siSo, ten |-> v.ten], [siSo |-> q.siSo, ten |-> q.ten],
                              [siSo |-> lopHoc[l].siSo, ten |-> tenLop[l]])
  OBVIOUS
<1>6. cot.siSo = q.siSo /\ cot.ten = q.ten
  BY <1>4, <1>5 DEF GhiCot
<1>7. /\ lopHoc' = [lopHoc EXCEPT ![l].siSo = q.siSo, ![l].lich = q.lich]
      /\ tenLop' = [tenLop EXCEPT ![l] = q.ten]
      /\ phanCong' = [phanCong EXCEPT ![l] = (phanCong[l] \ v.gv) \cup ({q.gv} \ {Khong})]
      /\ XongThayLich(a, l)
      /\ UNCHANGED <<dangKy, diem, dots, gio, maKe, buoc, viec, chuaCap>>
  BY <1>1, <1>2, <1>4, <1>5, <1>6 DEF GhiSua
<1>8. PICK d : d = [[lopHoc[l] EXCEPT !.siSo = q.siSo] EXCEPT !.lich = q.lich]
  OBVIOUS
<1>9. lopHoc' = [lopHoc EXCEPT ![l] = d]
  BY <1>2, <1>4, <1>7, <1>8
<1>10. d \in DongLop /\ d.siSo = q.siSo /\ d.lich = q.lich /\ d.ky = lopHoc[l].ky /\ d # Khong
  <2>1. lopHoc[l] \in DongLop /\ q.siSo \in Nat /\ q.lich \in SUBSET BuoiHoc
    BY <1>2, <1>4 DEF TuDon, YeuCauHopLe, Don
  <2>2. d \in DongLop /\ d.siSo = q.siSo /\ d.lich = q.lich /\ d.ky = lopHoc[l].ky
    BY <1>8, <2>1 DEF DongLop
  <2>3. QED
    BY <2>2, HangSo
<1>11. /\ lopHoc' \in [Lop -> DongLop \cup {Khong}] /\ tenLop' \in [Lop -> TenLop \cup {Khong}]
       /\ phanCong' \in [Lop -> SUBSET GiangVien]
       /\ lopHoc'[l] = d /\ tenLop'[l] = q.ten
       /\ phanCong'[l] = (phanCong[l] \ v.gv) \cup ({q.gv} \ {Khong})
  <2>1. lopHoc' \in [Lop -> DongLop \cup {Khong}] /\ lopHoc'[l] = d
    BY <1>2, <1>4, <1>9, <1>10
  <2>2. tenLop' \in [Lop -> TenLop \cup {Khong}] /\ tenLop'[l] = q.ten
    BY <1>2, <1>4, <1>7 DEF Don
  <2>3. /\ phanCong' \in [Lop -> SUBSET GiangVien]
        /\ phanCong'[l] = (phanCong[l] \ v.gv) \cup ({q.gv} \ {Khong})
    BY <1>2, <1>4, <1>7 DEF Don
  <2>4. QED
    BY <2>1, <2>2, <2>3
<1>12. ChiLop(l)
  BY <1>2, <1>7, <1>9 DEF ChiLop
<1>13. ThanhDon(a, l, q)
  BY <1>1, <1>4, <1>7, <1>10, <1>11, <1>12 DEF ThanhDon
<1>14. QED
  BY <1>1, <1>13

LEMMA ThanhDonGiu ==
  ASSUME BatBienA, NEW a \in QuanTri, NEW l, NEW q, ThanhDon(a, l, q)
  PROVE  BatBienA'
<1>1. BatBienChung'
  <2>1. \A m \in Ma : dangKy[m] # Khong => dangKy[m].lop \in Lop /\ lopHoc[dangKy[m].lop] # Khong
    BY DEF BatBienA, BatBienChung, TypeOK, KhongMoCoi, DongDangKy
  <2>2. QED
    BY <2>1, ChungGiu DEF ThanhDon, ChiLop, BatBienA, BatBienChung, TypeOK, KhongMoCoi
<1>2. /\ buocA' \in [QuanTri -> CacBuocA] /\ viecA' \in [QuanTri -> CongViecA]
      /\ \A e \in QuanTri : ViecDungA(buocA[e], viecA[e])' /\ LopNhuDoc(buocA[e], viecA[e])'
  BY ThayLichGiu DEF ThanhDon
<1>3. KieuA'
  BY <1>2 DEF ThanhDon, BatBienA, KieuA
<1>4. DauVet'
  BY DEF ThanhDon, ChiLop, BatBienA, DauVet, KieuA
<1>5. LopNguyenVen'
  BY DEF ThanhDon, ChiLop, BatBienA, LopNguyenVen, TuDon
<1>6. QED
  BY <1>1, <1>2, <1>3, <1>4, <1>5 DEF BatBienA

\* A class goes with all that refers to it.
LEMMA XoaLopGiu ==
  ASSUME BatBienA, NEW a \in QuanTri, NEW l \in Lop, XoaLop(l), XongThayLich(a, l),
         UNCHANGED <<dots, gio, maKe, buoc, viec, chuaCap>>
  PROVE  BatBienA' /\ ChiLop(l) /\ phanCong'[l] = {} /\ lopHoc'[l] = Khong
<1>0. /\ lopHoc \in [Lop -> DongLop \cup {Khong}] /\ dangKy \in [Ma -> DongDangKy \cup {Khong}]
      /\ diem \in [Ma -> DongDiem \cup {Khong}] /\ KhongMoCoi /\ KieuA /\ DauVet
  BY DEF BatBienA, BatBienChung, TypeOK
<1>1. ChiLop(l) /\ lopHoc'[l] = Khong /\ phanCong'[l] = {} /\ tenLop'[l] = Khong
  BY <1>0 DEF XoaLop, ChiLop, KieuA
<1>2. BatBienChung'
  <2>1. /\ lopHoc' \in [Lop -> DongLop \cup {Khong}]
        /\ dangKy' \in [Ma -> DongDangKy \cup {Khong}] /\ diem' \in [Ma -> DongDiem \cup {Khong}]
    BY <1>0 DEF XoaLop
  <2>2. \A m \in Ma : dangKy'[m] = dangKy[m] \/ dangKy'[m] = Khong
    BY <1>0 DEF XoaLop
  <2>3. \A m \in Ma : diem'[m] # Khong => dangKy'[m] # Khong
    BY <1>0 DEF XoaLop, KhongMoCoi
  <2>4. ASSUME NEW m \in Ma, dangKy'[m] # Khong PROVE lopHoc'[dangKy'[m].lop] # Khong
    <3>1. dangKy'[m] = dangKy[m] /\ m \notin TrongLop(l)
      BY <1>0, <2>4 DEF XoaLop
    <3>2. dangKy[m].lop # l /\ dangKy[m].lop \in Lop /\ lopHoc[dangKy[m].lop] # Khong
      BY <1>0, <2>4, <3>1 DEF TrongLop, KhongMoCoi, DongDangKy
    <3>3. QED
      BY <1>1, <3>1, <3>2 DEF ChiLop
  <2>5. QED
    BY <2>1, <2>2, <2>3, <2>4, ChungGiu DEF BatBienA
<1>3. /\ buocA' \in [QuanTri -> CacBuocA] /\ viecA' \in [QuanTri -> CongViecA]
      /\ \A e \in QuanTri : ViecDungA(buocA[e], viecA[e])' /\ LopNhuDoc(buocA[e], viecA[e])'
  BY <1>1, ThayLichGiu
<1>4. KieuA'
  BY <1>0, <1>3 DEF XoaLop, KieuA
<1>5. DauVet' /\ LopNguyenVen'
  BY <1>0, <1>1 DEF ChiLop, BatBienA, DauVet, LopNguyenVen, KieuA
<1>6. QED
  BY <1>1, <1>2, <1>3, <1>4, <1>5 DEF BatBienA

\* Class l comes into being by form q; its teacher, if it has one, is to follow.
LopMoi(a, l, q, b, v) ==
  /\ q \in Don /\ TuDon(q) /\ l \in chuaCap
  /\ lopHoc' = [lopHoc EXCEPT ![l] = [mon |-> q.mon, ky |-> q.ky, siSo |-> q.siSo, lich |-> q.lich]]
  /\ tenLop' = [tenLop EXCEPT ![l] = q.ten]
  /\ chuaCap' = chuaCap \ {l}
  /\ DenBuoc(a, b, v)
  /\ \/ b = "nghi" /\ v = KhongViecA
     \/ b = "taoPhanCong" /\ v.lop = l /\ v.q = q /\ q.gv # Khong
  /\ UNCHANGED <<dangKy, diem, dots, gio, maKe, buoc, viec, phanCong>>

LEMMA GhiLopMoi ==
  ASSUME BatBienA, NEW a \in QuanTri, GhiLop(a)
  PROVE  \/ XongA(a) /\ UNCHANGED <<vars, bangA>>
         \/ \E l, b, v : LopMoi(a, l, viecA[a].q, b, v)
<1>1. PICK w, q : w = viecA[a] /\ q = w.q
  OBVIOUS
<1>2. w \in CongViecA /\ buocA[a] = "taoGhi" /\ ViecDungA("taoGhi", w)
  BY <1>1 DEF BatBienA, KieuA, GhiLop
<1>3. q \in Don /\ TuDon(q) /\ w.lop = Khong
  BY <1>1, <1>2 DEF ViecDungA, BuocTao
<1>4. CASE ~TenTrong(q.mon, q.ky, q.ten, Khong)
  BY <1>1, <1>4 DEF GhiLop, vars, bangA
<1>5. CASE TenTrong(q.mon, q.ky, q.ten, Khong)
  <2>1. PICK l \in chuaCap :
          /\ chuaCap' = chuaCap \ {l}
          /\ lopHoc' = [lopHoc EXCEPT ![l] =
               [mon |-> q.mon, ky |-> q.ky, siSo |-> q.siSo, lich |-> q.lich]]
          /\ tenLop' = [tenLop EXCEPT ![l] = q.ten]
          /\ IF q.gv = Khong THEN XongA(a)
             ELSE /\ buocA' = [buocA EXCEPT ![a] = "taoPhanCong"]
                  /\ viecA' = [viecA EXCEPT ![a].lop = l]
    BY <1>1, <1>5 DEF GhiLop
  <2>2. UNCHANGED <<dangKy, diem, dots, gio, maKe, buoc, viec, phanCong>>
    BY DEF GhiLop
  <2>3. CASE q.gv = Khong
    <3>1. DenBuoc(a, "nghi", KhongViecA)
      BY <2>1, <2>3, KhongViecADung DEF XongA, DenBuoc
    <3>2. LopMoi(a, l, q, "nghi", KhongViecA)
      BY <1>3, <2>1, <2>2, <3>1 DEF LopMoi
    <3>3. QED
      BY <1>1, <3>2
  <2>4. CASE q.gv # Khong
    <3>1. PICK v : v = [w EXCEPT !.lop = l]
      OBVIOUS
    <3>2. v \in CongViecA /\ v.lop = l /\ v.q = q
      BY <1>1, <1>2, <2>1, <3>1 DEF CongViecA, BatBienA, KieuA
    <3>3. DenBuoc(a, "taoPhanCong", v)
      BY <1>1, <2>1, <2>4, <3>1, <3>2 DEF DenBuoc, CacBuocA
    <3>4. LopMoi(a, l, q, "taoPhanCong", v)
      BY <1>3, <2>1, <2>2, <2>4, <3>2, <3>3 DEF LopMoi
    <3>5. QED
      BY <1>1, <3>4
  <2>5. QED
    BY <2>3, <2>4
<1>6. QED
  BY <1>4, <1>5

LEMMA LopMoiGiu ==
  ASSUME BatBienA, NEW a \in QuanTri, NEW l, NEW q, NEW b, NEW v, LopMoi(a, l, q, b, v)
  PROVE  /\ BatBienA' /\ ChiLop(l) /\ l \in Lop /\ lopHoc[l] = Khong /\ phanCong[l] = {}
         /\ lopHoc'[l] # Khong /\ lopHoc'[l].ky = q.ky /\ lopHoc'[l].lich = q.lich
<1>0. /\ lopHoc \in [Lop -> DongLop \cup {Khong}] /\ KieuA /\ DauVet /\ KhongMoCoi
      /\ dangKy \in [Ma -> DongDangKy \cup {Khong}] /\ diem \in [Ma -> DongDiem \cup {Khong}]
      /\ l \in Lop /\ l \in chuaCap /\ lopHoc[l] = Khong /\ phanCong[l] = {}
  BY DEF BatBienA, BatBienChung, TypeOK, LopMoi, KieuA, DauVet
<1>1. PICK d : d = [mon |-> q.mon, ky |-> q.ky, siSo |-> q.siSo, lich |-> q.lich]
  OBVIOUS
<1>2. d \in DongLop /\ d # Khong /\ d.ky = q.ky /\ d.siSo = q.siSo /\ d.lich = q.lich
  <2>1. q.mon \in Mon /\ q.ky \in Ky /\ q.siSo \in Nat /\ q.lich \in SUBSET BuoiHoc
    BY DEF LopMoi, Don, TuDon, YeuCauHopLe
  <2>2. d \in DongLop
    BY <1>1, <2>1 DEF DongLop
  <2>3. QED
    BY <1>1, <2>2, HangSo
<1>3. /\ lopHoc' = [lopHoc EXCEPT ![l] = d] /\ lopHoc'[l] = d
      /\ lopHoc' \in [Lop -> DongLop \cup {Khong}] /\ ChiLop(l)
  BY <1>0, <1>1, <1>2 DEF LopMoi, ChiLop, KieuA
<1>4. BatBienChung'
  <2>1. \A m \in Ma : dangKy[m] # Khong =>
          dangKy[m].lop \in Lop /\ lopHoc[dangKy[m].lop] # Khong /\ dangKy[m].lop # l
    BY <1>0 DEF KhongMoCoi, DongDangKy
  <2>2. \A m \in Ma : dangKy'[m] # Khong => lopHoc'[dangKy'[m].lop] # Khong
    BY <1>3, <2>1 DEF LopMoi, ChiLop
  <2>3. QED
    BY <1>0, <1>3, <2>2, ChungGiu DEF LopMoi, BatBienA, KhongMoCoi
<1>5. ASSUME NEW e \in QuanTri PROVE (ViecDungA(buocA[e], viecA[e]) /\ LopNhuDoc(buocA[e], viecA[e]))'
  <2>1. CASE e = a
    <3>1. buocA'[e] = b /\ viecA'[e] = v
      BY <1>0, <2>1 DEF LopMoi, DenBuoc, KieuA
    <3>2. CASE b = "nghi" /\ v = KhongViecA
      BY <3>1, <3>2 DEF ViecDungA, LopNhuDoc, BuocTao, BuocSua
    <3>3. CASE b = "taoPhanCong" /\ v.lop = l /\ v.q = q /\ q.gv # Khong
      BY <1>0, <3>1, <3>3 DEF LopMoi, ViecDungA, LopNhuDoc, BuocTao, BuocSua
    <3>4. QED
      BY <3>2, <3>3 DEF LopMoi
  <2>2. CASE e # a
    <3>1. PICK c, w : c = buocA[e] /\ w = viecA[e] /\ ViecDungA(c, w) /\ LopNhuDoc(c, w)
      BY DEF BatBienA
    <3>2. buocA'[e] = c /\ viecA'[e] = w
      BY <1>0, <2>2, <3>1 DEF LopMoi, DenBuoc, KieuA
    <3>3. ViecDungA(c, w)' /\ (c \in BuocSua => w.lop \in Lop /\ w.lop # l)
      BY <1>0, <3>1 DEF LopMoi, ViecDungA, BuocTao, BuocSua
    <3>4. LopNhuDoc(c, w)'
      BY <1>3, <3>1, <3>3 DEF LopNhuDoc, ChiLop
    <3>5. QED
      BY <3>2, <3>3, <3>4
  <2>3. QED
    BY <2>1, <2>2
<1>6. KieuA'
  BY <1>0 DEF LopMoi, DenBuoc, KieuA, Don
<1>7. DauVet'
  BY <1>0, <1>2, <1>3 DEF LopMoi, ChiLop, DauVet, KieuA
<1>8. LopNguyenVen'
  <2>1. tenLop'[l] = q.ten
    BY <1>0 DEF LopMoi, KieuA
  <2>2. QED
    BY <1>2, <1>3, <2>1 DEF LopMoi, ChiLop, BatBienA, LopNguyenVen, TuDon
<1>9. QED
  BY <1>0, <1>2, <1>3, <1>4, <1>5, <1>6, <1>7, <1>8 DEF BatBienA

\* The teacher of a new class is written, unless the class has gone meanwhile.
LEMMA PhanCongGiu ==
  ASSUME BatBienA, NEW a \in QuanTri, GhiPhanCong(a)
  PROVE  /\ BatBienA' /\ viecA[a].lop \in Lop /\ viecA[a].q.gv \in GiangVien
         /\ phanCong' = [phanCong EXCEPT ![viecA[a].lop] = phanCong'[viecA[a].lop]]
         /\ phanCong'[viecA[a].lop] =
              IF lopHoc[viecA[a].lop] # Khong
              THEN phanCong[viecA[a].lop] \cup {viecA[a].q.gv} ELSE phanCong[viecA[a].lop]
<1>1. PICK v, l, g : v = viecA[a] /\ l = v.lop /\ g = v.q.gv
  OBVIOUS
<1>2. ViecDungA("taoPhanCong", v) /\ KieuA /\ DauVet
  BY <1>1 DEF BatBienA, GhiPhanCong
<1>3. l \in Lop /\ g \in GiangVien
  BY <1>1, <1>2 DEF ViecDungA, BuocTao, Don
<1>4. /\ phanCong' = IF lopHoc[l] # Khong THEN [phanCong EXCEPT ![l] = phanCong[l] \cup {g}] ELSE phanCong
      /\ XongA(a) /\ UNCHANGED <<vars, tenLop, chuaCap>>
  BY <1>1, <1>2, <1>3 DEF GhiPhanCong, KieuA
<1>5. /\ phanCong' \in [Lop -> SUBSET GiangVien]
      /\ phanCong' = [phanCong EXCEPT ![l] = phanCong'[l]]
      /\ phanCong'[l] = IF lopHoc[l] # Khong THEN phanCong[l] \cup {g} ELSE phanCong[l]
  BY <1>2, <1>3, <1>4 DEF KieuA
<1>6. DauVet' /\ LopNguyenVen'
  BY <1>2, <1>3, <1>4 DEF DauVet, KieuA, BatBienA, LopNguyenVen, vars
<1>7. BatBienChung'
  BY <1>4, BuocChungGiu DEF BatBienA
<1>8. KieuA'
  BY <1>2, <1>4, <1>5, KhongViecADung DEF KieuA, XongA
<1>9. ASSUME NEW e \in QuanTri PROVE (ViecDungA(buocA[e], viecA[e]) /\ LopNhuDoc(buocA[e], viecA[e]))'
  <2>1. PICK c, w : /\ c = buocA'[e] /\ w = viecA'[e] /\ ViecDungA(c, w) /\ LopNhuDoc(c, w)
    BY <1>2, <1>4, KhongViecADung DEF BatBienA, KieuA, XongA
  <2>2. ViecDungA(c, w)' /\ LopNhuDoc(c, w)'
    BY <1>4, <2>1 DEF ViecDungA, LopNhuDoc, vars
  <2>3. QED
    BY <2>1, <2>2
<1>10. QED
  BY <1>1, <1>3, <1>5, <1>6, <1>7, <1>8, <1>9 DEF BatBienA

-----------------------------------------------------------------------------
(* The invariant is inductive *)

\* Slot a deletes class l.
XoaXong(a, l) ==
  /\ l \in Lop /\ l = viecA[a].lop /\ buocA[a] \in {"xoaGhi", "huyLopGhi"}
  /\ XoaLop(l) /\ XongThayLich(a, l)
  /\ UNCHANGED <<dots, gio, maKe, buoc, viec, chuaCap>>

\* A slot reads or checks, or gives up, or its write is one of these.
LEMMA GhiLa ==
  ASSUME BatBienA, NEW a \in QuanTri, GhiLop(a) \/ GhiSua(a) \/ GhiXoaLop(a) \/ GhiHuyLop(a)
  PROVE  \/ XongA(a) /\ UNCHANGED <<vars, bangA>>
         \/ GhiLop(a) /\ \E l, b, v : LopMoi(a, l, viecA[a].q, b, v)
         \/ GhiSua(a) /\ SuaDuoc(viecA[a]) /\ ThanhDon(a, viecA[a].lop, viecA[a].q)
         \/ XoaXong(a, viecA[a].lop)
<1>1. PICK v : v = viecA[a] /\ ViecDungA(buocA[a], v)
  BY DEF BatBienA
<1>2. CASE GhiLop(a)
  BY <1>2, GhiLopMoi
<1>3. CASE GhiSua(a)
  <2>1. CASE SuaDuoc(v)
    BY <1>1, <1>3, <2>1, SuaThanhDon
  <2>2. CASE ~SuaDuoc(v)
    BY <1>1, <1>3, <2>2 DEF GhiSua, vars, bangA
  <2>3. QED
    BY <2>1, <2>2
<1>4. CASE GhiXoaLop(a)
  <2>1. buocA[a] = "xoaGhi" /\ v.lop \in Lop
    BY <1>1, <1>4 DEF GhiXoaLop, ViecDungA, BuocTao
  <2>2. CASE lopHoc[v.lop] # Khong
    BY <1>1, <1>4, <2>1, <2>2 DEF GhiXoaLop, XoaXong
  <2>3. CASE lopHoc[v.lop] = Khong
    BY <1>1, <1>4, <2>3 DEF GhiXoaLop, vars, bangA
  <2>4. QED
    BY <2>2, <2>3
<1>5. CASE GhiHuyLop(a)
  <2>1. buocA[a] = "huyLopGhi" /\ v.lop \in Lop
    BY <1>1, <1>5 DEF GhiHuyLop, ViecDungA, BuocTao
  <2>2. CASE HuyLopDuoc(v)
    BY <1>1, <1>5, <2>1, <2>2 DEF GhiHuyLop, XoaXong
  <2>3. CASE ~HuyLopDuoc(v)
    BY <1>1, <1>5, <2>3 DEF GhiHuyLop, vars, bangA
  <2>4. QED
    BY <2>2, <2>3
<1>6. QED
  BY <1>2, <1>3, <1>4, <1>5

LEMMA QuanTriGiu ==
  ASSUME BatBienA, NEW a \in QuanTri, BuocQuanTri(a)
  PROVE  BatBienA'
<1>1. CASE \/ \E q \in YeuCauLop : KiemPhongTao(a, q)
           \/ \E l \in Lop, q \in YeuCauLop : DocLopSua(a, l, q)
           \/ \E l \in Lop : DocLopXoa(a, l) \/ DocLopHuy(a, l)
  <2>1. PICK b, v : DocLa(a, b, v)
    BY <1>1, BatDauLa
  <2>2. QED
    BY <2>1, DocGiuA DEF DocLa, DenBuoc
<1>2. CASE KiemTenTao(a) \/ KiemGVTao(a) \/ KiemPhongSua(a) \/ KiemTenSua(a) \/ KiemGVSua(a)
  <2>0. ViecDungA(buocA[a], viecA[a])
    BY DEF BatBienA
  <2>1. CASE XongA(a)
    BY <1>2, <2>0, <2>1, KiemTraLa, XongGiuA
  <2>2. ASSUME NEW b, KiemLa(a, b) PROVE BatBienA'
    <3>1. PICK c, v : c = buocA[a] /\ v = viecA[a] /\ v \in CongViecA /\ ViecDungA(c, v) /\ LopNhuDoc(c, v)
      BY DEF BatBienA, KieuA
    <3>2. ViecDungA(b, v) /\ LopNhuDoc(b, v) /\ b \in CacBuocA
      BY <2>2, <3>1 DEF KiemLa, ViecDungA, LopNhuDoc, BuocTao, BuocSua, CacBuocA
    <3>3. buocA' = [buocA EXCEPT ![a] = b] /\ viecA' = [viecA EXCEPT ![a] = v]
      BY <2>2, <3>1 DEF KiemLa, BatBienA, KieuA
    <3>4. QED
      BY <1>2, <2>0, <3>1, <3>2, <3>3, KiemTraLa, DocGiuA
  <2>3. QED
    BY <1>2, <2>0, <2>1, <2>2, KiemTraLa
<1>3. CASE GhiPhanCong(a)
  BY <1>3, PhanCongGiu
<1>4. CASE GhiLop(a) \/ GhiSua(a) \/ GhiXoaLop(a) \/ GhiHuyLop(a)
  <2>1. CASE XongA(a) /\ UNCHANGED <<vars, bangA>>
    BY <2>1, XongGiuA
  <2>2. CASE \E l, b, v : LopMoi(a, l, viecA[a].q, b, v)
    BY <2>2, LopMoiGiu
  <2>3. CASE ThanhDon(a, viecA[a].lop, viecA[a].q)
    BY <2>3, ThanhDonGiu
  <2>4. CASE XoaXong(a, viecA[a].lop)
    BY <2>4, XoaLopGiu DEF XoaXong
  <2>5. QED
    BY <1>4, <2>1, <2>2, <2>3, <2>4, GhiLa
<1>5. QED
  BY <1>1, <1>2, <1>3, <1>4 DEF BuocQuanTri

\* Students' steps, and none at all, leave the administrators' side alone.
LEMMA SinhVienGiu ==
  ASSUME BatBienA, [Next]_vars, UNCHANGED <<bangA, buocA, viecA>>
  PROVE  BatBienA' /\ UNCHANGED <<lopHoc, tenLop, phanCong, chuaCap, buocA, viecA>>
<1>1. BatBienChung' /\ UNCHANGED <<lopHoc, tenLop, phanCong, chuaCap, buocA, viecA>>
  BY BuocChungGiu, LopYen DEF BatBienA, bangA
<1>2. KieuA' /\ DauVet' /\ LopNguyenVen'
  BY <1>1 DEF BatBienA, KieuA, DauVet, LopNguyenVen
<1>3. ASSUME NEW e \in QuanTri PROVE (ViecDungA(buocA[e], viecA[e]) /\ LopNhuDoc(buocA[e], viecA[e]))'
  BY <1>1 DEF BatBienA, ViecDungA, LopNhuDoc
<1>4. QED
  BY <1>1, <1>2, <1>3 DEF BatBienA

LEMMA BuocAGiu == BatBienA /\ [NextA]_varsA => BatBienA'
<1> SUFFICES ASSUME BatBienA, [NextA]_varsA PROVE BatBienA'
  OBVIOUS
<1>1. ASSUME NEW a \in QuanTri, BuocQuanTri(a) PROVE BatBienA'
  BY <1>1, QuanTriGiu
<1>2. CASE [Next]_vars /\ UNCHANGED <<bangA, buocA, viecA>>
  BY <1>2, SinhVienGiu
<1>3. QED
  BY <1>1, <1>2 DEF NextA, varsA, bangA

LEMMA KhoiDauA == InitA => BatBienA
<1> SUFFICES ASSUME InitA PROVE BatBienA
  OBVIOUS
<1>1. BatBienChung /\ lopHoc = LopDau
  BY KhoiDau DEF InitA, Init, IInv, BatBienChung
<1>2. KieuA
  BY HangSoLop, KhongViecADung DEF InitA, KieuA
<1>3. DauVet /\ LopNguyenVen
  BY <1>1, HangSoLop DEF InitA, DauVet, LopNguyenVen
<1>4. ASSUME NEW a \in QuanTri PROVE ViecDungA(buocA[a], viecA[a]) /\ LopNhuDoc(buocA[a], viecA[a])
  BY KhongViecADung DEF InitA
<1>5. QED
  BY <1>1, <1>2, <1>3, <1>4 DEF BatBienA

LEMMA BatBienALuonDung == SpecA => []BatBienA
BY KhoiDauA, BuocAGiu, PTL DEF SpecA

\* However many administrators edit, create and delete at once, on the same class
\* or not, a class is always what one form said: the deletion of the schedule rows
\* that were read makes all but one of several overlapping edits fail.
THEOREM LopLuonNguyenVen == SpecA => []LopNguyenVen
<1>1. BatBienA => LopNguyenVen
  BY DEF BatBienA
<1>2. QED
  BY <1>1, BatBienALuonDung, PTL

\* A class that is deleted or cancelled takes its teachers, registrations and marks
\* with it, whatever students and administrators do in between: nobody is left in a
\* class that is not there.
THEOREM KhongBaoGioConDauVet == SpecA => []KhongConDauVet
<1>1. BatBienA => KhongConDauVet
  BY DEF BatBienA, BatBienChung, DauVet, KhongConDauVet
<1>2. QED
  BY <1>1, BatBienALuonDung, PTL
-----------------------------------------------------------------------------
(* Rooms and teachers, when administrators at work at once are at one class *)

LEMMA TrungDoiXung ==
  ASSUME NEW A, NEW B
  PROVE  (TrungPhong(A, B) => TrungPhong(B, A)) /\ (TrungNhau(A, B) => TrungNhau(B, A))
BY DEF TrungPhong, TrungNhau, BuoiTrungNhau

\* What was looked up for class l, or for a class that is to become l, says of l
\* what it said when only class l has changed since.
LEMMA TraCuuGiu ==
  ASSUME NEW l \in Lop, ChiLop(l), NEW o \in {l, Khong}, NEW ky, NEW lich, NEW gv
  PROVE  /\ PhongTrong(ky, lich, o) => PhongTrong(ky, lich, l)'
         /\ GiangVienRanh(gv, ky, lich, o) => GiangVienRanh(gv, ky, lich, l)'
<1>1. \A k \in LopCungKy(ky, l)' :
        k \in LopCungKy(ky, o) /\ lopHoc'[k] = lopHoc[k] /\ phanCong'[k] = phanCong[k]
  BY HangSo DEF LopCungKy, ChiLop
<1>2. PhongTrong(ky, lich, o) => PhongTrong(ky, lich, l)'
  BY <1>1 DEF PhongTrong
<1>3. GiangVienRanh(gv, ky, lich, o) => GiangVienRanh(gv, ky, lich, l)'
  BY <1>1 DEF GiangVienRanh
<1>4. QED
  BY <1>2, <1>3

\* No room is given twice when class l gets meetings whose rooms are free.
LEMMA PhongMotLop ==
  ASSUME PhongKhongTrung, NEW l \in Lop, ChiLop(l),
         lopHoc'[l] # Khong => PhongTrong(lopHoc[l].ky, lopHoc[l].lich, l)'
  PROVE  PhongKhongTrung'
<1>1. ASSUME NEW k \in Lop \ {l}, lopHoc'[k] # Khong, lopHoc'[l] # Khong,
             lopHoc'[k].ky = lopHoc'[l].ky
      PROVE  /\ ~TrungPhong(lopHoc'[k].lich, lopHoc'[l].lich)
             /\ ~TrungPhong(lopHoc'[l].lich, lopHoc'[k].lich)
  <2>1. ~TrungPhong(lopHoc'[l].lich, lopHoc'[k].lich)
    BY <1>1 DEF PhongTrong, LopCungKy
  <2>2. QED
    BY <2>1, TrungDoiXung
<1>2. ASSUME NEW k \in Lop \ {l}, NEW m \in Lop \ {l}, k # m,
             lopHoc'[k] # Khong, lopHoc'[m] # Khong, lopHoc'[k].ky = lopHoc'[m].ky
      PROVE  ~TrungPhong(lopHoc'[k].lich, lopHoc'[m].lich)
  BY <1>2 DEF PhongKhongTrung, ChiLop
<1>3. QED
  BY <1>1, <1>2 DEF PhongKhongTrung

\* No teacher is booked twice when class l gets teachers who are free then.
LEMMA GVMotLop ==
  ASSUME GiangVienKhongTrung, KieuA', DauVet', NEW l \in Lop, ChiLop(l),
         \A g \in phanCong'[l] : GiangVienRanh(g, lopHoc[l].ky, lopHoc[l].lich, l)'
  PROVE  GiangVienKhongTrung'
<1>1. ASSUME NEW k \in Lop \ {l}, phanCong'[k] \cap phanCong'[l] # {},
             lopHoc'[k].ky = lopHoc'[l].ky
      PROVE  /\ ~TrungNhau(lopHoc'[k].lich, lopHoc'[l].lich)
             /\ ~TrungNhau(lopHoc'[l].lich, lopHoc'[k].lich)
  <2>1. PICK g : g \in phanCong'[k] /\ g \in phanCong'[l]
    BY <1>1
  <2>2. g # Khong /\ lopHoc'[k] # Khong
    <3>1. phanCong'[l] \in SUBSET GiangVien
      BY DEF KieuA
    <3>2. lopHoc'[k] = Khong => phanCong'[k] = {}
      BY DEF DauVet
    <3>3. QED
      BY <2>1, <3>1, <3>2, HangSoLop
  <2>3. ~TrungNhau(lopHoc'[l].lich, lopHoc'[k].lich)
    <3>1. k \in LopCungKy(lopHoc[l].ky, l)'
      BY <1>1, <2>2 DEF LopCungKy
    <3>2. GiangVienRanh(g, lopHoc[l].ky, lopHoc[l].lich, l)'
      BY <2>1
    <3>3. QED
      BY <2>1, <2>2, <3>1, <3>2 DEF GiangVienRanh
  <2>4. QED
    BY <2>3, TrungDoiXung
<1>2. ASSUME NEW k \in Lop \ {l}, NEW m \in Lop \ {l}, k # m,
             phanCong'[k] \cap phanCong'[m] # {}, lopHoc'[k].ky = lopHoc'[m].ky
      PROVE  ~TrungNhau(lopHoc'[k].lich, lopHoc'[m].lich)
  BY <1>2 DEF GiangVienKhongTrung, ChiLop
<1>3. QED
  BY <1>1, <1>2 DEF GiangVienKhongTrung

\* The other slots stay at their steps and keep what they have read, but that the
\* schedule rows may be gone.
SlotKhacYen(a) ==
  \A e \in QuanTri \ {a} :
    /\ buocA'[e] = buocA[e]
    /\ viecA'[e].lop = viecA[e].lop /\ viecA'[e].q = viecA[e].q /\ viecA'[e].gv = viecA[e].gv
    /\ viecA'[e].con => viecA[e].con

\* Whoever else is at work is at class l.
NguoiKhacO(a, l) == \A e \in DangLam \ {a} : viecA[e].lop = l

LEMMA DenBuocYen ==
  ASSUME KieuA, NEW a \in QuanTri, NEW b, NEW v, DenBuoc(a, b, v)
  PROVE  SlotKhacYen(a) /\ buocA'[a] = b /\ viecA'[a] = v
BY DEF KieuA, DenBuoc, SlotKhacYen

LEMMA ThayLichYen ==
  ASSUME KieuA, NEW a \in QuanTri, NEW l, XongThayLich(a, l)
  PROVE  /\ SlotKhacYen(a) /\ buocA'[a] = "nghi" /\ viecA'[a] = KhongViecA
         /\ \A e \in QuanTri \ {a} : viecA[e].lop = l => ~viecA'[e].con
<1>1. ASSUME NEW e \in QuanTri \ {a}
      PROVE  /\ buocA'[e] = buocA[e]
             /\ viecA'[e].lop = viecA[e].lop /\ viecA'[e].q = viecA[e].q
             /\ viecA'[e].gv = viecA[e].gv
             /\ viecA'[e].con => viecA[e].con
             /\ viecA[e].lop = l => ~viecA'[e].con
  <2>1. PICK w, u : w = viecA[e] /\ w \in CongViecA /\ u = [w EXCEPT !.con = FALSE]
    BY DEF KieuA
  <2>2. buocA'[e] = buocA[e] /\ viecA'[e] = IF w.lop = l THEN u ELSE w
    BY <2>1 DEF KieuA, XongThayLich
  <2>3. u.lop = w.lop /\ u.q = w.q /\ u.gv = w.gv /\ ~u.con
    BY <2>1 DEF CongViecA
  <2>4. QED
    BY <2>1, <2>2, <2>3
<1>2. buocA'[a] = "nghi" /\ viecA'[a] = KhongViecA
  BY DEF KieuA, XongThayLich
<1>3. QED
  BY <1>1, <1>2 DEF SlotKhacYen

LEMMA MotLucGiu ==
  ASSUME MoiLopMotLuc, NEW a \in QuanTri, SlotKhacYen(a),
         \/ buocA'[a] = "nghi" \/ DangLam \subseteq {a}
         \/ viecA'[a].lop # Khong /\ NguoiKhacO(a, viecA'[a].lop)
         \/ buocA[a] # "nghi" /\ viecA'[a].lop = viecA[a].lop
  PROVE  MoiLopMotLuc'
<1>1. \A e \in DangLam' \ {a} : e \in DangLam /\ viecA'[e].lop = viecA[e].lop
  BY DEF DangLam, SlotKhacYen
<1>2. \A e \in DangLam' \ {a} : a \in DangLam' => viecA'[a].lop # Khong /\ viecA'[e].lop = viecA'[a].lop
  BY <1>1 DEF MoiLopMotLuc, NguoiKhacO, DangLam
<1>3. \A e, f \in DangLam' \ {a} : e # f => viecA'[e].lop # Khong /\ viecA'[f].lop = viecA'[e].lop
  BY <1>1 DEF MoiLopMotLuc
<1>4. QED
  BY <1>2, <1>3 DEF MoiLopMotLuc
\* Slot a writes class l and no other, with nobody at work elsewhere.
GhiMotLop(a, l) ==
  /\ l \in Lop /\ ChiLop(l) /\ SlotKhacYen(a) /\ NguoiKhacO(a, l)
  /\ \/ buocA'[a] = "nghi"
     \/ buocA'[a] = "taoPhanCong" /\ viecA'[a].lop = l /\ DangLam \subseteq {a}

LEMMA GhiPhong ==
  ASSUME LanLuot, BatBienA', NEW a \in QuanTri, NEW l, GhiMotLop(a, l),
         lopHoc'[l] # Khong => PhongTrong(lopHoc[l].ky, lopHoc[l].lich, l)'
  PROVE  LanLuot'
<1>1. PhongKhongTrung'
  BY PhongMotLop DEF LanLuot, GhiMotLop
<1>2. MoiLopMotLuc'
  BY MotLucGiu DEF LanLuot, GhiMotLop
<1>3. ASSUME NEW e \in QuanTri PROVE PhongConTrong(buocA[e], viecA[e])'
  <2>1. CASE buocA'[e] \in {"nghi", "taoPhanCong"}
    BY <2>1 DEF PhongConTrong, BuocTao
  <2>2. CASE buocA'[e] \notin {"nghi", "taoPhanCong"}
    <3>1. PICK b, q : /\ b = buocA[e] /\ q = viecA[e].q /\ viecA[e].lop = l
                      /\ buocA'[e] = b /\ viecA'[e].q = q /\ viecA'[e].lop = l
      BY <2>2 DEF GhiMotLop, SlotKhacYen, NguoiKhacO, DangLam
    <3>2. b \in BuocTao \cup {"suaTen", "suaGV", "suaGhi"} => PhongTrong(q.ky, q.lich, l)
      BY <3>1 DEF LanLuot, PhongConTrong
    <3>3. PhongTrong(q.ky, q.lich, l) => PhongTrong(q.ky, q.lich, l)'
      BY TraCuuGiu DEF GhiMotLop
    <3>4. PhongTrong(q.ky, q.lich, l)' => PhongTrong(viecA[e].q.ky, viecA[e].q.lich, viecA[e].lop)'
      BY <3>1 DEF PhongTrong, LopCungKy
    <3>5. QED
      BY <3>1, <3>2, <3>3, <3>4 DEF PhongConTrong
  <2>3. QED
    BY <2>1, <2>2
<1>4. QED
  BY <1>1, <1>2, <1>3 DEF LanLuot

\* Slot a moves on to step b with v, and no class changes.
LEMMA YenPhong ==
  ASSUME LanLuot, BatBienA', NEW a \in QuanTri, NEW b, NEW v, DenBuoc(a, b, v),
         UNCHANGED lopHoc, PhongConTrong(b, v),
         \/ b = "nghi"
         \/ v.lop # Khong /\ NguoiKhacO(a, v.lop)
         \/ DangLam \subseteq {a}
         \/ buocA[a] # "nghi" /\ v.lop = viecA[a].lop
  PROVE  LanLuot'
<1>1. SlotKhacYen(a) /\ buocA'[a] = b /\ viecA'[a] = v
  BY DenBuocYen DEF LanLuot, BatBienA
<1>2. MoiLopMotLuc'
  BY <1>1, MotLucGiu DEF LanLuot
<1>3. PhongKhongTrung'
  BY DEF LanLuot, PhongKhongTrung
<1>4. ASSUME NEW e \in QuanTri PROVE PhongConTrong(buocA[e], viecA[e])'
  <2>1. PICK c, w : c = buocA'[e] /\ w = viecA'[e] /\ PhongConTrong(c, w)
    BY <1>1 DEF LanLuot, SlotKhacYen, PhongConTrong
  <2>2. PhongConTrong(c, w)'
    BY <2>1 DEF PhongConTrong, PhongTrong, LopCungKy
  <2>3. QED
    BY <2>1, <2>2
<1>5. QED
  BY <1>2, <1>3, <1>4 DEF LanLuot

\* What a slot that takes a request finds at work.
LEMMA RanhLa ==
  ASSUME CungLop, NEW a \in QuanTri, NEW l, RanhA(a, l)
  PROVE  DangLam \subseteq {a} \/ (l # Khong /\ NguoiKhacO(a, l))
BY DEF RanhA, DangLam, NguoiKhacO

\* A slot at a class finds whoever else is at work at that class; a slot that is to
\* create one is alone.
LEMMA NguoiKhacLa ==
  ASSUME MoiLopMotLuc, NEW a \in QuanTri, buocA[a] # "nghi"
  PROVE  /\ NguoiKhacO(a, viecA[a].lop)
         /\ viecA[a].lop = Khong => DangLam \subseteq {a}
BY DEF MoiLopMotLuc, DangLam, NguoiKhacO

\* The writes of slot a, as GhiMotLop sees them.
LEMMA GhiMotLopLa ==
  ASSUME LanLuot, NEW a \in QuanTri
  PROVE  /\ \A l, q, b, v : buocA[a] = "taoGhi" /\ LopMoi(a, l, q, b, v) => GhiMotLop(a, l)
         /\ GhiSua(a) /\ ThanhDon(a, viecA[a].lop, viecA[a].q) => GhiMotLop(a, viecA[a].lop)
         /\ XoaXong(a, viecA[a].lop) => GhiMotLop(a, viecA[a].lop)
         /\ GhiPhanCong(a) => GhiMotLop(a, viecA[a].lop)
<1>0. KieuA /\ BatBienA /\ MoiLopMotLuc /\ ViecDungA(buocA[a], viecA[a])
  BY DEF LanLuot, BatBienA
<1>1. ASSUME NEW l, NEW q, NEW b, NEW v, buocA[a] = "taoGhi", LopMoi(a, l, q, b, v)
      PROVE  GhiMotLop(a, l)
  <2>1. l \in Lop /\ ChiLop(l)
    BY <1>0, <1>1, LopMoiGiu
  <2>2. SlotKhacYen(a) /\ buocA'[a] = b /\ viecA'[a] = v
    BY <1>0, <1>1, DenBuocYen DEF LopMoi
  <2>3. DangLam \subseteq {a} /\ NguoiKhacO(a, l)
    BY <1>0, <1>1, NguoiKhacLa DEF ViecDungA, BuocTao, NguoiKhacO
  <2>4. QED
    BY <1>1, <2>1, <2>2, <2>3 DEF LopMoi, GhiMotLop
<1>2. ASSUME GhiSua(a), ThanhDon(a, viecA[a].lop, viecA[a].q) PROVE GhiMotLop(a, viecA[a].lop)
  <2>1. SlotKhacYen(a) /\ buocA'[a] = "nghi" /\ ChiLop(viecA[a].lop) /\ viecA[a].lop \in Lop
    BY <1>0, <1>2, ThayLichYen DEF ThanhDon
  <2>2. NguoiKhacO(a, viecA[a].lop)
    BY <1>0, <1>2, NguoiKhacLa DEF GhiSua
  <2>3. QED
    BY <2>1, <2>2 DEF GhiMotLop
<1>3. ASSUME XoaXong(a, viecA[a].lop) PROVE GhiMotLop(a, viecA[a].lop)
  <2>1. SlotKhacYen(a) /\ buocA'[a] = "nghi" /\ ChiLop(viecA[a].lop) /\ viecA[a].lop \in Lop
    BY <1>0, <1>3, ThayLichYen, XoaLopGiu DEF XoaXong
  <2>2. NguoiKhacO(a, viecA[a].lop)
    BY <1>0, <1>3, NguoiKhacLa DEF XoaXong
  <2>3. QED
    BY <2>1, <2>2 DEF GhiMotLop
<1>4. ASSUME GhiPhanCong(a) PROVE GhiMotLop(a, viecA[a].lop)
  <2>1. DenBuoc(a, "nghi", KhongViecA)
    BY <1>4, KhongViecADung DEF GhiPhanCong, XongA, DenBuoc
  <2>2. SlotKhacYen(a) /\ buocA'[a] = "nghi"
    BY <1>0, <2>1, DenBuocYen
  <2>3. viecA[a].lop \in Lop /\ ChiLop(viecA[a].lop)
    BY <1>0, <1>4, PhanCongGiu DEF ChiLop, KieuA, GhiPhanCong, vars
  <2>4. NguoiKhacO(a, viecA[a].lop)
    BY <1>0, <1>4, NguoiKhacLa DEF GhiPhanCong
  <2>5. QED
    BY <2>2, <2>3, <2>4 DEF GhiMotLop
<1>5. QED
  BY <1>1, <1>2, <1>3, <1>4
\* Each step of an administrator: the rooms stay given once.
LEMMA QuanTriGiuPhong ==
  ASSUME CungLop, LanLuot, NEW a \in QuanTri, BuocQuanTri(a)
  PROVE  LanLuot'
<1>0. /\ BatBienA /\ BatBienA' /\ KieuA /\ MoiLopMotLuc
      /\ ViecDungA(buocA[a], viecA[a]) /\ PhongConTrong(buocA[a], viecA[a])
  BY QuanTriGiu DEF LanLuot, BatBienA
<1>1. ASSUME XongA(a), UNCHANGED <<vars, bangA>> PROVE LanLuot'
  <2>1. DenBuoc(a, "nghi", KhongViecA) /\ UNCHANGED lopHoc
    BY <1>1, KhongViecADung DEF XongA, DenBuoc, vars
  <2>2. PhongConTrong("nghi", KhongViecA)
    BY DEF PhongConTrong, BuocTao
  <2>3. QED
    BY <1>0, <2>1, <2>2, YenPhong
<1>2. ASSUME NEW b, NEW v, DocLa(a, b, v) PROVE LanLuot'
  <2>1. DenBuoc(a, b, v) /\ UNCHANGED lopHoc /\ PhongConTrong(b, v) /\ RanhA(a, v.lop)
    BY <1>2 DEF DocLa, vars
  <2>2. DangLam \subseteq {a} \/ (v.lop # Khong /\ NguoiKhacO(a, v.lop))
    BY <2>1, RanhLa
  <2>3. QED
    BY <1>0, <2>1, <2>2, YenPhong
<1>3. ASSUME NEW b, KiemLa(a, b), UNCHANGED <<vars, bangA>> PROVE LanLuot'
  <2>1. PICK v : v = viecA[a] /\ v \in CongViecA
    BY <1>0 DEF KieuA
  <2>2. DenBuoc(a, b, v) /\ UNCHANGED lopHoc /\ buocA[a] # "nghi"
    BY <1>0, <1>3, <2>1 DEF KiemLa, DenBuoc, KieuA, CacBuocA, BuocTao, BuocSua, vars
  <2>3. PhongConTrong(b, v)
    BY <1>0, <1>3, <2>1 DEF KiemLa
  <2>4. QED
    BY <1>0, <2>1, <2>2, <2>3, YenPhong
<1>4. CASE GhiPhanCong(a)
  <2>1. UNCHANGED <<vars, tenLop, chuaCap>> /\ DenBuoc(a, "nghi", KhongViecA)
    BY <1>4, KhongViecADung DEF GhiPhanCong, XongA, DenBuoc
  <2>2. PhongConTrong("nghi", KhongViecA)
    BY DEF PhongConTrong, BuocTao
  <2>3. QED
    BY <1>0, <2>1, <2>2, YenPhong DEF vars
<1>5. CASE GhiLop(a)
  <2>1. ASSUME NEW l, NEW b, NEW v, LopMoi(a, l, viecA[a].q, b, v) PROVE LanLuot'
    <3>1. PICK q : q = viecA[a].q
      OBVIOUS
    <3>2. buocA[a] = "taoGhi" /\ viecA[a].lop = Khong /\ PhongTrong(q.ky, q.lich, Khong)
      BY <1>0, <1>5, <3>1 DEF GhiLop, ViecDungA, PhongConTrong, BuocTao
    <3>3. l \in Lop /\ ChiLop(l) /\ lopHoc'[l].ky = q.ky /\ lopHoc'[l].lich = q.lich
      BY <1>0, <2>1, <3>1, LopMoiGiu
    <3>4. PhongTrong(q.ky, q.lich, l)'
      BY <3>2, <3>3, TraCuuGiu
    <3>5. PhongTrong(lopHoc[l].ky, lopHoc[l].lich, l)'
      BY <3>3, <3>4 DEF PhongTrong, LopCungKy
    <3>6. QED
      BY <1>0, <2>1, <3>2, <3>5, GhiMotLopLa, GhiPhong
  <2>2. QED
    BY <1>0, <1>1, <1>5, <2>1, GhiLopMoi
<1>6. CASE GhiSua(a) /\ ThanhDon(a, viecA[a].lop, viecA[a].q)
  <2>1. PICK q, l : q = viecA[a].q /\ l = viecA[a].lop
    OBVIOUS
  <2>2. PhongTrong(q.ky, q.lich, l)
    BY <1>0, <1>6, <2>1 DEF GhiSua, PhongConTrong
  <2>3. l \in Lop /\ ChiLop(l) /\ lopHoc'[l].ky = q.ky /\ lopHoc'[l].lich = q.lich
    BY <1>6, <2>1 DEF ThanhDon
  <2>4. PhongTrong(q.ky, q.lich, l)'
    BY <2>2, <2>3, TraCuuGiu
  <2>5. PhongTrong(lopHoc[l].ky, lopHoc[l].lich, l)'
    BY <2>3, <2>4 DEF PhongTrong, LopCungKy
  <2>6. QED
    BY <1>0, <1>6, <2>1, <2>5, GhiMotLopLa, GhiPhong
<1>7. CASE XoaXong(a, viecA[a].lop)
  <2>1. lopHoc'[viecA[a].lop] = Khong
    BY <1>0, <1>7, XoaLopGiu DEF XoaXong
  <2>2. QED
    BY <1>0, <1>7, <2>1, GhiMotLopLa, GhiPhong
<1>8. CASE \/ \E q \in YeuCauLop : KiemPhongTao(a, q)
           \/ \E l \in Lop, q \in YeuCauLop : DocLopSua(a, l, q)
           \/ \E l \in Lop : DocLopXoa(a, l) \/ DocLopHuy(a, l)
  BY <1>0, <1>2, <1>8, BatDauLa
<1>9. CASE KiemTenTao(a) \/ KiemGVTao(a) \/ KiemPhongSua(a) \/ KiemTenSua(a) \/ KiemGVSua(a)
  BY <1>0, <1>1, <1>3, <1>9, KiemTraLa
<1>10. CASE GhiSua(a) \/ GhiXoaLop(a) \/ GhiHuyLop(a)
  BY <1>0, <1>1, <1>5, <1>6, <1>7, <1>10, GhiLa
<1>11. QED
  BY <1>4, <1>5, <1>8, <1>9, <1>10 DEF BuocQuanTri

LEMMA BuocPhong ==
  ASSUME CungLop
  PROVE  LanLuot /\ [NextA]_varsA => LanLuot'
<1> SUFFICES ASSUME LanLuot, [NextA]_varsA PROVE LanLuot'
  OBVIOUS
<1>1. ASSUME NEW a \in QuanTri, BuocQuanTri(a) PROVE LanLuot'
  BY <1>1, QuanTriGiuPhong
<1>2. CASE [Next]_vars /\ UNCHANGED <<bangA, buocA, viecA>>
  <2>1. BatBienA' /\ UNCHANGED <<lopHoc, buocA, viecA>>
    BY <1>2, SinhVienGiu DEF LanLuot
  <2>2. (MoiLopMotLuc /\ PhongKhongTrung)'
    BY <2>1 DEF LanLuot, MoiLopMotLuc, DangLam, PhongKhongTrung
  <2>3. \A a \in QuanTri : PhongConTrong(buocA[a], viecA[a])'
    BY <2>1 DEF LanLuot, PhongConTrong, PhongTrong, LopCungKy
  <2>4. QED
    BY <2>1, <2>2, <2>3 DEF LanLuot
<1>3. QED
  BY <1>1, <1>2 DEF NextA, varsA, bangA

LEMMA KhoiDauPhong == InitA /\ PhongKhongTrung => LanLuot
<1> SUFFICES ASSUME InitA, PhongKhongTrung PROVE LanLuot
  OBVIOUS
<1>1. DangLam = {}
  BY DEF InitA, DangLam
<1>2. QED
  BY <1>1, KhoiDauA DEF InitA, LanLuot, MoiLopMotLuc, PhongConTrong, BuocTao

\* A room is never given to two classes of a term at once, as long as administrators
\* at work at once are at one class and no room is given twice to begin with: the
\* room looked up by Create or Update stays free until it is booked, because nobody
\* writes another class meanwhile.
THEOREM PhongLuonMotLop ==
  ASSUME CungLop
  PROVE  SpecA /\ PhongKhongTrung => []PhongKhongTrung
<1>1. InitA /\ PhongKhongTrung => LanLuot
  BY KhoiDauPhong
<1>2. LanLuot /\ [NextA]_varsA => LanLuot'
  BY BuocPhong
<1>3. LanLuot => PhongKhongTrung
  BY DEF LanLuot
<1>4. QED
  BY <1>1, <1>2, <1>3, PTL DEF SpecA
\* Slot a writes class l, whose teachers are free then; whoever else waits to write a
\* teacher or has read the teachers of a class is not misled.
LEMMA GhiGV ==
  ASSUME LanLuotGV, LanLuot', NEW a \in QuanTri, NEW l, GhiMotLop(a, l),
         \A g \in phanCong'[l] : GiangVienRanh(g, lopHoc[l].ky, lopHoc[l].lich, l)',
         \A e \in QuanTri \ {a} : buocA[e] = "taoPhanCong" => lopHoc'[l] \in {lopHoc[l], Khong},
         \A e \in QuanTri \ {a} : buocA[e] \in BuocSua => ~viecA'[e].con,
         buocA'[a] = "taoPhanCong" =>
           GiangVienRanh(viecA[a].q.gv, lopHoc[l].ky, lopHoc[l].lich, l)'
  PROVE  LanLuotGV'
<1>0. l \in Lop /\ ChiLop(l) /\ SlotKhacYen(a) /\ NguoiKhacO(a, l)
  BY DEF GhiMotLop
<1>1. GiangVienKhongTrung'
  BY <1>0, GVMotLop DEF LanLuotGV, LanLuot, BatBienA
<1>2. TaoXong'
  <2>1. ASSUME NEW e \in QuanTri, NEW f \in QuanTri, buocA'[e] = "taoPhanCong", buocA'[f] \in BuocSua
        PROVE  viecA'[f].lop # viecA'[e].lop
    <3>1. f # a /\ buocA'[f] = buocA[f] /\ viecA'[f].lop = viecA[f].lop /\ f \in DangLam
      BY <1>0, <2>1 DEF GhiMotLop, SlotKhacYen, BuocSua, DangLam
    <3>2. e # a
      BY <2>1, <3>1 DEF GhiMotLop
    <3>3. QED
      BY <1>0, <2>1, <3>1, <3>2 DEF SlotKhacYen, LanLuotGV, TaoXong
  <2>2. QED
    BY <2>1 DEF TaoXong
<1>3. ASSUME NEW e \in QuanTri PROVE GiangVienConRanh(buocA[e], viecA[e])'
  <2>1. CASE e = a
    <3>1. CASE buocA'[a] = "nghi"
      BY <2>1, <3>1 DEF GiangVienConRanh, BuocSua
    <3>2. CASE buocA'[a] = "taoPhanCong" /\ viecA'[a].lop = l
      <4>1. GiangVienRanh(viecA[a].q.gv, lopHoc[viecA[a].lop].ky, lopHoc[viecA[a].lop].lich, viecA[a].lop)'
        BY <3>2 DEF GiangVienRanh, LopCungKy
      <4>2. QED
        BY <2>1, <3>2, <4>1 DEF GiangVienConRanh, BuocSua
    <3>3. QED
      BY <3>1, <3>2 DEF GhiMotLop
  <2>2. CASE e # a /\ buocA[e] = "nghi"
    BY <1>0, <2>2 DEF SlotKhacYen, GiangVienConRanh, BuocSua
  <2>3. CASE e # a /\ buocA[e] # "nghi"
    <3>1. PICK b, q : /\ b = buocA[e] /\ q = viecA[e].q /\ viecA[e].lop = l
                      /\ buocA'[e] = b /\ viecA'[e].q = q /\ viecA'[e].lop = l
      BY <1>0, <2>3 DEF SlotKhacYen, NguoiKhacO, DangLam
    <3>2. /\ b \in {"taoGhi", "suaGhi"} => GiangVienRanh(q.gv, q.ky, q.lich, l)
          /\ b = "taoPhanCong" /\ lopHoc[l] # Khong =>
               GiangVienRanh(q.gv, lopHoc[l].ky, lopHoc[l].lich, l)
      BY <3>1 DEF LanLuotGV, GiangVienConRanh
    <3>3. b \in {"taoGhi", "suaGhi"} =>
            GiangVienRanh(viecA[e].q.gv, viecA[e].q.ky, viecA[e].q.lich, viecA[e].lop)'
      <4>1. GiangVienRanh(q.gv, q.ky, q.lich, l) => GiangVienRanh(q.gv, q.ky, q.lich, l)'
        BY <1>0, TraCuuGiu
      <4>2. GiangVienRanh(q.gv, q.ky, q.lich, l)' =>
              GiangVienRanh(viecA[e].q.gv, viecA[e].q.ky, viecA[e].q.lich, viecA[e].lop)'
        BY <3>1 DEF GiangVienRanh, LopCungKy
      <4>3. QED
        BY <3>2, <4>1, <4>2
    <3>4. ASSUME b = "taoPhanCong", lopHoc'[l] # Khong
          PROVE  GiangVienRanh(viecA[e].q.gv, lopHoc[viecA[e].lop].ky, lopHoc[viecA[e].lop].lich, viecA[e].lop)'
      <4>1. PICK d : d = lopHoc[l] /\ d = lopHoc'[l]
        BY <2>3, <3>1, <3>4
      <4>2. GiangVienRanh(q.gv, d.ky, d.lich, l)
        BY <3>2, <3>4, <4>1
      <4>3. GiangVienRanh(q.gv, d.ky, d.lich, l)'
        BY <1>0, <4>2, TraCuuGiu
      <4>4. QED
        BY <3>1, <4>1, <4>3 DEF GiangVienRanh, LopCungKy
    <3>5. b \in BuocSua => ~viecA'[e].con
      BY <2>3, <3>1
    <3>6. QED
      BY <3>1, <3>3, <3>4, <3>5 DEF GiangVienConRanh
  <2>4. QED
    BY <2>1, <2>2, <2>3
<1>4. QED
  BY <1>1, <1>2, <1>3 DEF LanLuotGV

\* Slot a moves on to step b with v, and neither class nor teacher changes.
LEMMA YenGV ==
  ASSUME LanLuotGV, LanLuot', NEW a \in QuanTri, NEW b, NEW v, DenBuoc(a, b, v),
         UNCHANGED <<lopHoc, phanCong>>, GiangVienConRanh(b, v), b # "taoPhanCong",
         b \in BuocSua =>
           \A e \in QuanTri : buocA[e] = "taoPhanCong" => viecA[e].lop # v.lop
  PROVE  LanLuotGV'
<1>1. SlotKhacYen(a) /\ buocA'[a] = b /\ viecA'[a] = v
  BY DenBuocYen DEF LanLuotGV, LanLuot, BatBienA
<1>2. GiangVienKhongTrung'
  BY DEF LanLuotGV, GiangVienKhongTrung
<1>3. TaoXong'
  BY <1>1 DEF LanLuotGV, TaoXong, SlotKhacYen
<1>4. ASSUME NEW e \in QuanTri PROVE GiangVienConRanh(buocA[e], viecA[e])'
  <2>1. PICK c, w : c = buocA'[e] /\ w = viecA'[e] /\ GiangVienConRanh(c, w)
    BY <1>1 DEF LanLuotGV, SlotKhacYen, GiangVienConRanh
  <2>2. GiangVienConRanh(c, w)'
    BY <2>1 DEF GiangVienConRanh, GiangVienRanh, LopCungKy
  <2>3. QED
    BY <2>1, <2>2
<1>5. QED
  BY <1>2, <1>3, <1>4 DEF LanLuotGV
LEMMA QuanTriGiuGV ==
  ASSUME CungLop, TaoXongMoiSua, LanLuotGV, NEW a \in QuanTri, BuocQuanTri(a)
  PROVE  LanLuotGV'
<1>0. /\ BatBienA /\ KieuA /\ LanLuot /\ LanLuot' /\ TaoXong /\ ViecDungA(buocA[a], viecA[a])
      /\ GiangVienConRanh(buocA[a], viecA[a]) /\ KieuA'
  BY QuanTriGiuPhong DEF LanLuotGV, LanLuot, BatBienA
<1>1. ASSUME XongA(a), UNCHANGED <<vars, bangA>> PROVE LanLuotGV'
  <2>1. DenBuoc(a, "nghi", KhongViecA) /\ UNCHANGED <<lopHoc, phanCong>>
    BY <1>1, KhongViecADung DEF XongA, DenBuoc, vars, bangA
  <2>2. GiangVienConRanh("nghi", KhongViecA) /\ "nghi" \notin BuocSua
    BY DEF GiangVienConRanh, BuocSua
  <2>3. QED
    BY <1>0, <2>1, <2>2, YenGV
<1>2. ASSUME NEW b, NEW v, DocLa(a, b, v) PROVE LanLuotGV'
  <2>1. DenBuoc(a, b, v) /\ UNCHANGED <<lopHoc, phanCong>>
    BY <1>2 DEF DocLa, vars, bangA
  <2>2. /\ GiangVienConRanh(b, v) /\ b # "taoPhanCong"
        /\ b \in BuocSua => \A e \in QuanTri : buocA[e] = "taoPhanCong" => viecA[e].lop # v.lop
    BY <1>2 DEF DocLa
  <2>3. QED
    BY <1>0, <2>1, <2>2, YenGV
<1>3. ASSUME NEW b, KiemLa(a, b), UNCHANGED <<vars, bangA>> PROVE LanLuotGV'
  <2>1. PICK v : v = viecA[a] /\ v \in CongViecA
    BY <1>0 DEF KieuA
  <2>2. /\ DenBuoc(a, b, v) /\ UNCHANGED <<lopHoc, phanCong>> /\ b # "taoPhanCong"
        /\ b \in BuocSua => buocA[a] \in BuocSua
    BY <1>0, <1>3, <2>1 DEF KiemLa, DenBuoc, KieuA, CacBuocA, BuocTao, BuocSua, vars, bangA
  <2>3. GiangVienConRanh(b, v)
    BY <1>0, <1>3, <2>1 DEF KiemLa
  <2>4. b \in BuocSua => \A e \in QuanTri : buocA[e] = "taoPhanCong" => viecA[e].lop # v.lop
    BY <1>0, <2>1, <2>2 DEF TaoXong
  <2>5. QED
    BY <1>0, <2>1, <2>2, <2>3, <2>4, YenGV
<1>4. CASE GhiPhanCong(a)
  <2>1. PICK l, g : l = viecA[a].lop /\ g = viecA[a].q.gv
    OBVIOUS
  <2>2. /\ buocA[a] = "taoPhanCong" /\ UNCHANGED lopHoc /\ GhiMotLop(a, l) /\ l \in Lop
        /\ phanCong'[l] = IF lopHoc[l] # Khong THEN phanCong[l] \cup {g} ELSE phanCong[l]
    BY <1>0, <1>4, <2>1, PhanCongGiu, GhiMotLopLa DEF GhiPhanCong, vars
  <2>3. ASSUME NEW h \in phanCong[l] PROVE GiangVienRanh(h, lopHoc[l].ky, lopHoc[l].lich, l)
    BY <2>2 DEF LanLuotGV, GiangVienKhongTrung, GiangVienRanh, LopCungKy
  <2>4. lopHoc[l] # Khong => GiangVienRanh(g, lopHoc[l].ky, lopHoc[l].lich, l)
    BY <1>0, <2>1, <2>2 DEF GiangVienConRanh
  <2>5. ASSUME NEW h \in phanCong'[l] PROVE GiangVienRanh(h, lopHoc[l].ky, lopHoc[l].lich, l)'
    <3>1. PICK ky, lich : ky = lopHoc[l].ky /\ lich = lopHoc[l].lich /\ ky = lopHoc'[l].ky /\ lich = lopHoc'[l].lich
      BY <2>2
    <3>2. GiangVienRanh(h, ky, lich, l)
      BY <2>2, <2>3, <2>4, <3>1
    <3>3. GiangVienRanh(h, ky, lich, l)'
      BY <2>2, <3>2, TraCuuGiu DEF GhiMotLop
    <3>4. QED
      BY <3>1, <3>3 DEF GiangVienRanh, LopCungKy
  <2>6. ASSUME NEW e \in QuanTri \ {a} PROVE buocA[e] \notin BuocSua
    <3>1. buocA[e] \in BuocSua => viecA[e].lop = l
      BY <2>2 DEF GhiMotLop, NguoiKhacO, DangLam, BuocSua
    <3>2. QED
      BY <1>0, <2>1, <2>2, <3>1 DEF TaoXong
  <2>7. buocA'[a] = "nghi"
    BY <1>0, <1>4 DEF GhiPhanCong, XongA, KieuA
  <2>8. QED
    BY <1>0, <2>2, <2>5, <2>6, <2>7, GhiGV
<1>5. CASE GhiLop(a)
  <2>1. ASSUME NEW l, NEW b, NEW v, LopMoi(a, l, viecA[a].q, b, v) PROVE LanLuotGV'
    <3>1. PICK q : q = viecA[a].q
      OBVIOUS
    <3>2. /\ buocA[a] = "taoGhi" /\ viecA[a].lop = Khong
          /\ GiangVienRanh(q.gv, q.ky, q.lich, Khong)
      BY <1>0, <1>5, <3>1 DEF GhiLop, ViecDungA, GiangVienConRanh, BuocTao
    <3>3. /\ l \in Lop /\ ChiLop(l) /\ lopHoc'[l].ky = q.ky /\ lopHoc'[l].lich = q.lich
          /\ phanCong'[l] = {}
      <4>1. /\ l \in Lop /\ ChiLop(l) /\ lopHoc'[l].ky = q.ky /\ lopHoc'[l].lich = q.lich
            /\ phanCong[l] = {}
        BY <1>0, <2>1, <3>1, LopMoiGiu
      <4>2. phanCong' = phanCong
        BY <2>1 DEF LopMoi
      <4>3. QED
        BY <4>1, <4>2
    <3>4. GiangVienRanh(q.gv, lopHoc[l].ky, lopHoc[l].lich, l)'
      <4>1. GiangVienRanh(q.gv, q.ky, q.lich, l)'
        BY <3>2, <3>3, TraCuuGiu
      <4>2. QED
        BY <3>3, <4>1 DEF GiangVienRanh, LopCungKy
    <3>5. buocA'[a] = b /\ viecA'[a] = v /\ (b = "taoPhanCong" => v.q = q)
      BY <1>0, <2>1, <3>1, DenBuocYen DEF LopMoi
    <3>6. b = "taoPhanCong" => GiangVienRanh(viecA[a].q.gv, lopHoc[l].ky, lopHoc[l].lich, l)'
      BY <3>4, <3>5 DEF GiangVienRanh, LopCungKy
    <3>7. \A e \in QuanTri \ {a} : buocA[e] = "nghi"
      BY <1>0, <3>2, NguoiKhacLa DEF LanLuot, DangLam
    <3>8. GhiMotLop(a, l)
      BY <1>0, <2>1, <3>2, GhiMotLopLa
    <3>9. QED
      BY <1>0, <3>3, <3>5, <3>6, <3>7, <3>8, GhiGV DEF BuocSua
  <2>2. QED
    BY <1>0, <1>1, <1>5, <2>1, GhiLopMoi
<1>6. CASE GhiSua(a) /\ SuaDuoc(viecA[a]) /\ ThanhDon(a, viecA[a].lop, viecA[a].q)
  <2>1. PICK v, q, l : v = viecA[a] /\ q = v.q /\ l = v.lop
    OBVIOUS
  <2>2. buocA[a] = "suaGhi" /\ v.con /\ phanCong[l] = v.gv /\ GiangVienRanh(q.gv, q.ky, q.lich, l)
    BY <1>0, <1>6, <2>1 DEF GhiSua, SuaDuoc, GiangVienConRanh, BuocSua
  <2>3. /\ l \in Lop /\ ChiLop(l) /\ lopHoc'[l].ky = q.ky /\ lopHoc'[l].lich = q.lich
        /\ XongThayLich(a, l) /\ \A g \in phanCong'[l] : g = q.gv
    BY <1>6, <2>1, <2>2 DEF ThanhDon
  <2>4. ASSUME NEW g \in phanCong'[l] PROVE GiangVienRanh(g, lopHoc[l].ky, lopHoc[l].lich, l)'
    <3>1. GiangVienRanh(q.gv, q.ky, q.lich, l)'
      BY <2>2, <2>3, TraCuuGiu
    <3>2. g = q.gv
      BY <2>3
    <3>3. QED
      BY <2>3, <3>1, <3>2 DEF GiangVienRanh, LopCungKy
  <2>5. /\ GhiMotLop(a, l) /\ buocA'[a] = "nghi"
        /\ \A e \in QuanTri \ {a} : viecA[e].lop = l => ~viecA'[e].con
    BY <1>0, <1>6, <2>1, <2>3, GhiMotLopLa, ThayLichYen
  <2>6. ASSUME NEW e \in QuanTri \ {a}, buocA[e] # "nghi" PROVE buocA[e] # "taoPhanCong" /\ ~viecA'[e].con
    <3>1. viecA[e].lop = l
      BY <2>5, <2>6 DEF GhiMotLop, NguoiKhacO, DangLam
    <3>2. QED
      BY <1>0, <2>1, <2>2, <2>5, <3>1 DEF TaoXong, BuocSua
  <2>7. QED
    BY <1>0, <2>4, <2>5, <2>6, GhiGV DEF BuocSua
<1>7. CASE XoaXong(a, viecA[a].lop)
  <2>1. PICK l : l = viecA[a].lop
    OBVIOUS
  <2>2. lopHoc'[l] = Khong /\ phanCong'[l] = {}
    BY <1>0, <1>7, <2>1, XoaLopGiu DEF XoaXong
  <2>3. /\ GhiMotLop(a, l) /\ buocA'[a] = "nghi"
        /\ \A e \in QuanTri \ {a} : viecA[e].lop = l => ~viecA'[e].con
    BY <1>0, <1>7, <2>1, GhiMotLopLa, ThayLichYen DEF XoaXong
  <2>4. ASSUME NEW e \in QuanTri \ {a}, buocA[e] \in BuocSua PROVE ~viecA'[e].con
    BY <2>3, <2>4 DEF GhiMotLop, NguoiKhacO, DangLam, BuocSua
  <2>5. QED
    BY <1>0, <2>2, <2>3, <2>4, GhiGV
<1>8. CASE \/ \E q \in YeuCauLop : KiemPhongTao(a, q)
           \/ \E l \in Lop, q \in YeuCauLop : DocLopSua(a, l, q)
           \/ \E l \in Lop : DocLopXoa(a, l) \/ DocLopHuy(a, l)
  BY <1>0, <1>2, <1>8, BatDauLa
<1>9. CASE KiemTenTao(a) \/ KiemGVTao(a) \/ KiemPhongSua(a) \/ KiemTenSua(a) \/ KiemGVSua(a)
  BY <1>0, <1>1, <1>3, <1>9, KiemTraLa
<1>10. CASE GhiSua(a) \/ GhiXoaLop(a) \/ GhiHuyLop(a)
  BY <1>0, <1>1, <1>5, <1>6, <1>7, <1>10, GhiLa
<1>11. QED
  BY <1>4, <1>5, <1>8, <1>9, <1>10 DEF BuocQuanTri

LEMMA BuocGV ==
  ASSUME CungLop, TaoXongMoiSua
  PROVE  LanLuotGV /\ [NextA]_varsA => LanLuotGV'
<1> SUFFICES ASSUME LanLuotGV, [NextA]_varsA PROVE LanLuotGV'
  OBVIOUS
<1>1. ASSUME NEW a \in QuanTri, BuocQuanTri(a) PROVE LanLuotGV'
  BY <1>1, QuanTriGiuGV
<1>2. CASE [Next]_vars /\ UNCHANGED <<bangA, buocA, viecA>>
  <2>1. UNCHANGED <<lopHoc, phanCong, buocA, viecA>>
    BY <1>2, SinhVienGiu DEF LanLuotGV, LanLuot
  <2>2. LanLuot'
    BY BuocPhong DEF LanLuotGV
  <2>3. (TaoXong /\ GiangVienKhongTrung)'
    BY <2>1 DEF LanLuotGV, TaoXong, GiangVienKhongTrung
  <2>4. \A a \in QuanTri : GiangVienConRanh(buocA[a], viecA[a])'
    BY <2>1 DEF LanLuotGV, GiangVienConRanh, GiangVienRanh, LopCungKy
  <2>5. QED
    BY <2>2, <2>3, <2>4 DEF LanLuotGV
<1>3. QED
  BY <1>1, <1>2 DEF NextA, varsA, bangA

\* No teacher has two classes of a term at once, under the same discipline and when
\* nobody edits a class whose teacher is still to be written: Create writes the
\* teacher in a second transaction and does not look the schedule up again.
THEOREM GiangVienLuonMotLop ==
  ASSUME CungLop, TaoXongMoiSua
  PROVE  SpecA /\ PhongKhongTrung /\ GiangVienKhongTrung => []GiangVienKhongTrung
<1>1. InitA /\ PhongKhongTrung /\ GiangVienKhongTrung => LanLuotGV
  BY KhoiDauPhong DEF InitA, LanLuotGV, TaoXong, GiangVienConRanh, BuocSua
<1>2. LanLuotGV /\ [NextA]_varsA => LanLuotGV'
  BY BuocGV
<1>3. LanLuotGV => GiangVienKhongTrung
  BY DEF LanLuotGV
<1>4. QED
  BY <1>1, <1>2, <1>3, PTL DEF SpecA
-----------------------------------------------------------------------------
(* Registration rounds *)

\* What a row may hold; a form checked so far.
FormDung(f) == DOMAIN f = R!CotDot /\ R!FormHopLe(f)
HangDung(r) == FormDung(r) /\ R!CoKy(r) /\ R!CoKhoaVien(r)

\* A slot at step b with v in its locals: the checks passed, the id it is at, and the
\* row as it was read, unless it is gone.
ViecDotDung(b, v) ==
  /\ b \in {"taoKhoa", "taoGhi"} => FormDung(v.form) /\ R!CoKy(v.form)
  /\ b \in R!BuocSua =>
       /\ v.ma \in Dot \ dotChuaCap /\ FormDung(v.form)
       /\ DOMAIN v.doc = R!CotDot /\ dot[v.ma] \in {v.doc, Khong}
  /\ b \in {"suaKhoa", "suaGhi"} => R!CoKy(v.form)
  /\ b \in {"taoGhi", "suaGhi"} => R!CoKhoaVien(v.form)
  /\ b = "xoaGhi" => v.ma \in Dot \ dotChuaCap

MotNguoiSua ==
  \A a, e \in QuanTriDot :
     a # e /\ buocDot[a] \in R!BuocSua /\ buocDot[e] \in R!BuocSua =>
       viecDot[a].ma # viecDot[e].ma

BangDot ==
  /\ dot = [d \in Dot |-> dot[d]] /\ dotChuaCap \subseteq Dot
  /\ \A d \in dotChuaCap : dot[d] = Khong
  /\ \A d \in Dot : dot[d] # Khong => HangDung(dot[d])

BatBienDot ==
  /\ BangDot /\ MotNguoiSua
  /\ buocDot = [a \in QuanTriDot |-> buocDot[a]] /\ viecDot = [a \in QuanTriDot |-> viecDot[a]]
  /\ \A a \in QuanTriDot : ViecDotDung(buocDot[a], viecDot[a])

\* What slot a does to the slots: it goes to step b with v in its locals.
Sang(a, b, v) ==
  /\ buocDot' = [buocDot EXCEPT ![a] = b]
  /\ viecDot' = [viecDot EXCEPT ![a] = v]

\* A step that reads, checks or answers writes nothing, and the slot may go on.
LEMMA ChiDoiO ==
  ASSUME BatBienDot, NEW a \in QuanTriDot, NEW b, NEW v, Sang(a, b, v),
         UNCHANGED <<dot, dotChuaCap>>, ViecDotDung(b, v),
         b \in R!BuocSua =>
           \A e \in QuanTriDot \ {a} : buocDot[e] \in R!BuocSua => viecDot[e].ma # v.ma
  PROVE  BatBienDot'
<1>1. /\ buocDot'[a] = b /\ viecDot'[a] = v
      /\ \A e \in QuanTriDot \ {a} : buocDot'[e] = buocDot[e] /\ viecDot'[e] = viecDot[e]
      /\ buocDot' = [e \in QuanTriDot |-> buocDot'[e]] /\ viecDot' = [e \in QuanTriDot |-> viecDot'[e]]
  BY DEF BatBienDot, Sang
<1>2. BangDot'
  BY DEF BatBienDot, BangDot
<1>3. ViecDotDung(b, v)' /\ \A e \in QuanTriDot \ {a} : ViecDotDung(buocDot[e], viecDot[e])
  BY DEF BatBienDot, ViecDotDung
<1>4. \A e \in QuanTriDot : ViecDotDung(buocDot[e], viecDot[e])'
  BY <1>1, <1>3 DEF ViecDotDung
<1>5. MotNguoiSua'
  BY <1>1 DEF BatBienDot, MotNguoiSua
<1>6. QED
  BY <1>1, <1>2, <1>4, <1>5 DEF BatBienDot

\* A write to the row of one round, by a slot that is then done: ids not given out
\* stay empty, and edits in flight are of other rounds or find the row gone.
LEMMA GhiMotDot ==
  ASSUME BatBienDot, NEW a \in QuanTriDot, Sang(a, "nghi", R!KhongViec),
         NEW d \in Dot, NEW r, dot' = [dot EXCEPT ![d] = r],
         dotChuaCap' \subseteq dotChuaCap \ {d},
         r = Khong \/ HangDung(r),
         r = Khong \/ \A e \in QuanTriDot \ {a} : buocDot[e] \in R!BuocSua => viecDot[e].ma # d
  PROVE  BatBienDot'
<1>1. /\ buocDot'[a] = "nghi" /\ viecDot'[a] = R!KhongViec
      /\ \A e \in QuanTriDot \ {a} : buocDot'[e] = buocDot[e] /\ viecDot'[e] = viecDot[e]
      /\ buocDot' = [e \in QuanTriDot |-> buocDot'[e]] /\ viecDot' = [e \in QuanTriDot |-> viecDot'[e]]
  BY DEF BatBienDot, Sang
<1>2. dot'[d] = r /\ (\A e \in Dot \ {d} : dot'[e] = dot[e]) /\ dot' = [e \in Dot |-> dot'[e]]
  BY DEF BatBienDot, BangDot
<1>3. BangDot'
  BY <1>2 DEF BatBienDot, BangDot, HangDung, FormDung, R!FormHopLe, R!CoKy, R!CoKhoaVien,
              R!PhamViHopLe
<1>4. ASSUME NEW e \in QuanTriDot PROVE ViecDotDung(buocDot[e], viecDot[e])'
  <2>1. CASE e = a
    BY <1>1, <2>1 DEF ViecDotDung, R!BuocSua
  <2>2. CASE e # a
    <3>1. ViecDotDung(buocDot[e], viecDot[e]) /\ buocDot'[e] = buocDot[e] /\ viecDot'[e] = viecDot[e]
      BY <1>1, <2>2 DEF BatBienDot
    <3>2. buocDot[e] \in R!BuocSua => dot'[viecDot[e].ma] \in {viecDot[e].doc, Khong}
      BY <1>2, <2>2, <3>1 DEF ViecDotDung
    <3>3. QED
      BY <3>1, <3>2 DEF ViecDotDung
  <2>3. QED
    BY <2>1, <2>2
<1>5. MotNguoiSua'
  BY <1>1 DEF BatBienDot, MotNguoiSua, R!BuocSua
<1>6. QED
  BY <1>1, <1>3, <1>4, <1>5 DEF BatBienDot

LEMMA DotTraLoiGiu ==
  ASSUME BatBienDot, NEW a \in QuanTriDot, R!TraLoi(a), UNCHANGED <<dot, dotChuaCap>>
  PROVE  BatBienDot'
<1>1. Sang(a, "nghi", R!KhongViec)
  BY DEF R!TraLoi, Sang
<1>2. ViecDotDung("nghi", R!KhongViec) /\ "nghi" \notin R!BuocSua
  BY DEF ViecDotDung, R!BuocSua
<1>3. QED
  BY <1>1, <1>2, ChiDoiO

\* Update saves the columns that differ from the row as read; into a row that
\* is still as read they make the form.
LEMMA GhiCotLaForm ==
  ASSUME NEW doc, NEW f, DOMAIN doc = R!CotDot, FormDung(f), R!CoKy(f), R!CoKhoaVien(f)
  PROVE  HangDung(R!GhiCot(doc, f, doc))
<1>1. DOMAIN R!GhiCot(doc, f, doc) = R!CotDot
  BY DEF R!GhiCot
<1>2. \A c \in R!CotDot : R!GhiCot(doc, f, doc)[c] = f[c]
  BY DEF R!GhiCot
<1>3. QED
  BY <1>1, <1>2 DEF HangDung, FormDung, R!FormHopLe, R!CoKy, R!CoKhoaVien, R!PhamViHopLe, R!CotDot

\* A query that checks the form: the slot goes on to step b, or answers with an error.
HoiDot(a, b) ==
  \/ /\ buocDot' = [buocDot EXCEPT ![a] = b] /\ UNCHANGED viecDot
     /\ ViecDotDung(b, viecDot[a])
  \/ R!TraLoi(a)

LEMMA DotHoiGiu ==
  ASSUME BatBienDot, NEW a \in QuanTriDot, NEW b, HoiDot(a, b), UNCHANGED <<dot, dotChuaCap>>,
         b \in R!BuocSua => buocDot[a] \in R!BuocSua
  PROVE  BatBienDot'
<1>1. CASE /\ buocDot' = [buocDot EXCEPT ![a] = b] /\ UNCHANGED viecDot
           /\ ViecDotDung(b, viecDot[a])
  <2>1. Sang(a, b, viecDot[a])
    BY <1>1 DEF BatBienDot, Sang
  <2>2. b \in R!BuocSua =>
          \A e \in QuanTriDot \ {a} : buocDot[e] \in R!BuocSua => viecDot[e].ma # viecDot[a].ma
    BY DEF BatBienDot, MotNguoiSua
  <2>3. QED
    BY <1>1, <2>1, <2>2, ChiDoiO
<1>2. CASE R!TraLoi(a)
  BY <1>2, DotTraLoiGiu
<1>3. QED
  BY <1>1, <1>2 DEF HoiDot

LEMMA BuocDot ==
  ASSUME MoiDotMotNguoi, BatBienDot, [R!Next]_R!vars
  PROVE  BatBienDot'
<1>1. CASE UNCHANGED R!vars
  BY <1>1 DEF BatBienDot, BangDot, MotNguoiSua, ViecDotDung, HangDung, FormDung, R!FormHopLe,
              R!CoKy, R!CoKhoaVien, R!PhamViHopLe, R!vars
<1>2. ASSUME NEW a \in QuanTriDot, NEW f \in Form, R!NhanTao(a, f) PROVE BatBienDot'
  <2>1. Sang(a, "taoKhoa", [R!KhongViec EXCEPT !.form = f]) /\ UNCHANGED <<dot, dotChuaCap>>
    BY <1>2 DEF R!NhanTao, R!Nhan, R!bang, Sang
  <2>2. ViecDotDung("taoKhoa", [R!KhongViec EXCEPT !.form = f])
    BY <1>2, HangDau DEF R!NhanTao, ViecDotDung, R!KhongViec, R!BuocSua, R!HangSoDot, FormDung
  <2>3. QED
    BY <2>1, <2>2, ChiDoiO DEF R!BuocSua
<1>3. ASSUME NEW a \in QuanTriDot, NEW d \in Dot, NEW f \in Form, R!DocSua(a, d, f)
      PROVE  BatBienDot'
  <2> DEFINE g == [f EXCEPT !.ky = dot[d].ky]
             v == [ma |-> d, form |-> g, doc |-> dot[d]]
  <2>1. Sang(a, "suaKy", v) /\ UNCHANGED <<dot, dotChuaCap>>
    BY <1>3 DEF R!DocSua, R!Nhan, R!bang, Sang
  <2>2. HangDung(dot[d]) /\ d \notin dotChuaCap
    BY <1>3 DEF R!DocSua, BatBienDot, BangDot
  <2>3. DOMAIN g = R!CotDot /\ \A c \in R!CotDot \ {"ky"} : g[c] = f[c]
    BY HangDau DEF R!HangSoDot
  <2>4. FormDung(g)
    BY <1>3, <2>3 DEF R!DocSua, FormDung, R!FormHopLe, R!PhamViHopLe, R!CotDot
  <2>5. ViecDotDung("suaKy", v)
    BY <2>2, <2>4 DEF ViecDotDung, HangDung, FormDung
  <2>6. \A e \in QuanTriDot \ {a} : buocDot[e] \in R!BuocSua => viecDot[e].ma # v.ma
    BY <1>3 DEF R!DocSua
  <2>7. QED
    BY <2>1, <2>5, <2>6, ChiDoiO
<1>4. ASSUME NEW a \in QuanTriDot, NEW d \in Dot, R!DocXoa(a, d) PROVE BatBienDot'
  <2>1. /\ Sang(a, "xoaGhi", [R!KhongViec EXCEPT !.ma = d]) /\ UNCHANGED <<dot, dotChuaCap>>
        /\ d \notin dotChuaCap
    BY <1>4 DEF R!DocXoa, R!Nhan, R!bang, Sang, BatBienDot, BangDot
  <2>2. ViecDotDung("xoaGhi", [R!KhongViec EXCEPT !.ma = d])
    BY <2>1 DEF ViecDotDung, R!KhongViec, R!BuocSua
  <2>3. QED
    BY <2>1, <2>2, ChiDoiO DEF R!BuocSua
<1>5. ASSUME NEW a \in QuanTriDot, R!KiemKhoaTao(a) PROVE BatBienDot'
  <2>1. UNCHANGED <<dot, dotChuaCap>> /\ buocDot[a] = "taoKhoa"
    BY <1>5 DEF R!KiemKhoaTao, R!bang
  <2>2. R!CoKhoaVien(viecDot[a].form) => ViecDotDung("taoGhi", viecDot[a])
    BY <2>1 DEF BatBienDot, ViecDotDung, R!BuocSua
  <2>3. HoiDot(a, "taoGhi")
    BY <1>5, <2>2 DEF R!KiemKhoaTao, R!Hoi, HoiDot
  <2>4. QED
    BY <2>1, <2>3, DotHoiGiu DEF R!BuocSua
<1>6. ASSUME NEW a \in QuanTriDot, R!KiemKySua(a) PROVE BatBienDot'
  <2>1. UNCHANGED <<dot, dotChuaCap>> /\ buocDot[a] = "suaKy"
    BY <1>6 DEF R!KiemKySua, R!bang
  <2>2. R!CoKy(viecDot[a].form) => ViecDotDung("suaKhoa", viecDot[a])
    BY <2>1 DEF BatBienDot, ViecDotDung, R!BuocSua
  <2>3. HoiDot(a, "suaKhoa")
    BY <1>6, <2>2 DEF R!KiemKySua, R!Hoi, HoiDot
  <2>4. QED
    BY <2>1, <2>3, DotHoiGiu DEF R!BuocSua
<1>7. ASSUME NEW a \in QuanTriDot, R!KiemKhoaSua(a) PROVE BatBienDot'
  <2>1. UNCHANGED <<dot, dotChuaCap>> /\ buocDot[a] = "suaKhoa"
    BY <1>7 DEF R!KiemKhoaSua, R!bang
  <2>2. R!CoKhoaVien(viecDot[a].form) => ViecDotDung("suaGhi", viecDot[a])
    BY <2>1 DEF BatBienDot, ViecDotDung, R!BuocSua
  <2>3. HoiDot(a, "suaGhi")
    BY <1>7, <2>2 DEF R!KiemKhoaSua, R!Hoi, HoiDot
  <2>4. QED
    BY <2>1, <2>3, DotHoiGiu DEF R!BuocSua
<1>8. ASSUME NEW a \in QuanTriDot, R!GhiTao(a) PROVE BatBienDot'
  <2>1. PICK d \in dotChuaCap : /\ dotChuaCap' = dotChuaCap \ {d}
                                /\ dot' = [dot EXCEPT ![d] = viecDot[a].form]
    BY <1>8 DEF R!GhiTao
  <2>2. d \in Dot /\ Sang(a, "nghi", R!KhongViec) /\ HangDung(viecDot[a].form)
    BY <1>8 DEF R!GhiTao, R!TraLoi, Sang, BatBienDot, BangDot, ViecDotDung, HangDung
  <2>3. \A e \in QuanTriDot \ {a} : buocDot[e] \in R!BuocSua => viecDot[e].ma # d
    BY DEF BatBienDot, ViecDotDung
  <2>4. QED
    BY <2>1, <2>2, <2>3, GhiMotDot
<1>9. ASSUME NEW a \in QuanTriDot, R!GhiSua(a) PROVE BatBienDot'
  <2> DEFINE v == viecDot[a]
  <2>0. buocDot[a] = "suaGhi" /\ R!TraLoi(a) /\ UNCHANGED dotChuaCap
    BY <1>9 DEF R!GhiSua
  <2>1. /\ buocDot[a] = "suaGhi" /\ UNCHANGED dotChuaCap /\ Sang(a, "nghi", R!KhongViec)
        /\ dot' = IF dot[v.ma] = Khong THEN dot
                  ELSE [dot EXCEPT ![v.ma] = R!GhiCot(v.doc, v.form, dot[v.ma])]
    BY <1>9, <2>0 DEF R!GhiSua, R!TraLoi, Sang
  <2>2. /\ v.ma \in Dot \ dotChuaCap /\ dot[v.ma] \in {v.doc, Khong}
        /\ DOMAIN v.doc = R!CotDot /\ FormDung(v.form) /\ R!CoKy(v.form) /\ R!CoKhoaVien(v.form)
    BY <2>1 DEF BatBienDot, ViecDotDung, R!BuocSua
  <2>3. CASE dot[v.ma] = Khong
    BY <2>0, <2>1, <2>3, DotTraLoiGiu
  <2>4. CASE dot[v.ma] # Khong
    <3>1. PICK r : r = R!GhiCot(v.doc, v.form, v.doc)
      OBVIOUS
    <3>2. dot' = [dot EXCEPT ![v.ma] = r] /\ HangDung(r)
      BY <2>1, <2>2, <2>4, <3>1, GhiCotLaForm
    <3>3. \A e \in QuanTriDot \ {a} : buocDot[e] \in R!BuocSua => viecDot[e].ma # v.ma
      BY <2>1 DEF BatBienDot, MotNguoiSua, R!BuocSua
    <3>4. dotChuaCap' \subseteq dotChuaCap \ {v.ma}
      BY <2>1, <2>2
    <3>5. QED
      BY <2>1, <2>2, <3>2, <3>3, <3>4, GhiMotDot
  <2>5. QED
    BY <2>3, <2>4
<1>10. ASSUME NEW a \in QuanTriDot, R!GhiXoa(a) PROVE BatBienDot'
  <2>1. /\ Sang(a, "nghi", R!KhongViec) /\ dot' = [dot EXCEPT ![viecDot[a].ma] = Khong]
        /\ viecDot[a].ma \in Dot \ dotChuaCap /\ UNCHANGED dotChuaCap
    BY <1>10 DEF R!GhiXoa, R!TraLoi, Sang, BatBienDot, ViecDotDung
  <2>2. dotChuaCap' \subseteq dotChuaCap \ {viecDot[a].ma}
    BY <2>1
  <2>3. QED
    BY <2>1, <2>2, GhiMotDot
<1>11. QED
  BY <1>1, <1>2, <1>3, <1>4, <1>5, <1>6, <1>7, <1>8, <1>9, <1>10 DEF R!Next

LEMMA KhoiDauDot == R!Init => BatBienDot
<1> SUFFICES ASSUME R!Init PROVE BatBienDot
  OBVIOUS
<1>1. BangDot
  BY HangDau DEF R!HangSoDot, R!Init, BangDot, HangDung, FormDung, R!FormHopLe, R!PhamViHopLe, R!CoKy,
         R!CoKhoaVien
<1>2. \A a \in QuanTriDot : buocDot[a] = "nghi"
  BY DEF R!Init
<1>3. QED
  BY <1>1, <1>2 DEF R!Init, BatBienDot, MotNguoiSua, ViecDotDung, R!BuocSua

\* Every stored round is one that Validate accepts, for any number of rounds, forms and
\* administrators, as long as no two edits of one round overlap: an edit then saves its
\* form over the row it has read, or finds the row gone.
THEOREM DotLuonHopLe ==
  ASSUME MoiDotMotNguoi PROVE SpecDot => []DotHopLe
<1>1. R!Init => BatBienDot
  BY KhoiDauDot
<1>2. BatBienDot /\ [R!Next]_R!vars => BatBienDot'
  BY BuocDot
<1>3. BatBienDot => DotHopLe
  BY DEF BatBienDot, BangDot, HangDung, FormDung, R!FormHopLe, R!PhamViHopLe, R!CoKy,
         R!CoKhoaVien, R!DotHopLe, DotHopLe
<1>4. QED
  BY <1>1, <1>2, <1>3, PTL DEF SpecDot, R!Spec

\* A deleted round stays deleted, however edits, deletions and creations overlap.
THEOREM DotXoaLaHet == SpecDot => XoaLaHet
<1> DEFINE BangSo == dot = [d \in Dot |-> dot[d]]
           KhongSongLai == \A d \in Dot : dot[d] = Khong /\ dot'[d] # Khong => d \in dotChuaCap
<1>1. R!Init => BangSo
  BY HangDau DEF R!HangSoDot, R!Init
<1>2. ASSUME BangSo, [R!Next]_R!vars PROVE BangSo' /\ KhongSongLai
  <2>1. CASE UNCHANGED dot
    BY <1>2, <2>1
  <2>2. ASSUME NEW a \in QuanTriDot, R!GhiTao(a) PROVE BangSo' /\ KhongSongLai
    BY <1>2, <2>2 DEF R!GhiTao
  <2>3. ASSUME NEW a \in QuanTriDot, R!GhiSua(a) PROVE BangSo' /\ KhongSongLai
    BY <1>2, <2>3 DEF R!GhiSua
  <2>4. ASSUME NEW a \in QuanTriDot, R!GhiXoa(a) PROVE BangSo' /\ KhongSongLai
    BY <1>2, <2>4 DEF R!GhiXoa
  <2>5. QED
    BY <1>2, <2>1, <2>2, <2>3, <2>4
    DEF R!Next, R!vars, R!bang, R!NhanTao, R!DocSua, R!DocXoa, R!KiemKhoaTao, R!KiemKySua,
        R!KiemKhoaSua
<1>3. KhongSongLai => [\A d \in Dot : dot[d] = Khong /\ dot'[d] # Khong => d \in dotChuaCap]_R!vars
  OBVIOUS
<1>4. QED
  BY <1>1, <1>2, <1>3, PTL DEF SpecDot, R!Spec, XoaLaHet, R!XoaLaHet
=============================================================================
