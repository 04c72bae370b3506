------------------------- MODULE DiemHocPhan_proofs -------------------------
(***************************************************************************)
(* What the entry of marks guarantees beside the students' requests, for   *)
(* every school and any number of entries in flight, and what the          *)
(* curriculum screen promises of DangKy.                                   *)
(***************************************************************************)
EXTENDS ChuongTrinh, DangKyHocPhan_proofs, ThuatToan_proofs

-----------------------------------------------------------------------------
(* The inductive invariant *)

CacBuocD == {"nghi", "quyen", "ghi", "docTL", "ghiTL"}

TruongD == {"nguoi", "ma", "sv", "lop", "x", "y", "cu", "tl", "moi"}

\* A mark in hundredths, or none.
Thang == 0..1000 \cup {Khong}
TongHaiDiem == 0..2000

DangNhap == {d \in NhapDiemSlot : buocD[d] # "nghi"}

\* An entry at step b with v in its locals: the registration it is for was its
\* student's, and still is if it is there; the marks to be written are in range.
NhapDung(b, v) ==
  b # "nghi" =>
    /\ DOMAIN v = TruongD
    /\ v.ma \in Ma /\ v.ma < maKe
    /\ dangKy[v.ma] # Khong => dangKy[v.ma].sv = v.sv
    /\ v.cu \in DongDiem \cup {Khong}
    /\ b = "ghi" => v.x \in Thang /\ v.y \in Thang

BatBienD ==
  /\ BatBienChung
  /\ buocD \in [NhapDiemSlot -> CacBuocD] /\ viecD = [d \in NhapDiemSlot |-> viecD[d]]
  /\ \A d \in NhapDiemSlot : NhapDung(buocD[d], viecD[d])

\* The mark an entry has read is the mark it will overwrite, unless it is gone.
DiemNhuDoc(b, v) == b \in {"quyen", "ghi"} => diem[v.ma] \in {v.cu, Khong}

\* While no student has two entries in flight.
MotNguoiNhap ==
  /\ BatBienD
  /\ \A d, e \in DangNhap : d # e => viecD[d].sv # viecD[e].sv
  /\ \A d \in NhapDiemSlot : DiemNhuDoc(buocD[d], viecD[d])

-----------------------------------------------------------------------------
(* Marks *)

\* The mean of two marks in range is in range: halves go to the even neighbour.
LEMMA LamTronTrongThang == ASSUME NEW n \in TongHaiDiem PROVE LamTron(n, 2) \in Thang
<1>0. n \in 0..2000
  BY DEF TongHaiDiem
<1>1. PICK q \in Int : q = n \div 2 /\ 2 * q <= n /\ n < 2 * q + 2
  BY <1>0
<1>2. PICK r \in 0..1 : r = n % 2
  BY <1>0
<1>3. LamTron(n, 2) = IF 2 * r < 2 \/ (2 * r = 2 /\ q % 2 = 0) THEN q ELSE q + 1
  BY <1>1, <1>2 DEF LamTron
<1>4. q \in 0..1000 /\ (q = 1000 => n = 2000)
  <2>1. 0 <= n /\ n <= 2000 /\ n \in Int /\ 2 * q <= n /\ n < 2 * q + 2
    BY <1>0, <1>1
  <2>2. 0 <= q /\ q <= 1000
    BY <2>1
  <2>3. QED
    BY <2>1, <2>2
<1>5. n = 2000 => n % 2 = 0
  OBVIOUS
<1>6. q = 1000 => r = 0
  BY <1>2, <1>4, <1>5
<1>7. CASE LamTron(n, 2) = q
  BY <1>4, <1>7 DEF Thang
<1>8. CASE LamTron(n, 2) = q + 1 /\ 2 * r >= 2
  BY <1>2, <1>4, <1>6, <1>8 DEF Thang
<1>9. QED
  BY <1>2, <1>3, <1>7, <1>8

LEMMA TinhZTrongThang == ASSUME NEW x \in Thang, NEW y \in Thang PROVE TinhZ(x, y) \in Thang
<1>1. CASE x = Khong \/ y = Khong
  BY <1>1 DEF TinhZ, Thang
<1>2. CASE x # Khong /\ y # Khong
  <2>1. PICK n \in TongHaiDiem : n = x + y
    BY <1>2 DEF Thang, TongHaiDiem
  <2>2. LamTron(n, 2) \in Thang
    BY LamTronTrongThang
  <2>3. QED
    BY <1>2, <2>1, <2>2 DEF TinhZ
<1>3. QED
  BY <1>1, <1>2

LEMMA DongDiemLa == DongDiem = [x : Thang, y : Thang, z : Thang]
BY DEF DongDiem, Thang

\* What an entry stores: of a mark as it was read, exactly what was sent.
LEMMA GhiCotDiem ==
  ASSUME NEW cu \in DongDiem, NEW gui \in DongDiem, NEW hang \in DongDiem
  PROVE  GhiCot(cu, gui, hang) \in DongDiem /\ GhiCot(cu, gui, cu) = gui
<1>1. \A h \in DongDiem : DOMAIN h = {"x", "y", "z"}
  <2>1. \A h \in [x : Thang, y : Thang, z : Thang] : DOMAIN h = {"x", "y", "z"}
    OBVIOUS
  <2>2. QED
    BY <2>1, DongDiemLa
<1>2. ASSUME NEW h \in DongDiem
      PROVE  /\ GhiCot(cu, gui, h) = [x |-> IF gui.x # cu.x THEN gui.x ELSE h.x,
                                      y |-> IF gui.y # cu.y THEN gui.y ELSE h.y,
                                      z |-> IF gui.z # cu.z THEN gui.z ELSE h.z]
  BY <1>1, <1>2 DEF GhiCot
<1>3. GhiCot(cu, gui, hang) \in DongDiem
  <2>1. PICK x, y, z : /\ x = IF gui.x # cu.x THEN gui.x ELSE hang.x
                       /\ y = IF gui.y # cu.y THEN gui.y ELSE hang.y
                       /\ z = IF gui.z # cu.z THEN gui.z ELSE hang.z
    OBVIOUS
  <2>2. x \in Thang /\ y \in Thang /\ z \in Thang
    <3>1. /\ gui.x \in Thang /\ gui.y \in Thang /\ gui.z \in Thang
          /\ hang.x \in Thang /\ hang.y \in Thang /\ hang.z \in Thang
      BY DongDiemLa
    <3>2. QED
      BY <2>1, <3>1
  <2>3. GhiCot(cu, gui, hang) = [x |-> x, y |-> y, z |-> z]
    BY <1>2, <2>1
  <2>4. GhiCot(cu, gui, hang) \in [x : Thang, y : Thang, z : Thang]
    BY <2>2, <2>3
  <2>5. QED
    BY <2>4, DongDiemLa
<1>4. GhiCot(cu, gui, cu) = [x |-> gui.x, y |-> gui.y, z |-> gui.z]
  BY <1>2
<1>5. gui = [x |-> gui.x, y |-> gui.y, z |-> gui.z]
  BY DEF DongDiem
<1>6. QED
  BY <1>3, <1>4, <1>5

LEMMA DiemGuiLa ==
  ASSUME NEW v, v.x \in Thang, v.y \in Thang
  PROVE  DiemGui(v) \in DongDiem /\ DiemGui(v).z = TinhZ(DiemGui(v).x, DiemGui(v).y)
<1>1. PICK x \in Thang, y \in Thang : x = v.x /\ y = v.y
  OBVIOUS
<1>2. PICK z \in Thang : z = TinhZ(x, y)
  BY TinhZTrongThang
<1>3. DiemGui(v) = [x |-> x, y |-> y, z |-> z]
  BY <1>1, <1>2 DEF DiemGui
<1>4. DiemGui(v) \in [x : Thang, y : Thang, z : Thang]
  BY <1>3
<1>5. DiemGui(v).z = TinhZ(DiemGui(v).x, DiemGui(v).y)
  <2>1. DiemGui(v).x = x /\ DiemGui(v).y = y /\ DiemGui(v).z = z
    BY <1>3
  <2>2. QED
    BY <1>2, <2>1
<1>6. QED
  BY <1>4, <1>5, DongDiemLa
-----------------------------------------------------------------------------
(* Students *)

\* Rows that exist may go; an id that was given out is never given out again.
BangLui ==
  /\ maKe' \in Int /\ maKe <= maKe'
  /\ \A m \in Ma : m < maKe => dangKy'[m] = dangKy[m] \/ dangKy'[m] = Khong
  /\ \A m \in Ma : diem'[m] = diem[m] \/ diem'[m] = Khong

LEMMA SinhVienLui ==
  ASSUME BatBienChung, [Next]_vars
  PROVE  BangLui
<1>0. /\ dangKy \in [Ma -> DongDangKy \cup {Khong}] /\ diem \in [Ma -> DongDiem \cup {Khong}]
      /\ maKe \in Int
  BY DEF BatBienChung, TypeOK
<1>1. CASE UNCHANGED <<dangKy, diem, maKe>>
  BY <1>0, <1>1 DEF BangLui
<1>2. ASSUME NEW r \in YeuCau, GhiDangKy(r) PROVE BangLui
  <2>1. PICK d : dangKy' = [dangKy EXCEPT ![maKe] = d] /\ maKe' = maKe + 1 /\ diem' = diem
    BY <1>2 DEF GhiDangKy
  <2>2. QED
    BY <1>0, <2>1 DEF BangLui
<1>3. ASSUME NEW r \in YeuCau, GhiHuy(r) PROVE BangLui
  <2>1. PICK m : /\ dangKy' = [dangKy EXCEPT ![m] = Khong] /\ diem' = [diem EXCEPT ![m] = Khong]
                 /\ maKe' = maKe
    BY <1>3 DEF GhiHuy
  <2>2. QED
    BY <1>0, <2>1 DEF BangLui
<1>4. ASSUME NEW r \in YeuCau, GhiDoi(r) PROVE BangLui
  <2>1. PICK m, d : /\ dangKy' = [dangKy EXCEPT ![m] = Khong, ![maKe] = d]
                    /\ diem' = [diem EXCEPT ![m] = Khong] /\ maKe' = maKe + 1
    BY <1>4 DEF GhiDoi
  <2>2. QED
    BY <1>0, <2>1 DEF BangLui
<1>5. ASSUME NEW r \in YeuCau, BatDau(r) PROVE BangLui
  BY <1>1, <1>5 DEF BatDau, DocLop, DocDangKyHuy, DocDangKyCu, bang
<1>6. ASSUME NEW r \in YeuCau, BuocCuaYeuCau(r) PROVE BangLui
  <2>1. CASE DocDot(r) \/ DocMon(r) \/ DocLichSu(r) \/ DocLich(r) \/ DocDotHuy(r)
    BY <1>1, <2>1 DEF DocDot, DocMon, DocLichSu, DocLich, DocDotHuy, bang
  <2>2. CASE DocLopMoi(r) \/ DocDotDoi(r) \/ DocLichDoi(r)
    BY <1>1, <2>2 DEF DocLopMoi, DocDotDoi, DocLichDoi, bang
  <2>3. CASE GhiDangKyLoi(r) \/ GhiHuyLoi(r) \/ GhiDoiLoi(r)
    BY <1>1, <2>3 DEF GhiDangKyLoi, GhiHuyLoi, GhiDoiLoi, bang
  <2>4. QED
    BY <1>2, <1>3, <1>4, <1>6, <2>1, <2>2, <2>3 DEF BuocCuaYeuCau
<1>7. CASE TroiGio \/ UNCHANGED vars
  BY <1>1, <1>7 DEF TroiGio, vars, bang
<1>8. QED
  BY <1>5, <1>6, <1>7 DEF Next

\* What an entry knows outlives students' steps.
LEMMA NhapDungLui ==
  ASSUME BatBienChung, BangLui, NEW b, NEW v, NhapDung(b, v)
  PROVE  NhapDung(b, v)' /\ (DiemNhuDoc(b, v) /\ b # "nghi" => DiemNhuDoc(b, v)')
<1>0. maKe \in Int
  BY DEF BatBienChung, TypeOK
<1>1. CASE b = "nghi"
  BY <1>1 DEF NhapDung
<1>2. CASE b # "nghi"
  <2>1. v.ma \in Ma /\ v.ma < maKe /\ v.ma \in Int
    BY <1>2, HangSo DEF NhapDung, Ma
  <2>2. v.ma < maKe' /\ (dangKy'[v.ma] = dangKy[v.ma] \/ dangKy'[v.ma] = Khong)
    BY <1>0, <2>1 DEF BangLui
  <2>3. NhapDung(b, v)'
    BY <1>2, <2>2 DEF NhapDung
  <2>4. DiemNhuDoc(b, v) => DiemNhuDoc(b, v)'
    BY <2>1 DEF BangLui, DiemNhuDoc
  <2>5. QED
    BY <2>3, <2>4
<1>3. QED
  BY <1>1, <1>2

LEMMA SinhVienGiuD ==
  ASSUME BatBienD, [Next]_vars, UNCHANGED <<buocD, viecD>>
  PROVE  BatBienD' /\ (MotNguoiNhap => MotNguoiNhap')
<1>1. BatBienChung' /\ BangLui
  BY BuocChungGiu, SinhVienLui DEF BatBienD
<1>2. ASSUME NEW d \in NhapDiemSlot
      PROVE  /\ NhapDung(buocD[d], viecD[d])'
             /\ DiemNhuDoc(buocD[d], viecD[d]) => DiemNhuDoc(buocD[d], viecD[d])'
  <2>1. PICK b, v : b = buocD[d] /\ v = viecD[d] /\ b = buocD'[d] /\ v = viecD'[d] /\ NhapDung(b, v)
    BY DEF BatBienD
  <2>2. NhapDung(b, v)' /\ (DiemNhuDoc(b, v) => DiemNhuDoc(b, v)')
    BY <1>1, <2>1, NhapDungLui DEF BatBienD, DiemNhuDoc
  <2>3. QED
    BY <2>1, <2>2 DEF NhapDung, DiemNhuDoc
<1>3. BatBienD'
  BY <1>1, <1>2 DEF BatBienD
<1>4. QED
  BY <1>2, <1>3 DEF MotNguoiNhap, DangNhap
-----------------------------------------------------------------------------
(* Entries *)

\* Entry d moves on to step b with v.
DenBuocD(d, b, v) ==
  /\ b \in CacBuocD /\ NhapDung(b, v)
  /\ buocD' = [buocD EXCEPT ![d] = b] /\ viecD' = [viecD EXCEPT ![d] = v]

LEMMA DenBuocDLa ==
  ASSUME BatBienD, NEW d \in NhapDiemSlot, NEW b, NEW v, DenBuocD(d, b, v)
  PROVE  /\ buocD' \in [NhapDiemSlot -> CacBuocD] /\ viecD' = [e \in NhapDiemSlot |-> viecD'[e]]
         /\ buocD'[d] = b /\ viecD'[d] = v
         /\ \A e \in NhapDiemSlot \ {d} : buocD'[e] = buocD[e] /\ viecD'[e] = viecD[e]
<1>1. buocD \in [NhapDiemSlot -> CacBuocD] /\ viecD = [e \in NhapDiemSlot |-> viecD[e]]
  BY DEF BatBienD
<1>2. PICK f : f = viecD'
  OBVIOUS
<1>3. f = [viecD EXCEPT ![d] = v]
  BY <1>2 DEF DenBuocD
<1>4. f = [e \in NhapDiemSlot |-> IF e = d THEN v ELSE viecD[e]]
  BY <1>1, <1>3
<1>5. f = [e \in NhapDiemSlot |-> f[e]] /\ f[d] = v /\ \A e \in NhapDiemSlot \ {d} : f[e] = viecD[e]
  BY <1>4
<1>6. QED
  BY <1>1, <1>2, <1>5 DEF DenBuocD

\* ... while the tables stay.
LEMMA DocGiuD ==
  ASSUME BatBienD, NEW d \in NhapDiemSlot, NEW b, NEW v, DenBuocD(d, b, v), UNCHANGED vars
  PROVE  /\ BatBienD'
         /\ /\ MotNguoiNhap /\ DiemNhuDoc(b, v)
            /\ b = "nghi" \/ \A e \in DangNhap \ {d} : viecD[e].sv # v.sv
            => MotNguoiNhap'
<1>0. UNCHANGED <<dangKy, diem, maKe>>
  BY DEF vars
<1>1. BatBienChung'
  BY BuocChungGiu DEF BatBienD
<1>2. /\ buocD' \in [NhapDiemSlot -> CacBuocD] /\ viecD' = [e \in NhapDiemSlot |-> viecD'[e]]
      /\ buocD'[d] = b /\ viecD'[d] = v
      /\ \A e \in NhapDiemSlot \ {d} : buocD'[e] = buocD[e] /\ viecD'[e] = viecD[e]
  BY DenBuocDLa
<1>3. ASSUME NEW e \in NhapDiemSlot PROVE NhapDung(buocD[e], viecD[e])'
  <2>1. PICK c, w : c = buocD'[e] /\ w = viecD'[e] /\ NhapDung(c, w)
    BY <1>2 DEF BatBienD, DenBuocD
  <2>2. NhapDung(c, w)'
    BY <1>0, <2>1 DEF NhapDung
  <2>3. QED
    BY <2>1, <2>2
<1>4. BatBienD'
  BY <1>1, <1>2, <1>3 DEF BatBienD
<1>5. ASSUME MotNguoiNhap, DiemNhuDoc(b, v),
             b = "nghi" \/ \A e \in DangNhap \ {d} : viecD[e].sv # v.sv
      PROVE  MotNguoiNhap'
  <2>1. \A e, f \in DangNhap' : e # f => viecD'[e].sv # viecD'[f].sv
    BY <1>2, <1>5 DEF MotNguoiNhap, DangNhap
  <2>2. ASSUME NEW e \in NhapDiemSlot PROVE DiemNhuDoc(buocD[e], viecD[e])'
    <3>1. PICK c, w : c = buocD'[e] /\ w = viecD'[e] /\ DiemNhuDoc(c, w)
      BY <1>2, <1>5 DEF MotNguoiNhap
    <3>2. DiemNhuDoc(c, w)'
      BY <1>0, <3>1 DEF DiemNhuDoc
    <3>3. QED
      BY <3>1, <3>2
  <2>3. QED
    BY <1>4, <2>1, <2>2 DEF MotNguoiNhap
<1>6. QED
  BY <1>4, <1>5

LEMMA XongGiuD ==
  ASSUME BatBienD, NEW d \in NhapDiemSlot, XongD(d), UNCHANGED vars
  PROVE  BatBienD' /\ (MotNguoiNhap => MotNguoiNhap')
<1>1. DenBuocD(d, "nghi", Khong) /\ DiemNhuDoc("nghi", Khong)
  BY DEF XongD, DenBuocD, CacBuocD, NhapDung, DiemNhuDoc
<1>2. QED
  BY <1>1, DocGiuD

LEMMA DocBangDiemGiu ==
  ASSUME BatBienD, NEW d \in NhapDiemSlot, NEW nguoi, NEW m \in Ma, NEW x, NEW y,
         DocBangDiem(d, nguoi, m, x, y)
  PROVE  BatBienD' /\ (MoiSVMotNguoi /\ MotNguoiNhap => MotNguoiNhap')
<1>1. PICK v : v = [nguoi |-> nguoi, ma |-> m, sv |-> dangKy[m].sv, lop |-> dangKy[m].lop,
                    x |-> x, y |-> y, cu |-> diem[m],
                    tl |-> tichLuy[dangKy[m].sv], moi |-> tichLuy[dangKy[m].sv]]
  OBVIOUS
<1>2. dangKy[m] # Khong /\ buocD' = [buocD EXCEPT ![d] = "quyen"] /\ UNCHANGED vars
  BY DEF DocBangDiem
<1>3. viecD' = [viecD EXCEPT ![d] = v]
  BY <1>1 DEF DocBangDiem
<1>4. DOMAIN v = TruongD /\ v.ma = m /\ v.sv = dangKy[m].sv /\ v.cu = diem[m]
  BY <1>1 DEF TruongD
<1>5. m < maKe /\ diem[m] \in DongDiem \cup {Khong}
  BY <1>2, HangSo DEF BatBienD, BatBienChung, MaConMoi, TypeOK, Ma
<1>6. NhapDung("quyen", v) /\ DiemNhuDoc("quyen", v)
  BY <1>4, <1>5 DEF NhapDung, DiemNhuDoc
<1>7. DenBuocD(d, "quyen", v)
  BY <1>2, <1>3, <1>6 DEF DenBuocD, CacBuocD
<1>8. MoiSVMotNguoi => \A e \in DangNhap \ {d} : viecD[e].sv # v.sv
  BY <1>4 DEF DocBangDiem, DangNhap
<1>9. QED
  BY <1>2, <1>6, <1>7, <1>8, DocGiuD

\* Slot d is at work on v.
LEMMA DangNhapLa ==
  ASSUME BatBienD, NEW d \in NhapDiemSlot, buocD[d] # "nghi"
  PROVE  /\ NhapDung(buocD[d], viecD[d])
         /\ MotNguoiNhap => /\ DiemNhuDoc(buocD[d], viecD[d])
                            /\ \A e \in DangNhap \ {d} : viecD[e].sv # viecD[d].sv
BY DEF BatBienD, MotNguoiNhap, DangNhap

LEMMA KiemQuyenGiu ==
  ASSUME BatBienD, NEW d \in NhapDiemSlot, KiemQuyen(d)
  PROVE  BatBienD' /\ (MotNguoiNhap => MotNguoiNhap')
<1>1. PICK v : v = viecD[d]
  OBVIOUS
<1>2. buocD[d] = "quyen" /\ UNCHANGED vars /\ NhapDung("quyen", v)
  BY <1>1, DangNhapLa DEF KiemQuyen
<1>3. CASE DuocNhap(v) /\ buocD' = [buocD EXCEPT ![d] = "ghi"] /\ UNCHANGED viecD
  <2>1. v.x \in Thang /\ v.y \in Thang
    <3>1. (v.x = Khong \/ v.x \in 0..1000) /\ (v.y = Khong \/ v.y \in 0..1000)
      BY <1>3 DEF DuocNhap
    <3>2. QED
      BY <3>1 DEF Thang
  <2>2. NhapDung("ghi", v)
    BY <1>2, <2>1 DEF NhapDung
  <2>3. viecD' = [viecD EXCEPT ![d] = v]
    BY <1>1, <1>3 DEF BatBienD
  <2>4. DenBuocD(d, "ghi", v)
    BY <1>3, <2>2, <2>3 DEF DenBuocD, CacBuocD
  <2>5. MotNguoiNhap => DiemNhuDoc("ghi", v) /\ \A e \in DangNhap \ {d} : viecD[e].sv # v.sv
    BY <1>1, <1>2, DangNhapLa DEF DiemNhuDoc
  <2>6. QED
    BY <1>2, <2>4, <2>5, DocGiuD
<1>4. CASE XongD(d)
  BY <1>2, <1>4, XongGiuD
<1>5. QED
  BY <1>1, <1>3, <1>4 DEF KiemQuyen

LEMMA DocTichLuyGiu ==
  ASSUME BatBienD, NEW d \in NhapDiemSlot, DocTichLuy(d)
  PROVE  BatBienD' /\ (MotNguoiNhap => MotNguoiNhap')
<1>1. PICK v, t, w : /\ v = viecD[d] /\ t = TinhTichLuy([diem EXCEPT ![v.ma] = DiemGui(v)], v.sv)
                     /\ w = [v EXCEPT !.moi = t]
  OBVIOUS
<1>2. /\ buocD[d] = "docTL" /\ buocD' = [buocD EXCEPT ![d] = "ghiTL"] /\ UNCHANGED vars
      /\ NhapDung("docTL", v)
  BY <1>1, DangNhapLa DEF DocTichLuy
<1>3. viecD' = [viecD EXCEPT ![d] = w]
  BY <1>1 DEF DocTichLuy, BatBienD
<1>4. DOMAIN w = TruongD /\ w.ma = v.ma /\ w.sv = v.sv /\ w.cu = v.cu
  BY <1>1, <1>2 DEF NhapDung, TruongD
<1>5. NhapDung("ghiTL", w) /\ DiemNhuDoc("ghiTL", w)
  BY <1>2, <1>4 DEF NhapDung, DiemNhuDoc
<1>6. DenBuocD(d, "ghiTL", w)
  BY <1>2, <1>3, <1>5 DEF DenBuocD, CacBuocD
<1>7. MotNguoiNhap => \A e \in DangNhap \ {d} : viecD[e].sv # w.sv
  BY <1>1, <1>2, <1>4, DangNhapLa
<1>8. QED
  BY <1>2, <1>5, <1>6, <1>7, DocGiuD
\* The mark an entry writes: a whole one, and what was sent unless another entry
\* wrote it meanwhile.
LEMMA DiemGhiLa ==
  ASSUME BatBienD, NEW d \in NhapDiemSlot, GhiDiem(d)
  PROVE  \E moi \in DongDiem :
           /\ diem' = [diem EXCEPT ![viecD[d].ma] = moi]
           /\ viecD[d].ma \in Ma /\ dangKy[viecD[d].ma] # Khong
           /\ MotNguoiNhap => moi = DiemGui(viecD[d]) /\ moi.z = TinhZ(moi.x, moi.y)
<1>1. PICK v, cu, gui, hang : v = viecD[d] /\ cu = v.cu /\ gui = DiemGui(v) /\ hang = diem[v.ma]
  OBVIOUS
<1>2. buocD[d] = "ghi" /\ NhapDung("ghi", v) /\ GhiDuoc(v)
  BY <1>1, DangNhapLa DEF GhiDiem
<1>3. /\ v.ma \in Ma /\ cu \in DongDiem \cup {Khong} /\ hang \in DongDiem \cup {Khong}
      /\ diem' = [diem EXCEPT ![v.ma] = IF cu = Khong THEN gui ELSE GhiCot(cu, gui, hang)]
  BY <1>1, <1>2 DEF GhiDiem, NhapDung, BatBienD, BatBienChung, TypeOK
<1>4. gui \in DongDiem /\ gui.z = TinhZ(gui.x, gui.y)
  BY <1>1, <1>2, DiemGuiLa DEF NhapDung
<1>5. dangKy[v.ma] # Khong /\ (cu # Khong => hang # Khong)
  BY <1>1, <1>2, <1>3 DEF GhiDuoc, BatBienD, BatBienChung, KhongMoCoi
<1>6. CASE cu = Khong
  BY <1>1, <1>3, <1>4, <1>5, <1>6
<1>7. CASE cu # Khong
  <2>1. PICK moi : moi = GhiCot(cu, gui, hang)
    OBVIOUS
  <2>2. moi \in DongDiem /\ (hang = cu => moi = gui)
    BY <1>3, <1>4, <1>5, <1>7, <2>1, GhiCotDiem
  <2>3. MotNguoiNhap => hang = cu
    BY <1>1, <1>2, <1>5, <1>7, DangNhapLa DEF DiemNhuDoc
  <2>4. diem' = [diem EXCEPT ![v.ma] = moi]
    BY <1>3, <1>7, <2>1
  <2>5. MotNguoiNhap => moi = gui /\ moi.z = TinhZ(moi.x, moi.y)
    BY <1>4, <2>2, <2>3
  <2>6. QED
    BY <1>1, <1>3, <1>5, <2>2, <2>4, <2>5
<1>8. QED
  BY <1>6, <1>7

LEMMA GhiDiemGiu ==
  ASSUME BatBienD, NEW d \in NhapDiemSlot, GhiDiem(d)
  PROVE  BatBienD' /\ (MotNguoiNhap => MotNguoiNhap')
<1>1. PICK v, m : v = viecD[d] /\ m = v.ma /\ buocD[d] = "ghi" /\ NhapDung("ghi", v)
  BY DangNhapLa DEF GhiDiem
<1>2. PICK moi \in DongDiem :
        /\ diem' = [diem EXCEPT ![m] = moi] /\ m \in Ma /\ dangKy[m] # Khong
        /\ MotNguoiNhap => moi = DiemGui(v) /\ moi.z = TinhZ(moi.x, moi.y)
  BY <1>1, DiemGhiLa
<1>3. /\ UNCHANGED <<lopHoc, dangKy, dots, gio, maKe, buoc, viec>> /\ viecD' = viecD
      /\ buocD' = [buocD EXCEPT ![d] = "docTL"]
  BY DEF GhiDiem
<1>4. diem' \in [Ma -> DongDiem \cup {Khong}] /\ diem'[m] = moi /\ \A n \in Ma \ {m} : diem'[n] = diem[n]
  BY <1>2 DEF BatBienD, BatBienChung, TypeOK
<1>5. BatBienChung'
  <2>1. TypeOK' /\ KhongMoCoi'
    BY <1>2, <1>3, <1>4 DEF BatBienD, BatBienChung, TypeOK, KhongMoCoi
  <2>2. YeuCauDung' /\ MaConMoi'
    BY <1>3 DEF BatBienD, BatBienChung, YeuCauDung, ViecDung, MaConMoi, DangThem
  <2>3. QED
    BY <2>1, <2>2 DEF BatBienChung
<1>6. ASSUME NEW e \in NhapDiemSlot PROVE NhapDung(buocD[e], viecD[e])'
  <2>1. PICK c, w : c = buocD'[e] /\ w = viecD'[e] /\ NhapDung(c, w)
    BY <1>1, <1>3 DEF BatBienD, NhapDung
  <2>2. NhapDung(c, w)'
    BY <1>3, <2>1 DEF NhapDung
  <2>3. QED
    BY <2>1, <2>2
<1>7. BatBienD'
  BY <1>3, <1>5, <1>6 DEF BatBienD, CacBuocD
<1>8. ASSUME MotNguoiNhap PROVE MotNguoiNhap'
  <2>1. DangNhap' = DangNhap
    BY <1>1, <1>3 DEF BatBienD, DangNhap
  <2>2. ASSUME NEW e \in NhapDiemSlot PROVE DiemNhuDoc(buocD[e], viecD[e])'
    <3>1. CASE e = d
      BY <1>3, <3>1 DEF DiemNhuDoc, BatBienD
    <3>2. CASE e # d /\ buocD[e] \in {"quyen", "ghi"}
      <4>1. PICK c, w : c = buocD[e] /\ w = viecD[e] /\ c = buocD'[e] /\ w = viecD'[e]
        BY <1>3, <3>2 DEF BatBienD
      <4>2. NhapDung(c, w) /\ DiemNhuDoc(c, w) /\ w.sv # v.sv
        BY <1>1, <1>8, <3>2, <4>1 DEF MotNguoiNhap, BatBienD, DangNhap
      <4>3. w.ma \in Ma /\ w.ma # m
        BY <1>1, <1>2, <3>2, <4>1, <4>2 DEF NhapDung
      <4>4. diem'[w.ma] = diem[w.ma]
        BY <1>4, <4>3
      <4>5. DiemNhuDoc(c, w)'
        BY <4>2, <4>4 DEF DiemNhuDoc
      <4>6. QED
        BY <4>1, <4>5
    <3>3. CASE e # d /\ buocD[e] \notin {"quyen", "ghi"}
      BY <1>3, <3>3 DEF DiemNhuDoc, BatBienD
    <3>4. QED
      BY <3>1, <3>2, <3>3
  <2>3. QED
    BY <1>3, <1>7, <1>8, <2>1, <2>2 DEF MotNguoiNhap
<1>9. QED
  BY <1>7, <1>8

-----------------------------------------------------------------------------
(* The invariant is inductive *)

LEMMA BuocDGiu ==
  /\ BatBienD /\ [NextD]_varsD => BatBienD'
  /\ MoiSVMotNguoi => (MotNguoiNhap /\ [NextD]_varsD => MotNguoiNhap')
<1> SUFFICES ASSUME BatBienD, [NextD]_varsD
             PROVE  BatBienD' /\ (MoiSVMotNguoi /\ MotNguoiNhap => MotNguoiNhap')
  BY DEF MotNguoiNhap
<1>1. ASSUME NEW d \in NhapDiemSlot, BuocNhapDiem(d)
      PROVE  BatBienD' /\ (MoiSVMotNguoi /\ MotNguoiNhap => MotNguoiNhap')
  <2>1. CASE \E nguoi \in GiangVien \cup {Khong}, m \in Ma, x, y \in DiemXY :
               DocBangDiem(d, nguoi, m, x, y)
    BY <2>1, DocBangDiemGiu
  <2>2. CASE KiemQuyen(d)
    BY <2>2, KiemQuyenGiu
  <2>3. CASE GhiDiem(d)
    BY <2>3, GhiDiemGiu
  <2>4. CASE GhiDiemLoi(d) \/ GhiTichLuy(d)
    BY <2>4, XongGiuD DEF GhiDiemLoi, GhiTichLuy
  <2>5. CASE DocTichLuy(d)
    BY <2>5, DocTichLuyGiu
  <2>6. QED
    BY <1>1, <2>1, <2>2, <2>3, <2>4, <2>5 DEF BuocNhapDiem
<1>2. CASE [Next]_vars /\ UNCHANGED <<tichLuy, buocD, viecD>>
  BY <1>2, SinhVienGiuD
<1>3. QED
  BY <1>1, <1>2 DEF NextD, varsD

LEMMA KhoiDauD == InitD => MotNguoiNhap
<1> SUFFICES ASSUME InitD PROVE MotNguoiNhap
  OBVIOUS
<1>1. BatBienChung
  BY KhoiDau DEF InitD, IInv, BatBienChung
<1>2. BatBienD
  BY <1>1 DEF InitD, BatBienD, CacBuocD, NhapDung
<1>3. DangNhap = {} /\ \A d \in NhapDiemSlot : DiemNhuDoc(buocD[d], viecD[d])
  BY DEF InitD, DangNhap, DiemNhuDoc
<1>4. QED
  BY <1>2, <1>3 DEF MotNguoiNhap

LEMMA DiemNhatQuanGiu == MotNguoiNhap /\ DiemNhatQuan /\ [NextD]_varsD => DiemNhatQuan'
<1> SUFFICES ASSUME MotNguoiNhap, DiemNhatQuan, [NextD]_varsD PROVE DiemNhatQuan'
  OBVIOUS
<1>1. BatBienD /\ BatBienChung
  BY DEF MotNguoiNhap, BatBienD
<1>2. CASE [Next]_vars
  <2>1. BangLui
    BY <1>1, <1>2, SinhVienLui
  <2>2. QED
    BY <2>1 DEF DiemNhatQuan, BangLui
<1>3. ASSUME NEW d \in NhapDiemSlot, GhiDiem(d) PROVE DiemNhatQuan'
  <2>1. PICK moi, m : diem' = [diem EXCEPT ![m] = moi] /\ moi.z = TinhZ(moi.x, moi.y)
    BY <1>1, <1>3, DiemGhiLa
  <2>2. diem \in [Ma -> DongDiem \cup {Khong}]
    BY <1>1 DEF BatBienChung, TypeOK
  <2>3. \A n \in Ma : diem'[n] = IF n = m THEN moi ELSE diem[n]
    BY <2>1, <2>2
  <2>4. QED
    BY <2>1, <2>3 DEF DiemNhatQuan
<1>4. CASE UNCHANGED vars
  BY <1>4 DEF DiemNhatQuan, vars
<1>5. ASSUME NEW d \in NhapDiemSlot, BuocNhapDiem(d) PROVE DiemNhatQuan'
  BY <1>3, <1>4, <1>5
     DEF BuocNhapDiem, DocBangDiem, KiemQuyen, GhiDiemLoi, DocTichLuy, GhiTichLuy
<1>6. QED
  BY <1>2, <1>5 DEF NextD, varsD

\* A mark is never left without its registration, nor a registration without its
\* class, while teachers enter marks - several for one student too - and students
\* cancel and swap.
THEOREM DiemKhongMoCoi == SpecD => []KhongMoCoi
<1>1. InitD => BatBienD
  BY KhoiDauD DEF MotNguoiNhap
<1>2. BatBienD /\ [NextD]_varsD => BatBienD'
  BY BuocDGiu
<1>3. BatBienD => KhongMoCoi
  BY DEF BatBienD, BatBienChung
<1>4. QED
  BY <1>1, <1>2, <1>3, PTL DEF SpecD

\* While no student has two entries in flight, the final mark stays the rounded mean
\* of the partial marks stored with it, though the UPDATE names only the columns that
\* differ from the mark as read: nobody has written it since.
THEOREM DiemLuonNhatQuan ==
  ASSUME MoiSVMotNguoi
  PROVE  SpecD /\ DiemNhatQuan => []DiemNhatQuan
<1>1. InitD => MotNguoiNhap
  BY KhoiDauD
<1>2. MotNguoiNhap /\ [NextD]_varsD => MotNguoiNhap'
  BY BuocDGiu
<1>3. MotNguoiNhap /\ DiemNhatQuan /\ [NextD]_varsD => DiemNhatQuan'
  BY DiemNhatQuanGiu
<1>4. QED
  BY <1>1, <1>2, <1>3, PTL DEF SpecD

-----------------------------------------------------------------------------
(* Credits *)

TcMon == [mon \in Mon |-> MonHoc[mon].tinChi]

\* What ZTotNhat finds in registrations dk of classes lh with marks d.
ZCuaMon(dk, lh, d, sv, mon) ==
  {d[m].z : m \in {n \in {k \in Ma : dk[k] # Khong /\ dk[k].sv = sv} :
                     lh[dk[n].lop].mon = mon /\ d[n] # Khong}} \ {Khong}

TotNhat(Z) == IF Z = {} THEN Khong ELSE Max(Z)

ZCuaSV(dk, lh, d, sv) == [mon \in Mon |-> TotNhat(ZCuaMon(dk, lh, d, sv, mon))]

TinCua(dk, lh, d, sv) == TongTinChi(ZCuaSV(dk, lh, d, sv), TcMon)

\* The credits the marks of sv earn now.
Tin(sv) == TinCua(dangKy, lopHoc, diem, sv)

LEMMA TinhTichLuyLa ==
  ASSUME NEW d, NEW sv
  PROVE  /\ TinhTichLuy(d, sv).tin = TinCua(dangKy, lopHoc, d, sv)
         /\ DOMAIN TinhTichLuy(d, sv) = {"tin", "gpa"}
<1>1. ZTotNhat(d, sv) = ZCuaSV(dangKy, lopHoc, d, sv)
  BY DEF ZTotNhat, ZCuaSV, TotNhat, ZCuaMon, CuaSinhVien, LopCua
<1>2. PICK t, g : /\ t = TongTinChi(ZTotNhat(d, sv), TcMon) /\ g = GPA(ZTotNhat(d, sv), TcMon)
                  /\ TinhTichLuy(d, sv) = [tin |-> t, gpa |-> g]
  BY DEF TinhTichLuy, TcMon
<1>3. TinhTichLuy(d, sv).tin = t /\ DOMAIN TinhTichLuy(d, sv) = {"tin", "gpa"}
  BY <1>2
<1>4. QED
  BY <1>1, <1>2, <1>3 DEF TinCua

\* A larger set of marks has no lower best mark.
LEMMA TotNhatTheoTap ==
  ASSUME NEW N \in Int, NEW Y, NEW Z, Y \subseteq Z, Z \subseteq 0..N, Khong \notin Z,
         TotNhat(Y) # Khong
  PROVE  /\ TotNhat(Y) \in 0..N /\ TotNhat(Z) \in 0..N /\ TotNhat(Z) # Khong
         /\ TotNhat(Y) <= TotNhat(Z)
<1>1. PICK y, z : y = TotNhat(Y) /\ z = TotNhat(Z)
  OBVIOUS
<1>2. Y # {} /\ Z # {} /\ y = Max(Y) /\ z = Max(Z)
  BY <1>1 DEF TotNhat
<1>3. /\ IsFiniteSet(Y) /\ \A x \in Y : x \in Int
      /\ IsFiniteSet(Z) /\ \A x \in Z : x \in Int
  <2>1. PICK p \in Int : p = 0 /\ Y \subseteq p..N /\ Z \subseteq p..N
    OBVIOUS
  <2>2. IsFiniteSet(Y) /\ \A x \in Y : x \in Int
    BY <2>1, KhoangHuuHan, Zenon
  <2>3. IsFiniteSet(Z) /\ \A x \in Z : x \in Int
    BY <2>1, KhoangHuuHan, Zenon
  <2>4. QED
    BY <2>2, <2>3
<1>4. y \in Y
  BY <1>2, <1>3, MaxLa, Zenon
<1>5. z \in Z /\ \A x \in Z : x <= z
  BY <1>2, <1>3, MaxLa, Zenon
<1>6. y \in 0..N /\ z \in 0..N /\ z # Khong /\ y <= z
  BY <1>4, <1>5
<1>7. QED
  BY <1>1, <1>6

\* Credits never fall from tables v to tables w when every mark of sv in v is in w.
LEMMA TinTheoBang ==
  ASSUME NEW lh, NEW sv, NEW dkv, NEW dv, NEW dkw, NEW dw,
         \A n \in Ma : dkv[n] # Khong /\ dkv[n].sv = sv /\ dv[n] # Khong
                         => dkw[n] = dkv[n] /\ dw[n] = dv[n],
         \A n \in Ma : dw[n] # Khong => dw[n].z \in Thang
  PROVE  /\ TinCua(dkv, lh, dv, sv) \in Nat /\ TinCua(dkw, lh, dw, sv) \in Nat
         /\ TinCua(dkv, lh, dv, sv) <= TinCua(dkw, lh, dw, sv)
<1>1. PICK zv, zw : zv = ZCuaSV(dkv, lh, dv, sv) /\ zw = ZCuaSV(dkw, lh, dw, sv)
  OBVIOUS
<1>2. DOMAIN zv = Mon /\ DOMAIN zw = Mon
  BY <1>1 DEF ZCuaSV
<1>3. ASSUME NEW mon \in Mon, zv[mon] # Khong
      PROVE  zv[mon] \in 0..1000 /\ zw[mon] # Khong /\ zw[mon] \in 0..1000 /\ zv[mon] <= zw[mon]
  <2>1. PICK Y, Z : Y = ZCuaMon(dkv, lh, dv, sv, mon) /\ Z = ZCuaMon(dkw, lh, dw, sv, mon)
    OBVIOUS
  <2>2. Y \subseteq Z
    BY <2>1 DEF ZCuaMon
  <2>3. Z \subseteq 0..1000 /\ Khong \notin Z
    BY <2>1 DEF ZCuaMon, Thang
  <2>4. PICK N \in Int : N = 1000
    OBVIOUS
  <2>5. Z \subseteq 0..N /\ Khong \notin Z
    BY <2>3, <2>4
  <2>6. TotNhat(Y) = zv[mon] /\ TotNhat(Z) = zw[mon]
    BY <1>1, <2>1 DEF ZCuaSV
  <2>7. TotNhat(Y) # Khong
    BY <1>3, <2>6
  <2>8. /\ TotNhat(Y) \in 0..N /\ TotNhat(Z) \in 0..N /\ TotNhat(Z) # Khong
        /\ TotNhat(Y) <= TotNhat(Z)
    BY <2>2, <2>5, <2>7, TotNhatTheoTap, Zenon
  <2>9. QED
    BY <2>4, <2>6, <2>8
<1>4. KhongKem(zv, zw)
  BY <1>2, <1>3 DEF KhongKem
<1>5. PICK tc : tc = TcMon /\ \A mon \in Mon : tc[mon] \in Nat
  <2>1. \A mon \in Mon : TcMon[mon] = MonHoc[mon].tinChi
    BY DEF TcMon
  <2>2. \A mon \in Mon : TcMon[mon] \in Nat
    BY <2>1, TinChiDuong
  <2>3. QED
    BY <2>2
<1>6. /\ TongTinChi(zv, tc) \in Nat /\ TongTinChi(zw, tc) \in Nat
      /\ TongTinChi(zv, tc) <= TongTinChi(zw, tc)
  <2>1. IsFiniteSet(DOMAIN zw) /\ \A m \in DOMAIN zw : tc[m] \in Nat
    BY <1>2, <1>5, TinChiDuong
  <2>2. QED
    BY <1>4, <2>1, TinChiTheoDiem
<1>7. TinCua(dkv, lh, dv, sv) = TongTinChi(zv, tc) /\ TinCua(dkw, lh, dw, sv) = TongTinChi(zw, tc)
  BY <1>1, <1>5 DEF TinCua
<1>8. QED
  BY <1>6, <1>7

\* The students' rows have the columns that entries write.
TichLuyCot ==
  /\ tichLuy = [sv \in SinhVien |-> tichLuy[sv]]
  /\ \A sv \in SinhVien : DOMAIN tichLuy[sv] = {"tin", "gpa"} /\ tichLuy[sv].tin \in Nat

\* What an entry at step b knows of its student's credits: the row is as it read it;
\* once its mark is written, that mark is there unless the registration is gone; and
\* the totals it is about to write miss nothing.
TheoTin(b, v) ==
  /\ b # "nghi" => v.sv \in SinhVien /\ v.tl = tichLuy[v.sv]
  /\ b = "docTL" => DiemGui(v) \in DongDiem /\ diem[v.ma] \in {DiemGui(v), Khong}
  /\ b = "ghiTL" => v.moi.tin \in Nat /\ Tin(v.sv) <= v.moi.tin

\* No entry of sv lies between its two transactions.
KhongDoDang(sv) ==
  \A d \in NhapDiemSlot : buocD[d] \in {"docTL", "ghiTL"} => viecD[d].sv # sv

GiuTinChi ==
  /\ MotNguoiNhap /\ TichLuyCot
  /\ \A d \in NhapDiemSlot : TheoTin(buocD[d], viecD[d])
  /\ \A sv \in SinhVien : KhongDoDang(sv) => Tin(sv) <= tichLuy[sv].tin

LEMMA TinNat == ASSUME BatBienChung, NEW sv PROVE Tin(sv) \in Nat
<1>1. \A n \in Ma : diem[n] # Khong => diem[n].z \in Thang
  BY DongDiemLa DEF BatBienChung, TypeOK
<1>2. QED
  BY <1>1, TinTheoBang DEF Tin

\* From one step to the next credits of sv only go, when its marks do.
LEMMA TinLui ==
  ASSUME BatBienChung, BatBienChung', lopHoc' = lopHoc, NEW sv,
         \A n \in Ma : dangKy'[n] # Khong /\ dangKy'[n].sv = sv /\ diem'[n] # Khong
                         => dangKy[n] = dangKy'[n] /\ diem[n] = diem'[n]
  PROVE  Tin(sv) \in Nat /\ Tin(sv)' \in Nat /\ Tin(sv)' <= Tin(sv)
<1>1. \A n \in Ma : diem[n] # Khong => diem[n].z \in Thang
  BY DongDiemLa DEF BatBienChung, TypeOK
<1>2. PICK lh, dk, d, dkp, dp : /\ lh = lopHoc /\ dk = dangKy /\ d = diem
                                /\ dkp = dangKy' /\ dp = diem'
  OBVIOUS
<1>3. /\ TinCua(dkp, lh, dp, sv) \in Nat /\ TinCua(dk, lh, d, sv) \in Nat
      /\ TinCua(dkp, lh, dp, sv) <= TinCua(dk, lh, d, sv)
  <2>1. /\ \A n \in Ma : dkp[n] # Khong /\ dkp[n].sv = sv /\ dp[n] # Khong
                           => dk[n] = dkp[n] /\ d[n] = dp[n]
        /\ \A n \in Ma : d[n] # Khong => d[n].z \in Thang
    BY <1>1, <1>2
  <2>2. QED
    BY <2>1, TinTheoBang
<1>4. Tin(sv) = TinCua(dk, lh, d, sv) /\ Tin(sv)' = TinCua(dkp, lh, dp, sv)
  BY <1>2 DEF Tin
<1>5. QED
  BY <1>3, <1>4

\* Students only take marks away: nothing becomes missing.
LEMMA SinhVienGiuTin ==
  ASSUME GiuTinChi, [Next]_vars, UNCHANGED <<tichLuy, buocD, viecD>>
  PROVE  GiuTinChi'
<1>1. BatBienD /\ BatBienChung /\ BatBienChung' /\ MotNguoiNhap' /\ BangLui /\ lopHoc' = lopHoc
  BY BuocChungGiu, SinhVienLui, SinhVienGiuD, LopYen DEF GiuTinChi, MotNguoiNhap, BatBienD
<1>2. \A n \in Ma : dangKy'[n] # Khong /\ diem'[n] # Khong
                      => dangKy[n] = dangKy'[n] /\ diem[n] = diem'[n]
  <2> SUFFICES ASSUME NEW n \in Ma, dangKy'[n] # Khong, diem'[n] # Khong
               PROVE  dangKy[n] = dangKy'[n] /\ diem[n] = diem'[n]
    OBVIOUS
  <2>1. diem[n] = diem'[n]
    BY <1>1 DEF BangLui
  <2>2. dangKy[n] # Khong
    BY <1>1, <2>1 DEF BatBienChung, KhongMoCoi
  <2>3. n < maKe
    BY <1>1, <2>2, HangSo DEF BatBienChung, MaConMoi, TypeOK, Ma
  <2>4. QED
    BY <1>1, <2>1, <2>3 DEF BangLui
<1>3. ASSUME NEW sv PROVE Tin(sv) \in Nat /\ Tin(sv)' \in Nat /\ Tin(sv)' <= Tin(sv)
  BY <1>1, <1>2, TinLui
<1>4. TichLuyCot'
  BY DEF GiuTinChi, TichLuyCot
<1>5. ASSUME NEW d \in NhapDiemSlot PROVE TheoTin(buocD[d], viecD[d])'
  <2>1. PICK b, v : /\ b = buocD[d] /\ v = viecD[d] /\ b = buocD'[d] /\ v = viecD'[d]
                    /\ TheoTin(b, v) /\ NhapDung(b, v)
    BY <1>1 DEF GiuTinChi, BatBienD
  <2>2. b = "docTL" => diem'[v.ma] \in {DiemGui(v), Khong}
    BY <1>1, <2>1 DEF TheoTin, NhapDung, BangLui
  <2>3. b = "ghiTL" => v.moi.tin \in Nat /\ Tin(v.sv)' <= v.moi.tin
    <3>1. PICK p, q, r : p = Tin(v.sv)' /\ q = Tin(v.sv) /\ r = v.moi.tin
      OBVIOUS
    <3>2. p \in Nat /\ q \in Nat /\ p <= q
      BY <1>3, <3>1
    <3>3. b = "ghiTL" => r \in Nat /\ q <= r
      BY <2>1, <3>1 DEF TheoTin
    <3>4. QED
      BY <3>1, <3>2, <3>3
  <2>4. TheoTin(b, v)'
    BY <2>1, <2>2, <2>3 DEF TheoTin
  <2>5. QED
    BY <2>1, <2>4
<1>6. ASSUME NEW sv \in SinhVien, KhongDoDang(sv)' PROVE Tin(sv)' <= tichLuy'[sv].tin
  <2>1. KhongDoDang(sv)
    BY <1>6 DEF KhongDoDang
  <2>2. PICK p, q, r : p = Tin(sv)' /\ q = Tin(sv) /\ r = tichLuy[sv].tin /\ r = tichLuy'[sv].tin
    OBVIOUS
  <2>3. p \in Nat /\ q \in Nat /\ p <= q /\ q <= r /\ r \in Nat
    BY <1>3, <2>1, <2>2 DEF GiuTinChi, TichLuyCot
  <2>4. QED
    BY <2>2, <2>3
<1>7. QED
  BY <1>1, <1>4, <1>5, <1>6 DEF GiuTinChi

\* Entry d of student x moves on to step b with v; whoever is not x keeps row and marks.
LEMMA NhapGiuTin ==
  ASSUME GiuTinChi, MotNguoiNhap', TichLuyCot', lopHoc' = lopHoc, dangKy' = dangKy,
         NEW d \in NhapDiemSlot, NEW b, NEW v, NEW x \in SinhVien, DenBuocD(d, b, v),
         \A e \in DangNhap \ {d} : viecD[e].sv # x,
         \A sv \in SinhVien \ {x} : tichLuy'[sv] = tichLuy[sv],
         \A n \in Ma : diem'[n] = diem[n] \/ (dangKy[n] # Khong /\ dangKy[n].sv = x),
         TheoTin(b, v)',
         buocD[d] \in {"docTL", "ghiTL"} => viecD[d].sv = x,
         (b \in {"docTL", "ghiTL"} /\ v.sv = x) \/ Tin(x)' <= tichLuy'[x].tin
  PROVE  GiuTinChi'
<1>1. BatBienD /\ BatBienChung /\ BatBienChung'
  BY DEF GiuTinChi, MotNguoiNhap, BatBienD
<1>2. /\ buocD'[d] = b /\ viecD'[d] = v
      /\ \A e \in NhapDiemSlot \ {d} : buocD'[e] = buocD[e] /\ viecD'[e] = viecD[e]
  BY <1>1, DenBuocDLa
<1>3. ASSUME NEW sv \in SinhVien \ {x}
      PROVE  Tin(sv) \in Nat /\ Tin(sv)' \in Nat /\ Tin(sv)' <= Tin(sv)
  BY <1>1, TinLui
<1>4. ASSUME NEW e \in NhapDiemSlot PROVE TheoTin(buocD[e], viecD[e])'
  <2>1. CASE e = d
    BY <1>2, <2>1
  <2>2. CASE e # d
    <3>1. PICK c, w : /\ c = buocD[e] /\ w = viecD[e] /\ c = buocD'[e] /\ w = viecD'[e]
                      /\ TheoTin(c, w) /\ NhapDung(c, w) /\ (c # "nghi" => w.sv # x)
      BY <1>1, <1>2, <2>2 DEF GiuTinChi, BatBienD, DangNhap
    <3>2. CASE c = "nghi"
      <4>1. TheoTin(c, w)'
        BY <3>2 DEF TheoTin
      <4>2. QED
        BY <3>1, <4>1
    <3>3. CASE c # "nghi"
      <4>1. w.sv \in SinhVien \ {x} /\ w.tl = tichLuy'[w.sv] /\ w.ma \in Ma
        BY <3>1, <3>3 DEF TheoTin, NhapDung
      <4>2. diem'[w.ma] = diem[w.ma]
        BY <3>1, <3>3, <4>1 DEF NhapDung
      <4>3. c = "ghiTL" => w.moi.tin \in Nat /\ Tin(w.sv)' <= w.moi.tin
        <5>1. PICK p, q, r : p = Tin(w.sv)' /\ q = Tin(w.sv) /\ r = w.moi.tin
          OBVIOUS
        <5>2. p \in Nat /\ q \in Nat /\ p <= q
          BY <1>3, <4>1, <5>1
        <5>3. c = "ghiTL" => r \in Nat /\ q <= r
          BY <3>1, <5>1 DEF TheoTin
        <5>4. QED
          BY <5>1, <5>2, <5>3
      <4>4. TheoTin(c, w)'
        BY <3>1, <3>3, <4>1, <4>2, <4>3 DEF TheoTin
      <4>5. QED
        BY <3>1, <4>4
    <3>4. QED
      BY <3>2, <3>3
  <2>3. QED
    BY <2>1, <2>2
<1>5. ASSUME NEW sv \in SinhVien, KhongDoDang(sv)' PROVE Tin(sv)' <= tichLuy'[sv].tin
  <2>1. CASE sv = x
    <3>1. ~(b \in {"docTL", "ghiTL"} /\ v.sv = x)
      BY <1>2, <1>5, <2>1 DEF KhongDoDang
    <3>2. QED
      BY <2>1, <3>1
  <2>2. CASE sv # x
    <3>1. KhongDoDang(sv)
      <4> SUFFICES ASSUME NEW e \in NhapDiemSlot, buocD[e] \in {"docTL", "ghiTL"}, viecD[e].sv = sv
                   PROVE  FALSE
        BY DEF KhongDoDang
      <4>1. e # d
        BY <2>2
      <4>2. QED
        BY <1>2, <1>5, <4>1 DEF KhongDoDang
    <3>2. PICK p, q, r : p = Tin(sv)' /\ q = Tin(sv) /\ r = tichLuy[sv].tin /\ r = tichLuy'[sv].tin
      BY <2>2
    <3>3. p \in Nat /\ q \in Nat /\ p <= q /\ q <= r /\ r \in Nat
      BY <1>3, <2>2, <3>1, <3>2 DEF GiuTinChi, TichLuyCot
    <3>4. QED
      BY <3>2, <3>3
  <2>3. QED
    BY <2>1, <2>2
<1>6. QED
  BY <1>4, <1>5 DEF GiuTinChi

\* ... and reads only, or gives up before its mark is written.
LEMMA DocGiuTin ==
  ASSUME GiuTinChi, MotNguoiNhap', NEW d \in NhapDiemSlot, NEW b, NEW v, NEW x \in SinhVien,
         DenBuocD(d, b, v), UNCHANGED <<vars, tichLuy>>,
         \A e \in DangNhap \ {d} : viecD[e].sv # x,
         buocD[d] \notin {"docTL", "ghiTL"}, b \notin {"docTL", "ghiTL"},
         b # "nghi" => v.sv \in SinhVien /\ v.tl = tichLuy[v.sv]
  PROVE  GiuTinChi'
<1>1. UNCHANGED <<lopHoc, dangKy, diem>> /\ tichLuy' = tichLuy
  BY DEF vars
<1>2. TichLuyCot'
  BY <1>1 DEF GiuTinChi, TichLuyCot
<1>3. TheoTin(b, v)'
  BY <1>1 DEF TheoTin
<1>4. Tin(x)' <= tichLuy'[x].tin
  <2>1. KhongDoDang(x)
    BY DEF KhongDoDang, DangNhap
  <2>2. Tin(x)' = Tin(x)
    BY <1>1 DEF Tin
  <2>3. QED
    BY <1>1, <2>1, <2>2 DEF GiuTinChi
<1>5. QED
  BY <1>1, <1>2, <1>3, <1>4, NhapGiuTin

LEMMA DocBangDiemGiuTin ==
  ASSUME MoiSVMotNguoi, GiuTinChi, MotNguoiNhap', NEW d \in NhapDiemSlot,
         NEW nguoi, NEW m \in Ma, NEW x, NEW y, DocBangDiem(d, nguoi, m, x, y)
  PROVE  GiuTinChi'
<1>1. PICK sv \in SinhVien : sv = dangKy[m].sv
  BY DEF DocBangDiem, GiuTinChi, MotNguoiNhap, BatBienD, BatBienChung, TypeOK, DongDangKy
<1>2. PICK v : v = [nguoi |-> nguoi, ma |-> m, sv |-> sv, lop |-> dangKy[m].lop,
                    x |-> x, y |-> y, cu |-> diem[m],
                    tl |-> tichLuy[sv], moi |-> tichLuy[sv]]
  OBVIOUS
<1>3. /\ dangKy[m] # Khong /\ buocD[d] = "nghi" /\ buocD' = [buocD EXCEPT ![d] = "quyen"]
      /\ UNCHANGED <<vars, tichLuy>> /\ viecD' = [viecD EXCEPT ![d] = v]
  BY <1>1, <1>2 DEF DocBangDiem
<1>4. DOMAIN v = TruongD /\ v.ma = m /\ v.sv = sv /\ v.cu = diem[m] /\ v.tl = tichLuy[sv]
  BY <1>2 DEF TruongD
<1>5. m < maKe /\ diem[m] \in DongDiem \cup {Khong}
  BY <1>3, HangSo DEF GiuTinChi, MotNguoiNhap, BatBienD, BatBienChung, MaConMoi, TypeOK, Ma
<1>6. NhapDung("quyen", v)
  BY <1>1, <1>4, <1>5 DEF NhapDung
<1>7. DenBuocD(d, "quyen", v)
  BY <1>3, <1>6 DEF DenBuocD, CacBuocD
<1>8. \A e \in DangNhap \ {d} : viecD[e].sv # sv
  BY <1>1 DEF DocBangDiem, DangNhap
<1>9. QED
  BY <1>3, <1>4, <1>7, <1>8, DocGiuTin

\* Slot d is at work on v for a student nobody else is at work on.
LEMMA DangNhapTin ==
  ASSUME GiuTinChi, NEW d \in NhapDiemSlot, buocD[d] # "nghi"
  PROVE  /\ NhapDung(buocD[d], viecD[d]) /\ TheoTin(buocD[d], viecD[d])
         /\ viecD[d].sv \in SinhVien /\ viecD[d].tl = tichLuy[viecD[d].sv]
         /\ \A e \in DangNhap \ {d} : viecD[e].sv # viecD[d].sv
<1>1. TheoTin(buocD[d], viecD[d])
  BY DEF GiuTinChi
<1>2. viecD[d].sv \in SinhVien /\ viecD[d].tl = tichLuy[viecD[d].sv]
  BY <1>1 DEF TheoTin
<1>3. QED
  BY <1>1, <1>2, DangNhapLa DEF GiuTinChi, MotNguoiNhap

LEMMA KiemQuyenGiuTin ==
  ASSUME GiuTinChi, MotNguoiNhap', NEW d \in NhapDiemSlot, KiemQuyen(d)
  PROVE  GiuTinChi'
<1>1. PICK v : v = viecD[d]
  OBVIOUS
<1>2. /\ buocD[d] = "quyen" /\ UNCHANGED <<vars, tichLuy>> /\ NhapDung("quyen", v)
      /\ v.sv \in SinhVien /\ v.tl = tichLuy[v.sv]
      /\ \A e \in DangNhap \ {d} : viecD[e].sv # v.sv
  BY <1>1, DangNhapTin DEF KiemQuyen
<1>3. CASE DuocNhap(v) /\ buocD' = [buocD EXCEPT ![d] = "ghi"] /\ UNCHANGED viecD
  <2>1. v.x \in Thang /\ v.y \in Thang
    <3>1. (v.x = Khong \/ v.x \in 0..1000) /\ (v.y = Khong \/ v.y \in 0..1000)
      BY <1>3 DEF DuocNhap
    <3>2. QED
      BY <3>1 DEF Thang
  <2>2. NhapDung("ghi", v)
    BY <1>2, <2>1 DEF NhapDung
  <2>3. viecD' = [viecD EXCEPT ![d] = v]
    BY <1>1, <1>3 DEF GiuTinChi, MotNguoiNhap, BatBienD
  <2>4. DenBuocD(d, "ghi", v)
    BY <1>3, <2>2, <2>3 DEF DenBuocD, CacBuocD
  <2>5. QED
    BY <1>2, <2>4, DocGiuTin
<1>4. CASE XongD(d)
  <2>1. DenBuocD(d, "nghi", Khong)
    BY <1>4 DEF XongD, DenBuocD, CacBuocD, NhapDung
  <2>2. QED
    BY <1>2, <2>1, DocGiuTin
<1>5. QED
  BY <1>1, <1>3, <1>4 DEF KiemQuyen

LEMMA GhiDiemLoiGiuTin ==
  ASSUME GiuTinChi, MotNguoiNhap', NEW d \in NhapDiemSlot, GhiDiemLoi(d)
  PROVE  GiuTinChi'
<1>1. buocD[d] = "ghi" /\ UNCHANGED <<vars, tichLuy>> /\ DenBuocD(d, "nghi", Khong)
  BY DEF GhiDiemLoi, XongD, DenBuocD, CacBuocD, NhapDung
<1>2. viecD[d].sv \in SinhVien /\ \A e \in DangNhap \ {d} : viecD[e].sv # viecD[d].sv
  BY <1>1, DangNhapTin
<1>3. QED
  BY <1>1, <1>2, DocGiuTin

\* The mark is written: from here to GhiTichLuy the student's row may lack credits.
LEMMA GhiDiemGiuTin ==
  ASSUME GiuTinChi, MotNguoiNhap', NEW d \in NhapDiemSlot, GhiDiem(d)
  PROVE  GiuTinChi'
<1>0. BatBienD /\ BatBienChung /\ MotNguoiNhap
  BY DEF GiuTinChi, MotNguoiNhap, BatBienD
<1>1. PICK v, m : /\ v = viecD[d] /\ m = v.ma /\ buocD[d] = "ghi"
                  /\ NhapDung("ghi", v) /\ v.sv \in SinhVien /\ v.tl = tichLuy[v.sv]
                  /\ \A e \in DangNhap \ {d} : viecD[e].sv # v.sv
  BY DangNhapTin DEF GhiDiem
<1>2. PICK moi \in DongDiem :
        diem' = [diem EXCEPT ![m] = moi] /\ m \in Ma /\ dangKy[m] # Khong /\ moi = DiemGui(v)
  BY <1>0, <1>1, DiemGhiLa
<1>3. UNCHANGED <<lopHoc, dangKy, tichLuy>> /\ viecD' = viecD /\ buocD' = [buocD EXCEPT ![d] = "docTL"]
  BY DEF GhiDiem
<1>4. diem'[m] = moi /\ \A n \in Ma \ {m} : diem'[n] = diem[n]
  BY <1>0, <1>2 DEF BatBienChung, TypeOK
<1>5. dangKy[m].sv = v.sv
  BY <1>1, <1>2 DEF NhapDung
<1>6. NhapDung("docTL", v)
  BY <1>1 DEF NhapDung
<1>7. viecD' = [viecD EXCEPT ![d] = v]
  BY <1>0, <1>1, <1>3 DEF BatBienD
<1>8. DenBuocD(d, "docTL", v)
  BY <1>3, <1>6, <1>7 DEF DenBuocD, CacBuocD
<1>9. TheoTin("docTL", v)'
  BY <1>1, <1>2, <1>3, <1>4 DEF TheoTin
<1>10. TichLuyCot'
  BY <1>3 DEF GiuTinChi, TichLuyCot
<1>11. \A n \in Ma : diem'[n] = diem[n] \/ (dangKy[n] # Khong /\ dangKy[n].sv = v.sv)
  BY <1>2, <1>4, <1>5
<1>12. QED
  BY <1>1, <1>3, <1>8, <1>9, <1>10, <1>11, NhapGiuTin

\* The totals are computed with the mark of this entry, whoever deleted it meanwhile.
LEMMA DocTichLuyGiuTin ==
  ASSUME GiuTinChi, MotNguoiNhap', NEW d \in NhapDiemSlot, DocTichLuy(d)
  PROVE  GiuTinChi'
<1>0. BatBienD /\ BatBienChung
  BY DEF GiuTinChi, MotNguoiNhap, BatBienD
<1>1. PICK v, g, dg : /\ v = viecD[d] /\ g = DiemGui(v) /\ dg = [diem EXCEPT ![v.ma] = g]
  OBVIOUS
<1>2. PICK t, w : t = TinhTichLuy(dg, v.sv) /\ w = [v EXCEPT !.moi = t]
  OBVIOUS
<1>3. /\ buocD[d] = "docTL" /\ buocD' = [buocD EXCEPT ![d] = "ghiTL"] /\ UNCHANGED <<vars, tichLuy>>
      /\ NhapDung("docTL", v) /\ TheoTin("docTL", v)
      /\ v.sv \in SinhVien /\ v.tl = tichLuy[v.sv]
      /\ \A e \in DangNhap \ {d} : viecD[e].sv # v.sv
  BY <1>1, DangNhapTin DEF DocTichLuy
<1>4. viecD' = [viecD EXCEPT ![d] = w]
  BY <1>0, <1>1, <1>2 DEF DocTichLuy, BatBienD
<1>5. /\ DOMAIN w = TruongD /\ w.ma = v.ma /\ w.sv = v.sv /\ w.cu = v.cu /\ w.tl = v.tl
      /\ w.moi = t
  BY <1>2, <1>3 DEF NhapDung, TruongD
<1>6. DenBuocD(d, "ghiTL", w)
  <2>1. NhapDung("ghiTL", w)
    BY <1>3, <1>5 DEF NhapDung
  <2>2. QED
    BY <1>3, <1>4, <2>1 DEF DenBuocD, CacBuocD
<1>7. UNCHANGED <<lopHoc, dangKy, diem>> /\ tichLuy' = tichLuy
  BY <1>3 DEF vars
<1>8. t.tin \in Nat /\ Tin(v.sv) <= t.tin
  <2>1. diem \in [Ma -> DongDiem \cup {Khong}] /\ v.ma \in Ma
    BY <1>0, <1>3 DEF BatBienChung, TypeOK, NhapDung
  <2>2. g \in DongDiem /\ diem[v.ma] \in {g, Khong}
    BY <1>1, <1>3 DEF TheoTin
  <2>3. \A n \in Ma : dg[n] = IF n = v.ma THEN g ELSE diem[n]
    BY <1>1, <2>1
  <2>4. \A n \in Ma : diem[n] # Khong => dg[n] = diem[n]
    BY <2>2, <2>3
  <2>5. \A n \in Ma : dg[n] # Khong => dg[n].z \in Thang
    BY <2>1, <2>2, <2>3, DongDiemLa
  <2>6. /\ TinCua(dangKy, lopHoc, diem, v.sv) \in Nat /\ TinCua(dangKy, lopHoc, dg, v.sv) \in Nat
        /\ TinCua(dangKy, lopHoc, diem, v.sv) <= TinCua(dangKy, lopHoc, dg, v.sv)
    BY <2>4, <2>5, TinTheoBang
  <2>7. t.tin = TinCua(dangKy, lopHoc, dg, v.sv)
    BY <1>2, TinhTichLuyLa
  <2>8. QED
    BY <2>6, <2>7 DEF Tin
<1>9. TheoTin("ghiTL", w)'
  <2>1. Tin(v.sv)' = Tin(v.sv)
    BY <1>7 DEF Tin
  <2>2. QED
    BY <1>3, <1>5, <1>7, <1>8, <2>1 DEF TheoTin
<1>10. TichLuyCot'
  BY <1>7 DEF GiuTinChi, TichLuyCot
<1>11. QED
  BY <1>1, <1>3, <1>5, <1>6, <1>7, <1>9, <1>10, NhapGiuTin

\* The row is as this entry read it, so both columns take the new totals.
LEMMA GhiTichLuyGiuTin ==
  ASSUME GiuTinChi, MotNguoiNhap', NEW d \in NhapDiemSlot, GhiTichLuy(d)
  PROVE  GiuTinChi'
<1>1. PICK v, x : /\ v = viecD[d] /\ x = v.sv /\ x \in SinhVien
                  /\ v.tl = tichLuy[x] /\ TheoTin("ghiTL", v)
                  /\ \A e \in DangNhap \ {d} : viecD[e].sv # x
  BY DangNhapTin DEF GhiTichLuy
<1>2. /\ buocD[d] = "ghiTL" /\ UNCHANGED vars
      /\ tichLuy' = [tichLuy EXCEPT ![x] = GhiCot(v.tl, v.moi, @)]
  BY <1>1 DEF GhiTichLuy
<1>3. UNCHANGED <<lopHoc, dangKy, diem>>
  BY <1>2 DEF vars
<1>4. DenBuocD(d, "nghi", Khong) /\ TheoTin("nghi", Khong)'
  BY DEF GhiTichLuy, XongD, DenBuocD, CacBuocD, NhapDung, TheoTin
<1>5. PICK h, r : h = tichLuy[x] /\ r = GhiCot(h, v.moi, h) /\ DOMAIN h = {"tin", "gpa"}
  BY <1>1 DEF GiuTinChi, TichLuyCot
<1>6. DOMAIN r = {"tin", "gpa"} /\ r.tin = v.moi.tin
  BY <1>5 DEF GhiCot
<1>7. /\ tichLuy' = [sv \in SinhVien |-> tichLuy'[sv]] /\ tichLuy'[x] = r
      /\ \A sv \in SinhVien \ {x} : tichLuy'[sv] = tichLuy[sv]
  <2>1. PICK f : f = tichLuy'
    OBVIOUS
  <2>2. f = [sv \in SinhVien |-> IF sv = x THEN r ELSE tichLuy[sv]]
    BY <1>1, <1>2, <1>5, <2>1 DEF GiuTinChi, TichLuyCot
  <2>3. f = [sv \in SinhVien |-> f[sv]] /\ f[x] = r /\ \A sv \in SinhVien \ {x} : f[sv] = tichLuy[sv]
    BY <1>1, <2>2
  <2>4. QED
    BY <2>1, <2>3
<1>8. v.moi.tin \in Nat /\ Tin(x) <= v.moi.tin
  BY <1>1 DEF TheoTin
<1>9. TichLuyCot'
  BY <1>6, <1>7, <1>8 DEF GiuTinChi, TichLuyCot
<1>10. Tin(x)' <= tichLuy'[x].tin
  <2>1. Tin(x)' = Tin(x)
    BY <1>3 DEF Tin
  <2>2. QED
    BY <1>6, <1>7, <1>8, <2>1
<1>11. QED
  BY <1>1, <1>3, <1>4, <1>7, <1>9, <1>10, NhapGiuTin

LEMMA BuocGiuTin ==
  ASSUME MoiSVMotNguoi
  PROVE  GiuTinChi /\ [NextD]_varsD => GiuTinChi'
<1> SUFFICES ASSUME GiuTinChi, [NextD]_varsD PROVE GiuTinChi'
  OBVIOUS
<1>1. MotNguoiNhap'
  BY BuocDGiu DEF GiuTinChi
<1>2. ASSUME NEW d \in NhapDiemSlot, BuocNhapDiem(d) PROVE GiuTinChi'
  <2>1. CASE \E nguoi \in GiangVien \cup {Khong}, m \in Ma, x, y \in DiemXY :
               DocBangDiem(d, nguoi, m, x, y)
    BY <1>1, <2>1, DocBangDiemGiuTin
  <2>2. CASE KiemQuyen(d)
    BY <1>1, <2>2, KiemQuyenGiuTin
  <2>3. CASE GhiDiem(d)
    BY <1>1, <2>3, GhiDiemGiuTin
  <2>4. CASE GhiDiemLoi(d)
    BY <1>1, <2>4, GhiDiemLoiGiuTin
  <2>5. CASE DocTichLuy(d)
    BY <1>1, <2>5, DocTichLuyGiuTin
  <2>6. CASE GhiTichLuy(d)
    BY <1>1, <2>6, GhiTichLuyGiuTin
  <2>7. QED
    BY <1>2, <2>1, <2>2, <2>3, <2>4, <2>5, <2>6 DEF BuocNhapDiem
<1>3. CASE [Next]_vars /\ UNCHANGED <<tichLuy, buocD, viecD>>
  BY <1>3, SinhVienGiuTin
<1>4. QED
  BY <1>2, <1>3 DEF NextD, varsD

LEMMA KhoiDauTin == InitD => GiuTinChi
<1> SUFFICES ASSUME InitD PROVE GiuTinChi
  OBVIOUS
<1>1. MotNguoiNhap /\ BatBienChung
  BY KhoiDauD DEF MotNguoiNhap, BatBienD
<1>2. ASSUME NEW sv \in SinhVien
      PROVE  /\ tichLuy[sv].tin = Tin(sv) /\ DOMAIN tichLuy[sv] = {"tin", "gpa"}
             /\ Tin(sv) \in Nat /\ Tin(sv) <= tichLuy[sv].tin
  <2>1. tichLuy[sv] = TinhTichLuy(diem, sv)
    BY DEF InitD
  <2>2. tichLuy[sv].tin = Tin(sv) /\ DOMAIN tichLuy[sv] = {"tin", "gpa"}
    BY <2>1, TinhTichLuyLa DEF Tin
  <2>3. PICK t : t = Tin(sv) /\ t \in Nat
    BY <1>1, TinNat
  <2>4. QED
    BY <2>2, <2>3
<1>3. TichLuyCot
  BY <1>2 DEF InitD, TichLuyCot
<1>4. \A d \in NhapDiemSlot : TheoTin(buocD[d], viecD[d])
  BY DEF InitD, TheoTin
<1>5. QED
  BY <1>1, <1>2, <1>3, <1>4 DEF GiuTinChi

\* While no student has two entries in flight, the student's row never lacks a credit
\* that the marks earn once the entries are done: the read between the two transactions
\* sees every mark but those a cancellation takes away, and nobody else writes the row.
\* (It may keep more: a mark deleted with its registration stays counted.)
THEOREM KhongBaoGioThieuTinChi ==
  ASSUME MoiSVMotNguoi
  PROVE  SpecD => []KhongThieuTinChi
<1>1. InitD => GiuTinChi
  BY KhoiDauTin
<1>2. GiuTinChi /\ [NextD]_varsD => GiuTinChi'
  BY BuocGiuTin
<1>3. GiuTinChi => KhongThieuTinChi
  <2> SUFFICES ASSUME GiuTinChi, KhongAiNhap, NEW sv \in SinhVien
               PROVE  tichLuy[sv].tin >= TinhTichLuy(diem, sv).tin
    BY DEF KhongThieuTinChi
  <2>1. KhongDoDang(sv)
    BY DEF KhongAiNhap, KhongDoDang
  <2>2. PICK p, q : p = Tin(sv) /\ q = tichLuy[sv].tin /\ p = TinhTichLuy(diem, sv).tin
    BY TinhTichLuyLa DEF Tin
  <2>3. p \in Nat /\ q \in Nat /\ p <= q
    BY <2>1, <2>2, TinNat DEF GiuTinChi, MotNguoiNhap, BatBienD, TichLuyCot
  <2>4. QED
    BY <2>2, <2>3
<1>4. QED
  BY <1>1, <1>2, <1>3, PTL DEF SpecD

-----------------------------------------------------------------------------
(* The curriculum screen *)

\* The semester the screen says a student has reached, from the school year, is not
\* after the one DangKy computes, from the term's own year.
LEMMA KyDatKhongVuot ==
  ASSUME KyTrongNamHoc, NEW ky \in Ky, NEW sv \in SinhVien
  PROVE  /\ TinhKyDat(HocKy[ky], HoSo[sv].nam, TRUE) \in Int
         /\ TinhKyDat(HocKy[ky], HoSo[sv].nam, FALSE) \in Int
         /\ TinhKyDat(HocKy[ky], HoSo[sv].nam, TRUE) <= TinhKyDat(HocKy[ky], HoSo[sv].nam, FALSE)
<1>1. PICK hk, nam, p, q : /\ hk = HocKy[ky] /\ nam = HoSo[sv].nam /\ p = hk.namHoc /\ q = hk.nam
  OBVIOUS
<1>2. nam \in Int /\ p \in Int /\ q \in Int /\ p <= q
  BY <1>1 DEF KyTrongNamHoc
<1>3. /\ NamThu(hk, nam, TRUE) = IF p - nam + 1 > 1 THEN p - nam + 1 ELSE 1
      /\ NamThu(hk, nam, FALSE) = IF q - nam + 1 > 1 THEN q - nam + 1 ELSE 1
  BY <1>1 DEF NamThu
<1>4. PICK m, n : /\ m = IF p - nam + 1 > 1 THEN p - nam + 1 ELSE 1
                  /\ n = IF q - nam + 1 > 1 THEN q - nam + 1 ELSE 1
  OBVIOUS
<1>5. m \in Int /\ n \in Int /\ m <= n
  BY <1>2, <1>4
<1>6. PICK k \in {1, 2} : k = IF hk.hai THEN 2 ELSE 1
  OBVIOUS
<1>7. /\ TinhKyDat(hk, nam, TRUE) = IF hk.phu THEN m * 2 ELSE (m - 1) * 2 + k
      /\ TinhKyDat(hk, nam, FALSE) = IF hk.phu THEN n * 2 ELSE (n - 1) * 2 + k
  BY <1>3, <1>4, <1>6 DEF TinhKyDat
<1>8. PICK t, u : t = TinhKyDat(hk, nam, TRUE) /\ u = TinhKyDat(hk, nam, FALSE)
  OBVIOUS
<1>9. (t = m * 2 /\ u = n * 2) \/ (t = (m - 1) * 2 + k /\ u = (n - 1) * 2 + k)
  BY <1>7, <1>8
<1>10. t \in Int /\ u \in Int /\ t <= u
  BY <1>5, <1>6, <1>9
<1>11. QED
  BY <1>1, <1>8, <1>10

\* A subject the curriculum screen offers passes the subject rules of DangKy, at every
\* moment of registrations, cancellations and mark entries, when terms begin within
\* their school year: what is written twice agrees in this direction.
THEOREM DeNghiDangKyDuoc ==
  ASSUME KyTrongNamHoc
  PROVE  SpecD => []MonMoiDangKyDuoc
<1>1. MonMoiDangKyDuoc
  <2> SUFFICES ASSUME NEW sv \in SinhVien, NEW mon \in Mon, NEW ky \in Ky, CoTheDangKy(sv, mon, ky)
               PROVE  ChuaCoMon(sv, ky, mon) /\ DuDieuKien(sv, mon, ky)
    BY DEF MonMoiDangKyDuoc
  <2>1. PICK z, k1, dat : /\ z = ZTotNhat(diem, sv) /\ k1 = HoSo[sv].khung[mon]
                          /\ dat = TinhKyDat(HocKy[ky], HoSo[sv].nam, FALSE)
    OBVIOUS
  <2>2. /\ k1 # Khong /\ ChuaCoMon(sv, ky, mon) /\ DuTienQuyet(sv, mon)
        /\ z[mon] # Khong => z[mon] < DiemHetCaiThien
        /\ ~ChuaToiKy(sv, mon, ky)
    BY <2>1 DEF CoTheDangKy
  <2>3. MonHoc[mon].tienQuyet # Khong =>
          z[MonHoc[mon].tienQuyet] # Khong /\ z[MonHoc[mon].tienQuyet] >= DiemDat
    BY <2>1, <2>2 DEF DuTienQuyet
  <2>4. ASSUME MonHoc[mon].batBuoc, z[mon] = Khong PROVE k1 <= dat
    <3>1. TrangThai(sv, mon, ky) = "ChuaHoc"
      BY <2>1, <2>2, <2>4 DEF TrangThai
    <3>2. PICK toi : toi = TinhKyDat(HocKy[ky], HoSo[sv].nam, TRUE)
      OBVIOUS
    <3>3. ~(k1 > toi)
      BY <2>1, <2>2, <2>4, <3>1, <3>2 DEF ChuaToiKy
    <3>4. k1 \in Int
      BY <2>1, <2>2 DEF KyTrongNamHoc
    <3>5. toi \in Int /\ dat \in Int /\ toi <= dat
      BY <2>1, <3>2, KyDatKhongVuot
    <3>6. QED
      BY <3>3, <3>4, <3>5
  <2>5. QED
    BY <2>1, <2>2, <2>3, <2>4 DEF DuDieuKien
<1>2. QED
  BY <1>1, PTL
=============================================================================
