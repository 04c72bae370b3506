--------------------------- MODULE DangKyHocPhan ---------------------------
(***************************************************************************)
(* Course registration (DangKyHocPhanController) over the PostgreSQL       *)
(* tables it shares with the rest of QuanLyTruongHoc.                      *)
(*                                                                         *)
(* The three handlers that write - DangKy, HuyDangKy, DoiLop - are chains  *)
(* of awaited queries that end in one SaveChangesAsync.  There is no       *)
(* explicit transaction, no lock and no concurrency token, so every query  *)
(* is a step of its own, other requests run between two of them, and only  *)
(* the last step is atomic.  What the database itself enforces at that     *)
(* step is the unique index on (MaSinhVien, MaLopHocKy), the foreign keys  *)
(* with ON DELETE CASCADE, and EF Core's "one row affected" test.          *)
(***************************************************************************)
EXTENDS QuyTac

CONSTANTS
  SinhVien, Mon, Ky, Lop,   \* students, subjects, terms, classes
  BuoiHoc,                  \* the meetings a class may have
  YeuCau,                   \* slots for the requests being served at one time
  HoSo,                     \* student -> [nam, khoaVien, khung]
  MonHoc,                   \* subject -> [tienQuyet, tinChi, batBuoc]
  HocKy,                    \* term -> [namHoc, nam, phu, hai]
  LopDau, DangKyDau, DiemDau, DotDau,   \* the tables at the start
  MaxMa,                    \* bound: registration ids ever given out
  MaxGio,                   \* bound: the clock
  MoiSVMotYeuCau,           \* TRUE: no student has two requests in flight
  DoiCungKy                 \* TRUE: clients ask DoiLop for classes of the same term

Ma == 1..MaxMa

\* The rounds are of terms in which nobody has a mark yet: registration is over
\* before a term is graded.
ChamSauDot ==
  \A m \in Ma : DiemDau[m] # Khong => \A d \in DotDau : d.ky # LopDau[DangKyDau[m].lop].ky

VARIABLES
  lopHoc,     \* LopHocTrongKys:  class -> row or Khong
  dangKy,     \* DangKyLopHocs:   id -> [sv, lop] or Khong
  diem,       \* DiemHocPhans:    id -> [x, y, z] or Khong
  dots,       \* DotDangKys
  gio,        \* the wall clock (VnNow)
  maKe,       \* the next identity value of DangKyLopHocs
  buoc,       \* where each request is
  viec        \* what each request has read so far

bang == <<lopHoc, dangKy, diem, dots, maKe>>
vars == <<lopHoc, dangKy, diem, dots, gio, maKe, buoc, viec>>

DongLop == [mon : Mon, ky : Ky, siSo : Nat, lich : SUBSET BuoiHoc]
DongDangKy == [sv : SinhVien, lop : Lop]
DongDiem == [x : 0..1000 \cup {Khong}, y : 0..1000 \cup {Khong}, z : 0..1000 \cup {Khong}]

ASSUME HangSo ==
  /\ IsFiniteSet(YeuCau) /\ YeuCau # {}
  /\ MaxMa \in Nat /\ MaxGio \in Nat
  /\ Khong \notin SinhVien \cup Lop \cup DongLop \cup DongDangKy \cup DongDiem

\* The tables before the first request: consecutive ids, every constraint of the
\* database met, and no class over its size.
ASSUME BangDau ==
  /\ LopDau \in [Lop -> DongLop \cup {Khong}]
  /\ DangKyDau \in [Ma -> DongDangKy \cup {Khong}]
  /\ DiemDau \in [Ma -> DongDiem \cup {Khong}]
  /\ \E n \in 0..MaxMa : {m \in Ma : DangKyDau[m] # Khong} = 1..n
  /\ \A m \in Ma :
       /\ DangKyDau[m] = Khong => DiemDau[m] = Khong
       /\ DangKyDau[m] # Khong => LopDau[DangKyDau[m].lop] # Khong
  /\ \A m, n \in Ma : DangKyDau[m] # Khong /\ DangKyDau[m] = DangKyDau[n] => m = n
  /\ \A l \in Lop : LopDau[l] # Khong =>
       Cardinality({m \in Ma : DangKyDau[m] # Khong /\ DangKyDau[m].lop = l})
         <= LopDau[l].siSo

-----------------------------------------------------------------------------
(* Queries *)

CuaSinhVien(sv) == {m \in Ma : dangKy[m] # Khong /\ dangKy[m].sv = sv}

\* d.LopHocTrongKy: the class of a registration, which a foreign key keeps there.
LopCua(m) == lopHoc[dangKy[m].lop]

TrongLop(l) == {m \in Ma : dangKy[m] # Khong /\ dangKy[m].lop = l}

SiSo(l) == Cardinality(TrongLop(l))

\* Best final mark of every subject the student has one in, by the marks of d.
ZTotNhat(d, sv) ==
  [mon \in Mon |->
     LET Z == {d[m].z : m \in {n \in CuaSinhVien(sv) :
                                 LopCua(n).mon = mon /\ d[n] # Khong}} \ {Khong}
     IN  IF Z = {} THEN Khong ELSE Max(Z)]

\* The subject rules: not passed with 7 or more, prerequisite passed, and a
\* compulsory subject that was never graded not before its semester.  DangKy
\* loads the term without its school year, hence the FALSE.
DuDieuKien(sv, mon, ky) ==
  LET z  == ZTotNhat(diem, sv)
      tq == MonHoc[mon].tienQuyet
      ky1 == HoSo[sv].khung[mon]
  IN  /\ z[mon] # Khong => z[mon] < DiemHetCaiThien
      /\ tq # Khong => z[tq] # Khong /\ z[tq] >= DiemDat
      /\ (MonHoc[mon].batBuoc /\ ky1 # Khong /\ z[mon] = Khong) =>
           ky1 <= TinhKyDat(HocKy[ky], HoSo[sv].nam, FALSE)

\* The meetings of the student's classes of a term, but for those of class tru.
LichDaDangKy(sv, ky, tru) ==
  UNION {LopCua(m).lich : m \in {n \in CuaSinhVien(sv) :
                                   LopCua(n).ky = ky /\ dangKy[n].lop # tru}}

-----------------------------------------------------------------------------
(* Requests *)

CacBuoc == {"nghi",
            "dkDot", "dkMon", "dkLichSu", "dkLich", "dkGhi",
            "huyDot", "huyGhi",
            "doiLop", "doiDot", "doiLich", "doiGhi"}

BuocDangKy == {"dkDot", "dkMon", "dkLichSu", "dkLich", "dkGhi"}
BuocHuy    == {"huyDot", "huyGhi"}
BuocDoi    == {"doiLop", "doiDot", "doiLich", "doiGhi"}

\* sv: the student; ma, cu: the registration named in the URL and its class;
\* lop: the class asked for; mon, ky: the subject and the term the checks are
\* about; lich: the meetings of lop as read; conCho: lop had a free place when
\* read; coDiem: the registration had a mark when read; luc: the handler's "now".
CongViec == [sv : SinhVien \cup {Khong}, ma : Ma \cup {Khong},
             cu : Lop \cup {Khong}, lop : Lop \cup {Khong},
             mon : Mon \cup {Khong}, ky : Ky \cup {Khong}, lich : SUBSET BuoiHoc,
             conCho : BOOLEAN, coDiem : BOOLEAN, luc : 0..MaxGio]

KhongViec == [sv |-> Khong, ma |-> Khong, cu |-> Khong, lop |-> Khong,
              mon |-> Khong, ky |-> Khong, lich |-> {},
              conCho |-> FALSE, coDiem |-> FALSE, luc |-> 0]

DangXuLy == {r \in YeuCau : buoc[r] # "nghi"}

\* A slot takes a new request of sv.
Ranh(r, sv) ==
  /\ buoc[r] = "nghi"
  /\ MoiSVMotYeuCau => \A q \in DangXuLy : viec[q].sv # sv

\* The bound on ids: one is left for every request in flight that may insert.
DangThem == {r \in YeuCau : buoc[r] \in BuocDangKy \cup BuocDoi}
ConMa == maKe + Cardinality(DangThem) <= MaxMa

Tiep(r, b) == buoc' = [buoc EXCEPT ![r] = b] /\ UNCHANGED viec

\* The handler returns: a result, an early return or an exception.
TraLoi(r) ==
  /\ buoc' = [buoc EXCEPT ![r] = "nghi"]
  /\ viec' = [viec EXCEPT ![r] = KhongViec]

\* One query: go on to step b if its answer allows, return otherwise.
Hoi(r, duoc, b) == (duoc /\ Tiep(r, b)) \/ (~duoc /\ TraLoi(r))

-----------------------------------------------------------------------------
(* DangKy: POST /dang-ky-hoc-phan/{maLopHocKy} *)

DocLopLechGio(r, sv, l) ==
  /\ Ranh(r, sv) /\ ConMa /\ lopHoc[l] # Khong
  /\ buoc' = [buoc EXCEPT ![r] = "dkDot"]
  /\ viec' = [viec EXCEPT ![r] =
       [KhongViec EXCEPT !.sv = sv, !.lop = l, !.mon = lopHoc[l].mon,
                         !.ky = lopHoc[l].ky, !.lich = lopHoc[l].lich,
                         !.conCho = SiSo(l) < lopHoc[l].siSo, !.luc = gio + 7]]
  /\ UNCHANGED <<bang, gio>>

DocLop(r, sv, l) ==
  /\ Ranh(r, sv) /\ ConMa /\ lopHoc[l] # Khong
  /\ buoc' = [buoc EXCEPT ![r] = "dkDot"]
  /\ viec' = [viec EXCEPT ![r] =
       [KhongViec EXCEPT !.sv = sv, !.lop = l, !.mon = lopHoc[l].mon,
                         !.ky = lopHoc[l].ky, !.lich = lopHoc[l].lich,
                         !.conCho = SiSo(l) < lopHoc[l].siSo, !.luc = gio]]
  /\ UNCHANGED <<bang, gio>>

DocDot(r) ==
  /\ buoc[r] = "dkDot"
  /\ Hoi(r, MoDangKy(viec[r].ky, HoSo[viec[r].sv], dots, viec[r].luc), "dkMon")
  /\ UNCHANGED <<bang, gio>>

\* A registration of the same subject in the same term, then the class is full.
ChuaCoMon(sv, ky, mon) ==
  \A m \in CuaSinhVien(sv) : ~(LopCua(m).ky = ky /\ LopCua(m).mon = mon)

DocMonQuenSiSo(r) ==
  /\ buoc[r] = "dkMon"
  /\ Hoi(r, ChuaCoMon(viec[r].sv, viec[r].ky, viec[r].mon), "dkLichSu")
  /\ UNCHANGED <<bang, gio>>

DocMon(r) ==
  /\ buoc[r] = "dkMon"
  /\ Hoi(r, ChuaCoMon(viec[r].sv, viec[r].ky, viec[r].mon) /\ viec[r].conCho, "dkLichSu")
  /\ UNCHANGED <<bang, gio>>

DocLichSu(r) ==
  /\ buoc[r] = "dkLichSu"
  /\ Hoi(r, DuDieuKien(viec[r].sv, viec[r].mon, viec[r].ky), "dkLich")
  /\ UNCHANGED <<bang, gio>>

\* The meetings as first read, against those of the student's classes now.
KhongTrung(v) == ~TrungNhau(v.lich, LichDaDangKy(v.sv, v.ky, v.cu))

DocLich(r) ==
  /\ buoc[r] = "dkLich"
  /\ Hoi(r, KhongTrung(viec[r]), "dkGhi")
  /\ UNCHANGED <<bang, gio>>

\* What INSERT INTO DangKyLopHocs needs: the class row and a free index entry.
ChenDuocThieuChiMuc(sv, l) == lopHoc[l] # Khong
ChenDuoc(sv, l) ==
  /\ lopHoc[l] # Khong
  /\ \A m \in TrongLop(l) : dangKy[m].sv # sv

GhiDangKy(r) ==
  /\ buoc[r] = "dkGhi"
  /\ ChenDuoc(viec[r].sv, viec[r].lop)
  /\ dangKy' = [dangKy EXCEPT ![maKe] = [sv |-> viec[r].sv, lop |-> viec[r].lop]]
  /\ maKe' = maKe + 1
  /\ TraLoi(r)
  /\ UNCHANGED <<lopHoc, diem, dots, gio>>

\* SaveChangesAsync throws (DbUpdateException): nothing is written.
GhiDangKyLoi(r) ==
  /\ buoc[r] = "dkGhi"
  /\ ~ChenDuoc(viec[r].sv, viec[r].lop)
  /\ TraLoi(r)
  /\ UNCHANGED <<bang, gio>>

-----------------------------------------------------------------------------
(* HuyDangKy: DELETE /dang-ky-hoc-phan/{maDangKy} *)

\* The registration exists and is the student's own; with its class and mark.
CuaToi(sv, m) == dangKy[m] # Khong /\ dangKy[m].sv = sv

DocDangKyHuy(r, sv, m) ==
  /\ Ranh(r, sv) /\ CuaToi(sv, m)
  /\ buoc' = [buoc EXCEPT ![r] = "huyDot"]
  /\ viec' = [viec EXCEPT ![r] =
       [KhongViec EXCEPT !.sv = sv, !.ma = m, !.ky = LopCua(m).ky,
                         !.coDiem = diem[m] # Khong, !.luc = gio]]
  /\ UNCHANGED <<bang, gio>>

DocDotHuyLuonMo(r) ==
  buoc[r] = "huyDot" /\ Tiep(r, "huyGhi") /\ UNCHANGED <<bang, gio>>

DocDotHuy(r) ==
  /\ buoc[r] = "huyDot"
  /\ LET v == viec[r]
     IN  Hoi(r, \/ MoDangKy(v.ky, HoSo[v.sv], dots, v.luc)
                \/ MoRut(v.ky, HoSo[v.sv], dots, v.luc), "huyGhi")
  /\ UNCHANGED <<bang, gio>>

\* Each DELETE that SaveChanges issues must affect a row; a mark that was added
\* after the read goes with the registration (ON DELETE CASCADE).
XoaDuoc(m, coDiem) == dangKy[m] # Khong /\ (coDiem => diem[m] # Khong)

GhiHuyConDiem(r) ==
  /\ buoc[r] = "huyGhi"
  /\ XoaDuoc(viec[r].ma, viec[r].coDiem)
  /\ dangKy' = [dangKy EXCEPT ![viec[r].ma] = Khong]
  /\ TraLoi(r)
  /\ UNCHANGED <<lopHoc, diem, dots, gio, maKe>>

GhiHuy(r) ==
  /\ buoc[r] = "huyGhi"
  /\ XoaDuoc(viec[r].ma, viec[r].coDiem)
  /\ dangKy' = [dangKy EXCEPT ![viec[r].ma] = Khong]
  /\ diem' = [diem EXCEPT ![viec[r].ma] = Khong]
  /\ TraLoi(r)
  /\ UNCHANGED <<lopHoc, dots, gio, maKe>>

GhiHuyLoi(r) ==
  /\ buoc[r] = "huyGhi"
  /\ ~XoaDuoc(viec[r].ma, viec[r].coDiem)
  /\ TraLoi(r)
  /\ UNCHANGED <<bang, gio>>

-----------------------------------------------------------------------------
(* DoiLop: PUT /dang-ky-hoc-phan/{maDangKy}/doi-lop *)

DocDangKyCu(r, sv, m, l) ==
  /\ Ranh(r, sv) /\ ConMa /\ CuaToi(sv, m)
  /\ DoiCungKy => lopHoc[l] # Khong /\ lopHoc[l].ky = LopCua(m).ky
  /\ buoc' = [buoc EXCEPT ![r] = "doiLop"]
  /\ viec' = [viec EXCEPT ![r] =
       [KhongViec EXCEPT !.sv = sv, !.ma = m, !.cu = dangKy[m].lop, !.lop = l,
                         !.mon = LopCua(m).mon, !.ky = LopCua(m).ky,
                         !.coDiem = diem[m] # Khong]]
  /\ UNCHANGED <<bang, gio>>

\* Another class of the same subject.  Its term is not compared: the round and
\* the clashes asked for below are those of the OLD registration's term.
DoiHopLeKhacMon(v) == lopHoc[v.lop] # Khong /\ v.lop # v.cu
DoiHopLe(v) ==
  /\ lopHoc[v.lop] # Khong
  /\ lopHoc[v.lop].mon = v.mon
  /\ v.lop # v.cu

DocLopMoi(r) ==
  /\ buoc[r] = "doiLop"
  /\ LET v == viec[r]
     IN  \/ /\ DoiHopLe(v)
            /\ buoc' = [buoc EXCEPT ![r] = "doiDot"]
            /\ viec' = [viec EXCEPT ![r] =
                 [v EXCEPT !.lich = lopHoc[v.lop].lich,
                           !.conCho = SiSo(v.lop) < lopHoc[v.lop].siSo, !.luc = gio]]
         \/ ~DoiHopLe(v) /\ TraLoi(r)
  /\ UNCHANGED <<bang, gio>>

DocDotDoiLuonMo(r) ==
  buoc[r] = "doiDot" /\ Hoi(r, viec[r].conCho, "doiLich") /\ UNCHANGED <<bang, gio>>

DocDotDoi(r) ==
  /\ buoc[r] = "doiDot"
  /\ LET v == viec[r]
     IN  Hoi(r, MoDangKy(v.ky, HoSo[v.sv], dots, v.luc) /\ v.conCho, "doiLich")
  /\ UNCHANGED <<bang, gio>>

\* The old class is left out of the clashes: it is about to be replaced.
DocLichDoiBoQua(r) ==
  buoc[r] = "doiLich" /\ Tiep(r, "doiGhi") /\ UNCHANGED <<bang, gio>>

DocLichDoi(r) ==
  /\ buoc[r] = "doiLich"
  /\ Hoi(r, KhongTrung(viec[r]), "doiGhi")
  /\ UNCHANGED <<bang, gio>>

\* The old row (with its mark) goes and the new one comes in one transaction.
DoiDuoc(v) == XoaDuoc(v.ma, v.coDiem) /\ ChenDuoc(v.sv, v.lop)

GhiDoiGiuCu(r) ==
  /\ buoc[r] = "doiGhi"
  /\ DoiDuoc(viec[r])
  /\ dangKy' = [dangKy EXCEPT ![maKe] = [sv |-> viec[r].sv, lop |-> viec[r].lop]]
  /\ maKe' = maKe + 1
  /\ TraLoi(r)
  /\ UNCHANGED <<lopHoc, diem, dots, gio>>

GhiDoi(r) ==
  /\ buoc[r] = "doiGhi"
  /\ DoiDuoc(viec[r])
  /\ dangKy' = [dangKy EXCEPT ![viec[r].ma] = Khong,
                              ![maKe] = [sv |-> viec[r].sv, lop |-> viec[r].lop]]
  /\ diem' = [diem EXCEPT ![viec[r].ma] = Khong]
  /\ maKe' = maKe + 1
  /\ TraLoi(r)
  /\ UNCHANGED <<lopHoc, dots, gio>>

GhiDoiLoi(r) ==
  /\ buoc[r] = "doiGhi"
  /\ ~DoiDuoc(viec[r])
  /\ TraLoi(r)
  /\ UNCHANGED <<bang, gio>>

-----------------------------------------------------------------------------
(* Specification *)

TroiGio == gio < MaxGio /\ gio' = gio + 1 /\ UNCHANGED <<bang, buoc, viec>>

Init ==
  /\ lopHoc = LopDau /\ dangKy = DangKyDau /\ diem = DiemDau /\ dots = DotDau
  /\ gio = 0
  /\ maKe = 1 + Cardinality({m \in Ma : DangKyDau[m] # Khong})
  /\ buoc = [r \in YeuCau |-> "nghi"]
  /\ viec = [r \in YeuCau |-> KhongViec]

BatDau(r) ==
  \E sv \in SinhVien :
    \/ \E l \in Lop : DocLop(r, sv, l)
    \/ \E m \in Ma : DocDangKyHuy(r, sv, m)
    \/ \E m \in Ma, l \in Lop : DocDangKyCu(r, sv, m, l)

BuocCuaYeuCau(r) ==
  \/ DocDot(r) \/ DocMon(r) \/ DocLichSu(r) \/ DocLich(r)
  \/ GhiDangKy(r) \/ GhiDangKyLoi(r)
  \/ DocDotHuy(r) \/ GhiHuy(r) \/ GhiHuyLoi(r)
  \/ DocLopMoi(r) \/ DocDotDoi(r) \/ DocLichDoi(r)
  \/ GhiDoi(r) \/ GhiDoiLoi(r)

Next ==
  \/ \E r \in YeuCau : BatDau(r) \/ BuocCuaYeuCau(r)
  \/ TroiGio

Spec == Init /\ [][Next]_vars

-----------------------------------------------------------------------------
(* Properties *)

\* Rows, requests and what they hold have the shapes the code gives them.
TypeOK ==
  /\ lopHoc \in [Lop -> DongLop \cup {Khong}]
  /\ dangKy \in [Ma -> DongDangKy \cup {Khong}]
  /\ diem \in [Ma -> DongDiem \cup {Khong}]
  /\ gio \in 0..MaxGio
  /\ maKe \in 1..(MaxMa + 1)
  /\ buoc \in [YeuCau -> CacBuoc]
  /\ viec \in [YeuCau -> CongViec]

\* A student is never twice in one class: GhiDangKy and GhiDoi rely on the
\* unique index alone, for the check of DocMon may be out of date.
KhongDangKyTrung ==
  \A m, n \in Ma :
    dangKy[m] # Khong /\ dangKy[n] # Khong /\ dangKy[m] = dangKy[n] => m = n

\* Every mark belongs to a registration and every registration to a class, in
\* whatever order cancellations, swaps and their stale reads interleave.
KhongMoCoi ==
  \A m \in Ma :
    /\ diem[m] # Khong => dangKy[m] # Khong
    /\ dangKy[m] # Khong => lopHoc[dangKy[m].lop] # Khong

\* A class holds no more students than SiSoToiDa.
KhongQuaSiSo == \A l \in Lop : lopHoc[l] # Khong => SiSo(l) <= lopHoc[l].siSo

\* Each request in flight can overbook a class by one at most: the place it saw
\* free may have been taken since, but it saw one.
VuotSiSoCoHan ==
  \A l \in Lop : lopHoc[l] # Khong =>
    SiSo(l) <= lopHoc[l].siSo + Cardinality(YeuCau) - 1

\* A student has one class of a subject per term.
MotLopMotMon ==
  \A m, n \in Ma :
    /\ dangKy[m] # Khong /\ dangKy[n] # Khong /\ m # n
    /\ dangKy[m].sv = dangKy[n].sv
    => ~(LopCua(m).mon = LopCua(n).mon /\ LopCua(m).ky = LopCua(n).ky)

\* No two classes of a student in a term meet at the same time.
KhongTrungLich ==
  \A m, n \in Ma :
    /\ dangKy[m] # Khong /\ dangKy[n] # Khong /\ m # n
    /\ dangKy[m].sv = dangKy[n].sv
    /\ LopCua(m).ky = LopCua(n).ky
    => ~TrungNhau(LopCua(m).lich, LopCua(n).lich)

DongMoi == {m \in Ma : dangKy[m] = Khong /\ dangKy'[m] # Khong}

\* A row appears only for a student to whom a round of the class's term was open
\* at some moment since the request came, however late the row is written.
DangKyTrongDot ==
  [][\A m \in DongMoi :
       LET hs == HoSo[dangKy'[m].sv]  ky == lopHoc[dangKy'[m].lop].ky
       IN  \E r \in DangXuLy :
             /\ viec[r].sv = dangKy'[m].sv /\ viec[r].lop = dangKy'[m].lop
             /\ \E t \in viec[r].luc..gio : MoDangKy(ky, hs, dots, t)]_vars

\* A student in a class whose subject has a prerequisite keeps a passing mark of
\* that prerequisite, though cancelling and swapping delete marks for good.
TienQuyetConDat ==
  \A m \in Ma : dangKy[m] # Khong =>
    LET z  == ZTotNhat(diem, dangKy[m].sv)
        tq == MonHoc[LopCua(m).mon].tienQuyet
    IN  tq # Khong => z[tq] # Khong /\ z[tq] >= DiemDat

\* The handlers' chains of queries amount to single entries in the book SoDangKy:
\* exactly so while no student has two requests in flight, but for the places of
\* a class, which each further request in flight may overrun by one.
So == INSTANCE SoDangKy WITH
        LopHoc <- LopDau,
        SoDau <- {<<DangKyDau[m].sv, DangKyDau[m].lop>> : m \in {n \in Ma : DangKyDau[n] # Khong}},
        Vuot <- Cardinality(YeuCau) - 1,
        so <- {<<dangKy[m].sv, dangKy[m].lop>> : m \in {n \in Ma : dangKy[n] # Khong}}
ThucThiSo == So!Spec
=============================================================================
