---------------------------- MODULE LopHocTrongKy ----------------------------
(***************************************************************************)
(* Administration of the classes of a term (LopHocTrongKyController) while *)
(* students register in them.  Create, Update, Delete and HuyLop each read *)
(* what they check in one query after another and write at the end, Create *)
(* in two transactions.  Nothing locks a class; but Update and HuyLop      *)
(* DELETE the schedule rows they have READ, by their ids, and fail when    *)
(* one of them is gone - which is always so once another of them has       *)
(* committed.                                                              *)
(***************************************************************************)
EXTENDS DangKyHocPhan

CONSTANTS
  GiangVien, TenLop,   \* teachers, names of classes
  QuanTri,             \* slots for the administrators' requests in flight
  YeuCauLop,           \* the forms sent: [mon, ky, ten, siSo, lich, gv]
  TenDau, PhanCongDau, \* names and teachers of LopDau
  CungLop,             \* TRUE: administrators at work at once are at one class
  TaoXongMoiSua        \* TRUE: nobody edits a class whose creation is not finished

\* Forms and tables have the columns' types, and no row of LopHocKyGiangViens or
\* name outlives its class.
ASSUME HangSoLop ==
  /\ Khong \notin GiangVien \cup TenLop
  /\ YeuCauLop \subseteq [mon : Mon, ky : Ky, ten : TenLop, siSo : Int,
                          lich : SUBSET BuoiHoc, gv : GiangVien \cup {Khong}]
  /\ TenDau \in [Lop -> TenLop \cup {Khong}] /\ PhanCongDau \in [Lop -> SUBSET GiangVien]
  /\ \A l \in Lop : LopDau[l] = Khong => TenDau[l] = Khong /\ PhanCongDau[l] = {}

VARIABLES
  tenLop,     \* LopHocTrongKys.TenLop
  phanCong,   \* LopHocKyGiangViens: class -> its teachers
  chuaCap,    \* class ids not given out yet
  buocA, viecA

varsA == <<vars, tenLop, phanCong, chuaCap, buocA, viecA>>
bangA == <<tenLop, phanCong, chuaCap>>

\* lop: the class; q: the form; siSo, ten, gv: the class as read; con: the
\* schedule rows read are still there; dk, coDiem: registrations and marks read.
KhongViecA == [lop |-> Khong, q |-> Khong, siSo |-> 0, ten |-> Khong, gv |-> {},
               con |-> TRUE, dk |-> {}, coDiem |-> {}]

XongA(a) ==
  /\ buocA' = [buocA EXCEPT ![a] = "nghi"]
  /\ viecA' = [viecA EXCEPT ![a] = KhongViecA]

\* One query of the handler: on to step b, or an early return.
HoiA(a, duoc, b) ==
  \/ duoc /\ buocA' = [buocA EXCEPT ![a] = b] /\ UNCHANGED viecA
  \/ ~duoc /\ XongA(a)

\* The schedule rows of class l are replaced or deleted by slot a's commit.
XongThayLich(a, l) ==
  /\ buocA' = [buocA EXCEPT ![a] = "nghi"]
  /\ viecA' = [e \in QuanTri |->
       IF e = a THEN KhongViecA
       ELSE IF viecA[e].lop = l THEN [viecA[e] EXCEPT !.con = FALSE] ELSE viecA[e]]

\* Slot a takes a request for class l, Khong when it is to create one.
RanhA(a, l) ==
  /\ buocA[a] = "nghi"
  /\ CungLop => \A e \in QuanTri : buocA[e] # "nghi" => l # Khong /\ viecA[e].lop = l

-----------------------------------------------------------------------------
(* The checks; l is the class itself, Khong when it is being created *)

YeuCauHopLe(q) == q.siSo > 0 /\ LichHopLe(q.lich)

LopCungKy(ky, l) == {k \in Lop \ {l} : lopHoc[k] # Khong /\ lopHoc[k].ky = ky}

PhongTrongChoMinhLop(ky, lich, l) == TRUE
PhongTrong(ky, lich, l) ==
  \A k \in LopCungKy(ky, l) : ~TrungPhong(lich, lopHoc[k].lich)

TenTrong(mon, ky, ten, l) ==
  \A k \in LopCungKy(ky, l) : ~(lopHoc[k].mon = mon /\ tenLop[k] = ten)

GiangVienRanhTrungHan(gv, ky, lich, l) ==
  \A k \in LopCungKy(ky, l) : gv \in phanCong[k] => lich \cap lopHoc[k].lich = {}
GiangVienRanh(gv, ky, lich, l) ==
  gv # Khong => \A k \in LopCungKy(ky, l) :
                  gv \in phanCong[k] => ~TrungNhau(lich, lopHoc[k].lich)

-----------------------------------------------------------------------------
(* Create: POST /lop-hoc-trong-ky *)

\* The bound on ids: one is left for every creation in flight.
ConMaLop ==
  Cardinality({e \in QuanTri : buocA[e] \in {"taoTen", "taoGV", "taoGhi"}}) < Cardinality(chuaCap)

KiemPhongTao(a, q) ==
  /\ RanhA(a, Khong) /\ ConMaLop
  /\ YeuCauHopLe(q) /\ PhongTrong(q.ky, q.lich, Khong)
  /\ buocA' = [buocA EXCEPT ![a] = "taoTen"]
  /\ viecA' = [viecA EXCEPT ![a].q = q]
  /\ UNCHANGED <<vars, bangA>>

KiemTenTao(a) ==
  /\ buocA[a] = "taoTen"
  /\ LET q == viecA[a].q IN HoiA(a, TenTrong(q.mon, q.ky, q.ten, Khong), "taoGV")
  /\ UNCHANGED <<vars, bangA>>

KiemGVTao(a) ==
  /\ buocA[a] = "taoGV"
  /\ LET q == viecA[a].q IN HoiA(a, GiangVienRanh(q.gv, q.ky, q.lich, Khong), "taoGhi")
  /\ UNCHANGED <<vars, bangA>>

\* The class with its schedule; the teacher follows in a second transaction.
GhiLop(a) ==
  /\ buocA[a] = "taoGhi"
  /\ LET q == viecA[a].q
     IN  \/ /\ TenTrong(q.mon, q.ky, q.ten, Khong)
            /\ \E l \in chuaCap :
                 /\ chuaCap' = chuaCap \ {l}
                 /\ lopHoc' = [lopHoc EXCEPT ![l] =
                      [mon |-> q.mon, ky |-> q.ky, siSo |-> q.siSo, lich |-> q.lich]]
                 /\ tenLop' = [tenLop EXCEPT ![l] = q.ten]
                 /\ IF q.gv = Khong THEN XongA(a)
                    ELSE /\ buocA' = [buocA EXCEPT ![a] = "taoPhanCong"]
                         /\ viecA' = [viecA EXCEPT ![a].lop = l]
         \/ /\ ~TenTrong(q.mon, q.ky, q.ten, Khong)
            /\ XongA(a) /\ UNCHANGED <<chuaCap, lopHoc, tenLop>>
  /\ UNCHANGED <<dangKy, diem, dots, gio, maKe, buoc, viec, phanCong>>

\* Fails when the class is gone or already has this teacher.
GhiPhanCong(a) ==
  /\ buocA[a] = "taoPhanCong"
  /\ LET l == viecA[a].lop
     IN  phanCong' = IF lopHoc[l] # Khong
                     THEN [phanCong EXCEPT ![l] = @ \cup {viecA[a].q.gv}] ELSE phanCong
  /\ XongA(a)
  /\ UNCHANGED <<vars, tenLop, chuaCap>>

-----------------------------------------------------------------------------
(* Update: PUT /lop-hoc-trong-ky/{id} *)

DocLopSua(a, l, q) ==
  /\ RanhA(a, l) /\ lopHoc[l] # Khong /\ YeuCauHopLe(q)
  /\ TaoXongMoiSua => \A e \in QuanTri : buocA[e] = "taoPhanCong" => viecA[e].lop # l
  /\ buocA' = [buocA EXCEPT ![a] = "suaPhong"]
  /\ viecA' = [viecA EXCEPT ![a] =
       [KhongViecA EXCEPT !.lop = l, !.siSo = lopHoc[l].siSo, !.ten = tenLop[l],
                          !.gv = phanCong[l],
                          !.q = [q EXCEPT !.mon = lopHoc[l].mon, !.ky = lopHoc[l].ky]]]
  /\ UNCHANGED <<vars, bangA>>

KiemPhongSua(a) ==
  /\ buocA[a] = "suaPhong"
  /\ LET v == viecA[a] IN HoiA(a, PhongTrong(v.q.ky, v.q.lich, v.lop), "suaTen")
  /\ UNCHANGED <<vars, bangA>>

KiemTenSua(a) ==
  /\ buocA[a] = "suaTen"
  /\ LET v == viecA[a] IN HoiA(a, TenTrong(v.q.mon, v.q.ky, v.q.ten, v.lop), "suaGV")
  /\ UNCHANGED <<vars, bangA>>

KiemGVSua(a) ==
  /\ buocA[a] = "suaGV"
  /\ LET v == viecA[a] IN HoiA(a, GiangVienRanh(v.q.gv, v.q.ky, v.q.lich, v.lop), "suaGhi")
  /\ UNCHANGED <<vars, bangA>>

\* One transaction: every row read and deleted must still be there (con), the
\* new name must be free and the new teacher not have been added by another.
SuaDuocKhongKiemDong(v) ==
  /\ lopHoc[v.lop] # Khong
  /\ v.q.ten # v.ten => TenTrong(v.q.mon, v.q.ky, v.q.ten, v.lop)
  /\ v.q.gv \notin phanCong[v.lop] \ v.gv
SuaDuoc(v) ==
  /\ v.con /\ lopHoc[v.lop] # Khong
  /\ v.q.ten # v.ten => TenTrong(v.q.mon, v.q.ky, v.q.ten, v.lop)
  /\ v.q.gv \notin phanCong[v.lop] \ v.gv

GhiSua(a) ==
  /\ buocA[a] = "suaGhi"
  /\ LET v == viecA[a]
     IN  \/ /\ SuaDuoc(v)
            /\ LET cot == GhiCot([siSo |-> v.siSo, ten |-> v.ten],
                                 [siSo |-> v.q.siSo, ten |-> v.q.ten],
                                 [siSo |-> lopHoc[v.lop].siSo, ten |-> tenLop[v.lop]])
               IN  /\ lopHoc' = [lopHoc EXCEPT ![v.lop].siSo = cot.siSo,
                                               ![v.lop].lich = v.q.lich]
                   /\ tenLop' = [tenLop EXCEPT ![v.lop] = cot.ten]
            /\ phanCong' = [phanCong EXCEPT ![v.lop] =
                              (@ \ v.gv) \cup ({v.q.gv} \ {Khong})]
            /\ XongThayLich(a, v.lop)
         \/ ~SuaDuoc(v) /\ XongA(a) /\ UNCHANGED <<lopHoc, tenLop, phanCong>>
  /\ UNCHANGED <<dangKy, diem, dots, gio, maKe, buoc, viec, chuaCap>>

-----------------------------------------------------------------------------
(* Delete and HuyLop *)

\* The class row goes, and with it (ON DELETE CASCADE) whatever refers to it.
XoaLopConDangKy(l) ==
  /\ lopHoc' = [lopHoc EXCEPT ![l] = Khong]
  /\ tenLop' = [tenLop EXCEPT ![l] = Khong]
  /\ phanCong' = [phanCong EXCEPT ![l] = {}]
  /\ UNCHANGED <<dangKy, diem>>
XoaLop(l) ==
  /\ lopHoc' = [lopHoc EXCEPT ![l] = Khong]
  /\ tenLop' = [tenLop EXCEPT ![l] = Khong]
  /\ phanCong' = [phanCong EXCEPT ![l] = {}]
  /\ dangKy' = [m \in Ma |-> IF m \in TrongLop(l) THEN Khong ELSE dangKy[m]]
  /\ diem' = [m \in Ma |-> IF m \in TrongLop(l) THEN Khong ELSE diem[m]]

\* Delete goes on only for a class nobody is registered in.
DocLopXoa(a, l) ==
  /\ RanhA(a, l) /\ lopHoc[l] # Khong /\ TrongLop(l) = {}
  /\ buocA' = [buocA EXCEPT ![a] = "xoaGhi"]
  /\ viecA' = [viecA EXCEPT ![a] = [KhongViecA EXCEPT !.lop = l]]
  /\ UNCHANGED <<vars, bangA>>

GhiXoaLop(a) ==
  /\ buocA[a] = "xoaGhi"
  /\ LET l == viecA[a].lop
     IN  \/ lopHoc[l] # Khong /\ XoaLop(l) /\ XongThayLich(a, l)
         \/ /\ lopHoc[l] = Khong /\ XongA(a)
            /\ UNCHANGED <<lopHoc, tenLop, phanCong, dangKy, diem>>
  /\ UNCHANGED <<dots, gio, maKe, buoc, viec, chuaCap>>

DocLopHuy(a, l) ==
  /\ RanhA(a, l) /\ lopHoc[l] # Khong
  /\ buocA' = [buocA EXCEPT ![a] = "huyLopGhi"]
  /\ viecA' = [viecA EXCEPT ![a] =
       [KhongViecA EXCEPT !.lop = l, !.dk = TrongLop(l),
                          !.coDiem = {m \in TrongLop(l) : diem[m] # Khong}]]
  /\ UNCHANGED <<vars, bangA>>

\* Every registration, mark and schedule row read is deleted by its id.
HuyLopDuoc(v) ==
  /\ v.con /\ lopHoc[v.lop] # Khong
  /\ \A m \in v.dk : dangKy[m] # Khong
  /\ \A m \in v.coDiem : diem[m] # Khong

GhiHuyLop(a) ==
  /\ buocA[a] = "huyLopGhi"
  /\ LET v == viecA[a]
     IN  \/ HuyLopDuoc(v) /\ XoaLop(v.lop) /\ XongThayLich(a, v.lop)
         \/ /\ ~HuyLopDuoc(v) /\ XongA(a)
            /\ UNCHANGED <<lopHoc, tenLop, phanCong, dangKy, diem>>
  /\ UNCHANGED <<dots, gio, maKe, buoc, viec, chuaCap>>

-----------------------------------------------------------------------------
(* Specification *)

InitA ==
  /\ Init
  /\ tenLop = TenDau /\ phanCong = PhanCongDau
  /\ chuaCap = {l \in Lop : LopDau[l] = Khong}
  /\ buocA = [a \in QuanTri |-> "nghi"]
  /\ viecA = [a \in QuanTri |-> KhongViecA]

BuocQuanTri(a) ==
  \/ \E q \in YeuCauLop : KiemPhongTao(a, q)
  \/ KiemTenTao(a) \/ KiemGVTao(a) \/ GhiLop(a) \/ GhiPhanCong(a)
  \/ \E l \in Lop, q \in YeuCauLop : DocLopSua(a, l, q)
  \/ KiemPhongSua(a) \/ KiemTenSua(a) \/ KiemGVSua(a) \/ GhiSua(a)
  \/ \E l \in Lop : DocLopXoa(a, l) \/ DocLopHuy(a, l)
  \/ GhiXoaLop(a) \/ GhiHuyLop(a)

NextA ==
  \/ Next /\ UNCHANGED <<bangA, buocA, viecA>>
  \/ \E a \in QuanTri : BuocQuanTri(a)

SpecA == InitA /\ [][NextA]_varsA

-----------------------------------------------------------------------------
(* Properties *)

\* No room is given to two classes of a term at the same time.
PhongKhongTrung ==
  \A k, l \in Lop :
    k # l /\ lopHoc[k] # Khong /\ lopHoc[l] # Khong /\ lopHoc[k].ky = lopHoc[l].ky
      => ~TrungPhong(lopHoc[k].lich, lopHoc[l].lich)

\* No teacher has two classes of a term at the same time.
GiangVienKhongTrung ==
  \A k, l \in Lop :
    /\ k # l /\ phanCong[k] \cap phanCong[l] # {}
    /\ lopHoc[k].ky = lopHoc[l].ky
    => ~TrungNhau(lopHoc[k].lich, lopHoc[l].lich)

\* A class is always what one form said, name, size and schedule together: of
\* two administrators who edit it at once the second fails, though the UPDATE
\* names only the columns it changes and nothing compares versions.
LopNguyenVen ==
  \A l \in Lop : lopHoc[l] # Khong =>
    \/ lopHoc[l] = LopDau[l] /\ tenLop[l] = TenDau[l]
    \/ \E q \in YeuCauLop : /\ q.ten = tenLop[l]
                            /\ q.siSo = lopHoc[l].siSo /\ q.lich = lopHoc[l].lich

\* Nothing is left behind by a deleted class, whatever came in between.
KhongConDauVet ==
  /\ KhongMoCoi
  /\ \A l \in Lop : lopHoc[l] = Khong => phanCong[l] = {} /\ tenLop[l] = Khong

\* Delete is for empty classes: it never takes a registration away.
XoaLopKhongMatDangKy ==
  [][\A a \in QuanTri : GhiXoaLop(a) => dangKy' = dangKy]_varsA
=============================================================================
