------------------------------ MODULE DotDangKy ------------------------------
(***************************************************************************)
(* Registration rounds (DotDangKyController): what administrators may make *)
(* of a round when several of them create, edit and delete rounds at once. *)
(* Update reads the row, validates the FORM over one or two queries, copies *)
(* the form into the tracked row and saves: an UPDATE of the columns that  *)
(* differ from the row as read, whatever the table holds by then.          *)
(***************************************************************************)
EXTENDS QuyTac

CONSTANTS
  Dot,                \* ids of rounds
  QuanTri,            \* slots for the requests in flight
  Form,               \* forms sent: [ky, tu, den, nam, khoaVien, choDangKy, choRut]
  KyCo, KhoaVienCo,   \* the terms and faculties that exist
  DotDau,             \* the rounds at the start
  MoiDotMotNguoi      \* TRUE: no two edits in flight of one round

\* Every form and every row has the columns of the table, and the rounds at the start
\* are valid.
CotDot == {"ky", "tu", "den", "nam", "khoaVien", "choDangKy", "choRut"}
HangSoDot ==
  /\ \A f \in Form : DOMAIN f = CotDot
  /\ \A d \in Dot : DotDau[d] # Khong =>
       /\ DOMAIN DotDau[d] = CotDot
       /\ DotDau[d].tu < DotDau[d].den
       /\ DotDau[d].nam = Khong \/ DotDau[d].khoaVien = Khong
       /\ DotDau[d].ky \in KyCo /\ DotDau[d].khoaVien \in KhoaVienCo \cup {Khong}
  /\ DotDau = [d \in Dot |-> DotDau[d]]

VARIABLES dot, chuaCap, buoc, viec
bang == <<dot, chuaCap>>
vars == <<dot, chuaCap, buoc, viec>>

KhongViec == [ma |-> Khong, form |-> Khong, doc |-> Khong]

CacBuoc == {"nghi", "taoKhoa", "taoGhi", "suaKy", "suaKhoa", "suaGhi", "xoaGhi"}
BuocSua == {"suaKy", "suaKhoa", "suaGhi"}

TraLoi(a) ==
  /\ buoc' = [buoc EXCEPT ![a] = "nghi"]
  /\ viec' = [viec EXCEPT ![a] = KhongViec]

Hoi(a, duoc, b) ==
  \/ duoc /\ buoc' = [buoc EXCEPT ![a] = b] /\ UNCHANGED viec
  \/ ~duoc /\ TraLoi(a)

Nhan(a, b, v) ==
  /\ buoc[a] = "nghi"
  /\ buoc' = [buoc EXCEPT ![a] = b]
  /\ viec' = [viec EXCEPT ![a] = v]

-----------------------------------------------------------------------------
(* Validate: the tests on the form itself, then a query per foreign key *)

PhamViHopLe(f) == f.nam = Khong \/ f.khoaVien = Khong
FormHopLeThieuPhamVi(f) == f.tu < f.den
FormHopLe(f) == f.tu < f.den /\ PhamViHopLe(f)

CoKy(f) == f.ky \in KyCo
CoKhoaVien(f) == f.khoaVien # Khong => f.khoaVien \in KhoaVienCo

-----------------------------------------------------------------------------
(* Create: POST /dot-dang-ky *)

\* The bound on ids: one is left for every creation in flight.
ConMa == Cardinality({e \in QuanTri : buoc[e] \in {"taoKhoa", "taoGhi"}}) < Cardinality(chuaCap)

NhanTao(a, f) ==
  /\ FormHopLe(f) /\ CoKy(f) /\ ConMa
  /\ Nhan(a, "taoKhoa", [KhongViec EXCEPT !.form = f])
  /\ UNCHANGED bang

KiemKhoaTao(a) ==
  buoc[a] = "taoKhoa" /\ Hoi(a, CoKhoaVien(viec[a].form), "taoGhi") /\ UNCHANGED bang

GhiTao(a) ==
  /\ buoc[a] = "taoGhi"
  /\ \E d \in chuaCap :
       /\ chuaCap' = chuaCap \ {d}
       /\ dot' = [dot EXCEPT ![d] = viec[a].form]
  /\ TraLoi(a)

-----------------------------------------------------------------------------
(* Update: PUT /dot-dang-ky/{id}.  The term of a round never changes. *)

DocSua(a, d, f) ==
  /\ dot[d] # Khong /\ FormHopLe(f)
  /\ MoiDotMotNguoi => \A e \in QuanTri : ~(buoc[e] \in BuocSua /\ viec[e].ma = d)
  /\ Nhan(a, "suaKy", [ma |-> d, form |-> [f EXCEPT !.ky = dot[d].ky], doc |-> dot[d]])
  /\ UNCHANGED bang

KiemKySua(a) ==
  buoc[a] = "suaKy" /\ Hoi(a, CoKy(viec[a].form), "suaKhoa") /\ UNCHANGED bang

KiemKhoaSua(a) ==
  buoc[a] = "suaKhoa" /\ Hoi(a, CoKhoaVien(viec[a].form), "suaGhi") /\ UNCHANGED bang

\* An UPDATE that names no column is not sent and cannot fail.
GhiSuaLai(a) ==
  /\ buoc[a] = "suaGhi"
  /\ dot' = [dot EXCEPT ![viec[a].ma] = viec[a].form]
  /\ TraLoi(a) /\ UNCHANGED chuaCap

GhiSua(a) ==
  /\ buoc[a] = "suaGhi"
  /\ LET v == viec[a]
     IN  dot' = IF dot[v.ma] = Khong THEN dot
                ELSE [dot EXCEPT ![v.ma] = GhiCot(v.doc, v.form, @)]
  /\ TraLoi(a) /\ UNCHANGED chuaCap

-----------------------------------------------------------------------------
(* Delete: DELETE /dot-dang-ky/{id} *)

DocXoa(a, d) ==
  /\ dot[d] # Khong
  /\ Nhan(a, "xoaGhi", [KhongViec EXCEPT !.ma = d])
  /\ UNCHANGED bang

\* A row already gone makes SaveChangesAsync throw; it is gone either way.
GhiXoa(a) ==
  /\ buoc[a] = "xoaGhi"
  /\ dot' = [dot EXCEPT ![viec[a].ma] = Khong]
  /\ TraLoi(a) /\ UNCHANGED chuaCap

-----------------------------------------------------------------------------
(* Specification *)

Init ==
  /\ dot = DotDau
  /\ chuaCap = {d \in Dot : DotDau[d] = Khong}
  /\ buoc = [a \in QuanTri |-> "nghi"]
  /\ viec = [a \in QuanTri |-> KhongViec]

Next ==
  \E a \in QuanTri :
    \/ \E f \in Form : NhanTao(a, f)
    \/ \E d \in Dot, f \in Form : DocSua(a, d, f)
    \/ \E d \in Dot : DocXoa(a, d)
    \/ KiemKhoaTao(a) \/ GhiTao(a)
    \/ KiemKySua(a) \/ KiemKhoaSua(a) \/ GhiSua(a)
    \/ GhiXoa(a)

Spec == Init /\ [][Next]_vars

-----------------------------------------------------------------------------
(* Properties *)

\* A stored round is one that Validate accepts: it ends after it begins, names
\* one scope at most, and its term and faculty exist.
DotHopLe ==
  \A d \in Dot : dot[d] # Khong =>
    /\ dot[d].tu < dot[d].den
    /\ dot[d].nam = Khong \/ dot[d].khoaVien = Khong
    /\ dot[d].ky \in KyCo /\ dot[d].khoaVien \in KhoaVienCo \cup {Khong}

\* A deleted round stays deleted, also under an edit that had read it before.
XoaLaHet == [][\A d \in Dot : dot[d] = Khong /\ dot'[d] # Khong => d \in chuaCap]_vars
=============================================================================
