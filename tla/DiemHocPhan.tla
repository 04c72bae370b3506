----------------------------- MODULE DiemHocPhan -----------------------------
(***************************************************************************)
(* Marks (DiemHocPhanController) beside the registrations they belong to.  *)
(*                                                                         *)
(* NhapDiem reads a registration with its mark and its student, writes the *)
(* mark, reads all of the student's registrations again and writes the     *)
(* student's accumulated credits and GPA: two transactions with a read     *)
(* between them, run by teachers and administrators at the same time as    *)
(* the students' own requests of DangKyHocPhan.                            *)
(***************************************************************************)
EXTENDS DangKyHocPhan

CONSTANTS
  GiangVien,          \* teachers; Khong as a user is an administrator
  NhapDiemSlot,       \* slots for mark entries being served at one time
  DiemXY,             \* the partial marks sent, in hundredths, or Khong
  PhanCong,           \* class -> its teachers (LopHocKyGiangViens)
  MoiSVMotNguoi       \* TRUE: no two entries for one student in flight

\* Subjects have credits (MonHocController saves none without).
ASSUME TinChiDuong == IsFiniteSet(Mon) /\ \A mon \in Mon : MonHoc[mon].tinChi \in Nat \ {0}

VARIABLES
  tichLuy,            \* SinhViens: [tin, gpa] (TongTinChiTichLuy, GPATichLuy)
  buocD, viecD        \* where each mark entry is and what it has read

varsD == <<vars, tichLuy, buocD, viecD>>

TinhTichLuy(d, sv) ==
  LET z == ZTotNhat(d, sv)
      tc == [mon \in Mon |-> MonHoc[mon].tinChi]
  IN  [tin |-> TongTinChi(z, tc), gpa |-> GPA(z, tc)]

XongD(d) ==
  /\ buocD' = [buocD EXCEPT ![d] = "nghi"]
  /\ viecD' = [viecD EXCEPT ![d] = Khong]

-----------------------------------------------------------------------------
(* NhapDiem: PUT /diem-hoc-phan/{maDangKy} *)

\* What an entry has read and is to write: who, for which registration, the
\* marks sent, cu the mark as read, tl the student's row as read, moi its totals.
DocBangDiem(d, nguoi, m, x, y) ==
  /\ buocD[d] = "nghi" /\ dangKy[m] # Khong
  /\ MoiSVMotNguoi => \A e \in NhapDiemSlot :
       buocD[e] # "nghi" => viecD[e].sv # dangKy[m].sv
  /\ LET sv == dangKy[m].sv
     IN  viecD' = [viecD EXCEPT ![d] =
           [nguoi |-> nguoi, ma |-> m, sv |-> sv, lop |-> dangKy[m].lop, x |-> x, y |-> y,
            cu |-> diem[m], tl |-> tichLuy[sv], moi |-> tichLuy[sv]]]
  /\ buocD' = [buocD EXCEPT ![d] = "quyen"]
  /\ UNCHANGED <<vars, tichLuy>>

\* A teacher enters marks of classes assigned to them, in 0..10.
DuocNhap(v) ==
  /\ v.nguoi # Khong => v.nguoi \in PhanCong[v.lop]
  /\ v.x # Khong => v.x \in 0..1000
  /\ v.y # Khong => v.y \in 0..1000

KiemQuyen(d) ==
  /\ buocD[d] = "quyen"
  /\ \/ /\ DuocNhap(viecD[d])
        /\ buocD' = [buocD EXCEPT ![d] = "ghi"] /\ UNCHANGED viecD
     \/ ~DuocNhap(viecD[d]) /\ XongD(d)
  /\ UNCHANGED <<vars, tichLuy>>

DiemGuiGiuZ(v) ==
  [x |-> v.x, y |-> v.y,
   z |-> IF v.x # Khong /\ v.y # Khong THEN TinhZ(v.x, v.y)
         ELSE IF v.cu = Khong THEN Khong ELSE v.cu.z]
DiemGui(v) == [x |-> v.x, y |-> v.y, z |-> TinhZ(v.x, v.y)]

\* INSERT needs the registration and no mark yet; UPDATE needs the mark's row.
GhiDuoc(v) ==
  IF v.cu = Khong THEN dangKy[v.ma] # Khong /\ diem[v.ma] = Khong
                  ELSE diem[v.ma] # Khong

GhiDiem(d) ==
  /\ buocD[d] = "ghi" /\ GhiDuoc(viecD[d])
  /\ LET v == viecD[d]
     IN  diem' = [diem EXCEPT ![v.ma] =
           IF v.cu = Khong THEN DiemGui(v) ELSE GhiCot(v.cu, DiemGui(v), @)]
  /\ buocD' = [buocD EXCEPT ![d] = "docTL"]
  /\ UNCHANGED <<lopHoc, dangKy, dots, gio, maKe, buoc, viec, tichLuy, viecD>>

GhiDiemLoi(d) ==
  /\ buocD[d] = "ghi" /\ ~GhiDuoc(viecD[d])
  /\ XongD(d)
  /\ UNCHANGED <<vars, tichLuy>>

\* CapNhatTichLuyAsync reads every registration again, but the DbContext still
\* tracks the mark this request wrote and keeps its own copy of it.
DocTichLuyTruocDiem(d) ==
  /\ buocD[d] = "docTL"
  /\ LET v == viecD[d]
     IN  viecD' = [viecD EXCEPT ![d].moi =
                     TinhTichLuy([diem EXCEPT ![v.ma] = v.cu], v.sv)]
  /\ buocD' = [buocD EXCEPT ![d] = "ghiTL"]
  /\ UNCHANGED <<vars, tichLuy>>

DocTichLuy(d) ==
  /\ buocD[d] = "docTL"
  /\ LET v == viecD[d]
     IN  viecD' = [viecD EXCEPT ![d].moi =
                     TinhTichLuy([diem EXCEPT ![v.ma] = DiemGui(v)], v.sv)]
  /\ buocD' = [buocD EXCEPT ![d] = "ghiTL"]
  /\ UNCHANGED <<vars, tichLuy>>

\* FindAsync returns the student's row tracked since the first read.
GhiTichLuy(d) ==
  /\ buocD[d] = "ghiTL"
  /\ LET v == viecD[d]
     IN  tichLuy' = [tichLuy EXCEPT ![v.sv] = GhiCot(v.tl, v.moi, @)]
  /\ XongD(d)
  /\ UNCHANGED vars

-----------------------------------------------------------------------------
(* Specification *)

InitD ==
  /\ Init
  /\ tichLuy = [sv \in SinhVien |-> TinhTichLuy(diem, sv)]
  /\ buocD = [d \in NhapDiemSlot |-> "nghi"]
  /\ viecD = [d \in NhapDiemSlot |-> Khong]

BuocNhapDiem(d) ==
  \/ \E nguoi \in GiangVien \cup {Khong}, m \in Ma, x, y \in DiemXY :
       DocBangDiem(d, nguoi, m, x, y)
  \/ KiemQuyen(d) \/ GhiDiem(d) \/ GhiDiemLoi(d) \/ DocTichLuy(d) \/ GhiTichLuy(d)

NextD ==
  \/ Next /\ UNCHANGED <<tichLuy, buocD, viecD>>
  \/ \E d \in NhapDiemSlot : BuocNhapDiem(d)

SpecD == InitD /\ [][NextD]_varsD

-----------------------------------------------------------------------------
(* Properties *)

KhongAiNhap == \A d \in NhapDiemSlot : buocD[d] = "nghi"

\* The final mark is the rounded mean of the partial marks stored with it.
DiemNhatQuan == \A m \in Ma : diem[m] # Khong => diem[m].z = TinhZ(diem[m].x, diem[m].y)

\* With no entry in flight, the student's row is what the marks add up to.
TichLuyDung == KhongAiNhap => \A sv \in SinhVien : tichLuy[sv] = TinhTichLuy(diem, sv)

\* With no entry in flight, no credit that the marks earn is missing.
KhongThieuTinChi ==
  KhongAiNhap => \A sv \in SinhVien : tichLuy[sv].tin >= TinhTichLuy(diem, sv).tin
=============================================================================
