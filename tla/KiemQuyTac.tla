----------------------------- MODULE KiemQuyTac -----------------------------
(***************************************************************************)
(* The rules of QuyTac against what they are meant to say: each state      *)
(* holds a pair of inputs of one kind, and the invariants compare the      *)
(* rules with reference definitions that go day by day, mark by mark and   *)
(* term by term.                                                           *)
(***************************************************************************)
EXTENDS QuyTac

CONSTANTS
  Buoi,       \* meetings to compare
  BangDiem,   \* best marks: subject -> mark or Khong
  TinChi,     \* subject -> credits
  HocKyThu,   \* terms: [namHoc, nam, phu, hai]
  NamNhap     \* cohorts

\* Meetings that ValidateLichHocs accepts, dates and years as numbers, marks in
\* range and credits as MonHocController checks them.
ASSUME MauThu ==
  /\ \A l \in Buoi : BuoiHopLe(l) /\ l.bd \in Int /\ l.kt \in Int
  /\ IsFiniteSet(DOMAIN TinChi) /\ \A mon \in DOMAIN TinChi : TinChi[mon] \in Nat
  /\ BangDiem \subseteq [DOMAIN TinChi -> 0..1000 \cup {Khong}]
  /\ \A hk \in HocKyThu : hk.namHoc \in Int
  /\ NamNhap \subseteq Int

VARIABLES loai, vao, ra
varsK == <<loai, vao, ra>>

\* One kind of question and its first input, then its second input.
InitK ==
  /\ ra = Khong
  /\ \/ loai = "lich" /\ vao \in Buoi
     \/ loai = "diem" /\ vao \in BangDiem
     \/ loai = "ky" /\ vao \in HocKyThu \X NamNhap

NextK ==
  /\ ra = Khong /\ UNCHANGED <<loai, vao>>
  /\ \/ loai = "lich" /\ ra' \in Buoi
     \/ loai = "diem" /\ ra' \in BangDiem
     \/ loai = "ky" /\ ra' \in HocKyThu \X NamNhap

SpecK == InitK /\ [][NextK]_varsK

HoiVe(k) == loai = k /\ ra # Khong

-----------------------------------------------------------------------------
(* Properties *)

\* Day 0 is a Monday; weekday 2 is Monday, 8 is Sunday.
TietHoc(l) == {x \in (l.bd..l.kt) \X (l.tu..l.den) : (x[1] % 7) + 2 = l.thu}

\* Two meetings that really share a period of a day are reported as clashing,
\* and of two that clash for a full week at least the report is true.
TrungLichDung ==
  HoiVe("lich") =>
    LET chung == TietHoc(vao) \cap TietHoc(ra)
        tuan  == /\ vao.kt - ra.bd >= 6 /\ ra.kt - vao.bd >= 6
                 /\ vao.kt - vao.bd >= 6 /\ ra.kt - ra.bd >= 6
    IN  /\ chung # {} => BuoiTrungNhau(vao, ra)
        /\ BuoiTrungNhau(vao, ra) /\ tuan => chung # {}

\* Improving a mark never takes credits away, and improving the mark of a
\* subject already passed never lowers the GPA.
CaiThienKhongThiet ==
  (HoiVe("diem") /\ \A m \in DOMAIN vao : vao[m] # Khong => ra[m] # Khong /\ ra[m] >= vao[m]) =>
    /\ TongTinChi(ra, TinChi) >= TongTinChi(vao, TinChi)
    /\ MonDat(vao) = MonDat(ra) => GPA(ra, TinChi) >= GPA(vao, TinChi)

\* Once a cohort has entered, a later term never goes back in the curriculum,
\* and the summer term reaches as far as the second one.
KyDatKhongLui ==
  HoiVe("ky") /\ vao[2] = ra[2] /\ vao[1].namHoc >= vao[2] =>
    LET kv == TinhKyDat(vao[1], vao[2], TRUE)  kr == TinhKyDat(ra[1], ra[2], TRUE)
        thuTu(h) == h.namHoc * 2 + (IF h.hai \/ h.phu THEN 1 ELSE 0)
    IN  (thuTu(vao[1]) <= thuTu(ra[1])) => (kv <= kr)
=============================================================================
