------------------------------- MODULE QuyTac -------------------------------
(***************************************************************************)
(* The business rules of course registration that QuanLyTruongHoc keeps   *)
(* free of the database (Application/Common): when two class meetings      *)
(* clash, which registration rounds apply to a student, which curriculum   *)
(* semester a student has reached, and how a mark becomes grade points.    *)
(*                                                                         *)
(* A meeting (LichHocLopHocKy) is [thu, tu, den, bd, kt, phong]: weekday,  *)
(* first and last period, first and last date, room.  Dates are day        *)
(* numbers, marks are in hundredths (the columns are decimal(4,2)).        *)
(***************************************************************************)
EXTENDS Integers, FiniteSets, FiniteSetsExt

CONSTANT Khong            \* SQL NULL / C# null

-----------------------------------------------------------------------------
(* LichHoc *)

\* The two date ranges and period ranges of one weekday meet.
BuoiTrungNhauHoMep(a, b) ==
  /\ a.thu = b.thu
  /\ a.tu < b.den /\ b.tu < a.den
  /\ a.bd <= b.kt /\ b.bd <= a.kt
BuoiTrungNhau(a, b) ==
  /\ a.thu = b.thu
  /\ a.tu <= b.den /\ b.tu <= a.den
  /\ a.bd <= b.kt /\ b.bd <= a.kt

TrungNhau(A, B) == \E x \in A, y \in B : BuoiTrungNhau(x, y)

\* ValidateLichHocs: the conditions under which a list of meetings is accepted.
BuoiHopLe(l) ==
  /\ l.thu \in 2..8
  /\ l.tu \in 1..10 /\ l.den \in 1..10
  /\ l.tu <= l.den
  /\ (l.tu <= 5 /\ l.den <= 5) \/ (l.tu >= 6 /\ l.den >= 6)
  /\ l.bd <= l.kt

LichHopLe(L) ==
  /\ L # {}
  /\ \A l \in L : BuoiHopLe(l)
  /\ \A l, m \in L : l # m => ~BuoiTrungNhau(l, m)

\* Same room at the same time; meetings without a room are never compared.
TrungPhong(A, B) ==
  \E x \in A, y \in B :
    /\ x.phong # Khong /\ y.phong # Khong
    /\ x.phong = y.phong
    /\ BuoiTrungNhau(x, y)

-----------------------------------------------------------------------------
(* DangKyRules *)

DiemDat        == 400
DiemHetCaiThien == 700

\* A round names a cohort, or a faculty, or (both null) everybody; the cohort
\* is looked at first.  hs is the student's file [nam, khoaVien, ...].
DotApDungCho(d, hs) ==
  IF d.nam # Khong THEN d.nam = hs.nam
  ELSE IF d.khoaVien # Khong THEN d.khoaVien = hs.khoaVien
  ELSE TRUE

\* TrangThaiDot: the student's rounds of term ky that are running at time now.
DotDangMo(ky, hs, dots, now) ==
  {d \in dots : DotApDungCho(d, hs) /\ d.ky = ky /\ d.tu <= now /\ now <= d.den}

MoDangKy(ky, hs, dots, now) == \E d \in DotDangMo(ky, hs, dots, now) : d.choDangKy
MoRut(ky, hs, dots, now)    == \E d \in DotDangMo(ky, hs, dots, now) : d.choRut

\* The year of study is counted from the school year's first calendar year when
\* the term was loaded with its NamHoc, and from the term's own first calendar
\* year when it was not.  hk is [namHoc, nam, phu, hai].
NamThu(hk, namNhapHoc, coNamHoc) ==
  LET n == (IF coNamHoc THEN hk.namHoc ELSE hk.nam) - namNhapHoc + 1
  IN  IF n > 1 THEN n ELSE 1

TinhKyDatPhuNhuKyMot(hk, namNhapHoc, coNamHoc) ==
  (NamThu(hk, namNhapHoc, coNamHoc) - 1) * 2 + (IF hk.hai THEN 2 ELSE 1)
TinhKyDat(hk, namNhapHoc, coNamHoc) ==
  LET n == NamThu(hk, namNhapHoc, coNamHoc)
  IN  IF hk.phu THEN n * 2 ELSE (n - 1) * 2 + (IF hk.hai THEN 2 ELSE 1)

-----------------------------------------------------------------------------
(* DiemQuyDoi, and the rounding of DiemHocPhanController *)

\* Grade points of the 4-scale, in hundredths.
ThangDiem4DaoNguong(z) ==
  IF      z >= 850 THEN 400
  ELSE IF z >= 800 THEN 350
  ELSE IF z >= 700 THEN 300
  ELSE IF z >= 650 THEN 200
  ELSE IF z >= 550 THEN 250
  ELSE IF z >= 500 THEN 150
  ELSE IF z >= 400 THEN 100
  ELSE 0
ThangDiem4(z) ==
  IF      z >= 850 THEN 400
  ELSE IF z >= 800 THEN 350
  ELSE IF z >= 700 THEN 300
  ELSE IF z >= 650 THEN 250
  ELSE IF z >= 550 THEN 200
  ELSE IF z >= 500 THEN 150
  ELSE IF z >= 400 THEN 100
  ELSE 0

\* Math.Round(n / d): to the nearest, halves to the even neighbour.
LamTron(n, d) ==
  LET q == n \div d
      r == 2 * (n % d)
  IN  IF r < d \/ (r = d /\ q % 2 = 0) THEN q ELSE q + 1

\* A final mark exists when both partial marks do: their rounded mean.
TinhZ(x, y) == IF x = Khong \/ y = Khong THEN Khong ELSE LamTron(x + y, 2)

\* CapNhatTichLuyAsync, from the best mark of every subject (Khong: no mark yet);
\* tc gives the credits of a subject.
MonDat(zTotNhat) ==
  {m \in DOMAIN zTotNhat : zTotNhat[m] # Khong /\ zTotNhat[m] >= DiemDat}

TongTinChi(zTotNhat, tc) == MapThenSumSet(LAMBDA m : tc[m], MonDat(zTotNhat))

GPA(zTotNhat, tc) ==
  LET tin == TongTinChi(zTotNhat, tc)
  IN  IF tin > 0
      THEN LamTron(MapThenSumSet(LAMBDA m : ThangDiem4(zTotNhat[m]) * tc[m],
                                 MonDat(zTotNhat)), tin)
      ELSE 0

-----------------------------------------------------------------------------
(* Entity Framework Core, as every controller uses it *)

\* SaveChangesAsync on a tracked row: the UPDATE names the columns whose value
\* differs from the one that was READ (doc); the others keep what the table
\* holds by now (hang), whoever wrote it.
GhiCot(doc, moi, hang) ==
  [c \in DOMAIN hang |-> IF moi[c] # doc[c] THEN moi[c] ELSE hang[c]]
=============================================================================
