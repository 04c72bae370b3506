-------------------------- MODULE MCLopHocTrongKy --------------------------
(* A term with two classes of one subject and one id left to create, one    *)
(* room, two teachers, and forms that collide in the room, in the name and  *)
(* in the teacher.                                                          *)
EXTENDS LopHocTrongKy, TLC

CONSTANTS s1, toan, k1, lopA, lopB, lopC, g1, g2, p1, tenA, tenB, tenC

Buoi(thu, tu, den, p) ==
  [thu |-> thu, tu |-> tu, den |-> den, bd |-> 1, kt |-> 2, phong |-> p]
Sang1 == Buoi(2, 1, 3, p1)
Sang2 == Buoi(2, 3, 5, p1)
Chieu == Buoi(2, 6, 8, Khong)
ChieuMuon == Buoi(2, 8, 10, Khong)
Sang3 == Buoi(2, 3, 5, Khong)
QuaTrua == Buoi(2, 4, 7, p1)      \* never accepted

MCBuoiHoc == {Sang1, Sang2, Sang3, Chieu, ChieuMuon, QuaTrua}
MCLop == {lopA, lopB, lopC}
MCMonHoc == toan :> [tienQuyet |-> Khong, tinChi |-> 3, batBuoc |-> FALSE]
MCHocKy == k1 :> [namHoc |-> 10, nam |-> 10, phu |-> FALSE, hai |-> FALSE]
MCHoSo == s1 :> [nam |-> 10, khoaVien |-> 1, khung |-> toan :> Khong]
MCDotDau == {[ky |-> k1, tu |-> 0, den |-> 0, nam |-> Khong, khoaVien |-> Khong,
              choDangKy |-> TRUE, choRut |-> FALSE]}

DongCua(n, b) == [mon |-> toan, ky |-> k1, siSo |-> n, lich |-> {b}]
MCLopDau == (lopA :> DongCua(1, Sang1)) @@ (lopB :> DongCua(2, Chieu)) @@ (lopC :> Khong)
MCTenDau == (lopA :> tenA) @@ (lopB :> tenB) @@ (lopC :> Khong)
MCPhanCongDau == (lopA :> {g1}) @@ (lopB :> {g2}) @@ (lopC :> {})
MCTrong == [m \in Ma |-> Khong]
\* s1 is in lopB and has been given a mark there.
MCDangKyDau == [m \in Ma |-> IF m = 1 THEN [sv |-> s1, lop |-> lopB] ELSE Khong]
MCDiemDau == [m \in Ma |-> IF m = 1 THEN [x |-> 600, y |-> 400, z |-> 500] ELSE Khong]

DonXin(ten, n, b, gv) ==
  [mon |-> toan, ky |-> k1, ten |-> ten, siSo |-> n, lich |-> {b}, gv |-> gv]
MCYeuCauLop ==
  {DonXin(tenA, 1, Sang2, g1), DonXin(tenB, 2, Chieu, g1),
   DonXin(tenC, 1, ChieuMuon, g1), DonXin(tenC, 2, Sang2, Khong),
   DonXin(tenC, 2, Sang3, Khong), DonXin(tenC, 2, QuaTrua, Khong)}
=============================================================================
