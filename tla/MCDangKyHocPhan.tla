-------------------------- MODULE MCDangKyHocPhan --------------------------
(* A small school for DangKyHocPhan: two or three students, a past term k1  *)
(* and the current second term k2, and up to six classes, two of which meet *)
(* at the same time, two of which teach the same subject and most of which  *)
(* have one place.                                                          *)
EXTENDS DangKyHocPhan, TLC

CONSTANTS s1, s2, s3, toan, ly, hoa, k1, k2, toanA, toanB, toanCu, toanCu2, lyA, hoaA

MCSinhVien == {s1, s2}
MCBaSinhVien == {s1, s2, s3}
MCMon == {toan, ly, hoa}
MCKy == {k1, k2}
MCLop == {toanA, toanB, toanCu, lyA, hoaA}
MCHaiLop == {toanA, toanB}
MCLopHet == MCLop \cup {toanCu2}

Buoi(thu, tu, den) == [thu |-> thu, tu |-> tu, den |-> den, bd |-> 1, kt |-> 2, phong |-> Khong]
MCBuoiHoc == {Buoi(2, 1, 3), Buoi(2, 3, 5), Buoi(3, 1, 2), Buoi(4, 1, 2)}

MCMonHoc ==
  (toan :> [tienQuyet |-> Khong, tinChi |-> 3, batBuoc |-> TRUE]) @@
  (ly   :> [tienQuyet |-> toan,  tinChi |-> 2, batBuoc |-> FALSE]) @@
  (hoa  :> [tienQuyet |-> Khong, tinChi |-> 2, batBuoc |-> TRUE])

\* The school year starts in year 10; its second term lies in year 11.
MCHocKy == (k1 :> [namHoc |-> 10, nam |-> 10, phu |-> FALSE, hai |-> FALSE]) @@
           (k2 :> [namHoc |-> 10, nam |-> 11, phu |-> FALSE, hai |-> TRUE])

Khung == (toan :> 1) @@ (ly :> Khong) @@ (hoa :> 4)
MCHoSo == (s1 :> [nam |-> 10, khoaVien |-> 1, khung |-> Khung]) @@
          (s2 :> [nam |-> 10, khoaVien |-> 2, khung |-> Khung]) @@
          (s3 :> [nam |-> 11, khoaVien |-> 2, khung |-> Khung])

LopCuaKy(m, k, n, b) == [mon |-> m, ky |-> k, siSo |-> n, lich |-> {b}]
LopTatCa ==
  (toanA   :> LopCuaKy(toan, k2, 1, Buoi(2, 1, 3))) @@
  (toanB   :> LopCuaKy(toan, k2, 1, Buoi(3, 1, 2))) @@
  (toanCu  :> LopCuaKy(toan, k1, 2, Buoi(2, 1, 3))) @@
  (toanCu2 :> LopCuaKy(toan, k1, 2, Buoi(2, 3, 5))) @@
  (lyA     :> LopCuaKy(ly,   k2, 1, Buoi(2, 3, 5))) @@
  (hoaA    :> LopCuaKy(hoa,  k2, 2, Buoi(4, 1, 2)))
MCLopDau == [l \in Lop |-> LopTatCa[l]]

\* s1 passed toan with 5.0 and may improve it; s2 has not been graded yet.
MCDangKyDau ==
  [m \in Ma |-> IF m = 1 THEN [sv |-> s1, lop |-> toanCu]
                ELSE IF m = 2 THEN [sv |-> s2, lop |-> toanCu] ELSE Khong]
MCDiemDau ==
  [m \in Ma |-> IF m = 1 THEN [x |-> 400, y |-> 600, z |-> 500] ELSE Khong]

MCTrong == [m \in Ma |-> Khong]

Dot(tu, den, nam, kv, dk, rut) ==
  [ky |-> k2, tu |-> tu, den |-> den, nam |-> nam, khoaVien |-> kv,
   choDangKy |-> dk, choRut |-> rut]

\* Everybody registers at 0..1; faculty 1 withdraws at 2.
MCDotDau == {Dot(0, 1, Khong, Khong, TRUE, FALSE), Dot(2, 2, Khong, 1, FALSE, TRUE)}

\* Requests are alike.
MCDoiXung == Permutations(YeuCau)

\* What a theorem asks of the school holds of this one.
ASSUME ChamSauDot
=============================================================================
