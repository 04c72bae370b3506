--------------------------- MODULE MCDiemHocPhan ---------------------------
(* DiemHocPhan on the small school of MCDangKyHocPhan: one teacher who has  *)
(* the past class, an administrator, and marks that fail, pass and lack a   *)
(* part.                                                                    *)
EXTENDS DiemHocPhan, MCDangKyHocPhan

CONSTANT g1

MCPhanCong == [l \in Lop |-> IF l \in {toanCu, toanA} THEN {g1} ELSE {}]

\* A missing part and a value out of range beside a mark that needs rounding.
MCDiemXY == {Khong, 705, 1100}
MCDiemSo == {300, 705}
MCDiemThieu == {Khong, 705}

\* Students swap and cancel in term k2 only; the past registrations stay.
MCDangKyDauMot ==
  [m \in Ma |-> IF m = 1 THEN [sv |-> s1, lop |-> toanA]
                ELSE IF m = 2 THEN [sv |-> s1, lop |-> hoaA] ELSE Khong]
MCDotMo == {Dot(0, MaxGio, Khong, Khong, TRUE, FALSE)}
=============================================================================
