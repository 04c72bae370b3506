--------------------------- MODULE MCChuongTrinh ---------------------------
(* ChuongTrinh on the small school, with ly in the curriculum behind its    *)
(* prerequisite toan.                                                       *)
EXTENDS ChuongTrinh, MCDiemHocPhan

KhungLy == (toan :> 1) @@ (ly :> 2) @@ (hoa :> 4)
MCHoSoLy == s1 :> [nam |-> 10, khoaVien |-> 1, khung |-> KhungLy]

\* What a theorem asks of the school holds of this one.
ASSUME KyTrongNamHoc
=============================================================================
