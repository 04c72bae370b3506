------------------------------- MODULE CacDot -------------------------------
(***************************************************************************)
(* The rounds of DotDangKy under names of their own, to stand beside other *)
(* components: their tables, the administrators at work on them, and what  *)
(* is claimed of them.                                                     *)
(***************************************************************************)
EXTENDS QuyTac

CONSTANTS Dot, QuanTriDot, Form, KyCo, KhoaVienCo, DotBanDau, MoiDotMotNguoi

VARIABLES dot, dotChuaCap, buocDot, viecDot
varsDot == <<dot, dotChuaCap, buocDot, viecDot>>

R == INSTANCE DotDangKy WITH QuanTri <- QuanTriDot, DotDau <- DotBanDau,
                             chuaCap <- dotChuaCap, buoc <- buocDot, viec <- viecDot

\* Forms and the rows at the start have the columns of the table, and the rows
\* have been validated.
ASSUME HangDau == R!HangSoDot

SpecDot == R!Spec

-----------------------------------------------------------------------------
(* Properties *)

\* What is stored is what Validate accepts, though two edits of different rounds,
\* deletions and creations overlap.
DotHopLe == R!DotHopLe

\* What is deleted stays so.
XoaLaHet == R!XoaLaHet
=============================================================================
