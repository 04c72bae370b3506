----------------------------- MODULE ChuongTrinh -----------------------------
(***************************************************************************)
(* What the curriculum screen and the schedule assistant offer a student   *)
(* (GoiYLichService.BuildChuongTrinhAsync) beside what DangKy then accepts. *)
(* Both read the same tables and both call DangKyRules; they are written   *)
(* twice, and the term is loaded WITH its school year here.                *)
(***************************************************************************)
EXTENDS DiemHocPhan

\* Every term begins in or after the first calendar year of its school year, and
\* students' files hold years and semesters.
KyTrongNamHoc ==
  /\ \A ky \in Ky : /\ HocKy[ky].namHoc \in Int /\ HocKy[ky].nam \in Int
                    /\ HocKy[ky].namHoc <= HocKy[ky].nam
  /\ \A sv \in SinhVien : /\ HoSo[sv].nam \in Int
                          /\ \A mon \in Mon : HoSo[sv].khung[mon] \in Int \cup {Khong}

CoLop(mon, ky) == \E l \in Lop : lopHoc[l] # Khong /\ lopHoc[l].mon = mon /\ lopHoc[l].ky = ky

TrangThai(sv, mon, ky) ==
  LET z == ZTotNhat(diem, sv)[mon]
  IN  IF ~ChuaCoMon(sv, ky, mon) THEN "DangHoc"
      ELSE IF z = Khong THEN "ChuaHoc" ELSE IF z >= DiemDat THEN "DaDat" ELSE "KhongDat"

\* A compulsory subject of a later semester, unless it is passed or being taken:
\* a failed one is held back too.
ChuaToiKy(sv, mon, ky) ==
  LET ky1 == HoSo[sv].khung[mon]
  IN  /\ MonHoc[mon].batBuoc
      /\ ky1 > TinhKyDat(HocKy[ky], HoSo[sv].nam, TRUE)
      /\ TrangThai(sv, mon, ky) \notin {"DaDat", "DangHoc"}

DuTienQuyet(sv, mon) ==
  LET z == ZTotNhat(diem, sv)
      tq == MonHoc[mon].tienQuyet
  IN  tq # Khong => z[tq] # Khong /\ z[tq] >= DiemDat

CoTheDangKyQuenTienQuyet(sv, mon, ky) ==
  LET z == ZTotNhat(diem, sv)[mon]
  IN  /\ HoSo[sv].khung[mon] # Khong
      /\ ChuaCoMon(sv, ky, mon) /\ CoLop(mon, ky)
      /\ z # Khong => z < DiemHetCaiThien
      /\ ~ChuaToiKy(sv, mon, ky)

\* CoTheDangKy of a subject of the student's curriculum.
CoTheDangKy(sv, mon, ky) ==
  LET z == ZTotNhat(diem, sv)[mon]
  IN  /\ HoSo[sv].khung[mon] # Khong
      /\ ChuaCoMon(sv, ky, mon) /\ CoLop(mon, ky)
      /\ z # Khong => z < DiemHetCaiThien
      /\ DuTienQuyet(sv, mon)
      /\ ~ChuaToiKy(sv, mon, ky)

-----------------------------------------------------------------------------
(* Properties *)

\* A subject the curriculum offers passes the subject rules of DangKy, at any
\* moment of registrations, cancellations and mark entries.
MonMoiDangKyDuoc ==
  \A sv \in SinhVien, mon \in Mon, ky \in Ky :
    CoTheDangKy(sv, mon, ky) => ChuaCoMon(sv, ky, mon) /\ DuDieuKien(sv, mon, ky)

\* And the other way round, for the subjects of the curriculum: one source of
\* truth for both (DangKyRules).
MotNguonSuThat ==
  \A sv \in SinhVien, mon \in Mon, ky \in Ky :
    /\ HoSo[sv].khung[mon] # Khong /\ CoLop(mon, ky)
    /\ ChuaCoMon(sv, ky, mon) /\ DuDieuKien(sv, mon, ky)
    => CoTheDangKy(sv, mon, ky)
=============================================================================
