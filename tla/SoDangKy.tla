------------------------------ MODULE SoDangKy ------------------------------
(***************************************************************************)
(* What registration promises a student, as one atomic book: who is in     *)
(* which class.  Entering a class, leaving it and changing it for another  *)
(* of the same subject each happen at once, and never leave a student with *)
(* two classes of a subject in a term or with two that clash.  Vuot is how *)
(* far beyond its size a class may be filled.                              *)
(***************************************************************************)
EXTENDS QuyTac

Tap == INSTANCE FiniteSets      \* by name, for proofs about an instance of this module

CONSTANTS SinhVien, Lop, LopHoc, SoDau, Vuot

VARIABLE so           \* the pairs <<student, class>>

CuaSV(sv, S) == {l \in Lop : <<sv, l>> \in S}

SoNguoi(l, S) == Tap!Cardinality({sv \in SinhVien : <<sv, l>> \in S})

\* Class l suits student sv, were S all that is in the book.
HopVoi(sv, l, S) ==
  /\ \A k \in CuaSV(sv, S) : LopHoc[k].ky = LopHoc[l].ky =>
       LopHoc[k].mon # LopHoc[l].mon /\ ~TrungNhau(LopHoc[l].lich, LopHoc[k].lich)
  /\ SoNguoi(l, S) < LopHoc[l].siSo + Vuot

Vao(sv, l) ==
  /\ LopHoc[l] # Khong /\ <<sv, l>> \notin so /\ HopVoi(sv, l, so)
  /\ so' = so \cup {<<sv, l>>}

Ra(sv, l) == <<sv, l>> \in so /\ so' = so \ {<<sv, l>>}

Doi(sv, k, l) ==
  LET con == so \ {<<sv, k>>}
  IN  /\ <<sv, k>> \in so /\ LopHoc[l] # Khong /\ <<sv, l>> \notin so
      /\ LopHoc[k].mon = LopHoc[l].mon /\ HopVoi(sv, l, con)
      /\ so' = con \cup {<<sv, l>>}

Init == so = SoDau
Next == \E sv \in SinhVien, l \in Lop : Vao(sv, l) \/ Ra(sv, l) \/ \E k \in Lop : Doi(sv, k, l)
Spec == Init /\ [][Next]_so
=============================================================================
