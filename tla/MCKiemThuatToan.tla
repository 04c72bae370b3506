--------------------------- MODULE MCKiemThuatToan ---------------------------
(* Two parts of B1 that share neither tables nor rules, one or the other in  *)
(* every behaviour.  Algorithms: meetings on two weekdays over a fortnight,  *)
(* marks at every threshold of the scale, the terms of three school years    *)
(* and timetable problems.  Rounds: two ids, one taken, and forms that are   *)
(* fine one by one but not column by column: a late window, an early one, a  *)
(* cohort and a faculty.                                                     *)
EXTENDS XepLich, KiemQuyTac, CacDot, TLC

CONSTANTS toan, ly, hoa, van, k1, k2, cntt, d1, d2

MCBuoi == {[thu |-> t, tu |-> p[1], den |-> p[2], bd |-> d[1], kt |-> d[2], phong |-> Khong] :
             t \in {2, 8}, p \in {<<1, 3>>, <<3, 3>>, <<4, 5>>},
             d \in {<<0, 6>>, <<6, 7>>, <<7, 14>>, <<1, 5>>, <<0, 13>>}}

Moc == {Khong, 0, 399, 400, 499, 500, 550, 649, 650, 700, 799, 800, 850, 1000}
MCBangDiem == {(toan :> z) @@ (ly :> w) : z \in Moc, w \in {Khong, 399, 400, 650, 1000}}
MCTinChi == (toan :> 3) @@ (ly :> 2)

\* [first year of the school year, year the term starts in, summer?, second?]
K(namHoc, nam, phu, hai) == [namHoc |-> namHoc, nam |-> nam, phu |-> phu, hai |-> hai]
MCHocKyThu == UNION {{K(n, n, FALSE, FALSE), K(n, n + 1, FALSE, TRUE), K(n, n + 1, TRUE, FALSE)} :
                       n \in {9, 10, 11}}

\* Three subjects with none, one or two classes each, meeting in overlapping
\* places of the week, around no or one registered class, cut short or not.
B(thu, tu, den) == [thu |-> thu, tu |-> tu, den |-> den, bd |-> 1, kt |-> 9, phong |-> Khong]
ChoNgoi == <<B(2, 1, 2), B(2, 3, 4), B(3, 1, 2), B(2, 2, 3)>>

L(ma, c, diem) == [ma |-> ma, lich |-> {ChoNgoi[c]}, diem |-> diem]
CacLop == {{}} \cup {{L(1, c, 0)} : c \in {1, 3, 4}}
          \cup {{L(1, c, 0), L(2, d, e)} : c \in {1, 2}, d \in {2, 3, 4}, e \in {0, 3}}

CoDinh == {<<>>, van :> L(9, 3, 0)}

\* Six with two classes each, all on days of their own: more variants than are
\* offered.
BaiNhieuMon ==
  [thuTu |-> <<1, 2, 3, 4, 5, 6>>, coDinh |-> <<>>, gioiHan |-> GioiHanNutXepLich,
   lop |-> [m \in 1..6 |-> {[ma |-> x, lich |-> {B(m + 1, x, x)}, diem |-> x] : x \in 1..2}]]

MCBai == {BaiNhieuMon} \cup
  {[thuTu |-> <<toan, ly, hoa>>,
    lop |-> (toan :> u) @@ (ly :> v) @@ (hoa :> w), coDinh |-> d, gioiHan |-> g] :
     u \in CacLop, v \in CacLop, w \in {{}} \cup {{L(1, x, 0)} : x \in 1..4}, d \in CoDinh,
     g \in {3, GioiHanNutXepLich}}

F(ky, tu, den, nam, kv) ==
  [ky |-> ky, tu |-> tu, den |-> den, nam |-> nam, khoaVien |-> kv,
   choDangKy |-> TRUE, choRut |-> FALSE]

MCForm == {F(k1, 1, 2, Khong, Khong), F(k1, 1, 6, 10, Khong), F(k1, 5, 6, Khong, cntt),
           F(k1, 3, 3, Khong, Khong), F(k2, 1, 2, 10, cntt), F(k1, 1, 2, Khong, k1)}
MCDotDau == (d1 :> F(k1, 1, 6, Khong, Khong)) @@ (d2 :> Khong)

BaiDau == CHOOSE b \in MCBai : TRUE

\* One of the three at work; the others as they start.
InitMC ==
  /\ \/ InitK /\ bai = BaiDau
     \/ loai = "dot" /\ vao = Khong /\ ra = Khong /\ bai = BaiDau
     \/ loai = "xep" /\ vao = Khong /\ ra = Khong
  /\ R!Init /\ InitXep

NextMC ==
  \/ NextK /\ UNCHANGED <<varsXep, varsDot>>
  \/ loai = "xep" /\ NextXep /\ UNCHANGED <<varsK, varsDot>>
  \/ loai = "dot" /\ R!Next /\ UNCHANGED <<varsK, varsXep>>

SpecMC == InitMC /\ [][NextMC]_<<varsK, varsXep, varsDot>>
=============================================================================
