------------------------------- MODULE XepLich -------------------------------
(***************************************************************************)
(* The timetable search of the schedule assistant (GoiYLichService.        *)
(* GiaiXepLich and TimNhieuLichHoc): depth-first over the subjects in a    *)
(* fixed order, classes of a subject by descending score, with a limit on  *)
(* the subjects looked at in one search; then one more search per subject  *)
(* with a choice of classes, without those used so far.                    *)
(*                                                                         *)
(* A problem is [thuTu, lop, coDinh, gioiHan]: the subjects in order, the  *)
(* classes of each with room left [ma, lich, diem], the classes already    *)
(* taken, by subject, and the limit in force.  A step is a call, one turn  *)
(* of the loop over classes, or a return; the locals of the call at every  *)
(* subject are the entries of conThu, best and dangThu.                    *)
(***************************************************************************)
EXTENDS QuyTac, Sequences

CONSTANT Bai              \* the problems

SoLuongToiDa == 5         \* SoLuongGoiYToiDa
GioiHanNutXepLich == 200000

MonCua(b) == {b.thuTu[i] : i \in DOMAIN b.thuTu}

\* The subjects are distinct and none is registered already.
ASSUME BaiHopLe ==
  \A b \in Bai :
    /\ b.thuTu \in Seq(MonCua(b)) /\ IsInjective(b.thuTu)
    /\ DOMAIN b.lop = MonCua(b) /\ \A m \in MonCua(b) : Khong \notin b.lop[m]
    /\ DOMAIN b.coDinh \cap MonCua(b) = {}
    /\ b.gioiHan \in Nat

VARIABLES
  bai,       \* the problem
  ketQuas,   \* timetables found
  monCon,    \* subjects still to vary
  lopCon,    \* subject -> classes, in this search
  nut,       \* _soNutDaXet
  chon,      \* daChon: subject -> class
  muc,       \* index of the call in progress
  conThu,    \* index -> classes not tried yet
  best,      \* index -> best result so far, none or one
  dangThu,   \* index -> class being tried, Khong when the subject is left out
  kq,        \* the result a call returns
  buocXep    \* "goi", "lap", "ve", "tiep", "xong"

varsTim == <<bai, ketQuas, monCon, lopCon>>
varsXep == <<varsTim, nut, chon, muc, conThu, best, dangThu, kq, buocXep>>

-----------------------------------------------------------------------------
(* GiaiXepLich *)

MonXet == bai.thuTu[muc]

\* chon: subject -> class; khong: subjects left out, in order; diem: total score.
KetQua(c, khong, diem) == [chon |-> c, khong |-> khong, diem |-> diem]
ThemKhong(r, m) == [r EXCEPT !.khong = <<m>> \o @]

\* Prefer fewer subjects left out, then the higher score; the first of equals.
TotHonTheoDiem(r, cu) == \A b \in cu : r.diem > b.diem
TotHon(r, cu) ==
  \A b \in cu :
    \/ Len(r.khong) < Len(b.khong)
    \/ Len(r.khong) = Len(b.khong) /\ r.diem > b.diem

TrungLichDauTien(l, c) == \E m \in DOMAIN c : l.lich \cap c[m].lich # {}
TrungLich(l, c) == \E m \in DOMAIN c : TrungNhau(l.lich, c[m].lich)

Them(c, m, l) == [n \in DOMAIN c \cup {m} |-> IF n = m THEN l ELSE c[n]]

\* After the last subject; over the limit; or a subject to look at.
GoiHet ==
  /\ buocXep = "goi" /\ muc > Len(bai.thuTu)
  /\ kq' = KetQua(chon, <<>>, 0) /\ buocXep' = "ve"
  /\ UNCHANGED <<varsTim, nut, chon, muc, conThu, best, dangThu>>

GoiCat ==
  /\ buocXep = "goi" /\ muc <= Len(bai.thuTu) /\ nut > bai.gioiHan
  /\ kq' = KetQua(chon, SubSeq(bai.thuTu, muc, Len(bai.thuTu)), 0) /\ buocXep' = "ve"
  /\ UNCHANGED <<varsTim, nut, chon, muc, conThu, best, dangThu>>

GoiMon ==
  /\ buocXep = "goi" /\ muc <= Len(bai.thuTu) /\ nut <= bai.gioiHan
  /\ nut' = nut + 1
  /\ conThu' = [conThu EXCEPT ![muc] = lopCon[MonXet]]
  /\ best' = [best EXCEPT ![muc] = {}]
  /\ buocXep' = "lap"
  /\ UNCHANGED <<varsTim, chon, muc, dangThu, kq>>

DungLap ==
  \/ conThu[muc] = {}
  \/ nut > bai.gioiHan
  \/ \E r \in best[muc] : r.khong = <<>>

\* The next class by score; the order of equals is that of a query without one.
LopKe(l) ==
  /\ buocXep = "lap" /\ ~DungLap
  /\ \A k \in conThu[muc] : k.diem <= l.diem
  /\ conThu' = [conThu EXCEPT ![muc] = @ \ {l}]

LapTrung(l) ==
  /\ LopKe(l) /\ TrungLich(l, chon)
  /\ UNCHANGED <<varsTim, nut, chon, muc, best, dangThu, kq, buocXep>>

LapThu(l) ==
  /\ LopKe(l) /\ ~TrungLich(l, chon)
  /\ chon' = Them(chon, MonXet, l) /\ dangThu' = [dangThu EXCEPT ![muc] = l]
  /\ muc' = muc + 1 /\ buocXep' = "goi"
  /\ UNCHANGED <<varsTim, nut, best, kq>>

\* The best of the classes tried, or the subject is left out: no class has room
\* or none fits.
LapXong ==
  /\ buocXep = "lap" /\ DungLap
  /\ \/ /\ kq' \in best[muc] /\ buocXep' = "ve"
        /\ UNCHANGED <<muc, dangThu>>
     \/ /\ best[muc] = {} /\ dangThu' = [dangThu EXCEPT ![muc] = Khong]
        /\ muc' = muc + 1 /\ buocXep' = "goi" /\ UNCHANGED kq
  /\ UNCHANGED <<varsTim, nut, chon, conThu, best>>

\* A call comes back to the one before it, with its class or without one.
VeThu ==
  LET i == muc - 1  m == bai.thuTu[i]  sub == [kq EXCEPT !.diem = @ + dangThu[i].diem]
  IN  /\ buocXep = "ve" /\ muc > 1 /\ dangThu[i] # Khong
      /\ chon' = [n \in DOMAIN chon \ {m} |-> chon[n]]
      /\ best' = [best EXCEPT ![i] = IF TotHon(sub, @) THEN {sub} ELSE @]
      /\ muc' = i /\ buocXep' = "lap"
      /\ UNCHANGED <<varsTim, nut, conThu, dangThu, kq>>

VeBoQua ==
  LET i == muc - 1
  IN  /\ buocXep = "ve" /\ muc > 1 /\ dangThu[i] = Khong
      /\ kq' = ThemKhong(kq, bai.thuTu[i]) /\ muc' = i
      /\ UNCHANGED <<varsTim, nut, chon, conThu, best, dangThu, buocXep>>

-----------------------------------------------------------------------------
(* TimNhieuLichHoc *)

InitXep ==
  /\ bai \in Bai
  /\ ketQuas = <<>>
  /\ monCon = SelectSeq(bai.thuTu, LAMBDA m : Cardinality(bai.lop[m]) > 1)
  /\ lopCon = bai.lop /\ nut = 0 /\ chon = bai.coDinh /\ muc = 1
  /\ conThu = [i \in DOMAIN bai.thuTu |-> {}]
  /\ best = [i \in DOMAIN bai.thuTu |-> {}]
  /\ dangThu = [i \in DOMAIN bai.thuTu |-> Khong]
  /\ kq = Khong /\ buocXep = "goi"

ToHop(r) == [m \in DOMAIN r.chon |-> r.chon[m].ma]

\* ThuVaThem, once its search is back.
ThemKetQua ==
  /\ buocXep = "ve" /\ muc = 1
  /\ ketQuas' = IF \E k \in DOMAIN ketQuas : ToHop(ketQuas[k]) = ToHop(kq)
                THEN ketQuas ELSE Append(ketQuas, kq)
  /\ buocXep' = "tiep"
  /\ UNCHANGED <<bai, monCon, lopCon, nut, chon, muc, conThu, best, dangThu, kq>>

HetTim == Len(ketQuas) >= SoLuongToiDa \/ monCon = <<>>
DaDung(m) == {ketQuas[k].chon[m].ma : k \in {j \in DOMAIN ketQuas : m \in DOMAIN ketQuas[j].chon}}

TimTiep ==
  LET m == Head(monCon)
  IN  /\ buocXep = "tiep" /\ ~HetTim
      /\ monCon' = Tail(monCon)
      /\ \/ DaDung(m) = {} /\ UNCHANGED <<lopCon, nut, chon, buocXep>>
         \/ /\ DaDung(m) # {}
            /\ lopCon' = [bai.lop EXCEPT ![m] = {l \in @ : l.ma \notin DaDung(m)}]
            /\ nut' = 0 /\ chon' = bai.coDinh /\ buocXep' = "goi"
      /\ UNCHANGED <<bai, ketQuas, muc, conThu, best, dangThu, kq>>

TimXong ==
  /\ buocXep = "tiep" /\ HetTim /\ buocXep' = "xong"
  /\ UNCHANGED <<varsTim, nut, chon, muc, conThu, best, dangThu, kq>>

NextXep ==
  \/ GoiHet \/ GoiCat \/ GoiMon \/ LapXong \/ VeThu \/ VeBoQua
  \/ buocXep = "lap" /\ \E l \in conThu[muc] : LapTrung(l) \/ LapThu(l)
  \/ ThemKetQua \/ TimTiep \/ TimXong

SpecXep == InitXep /\ [][NextXep]_varsXep

-----------------------------------------------------------------------------
(* Properties *)

MonTu(b, i) == {b.thuTu[j] : j \in i..Len(b.thuTu)}

\* c takes classes on offer, keeps every registered class, and has no clash but
\* those the student registered.
ChonHopLe(b, lop, c) ==
  /\ DOMAIN b.coDinh \subseteq DOMAIN c
  /\ DOMAIN c \subseteq DOMAIN b.coDinh \cup MonCua(b)
  /\ \A m \in DOMAIN b.coDinh : c[m] = b.coDinh[m]
  /\ \A m \in DOMAIN c \cap MonCua(b) : c[m] \in lop[m]
  /\ \A m, n \in DOMAIN c :
       m # n /\ TrungNhau(c[m].lich, c[n].lich) => {m, n} \subseteq DOMAIN b.coDinh

\* r leaves out, once each, the subjects from the i-th on that it does not take.
KeDu(b, r, i) ==
  IsInjective(r.khong) /\ {r.khong[k] : k \in DOMAIN r.khong} = MonTu(b, i) \ DOMAIN r.chon

\* A timetable on offer has no clash but those the student registered, keeps
\* every registered class, takes classes with room and accounts for every subject
\* exactly once; this is so even when the search was cut short.
LichHopLeHet ==
  \A k \in DOMAIN ketQuas : ChonHopLe(bai, bai.lop, ketQuas[k].chon) /\ KeDu(bai, ketQuas[k], 1)

\* f is a timetable of all subjects around the registered classes.
XepDu(b, lop, f) ==
  /\ \A m \in MonCua(b) : f[m] \in lop[m] /\ ~TrungLich(f[m], b.coDinh)
  /\ \A m, n \in MonCua(b) : m # n => ~TrungNhau(f[m].lich, f[n].lich)

CachXep(b, lop) == [MonCua(b) -> UNION {lop[m] : m \in MonCua(b)}]

\* When the classes of a search let all subjects fit and the limit was not
\* passed, the search has them all, though it prefers some and stops early.
XepDuKhiCoThe ==
  (buocXep = "ve" /\ muc = 1 /\ nut <= bai.gioiHan /\ kq.khong # <<>>)
    => \A f \in CachXep(bai, lopCon) : ~XepDu(bai, lopCon, f)
=============================================================================
