SPECIFICATION SpecMC
CONSTANTS
  Khong = Khong
  toan = toan
  ly = ly
  hoa = hoa
  van = van
  k1 = k1
  k2 = k2
  cntt = cntt
  d1 = d1
  d2 = d2
  Buoi <- MCBuoi
  BangDiem <- MCBangDiem
  TinChi <- MCTinChi
  HocKyThu <- MCHocKyThu
  NamNhap = {9, 10, 12}
  Bai <- MCBai
  Dot = {d1, d2}
  QuanTriDot = {a1, a2}
  Form <- MCForm
  KyCo = {k1}
  KhoaVienCo = {cntt}
  DotBanDau <- MCDotDau
  MoiDotMotNguoi = TRUE
INVARIANTS TrungLichDung CaiThienKhongThiet  LichHopLeHet XepDuKhiCoThe DotHopLe
PROPERTIES XoaLaHet
CHECK_DEADLOCK FALSE
