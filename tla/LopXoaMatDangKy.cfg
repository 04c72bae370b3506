SPECIFICATION SpecA
CONSTANTS
  Khong = Khong
  s1 = s1
  toan = toan
  k1 = k1
  lopA = lopA
  lopB = lopB
  lopC = lopC
  g1 = g1
  g2 = g2
  p1 = p1
  tenA = tenA
  tenB = tenB
  tenC = tenC
  SinhVien = {s1}
  Mon = {toan}
  Ky = {k1}
  Lop <- MCLop
  BuoiHoc <- MCBuoiHoc
  MonHoc <- MCMonHoc
  HocKy <- MCHocKy
  HoSo <- MCHoSo
  LopDau <- MCLopDau
  DangKyDau <- MCTrong
  DiemDau <- MCTrong
  DotDau <- MCDotDau
  YeuCau = {r1}
  MaxMa = 1
  MaxGio = 0
  MoiSVMotYeuCau = TRUE
  DoiCungKy = TRUE
  GiangVien = {g1, g2}
  TenLop = {tenA, tenB, tenC}
  QuanTri = {a1}
  YeuCauLop <- MCYeuCauLop
  TenDau <- MCTenDau
  PhanCongDau <- MCPhanCongDau
  CungLop = TRUE
  TaoXongMoiSua = TRUE
PROPERTIES XoaLopKhongMatDangKy
CHECK_DEADLOCK FALSE
