SPECIFICATION SpecD
CONSTANTS
  Khong = Khong
  s1 = s1
  s2 = s2
  s3 = s3
  toan = toan
  ly = ly
  hoa = hoa
  k1 = k1
  k2 = k2
  toanA = toanA
  toanB = toanB
  toanCu = toanCu
  toanCu2 = toanCu2
  lyA = lyA
  hoaA = hoaA
  SinhVien = {s1}
  Mon <- MCMon
  Ky <- MCKy
  Lop <- MCLop
  BuoiHoc <- MCBuoiHoc
  MonHoc <- MCMonHoc
  HocKy <- MCHocKy
  HoSo <- MCHoSoLy
  LopDau <- MCLopDau
  DangKyDau <- MCDangKyDauMot
  DiemDau <- MCTrong
  DotDau <- MCDotMo
  YeuCau = {r1}
  MaxMa = 3
  MaxGio = 0
  MoiSVMotYeuCau = TRUE
  DoiCungKy = TRUE
  g1 = g1
  GiangVien = {g1}
  NhapDiemSlot = {d1}
  DiemXY <- MCDiemXY
  PhanCong <- MCPhanCong
  MoiSVMotNguoi = TRUE
INVARIANTS  KhongMoCoi KhongThieuTinChi MonMoiDangKyDuoc
CHECK_DEADLOCK FALSE
