SPECIFICATION Spec
CONSTANTS
  Khong = Khong
  s1 = s1
  s2 = s2
  s3 = s3
  toan = toan
  ly = ly
  hoa = hoa
  k1 = k1
  k2 = k2
  toanA = toanA
  toanB = toanB
  toanCu = toanCu
  toanCu2 = toanCu2
  lyA = lyA
  hoaA = hoaA
  SinhVien <- MCSinhVien
  Mon <- MCMon
  Ky <- MCKy
  Lop <- MCLopHet
  BuoiHoc <- MCBuoiHoc
  MonHoc <- MCMonHoc
  HocKy <- MCHocKy
  HoSo <- MCHoSo
  LopDau <- MCLopDau
  DangKyDau <- MCDangKyDau
  DiemDau <- MCDiemDau
  DotDau <- MCDotDau
  YeuCau = {r1}
  MaxMa = 5
  MaxGio = 2
  MoiSVMotYeuCau = TRUE
  DoiCungKy = FALSE
PROPERTIES DangKyTrongDot
CHECK_DEADLOCK FALSE
