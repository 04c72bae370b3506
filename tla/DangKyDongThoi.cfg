SPECIFICATION Spec
CONSTANTS
  Khong = Khong
  s1 = s1
  s2 = s2
  s3 = s3
  toan = toan
  ly = ly
  hoa = hoa
  k1 = k1
  k2 = k2
  toanA = toanA
  toanB = toanB
  toanCu = toanCu
  toanCu2 = toanCu2
  lyA = lyA
  hoaA = hoaA
  SinhVien <- MCBaSinhVien
  Mon <- MCMon
  Ky <- MCKy
  Lop <- MCHaiLop
  BuoiHoc <- MCBuoiHoc
  MonHoc <- MCMonHoc
  HocKy <- MCHocKy
  HoSo <- MCHoSo
  LopDau <- MCLopDau
  DangKyDau <- MCTrong
  DiemDau <- MCTrong
  DotDau <- MCDotDau
  YeuCau = {r1, r2}
  MaxMa = 4
  MaxGio = 2
  MoiSVMotYeuCau = FALSE
  DoiCungKy = TRUE
INVARIANTS KhongDangKyTrung VuotSiSoCoHan
PROPERTIES DangKyTrongDot
CHECK_DEADLOCK FALSE
SYMMETRY MCDoiXung
