SPECIFICATION Spec
CONSTANTS
  Number <- MCNumber
  Hour <- MCHour
  Minute <- MCMinute
  NormalPath <- MCNormalPath
  ShortName <- MCShortName
  Exploit <- MCExploit
  S3MaxKeys = 2
  S3MaxAccessChanges = 1
  NormTLS <- MCNormTLS
  ReadOnlyName = {"DescribeVpcs"}
  ServiceOf <- MCServiceOf
  Workers = 2
  MaxEvents = 2
  Objects <- MCObjects
  Options <- MCOptions
  BlockThreshold = 2
  DeniedThreshold = 2
  DeleteThreshold = 1
  EgressBytes = 6
  MaxFindings = 1
  MaxErrs = 1
  TextRank <- MCTextRank
  IsPublic = {"p1", "p2"}
  IsPrivate = {"h1", "h2", "h3"}
  Unmapped <- MCUnmapped
  VPCSensitivePorts = {22}
  VPCLegacyPorts = {23}
  MaxKeys = 2
  MaxSources = 2
  ScanPorts = 2
  SweepHosts = 2
  ExposedSourceCap = 1
  HiveDirs = {"hive"}
INVARIANTS LinesAccounted ResultIsWhole FindingsExact
