SPECIFICATION Spec
CONSTANTS
  awq = awq
  awqRespelled = awqRespelled
  fp8 = fp8
  nvfp4 = nvfp4
  dense = dense
  mlx = mlx
  unrelated = unrelated
  MiB = 4
  MiBPerGiB = 2
  Half = 1048576
  DefaultContext = 4
  Variant = {awq, awqRespelled, fp8, dense, mlx, unrelated}
  About <- Catalogue
  Base = "base"
  Queries = 2
  Limit = 2
  MaxFetches = 2
  MaxSuggestions = 2
  MaxDownloads = 1
  Gpu <- Ampere
  Tokens = 4
CHECK_DEADLOCK FALSE
INVARIANTS
  MostDownloadedFirst
  SuggestionsHelp
