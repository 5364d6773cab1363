SPECIFICATION Spec
CONSTANTS
  nl = nl
  de = de
  acme = acme
  acmeLtd = acmeLtd
  slug = slug
  acmeNorm = acmeNorm
  url = url
  None = None
  Country <- CountryMC
  Supported <- SupportedMC
  RegisterRequired <- RequiredMC
  Name <- NameMC
  Norm <- NormMC
  Trusted <- TrustedMC
  Posting <- PostingMC
  BoardOf <- BoardOfMC
  ContentOf <- ContentOfMC
  Url <- UrlMC
  Central <- CentralMC
INVARIANTS TypeOK ClaimsBacked VerdictsCurrent DuplicatesResolved
