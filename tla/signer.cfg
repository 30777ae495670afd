SPECIFICATION Spec
CONSTANTS
  Platforms = {amd64, arm64}
  Layout = "docker list"
  SignerTypes = {"absent", "kms", "fulcio", "other"}
  KmsRefs = {"url"}
  Secrets = {"absent", "broken", "pull", "push"}
  Ambient = {"absent", "pull"}
  Anonymous = "none"
  MaxCalls = 2
  MaxFaults = 2
  MaxOthers = 1
  amd64 = amd64
  arm64 = arm64
INVARIANTS
  TypeOK
  RetriesAreNotDuplicated
  OnlyFaultsFail
  DeniedIsNotLogged
PROPERTIES
  LoggedBeforePublished
  SuccessIsPublished
CHECK_DEADLOCK FALSE
