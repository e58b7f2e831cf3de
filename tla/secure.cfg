SPECIFICATION FairSpec
CONSTANTS
  NumCalls = 2
  Users = {ali, sue}
  AuthData = {ali}
  NoUser = NoUser
  AppCloses = TRUE
CHECK_DEADLOCK FALSE
INVARIANTS
  SSLWithSocket
  OpenHasSSL
  ExecutedAuthorised
  OthersCredentials
PROPERTIES
  CallsEnd
  HandlerFreed
