SPECIFICATION Spec
CONSTANTS
  c1 = c1
  c2 = c2
  srv = srv
  Clients <- MCClients
  Server = srv
  Proxied <- MCProxied
  Credentials <- MCCredentials
  AuthData <- MCAuthData
  CookieMeaning <- MCCookieMeaning
  AcceptCookies <- MCAcceptCookies
  LineOctets <- MCLineOctets
INVARIANTS
  CookiesOwn
  CookiesReturned
  CredentialsJudged
  FieldsArrive
