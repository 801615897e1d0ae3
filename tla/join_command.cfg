SPECIFICATION Spec
CONSTANTS
  old = old
  renewed = renewed
  new = new
  foreign = foreign
  k1 = k1
  k2 = k2
  k3 = k3
  PublicKeys = {k1, k2, k3}
  Certificates = {old, renewed, new, foreign}
  KeyOf <- KeyOfCertificate
  ClusterNames = {unnamed, kubernetes, other}
  Unnamed = unnamed
  UserNames = {admin}
  Servers = {own, theirs}
  Bundles <- TwoCertificates
  NoCluster = NoCluster
  NoContext = NoContext
  Own = own
  Other = theirs
  OwnCertificates = {old, renewed, new}
  OtherBundle <- Foreign
  OtherName = other
  MaxBundle = 2
INVARIANTS
  TypeOK
  EndpointAndPinMatch
  EndpointIsDefault
  FreshCommandJoins
  NeverPanics
