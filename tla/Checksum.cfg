SPECIFICATION Spec
CONSTANTS
  Hosts <- MCHosts
  IpLens <- MCIpLens
INVARIANTS HeaderAccepted
