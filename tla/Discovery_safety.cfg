SPECIFICATION Spec
CONSTANTS
  pep = pep
  curl = curl
  None = None
  Pep = pep
  Clients = {pep, curl}
  Requests <- MCRequests
  Deployments <- MCDeployments
  MaxStarts = 2
  ClientArgs <- MCClientArgs
  Shapes <- MCShapes
INVARIANTS TypeOK CleanExit AdvertisedWhereCalled SearchIsPinned
PROPERTIES AdvertisedIsImplemented  ProcessEnds FetchEnds
