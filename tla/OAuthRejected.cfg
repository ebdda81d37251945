CONSTANTS
  h1 = h1
  h2 = h2
  st1 = st1
  st2 = st2
  Handlers = {h1}
  States = {st1}
  Public = {}
  MaxTokens = 2
  MaxClients = 2
  Nobody = Nobody
SPECIFICATION Spec
PROPERTY RejectedRefreshIsRecorded
