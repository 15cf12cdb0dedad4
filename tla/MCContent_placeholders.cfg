CONSTANTS
  Notifications = {"n1"}
  Handlers = {h1, h2}
  Templates = {"welcome"}
  NoName = ""
  Texts <- MCTexts
  Requests <- MCRequests
SPECIFICATION Spec
INVARIANTS Personalized
