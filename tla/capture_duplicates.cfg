CONSTANTS
  Requests = {r1, r2}
  Urls = {u1}
  Untimed = {}
  Processes = {p1}
  NoRequest = NoRequest
  NoUrl = NoUrl
  NoProcess = NoProcess
SPECIFICATION Spec
INVARIANT OneCapturePerUrl
