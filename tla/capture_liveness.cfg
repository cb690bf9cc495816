CONSTANTS
  Requests = {r1, r2}
  Urls = {u1, u2}
  Untimed = {u2}
  Processes = {p1}
  NoRequest = NoRequest
  NoUrl = NoUrl
  NoProcess = NoProcess
SPECIFICATION FairSpec
PROPERTIES RequestsAnswered EmbeddingsRecallable
