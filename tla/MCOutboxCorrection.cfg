SPECIFICATION Spec
CONSTANTS
  Runs = {r1}
  Texts = {"plain", "other"}
  Malformed = {}
  Photos = {}
  Skies = {TRUE}
  Subjects = {t1}
  Syncs = {s1}
  Helpers = {}
  CHUNK = 1
  MaxIds = 1
  Mentions <- MCMentions
  NULL = NULL
INVARIANT CorrectionKept
