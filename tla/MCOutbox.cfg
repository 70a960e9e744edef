SPECIFICATION QueueSpec
CONSTANTS
  Runs = {r1}
  Texts = {"plain"}
  Malformed = {}
  Photos = {}
  Skies = {TRUE}
  Subjects = {t1, t2}
  Syncs = {s1, s2}
  Helpers = {}
  CHUNK = 1
  MaxIds = 1
  Mentions <- MCMentions
  NULL = NULL
  
PROPERTY SyncsEnd
