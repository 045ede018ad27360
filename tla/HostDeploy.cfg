\* A deployment that ends while an evaluation works.
SPECIFICATION FairSpec
CONSTANTS
  None = None
  K = 2
  Candidates = 2
  Writers = {refresh}
  Scorers = {score}
  Passages <- MCPassages
  Listings <- MCListings
  Asked <- MCAsked
  Options <- MCOptions
  Floors = {"hit_at_5", "citation_id_exact", "faithfulness"}
  MaxWords = 2
  MaxRuns = 2
INVARIANT DownForTheRun
