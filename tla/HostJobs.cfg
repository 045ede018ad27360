SPECIFICATION FairSpec
CONSTANTS
  None = None
  K = 2
  Candidates = 2
  Writers = {refresh}
  Scorers = {score}
  Passages <- MCPassages
  Listings <- MCListings
  Asked <- MCAsked
  Options <- MCOptions
  Floors = {"hit_at_5", "citation_id_exact", "faithfulness"}
  MaxWords = 2
  MaxRuns = 2
INVARIANTS WorkAlone ServesWhatIsThere RoutedAsAsked ResultsStand
PROPERTIES ServiceReturns
