SPECIFICATION FairSpec
CONSTANTS
  talk = talk
  Downloads = {1, 2}
  Titles = {talk}
  Title <- MCTitle
  Size <- MCSize
  MaxFolder = 1
  MaxMishaps = 1
  BreakerMin = 2
  Overlap = {"remove"}
INVARIANTS RowsHaveTheirFile OneCopyInLibrary
PROPERTIES ImplementsLibraryContract LiveRecordsSurvive PromotionsFinish OrphansReclaimed
