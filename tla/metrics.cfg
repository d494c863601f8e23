\* Three answers, scrapes among them, over three slots: a scrape may overlap
\* two recordings, and a second scrape follow the first.
CONSTANTS
  Requests = {r1, r2, r3}
  Families = {"info", "image", "other"}
  Outcomes <- MCOutcomes
  ScrapeTakes = 1
  Bounds <- MCBounds
  Unit = 2
  MaxAnswers = 3
SYMMETRY SlotSymmetry
SPECIFICATION Spec
INVARIANTS
  TypeOK
  EachAnswerCountedOnce
  ScrapesBalance
PROPERTIES
  ScrapesNeverGoBack
CHECK_DEADLOCK FALSE
