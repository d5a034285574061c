SPECIFICATION Spec
CONSTANTS
  Books <- MCBooks
  Width = 2
  Rows = 2
  PAGES = 4
  Stray <- MCStray
INVARIANTS TypeOK RowsAreText ScreenIsPage
PROPERTIES NextPageContinues
