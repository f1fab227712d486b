SPECIFICATION Spec
CONSTANTS
  Staff = {a, b}
  Nothing = Nothing
  x = x
  y = y
  l1 = l1
  l2 = l2
  l3 = l3
  t1 = t1
  s1 = s1
  s2 = s2
  s3 = s3
  k1 = k1
  k2 = k2
  f1 = f1
  f2 = f2
  r1 = r1
  r2 = r2
  r3 = r3
  PriceLists = {l1, l2, l3}
  ItemNames = {x, y}
  ItemPrices = {1}
  ListTitles = {t1, t2}
  SectionNotes = {n1, n2}
  FirstSectionNotes = n1
  FirstItems <- MCItems
  FirstListTitles <- MCListTitles
  MaxPriceAsks = 3
  MaxPriceFaults = 1
  Seasons = {s1, s2, s3}
  SeasonLabels = {x, y}
  CurrentSeason = s1
  FirstLabels <- MCLabels
  Writers = {w1}
  MaxSeasonEdits = 3
  MenuKeys = {k1, k2, k3}
  CardTexts = {x}
  FirstCards <- MCCards
  MaxCardUpdates = 3
  PageFields = {f1, f2}
  FieldValues = {x, y}
  FirstValue = x
  MaxTyped = 3
  MaxPageFaults = 1
  Questions <- MCQuestions
  LockedQuestions = {"email"}
  HidableQuestions = {"note"}
  QuestionTypes = {"text", "select"}
  QuestionTexts = {Default, x}
  DefaultText = Default
  CustomKeys <- MCCustomKeys
  FreshKey = "new"
  FirstOverlay <- MCOverlay
  MaxFormEdits = 2
  MaxFormFaults = 1
  OrderedRows = {r1, r2, r3}
  RowNames = {x, y}
  FirstList <- MCList
  MaxOrderAsks = 2
  MaxOrderFaults = 1
  Addresses = {k1, k2}
  SubmitLimit = 2
  SubmitWindow = 2
  MaxTime = 5
  MonthDays <- MCMonthDays
  FirstWeekday = 4
  CalendarRules <- MCCalendarRules
  CalendarWindows <- MCWindows
  SummerTime <- MCSummerTime
  FirstCalendar <- MCCalendar
  SheetForms <- MCSheetForms
  PassIntervals = {0, 1, 2}
  DefaultInterval = 2
  Hour = 3
  Tolerance = 1
  Lateness = {0, 1}
  FirstLinks <- MCLinks
  MaxHours = 3
  MaxLinkSaves = 2
  MaxPassFaults = 1
  TabArrivals <- MCRegistrations
  TabRowLimit = 2
  FirstTabDocs = 1
  TabWorkers = {"queue", "cron"}
  MaxTabEdits = 2
  MaxTabToggles = 1
  MaxTabFaults = 1
  AllRegistrations <- MCRegistrations
  Answers <- MCAnswers
  FirstRegistrations = {r2, r3}
  TableSeasons = {s1, s2}
  Statuses = {x, y}
  Relationships = {"alta", "parinte"}
  OtherRelationship = "alta"
  PageSizes = {1, 2}
  FirstPageSize = 2
  MaxTableAsks = 2
  MaxTableFaults = 1
INVARIANTS
  TypeOK
  SeasonsAgree
  PassesBounded
  OccurrencesRight
PROPERTIES
  PricesKept
  PagesKept
  FormKept
  
  TableKept
  PassesPunctual
  TabKept
SYMMETRY StaffSymmetry
CHECK_DEADLOCK FALSE
